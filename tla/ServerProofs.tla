---------------------------- MODULE ServerProofs ----------------------------
(*****************************************************************************)
(* Proofs about who is connected: the servers of kknet (NetServer), and the  *)
(* shards between a gate and a logic node (GateShards).                      *)
(*                                                                           *)
(* The servers, of every kind, with any connections and any number of kicks. *)
(* Of each connection: what its phase says about its socket, the table,      *)
(* its Close and what the handler was told (Conn).  Of the counter:          *)
(* stats.activeConns is the connections counted in and not out, less those   *)
(* a Close counted out before they were counted in (Counted).  Of Stop:      *)
(* what its steps have already waited for, unless its context expired        *)
(* (Stopped).                                                                *)
(*                                                                           *)
(* The shards, with any number of connections, clients, messages and         *)
(* restarts: the gate's table holds live connections of the right shard      *)
(* only, and counts them right; and the logic node processes each client's   *)
(* messages in the order the gate got them.                                  *)
(*                                                                           *)
(* The argument for the table: LogicServers are made in order and only the   *)
(* last one is ever found, so one that was removed stays out of sight        *)
(* whatever late readers and closers still do to it (MadeInOrder); OnClose   *)
(* runs after the reader (Stages); so a connection found in the table is     *)
(* being served, or its OnClose holds that very LogicServer (SlotsSound).    *)
(*                                                                           *)
(* The argument for the order: of the connections of one shard at most one   *)
(* still delivers (OneServes), because the client dials the next when the    *)
(* last is drained; a forwarder only uses connections of its client's shard  *)
(* (Aimed, from SlotsSound); so the messages of a client that wait all wait  *)
(* in one queue, where they were appended in the order of their numbers,     *)
(* each above the last one processed (Ascending).                            *)
(*****************************************************************************)
EXTENDS NetServer, GateShards, SequenceTheorems, FiniteSetTheorems, TLAPS

-----------------------------------------------------------------------------
(*****************************************************************************)
(* The servers                                                               *)
(*****************************************************************************)

(* The inductive invariant *)

Phases == {"none", "dialled", "shaking", "accepted", "added", "counted", "reading",
           "ended", "left", "gone"}
StopPcs == {"no", "accepting", "shutdown", "engine", "snapshot", "closing", "waiting",
            "done", "returned"}

ServerTypes ==
  /\ serverKind \in ServerKinds
  /\ phase \in [ServerClients -> Phases]
  /\ openConns \subseteq ServerClients
  /\ table \subseteq ServerClients
  /\ closed \subseteq ServerClients
  /\ connects \subseteq ServerClients
  /\ stopList \subseteq ServerClients
  /\ closes \in [ServerClients -> Nat]
  /\ kicks \in Nat
  /\ activeConns \in Int
  /\ kicking \in ServerClients \cup {NoKick}
  /\ stopPc \in StopPcs

\* The phases a connection of this kind of server goes through.
OnItsPath(c) ==
  /\ serverKind = "tcp" => phase[c] \notin {"shaking", "added", "ended"}
  /\ serverKind = "tls" => phase[c] # "shaking"

\* An open socket belongs to a connection that is not over; what was closed is not open.
Socket(c) ==
  /\ c \in openConns => phase[c] \notin {"none", "ended", "left", "gone"}
  /\ c \in closed =>
       /\ c \notin openConns
       /\ phase[c] \notin {"none", "dialled", "shaking", "accepted"}
       /\ serverKind = "tcp" => phase[c] \in {"left", "gone"}
  /\ phase[c] = "left" => c \in closed
  /\ kicking = c => c \notin openConns /\ phase[c] # "none"

\* The table has every open connection that was added, and none that is gone.
InTable(c) ==
  /\ c \in table => phase[c] \in {"added", "counted", "reading", "ended", "left"}
  /\ c \in table /\ serverKind = "tcp" => phase[c] \in {"counted", "reading"}
  /\ c \in openConns /\ phase[c] \in {"counted", "reading"} => c \in table
  /\ c \in openConns /\ phase[c] = "added" => c \in table

\* What the handler was told.
Told(c) ==
  /\ c \in connects => phase[c] \in {"reading", "ended", "left", "gone"}
  /\ phase[c] \in {"reading", "ended", "left"} => c \in connects
  /\ phase[c] = "gone" /\ c \in connects => c \in closed
  /\ phase[c] = "gone" /\ serverKind = "tcp" => c \in connects
  /\ closes[c] = IF IF serverKind = "tcp" THEN phase[c] = "gone" ELSE c \in closed \ silent
                 THEN 1 ELSE 0
  /\ c \in silent => c \in closed /\ serverKind \in {"tls", "ws"} /\ kicks > 0
  /\ c \in closed /\ c \notin connects /\ c \notin silent => serverKind \in {"ws", "gws"}

\* What Stop found in the table.
Found(c) ==
  c \in stopList => /\ phase[c] \notin {"none", "dialled", "shaking", "accepted"}
                    /\ phase[c] = "gone" => c \in closed
                    /\ serverKind # "tcp"

\* What Stop has waited for before it went on, unless its context expired.
Snapped == {"closing", "waiting", "done", "returned"}
Waited(c) ==
  /\ serverKind = "tls" /\ ~expired /\ (stopPc = "snapshot" \/ stopPc \in Snapped) =>
       phase[c] \notin {"accepted", "added", "counted"}
  /\ serverKind = "tcp" /\ ~expired /\ stopPc = "returned" =>
       phase[c] \notin {"accepted", "counted", "reading"}
  /\ serverKind # "tcp" /\ ~expired /\ stopPc \in Snapped /\ c \in openConns =>
       phase[c] = "dialled" \/ c \in missed \/ c \in stopList

Conn(c) == OnItsPath(c) /\ Socket(c) /\ InTable(c) /\ Told(c) /\ Found(c) /\ Waited(c)

\* Counted in by OnConnect and not yet out, and out before in.
IsUp(c) ==
  /\ phase[c] \in IF serverKind = "tcp" THEN {"accepted", "counted", "reading"}
                                        ELSE {"counted", "reading", "ended"}
  /\ c \notin closed
IsDown(c) == phase[c] = "added" /\ c \in closed
Up == {c \in ServerClients : IsUp(c)}
Down == {c \in ServerClients : IsDown(c)}

Counted ==
  /\ IsFiniteSet(Up) /\ IsFiniteSet(Down)
  /\ activeConns = Cardinality(Up) - Cardinality(Down)

\* Where Stop is.
StopAt ==
  /\ stopPc # "no" => ~listening /\ ~started
  /\ stopPc = "accepting" => serverKind = "tls"
  /\ stopPc = "shutdown" => serverKind = "ws"
  /\ stopPc = "engine" => serverKind = "tcp"
  /\ serverKind = "tcp" => stopPc \in {"no", "engine", "returned"}
  /\ serverKind = "tls" /\ ~expired /\ stopPc \in Snapped => missed = {}
  /\ ~expired /\ stopPc \in {"waiting", "done", "returned"} => stopList = {}

ServerInv ==
  /\ ServerTypes
  /\ \A c \in ServerClients : Conn(c)
  /\ Counted
  /\ StopAt

-----------------------------------------------------------------------------
(* Steps that touch one connection *)

Weight(c) == IF IsUp(c) THEN 1 ELSE IF IsDown(c) THEN -1 ELSE 0

\* The step leaves connection d as it was.
Kept(d) ==
  /\ phase'[d] = phase[d] /\ closes'[d] = closes[d]
  /\ (d \in openConns') = (d \in openConns)
  /\ (d \in table') = (d \in table)
  /\ (d \in closed') = (d \in closed)
  /\ (d \in connects') = (d \in connects)
  /\ (d \in silent') = (d \in silent)
  /\ (d \in stopList') = (d \in stopList)
  /\ kicking' = d => kicking = d

\* The step neither moves Stop nor another connection than c.
OnlyTouches(c) ==
  /\ \A d \in ServerClients \ {c} : Kept(d)
  /\ serverKind' = serverKind /\ stopPc' = stopPc /\ expired' = expired /\ missed' = missed
  /\ stopList' \subseteq stopList /\ kicks' >= kicks
  /\ stopPc # "no" => listening' = listening /\ started' = started

\* Two sets that differ in at most one element differ in their cardinality by at most one.
LEMMA DifferInOne ==
  ASSUME NEW S, NEW T, NEW c, IsFiniteSet(S),
         \A d : d # c => (d \in S <=> d \in T)
  PROVE  /\ IsFiniteSet(T)
         /\ Cardinality(S) \in Nat /\ Cardinality(T) \in Nat
         /\ Cardinality(T) = Cardinality(S) + (IF c \in T THEN 1 ELSE 0)
                                            - (IF c \in S THEN 1 ELSE 0)
<1>1. Cardinality(S) \in Nat
  BY FS_CardinalityType
<1>2. CASE c \in T /\ c \notin S
  <2>1. T = S \cup {c}
    BY <1>2
  <2> QED
    BY <1>1, <1>2, <2>1, FS_AddElement
<1>3. CASE c \notin T /\ c \in S
  <2>1. T = S \ {c}
    BY <1>3
  <2>2. IsFiniteSet(T) /\ Cardinality(T) = Cardinality(S) - 1
    BY <1>3, <2>1, FS_RemoveElement
  <2>3. Cardinality(T) \in Nat
    BY <2>2, FS_CardinalityType
  <2> QED
    BY <1>1, <1>3, <2>2, <2>3
<1>4. CASE c \in T <=> c \in S
  <2>1. T = S
    BY <1>4
  <2> QED
    BY <1>1, <1>4, <2>1
<1> QED
  BY <1>2, <1>3, <1>4

LEMMA KeptConn ==
  ASSUME NEW c, OnlyTouches(c), NEW d \in ServerClients \ {c}, Conn(d), kicks \in Nat, kicks' \in Nat
  PROVE  Conn(d)'
<1>1. Kept(d) /\ serverKind' = serverKind /\ stopPc' = stopPc /\ expired' = expired
      /\ missed' = missed /\ kicks' >= kicks
  BY DEF OnlyTouches
<1>2. OnItsPath(d)'
  BY <1>1 DEF Conn, Kept, OnItsPath
<1>3. Socket(d)'
  BY <1>1 DEF Conn, Kept, Socket
<1>4. InTable(d)'
  BY <1>1 DEF Conn, Kept, InTable
<1>5. Told(d)'
  BY <1>1 DEF Conn, Kept, Told
<1>6. Found(d)'
  BY <1>1 DEF Conn, Kept, Found
<1>7. Waited(d)'
  BY <1>1 DEF Conn, Kept, Waited
<1> QED
  BY <1>2, <1>3, <1>4, <1>5, <1>6, <1>7 DEF Conn

\* A step that touches one connection need only be followed there, and at the counter.
LEMMA Touches ==
  ASSUME ServerInv, NEW c \in ServerClients, OnlyTouches(c), ServerTypes', Conn(c)',
         activeConns' = activeConns + Weight(c)' - Weight(c)
  PROVE  ServerInv'
<1>1. \A d \in ServerClients : Conn(d)'
  <2> SUFFICES ASSUME NEW d \in ServerClients, d # c PROVE Conn(d)'
    OBVIOUS
  <2> QED
    BY KeptConn DEF ServerInv, ServerTypes
<1>2. Counted'
  <2>1. \A d : d # c => (d \in Up <=> d \in Up') /\ (d \in Down <=> d \in Down')
    <3> SUFFICES ASSUME NEW d \in ServerClients, d # c
                 PROVE  (IsUp(d) <=> IsUp(d)') /\ (IsDown(d) <=> IsDown(d)')
      BY DEF Up, Down
    <3>1. phase'[d] = phase[d] /\ (d \in closed') = (d \in closed) /\ serverKind' = serverKind
      BY DEF OnlyTouches, Kept
    <3> QED
      BY <3>1 DEF IsUp, IsDown
  <2>2. IsFiniteSet(Up) /\ IsFiniteSet(Down)
        /\ activeConns = Cardinality(Up) - Cardinality(Down)
    BY DEF ServerInv, Counted
  <2>3. /\ IsFiniteSet(Up') /\ Cardinality(Up) \in Nat /\ Cardinality(Up') \in Nat
        /\ Cardinality(Up') = Cardinality(Up) + (IF c \in Up' THEN 1 ELSE 0)
                                              - (IF c \in Up THEN 1 ELSE 0)
    BY <2>1, <2>2, DifferInOne
  <2>4. /\ IsFiniteSet(Down') /\ Cardinality(Down) \in Nat /\ Cardinality(Down') \in Nat
        /\ Cardinality(Down') = Cardinality(Down) + (IF c \in Down' THEN 1 ELSE 0)
                                                  - (IF c \in Down THEN 1 ELSE 0)
    BY <2>1, <2>2, DifferInOne
  <2>5. Weight(c) = (IF c \in Up THEN 1 ELSE 0) - (IF c \in Down THEN 1 ELSE 0)
    BY DEF Weight, Up, Down, IsUp, IsDown
  <2>6. Weight(c)' = (IF c \in Up' THEN 1 ELSE 0) - (IF c \in Down' THEN 1 ELSE 0)
    BY DEF Weight, Up, Down, IsUp, IsDown
  <2> QED
    BY <2>2, <2>3, <2>4, <2>5, <2>6 DEF Counted
<1>3. StopAt'
  BY DEF ServerInv, StopAt, OnlyTouches
<1> QED
  BY <1>1, <1>2, <1>3 DEF ServerInv

LEMMA DialsKeeps ==
  ASSUME ServerInv, NEW c \in ServerClients, Dials(c)
  PROVE  ServerInv'
<1>1. ServerTypes /\ Conn(c) /\ StopAt
  BY DEF ServerInv
<1>2. ServerTypes'
  BY <1>1 DEF ServerTypes, Phases, Dials, To, ofStop, ofKick
<1>3. OnlyTouches(c)
  BY <1>1 DEF ServerTypes, OnlyTouches, Kept, Dials, To, ofStop, ofKick
<1>4. Conn(c)'
  <2>1. OnItsPath(c)'
    BY <1>1 DEF ServerTypes, Conn, OnItsPath, Dials, To, ofStop, ofKick
  <2>2. Socket(c)'
    BY <1>1, ServerAssumption DEF ServerTypes, Conn, OnItsPath, Socket, InTable, Dials, To, ofStop, ofKick
  <2>3. InTable(c)'
    BY <1>1 DEF ServerTypes, Conn, OnItsPath, Socket, InTable, Dials, To, ofStop, ofKick
  <2>4. Told(c)'
    BY <1>1 DEF ServerTypes, Conn, OnItsPath, Socket, InTable, Told, Dials, To, ofStop, ofKick
  <2>5. Found(c)'
    BY <1>1 DEF ServerTypes, Conn, OnItsPath, Socket, Told, Found, Dials, To, ofStop, ofKick
  <2>6. Waited(c)'
    BY <1>1 DEF ServerTypes, Conn, OnItsPath, Socket, InTable, StopAt, Snapped, Waited, Dials, To, ofStop, ofKick
  <2> QED
    BY <2>1, <2>2, <2>3, <2>4, <2>5, <2>6 DEF Conn
<1>5. activeConns' = activeConns + Weight(c)' - Weight(c)
  BY <1>1 DEF ServerTypes, Conn, OnItsPath, Socket, InTable, Weight, IsUp, IsDown, Dials, To, ofStop, ofKick
<1> QED
  BY <1>2, <1>3, <1>4, <1>5, Touches

LEMMA AcceptsKeeps ==
  ASSUME ServerInv, NEW c \in ServerClients, Accepts(c)
  PROVE  ServerInv'
<1>1. ServerTypes /\ Conn(c) /\ StopAt
  BY DEF ServerInv
<1>2. ServerTypes'
  BY <1>1 DEF ServerTypes, Phases, Accepts, TlsAccept, GwsAccept, WsAccept, To, ofStop, ofKick
<1>3. OnlyTouches(c)
  BY <1>1 DEF ServerTypes, OnlyTouches, Kept, Accepts, TlsAccept, GwsAccept, WsAccept, To, ofStop, ofKick
<1>4. Conn(c)'
  <2>1. OnItsPath(c)'
    BY <1>1 DEF ServerTypes, Conn, OnItsPath, Accepts, TlsAccept, GwsAccept, WsAccept, To, ofStop, ofKick
  <2>2. Socket(c)'
    BY <1>1, ServerAssumption DEF ServerTypes, Conn, OnItsPath, Socket, InTable, Accepts, TlsAccept, GwsAccept, WsAccept, To, ofStop, ofKick
  <2>3. InTable(c)'
    BY <1>1 DEF ServerTypes, Conn, OnItsPath, Socket, InTable, Accepts, TlsAccept, GwsAccept, WsAccept, To, ofStop, ofKick
  <2>4. Told(c)'
    BY <1>1 DEF ServerTypes, Conn, OnItsPath, Socket, InTable, Told, Accepts, TlsAccept, GwsAccept, WsAccept, To, ofStop, ofKick
  <2>5. Found(c)'
    BY <1>1 DEF ServerTypes, Conn, OnItsPath, Socket, Told, Found, Accepts, TlsAccept, GwsAccept, WsAccept, To, ofStop, ofKick
  <2>6. Waited(c)'
    BY <1>1 DEF ServerTypes, Conn, OnItsPath, Socket, InTable, StopAt, Snapped, Waited, Accepts, TlsAccept, GwsAccept, WsAccept, To, ofStop, ofKick
  <2> QED
    BY <2>1, <2>2, <2>3, <2>4, <2>5, <2>6 DEF Conn
<1>5. activeConns' = activeConns + Weight(c)' - Weight(c)
  BY <1>1 DEF ServerTypes, Conn, OnItsPath, Socket, InTable, Weight, IsUp, IsDown, Accepts, TlsAccept, GwsAccept, WsAccept, To, ofStop, ofKick
<1> QED
  BY <1>2, <1>3, <1>4, <1>5, Touches

LEMMA handleRawConnKeeps ==
  ASSUME ServerInv, NEW c \in ServerClients, handleRawConn(c)
  PROVE  ServerInv'
<1>1. ServerTypes /\ Conn(c) /\ StopAt
  BY DEF ServerInv
<1>2. ServerTypes'
  BY <1>1 DEF ServerTypes, Phases, handleRawConn, To, ofStop, ofKick
<1>3. OnlyTouches(c)
  BY <1>1 DEF ServerTypes, OnlyTouches, Kept, handleRawConn, To, ofStop, ofKick
<1>4. Conn(c)'
  <2>1. OnItsPath(c)'
    BY <1>1 DEF ServerTypes, Conn, OnItsPath, handleRawConn, To, ofStop, ofKick
  <2>2. Socket(c)'
    BY <1>1, ServerAssumption DEF ServerTypes, Conn, OnItsPath, Socket, InTable, handleRawConn, To, ofStop, ofKick
  <2>3. InTable(c)'
    BY <1>1 DEF ServerTypes, Conn, OnItsPath, Socket, InTable, handleRawConn, To, ofStop, ofKick
  <2>4. Told(c)'
    BY <1>1 DEF ServerTypes, Conn, OnItsPath, Socket, InTable, Told, handleRawConn, To, ofStop, ofKick
  <2>5. Found(c)'
    BY <1>1 DEF ServerTypes, Conn, OnItsPath, Socket, Told, Found, handleRawConn, To, ofStop, ofKick
  <2>6. Waited(c)'
    BY <1>1 DEF ServerTypes, Conn, OnItsPath, Socket, InTable, StopAt, Snapped, Waited, handleRawConn, To, ofStop, ofKick
  <2> QED
    BY <2>1, <2>2, <2>3, <2>4, <2>5, <2>6 DEF Conn
<1>5. activeConns' = activeConns + Weight(c)' - Weight(c)
  BY <1>1 DEF ServerTypes, Conn, OnItsPath, Socket, InTable, Weight, IsUp, IsDown, handleRawConn, To, ofStop, ofKick
<1> QED
  BY <1>2, <1>3, <1>4, <1>5, Touches

LEMMA UpgradedKeeps ==
  ASSUME ServerInv, NEW c \in ServerClients, Upgraded(c)
  PROVE  ServerInv'
<1>1. ServerTypes /\ Conn(c) /\ StopAt
  BY DEF ServerInv
<1>2. ServerTypes'
  BY <1>1 DEF ServerTypes, Phases, Upgraded, AddConn, StatsOnConnect, To, ofStop, ofKick
<1>3. OnlyTouches(c)
  BY <1>1 DEF ServerTypes, OnlyTouches, Kept, Upgraded, AddConn, StatsOnConnect, To, ofStop, ofKick
<1>4. Conn(c)'
  <2>1. OnItsPath(c)'
    BY <1>1 DEF ServerTypes, Conn, OnItsPath, Upgraded, AddConn, StatsOnConnect, To, ofStop, ofKick
  <2>2. Socket(c)'
    BY <1>1, ServerAssumption DEF ServerTypes, Conn, OnItsPath, Socket, InTable, Upgraded, AddConn, StatsOnConnect, To, ofStop, ofKick
  <2>3. InTable(c)'
    BY <1>1 DEF ServerTypes, Conn, OnItsPath, Socket, InTable, Upgraded, AddConn, StatsOnConnect, To, ofStop, ofKick
  <2>4. Told(c)'
    BY <1>1 DEF ServerTypes, Conn, OnItsPath, Socket, InTable, Told, Upgraded, AddConn, StatsOnConnect, To, ofStop, ofKick
  <2>5. Found(c)'
    BY <1>1 DEF ServerTypes, Conn, OnItsPath, Socket, Told, Found, Upgraded, AddConn, StatsOnConnect, To, ofStop, ofKick
  <2>6. Waited(c)'
    BY <1>1 DEF ServerTypes, Conn, OnItsPath, Socket, InTable, StopAt, Snapped, Waited, Upgraded, AddConn, StatsOnConnect, To, ofStop, ofKick
  <2> QED
    BY <2>1, <2>2, <2>3, <2>4, <2>5, <2>6 DEF Conn
<1>5. activeConns' = activeConns + Weight(c)' - Weight(c)
  BY <1>1 DEF ServerTypes, Conn, OnItsPath, Socket, InTable, Weight, IsUp, IsDown, Upgraded, AddConn, StatsOnConnect, To, ofStop, ofKick
<1> QED
  BY <1>2, <1>3, <1>4, <1>5, Touches

LEMMA GwsOnOpenKeeps ==
  ASSUME ServerInv, NEW c \in ServerClients, GwsOnOpen(c)
  PROVE  ServerInv'
<1>1. ServerTypes /\ Conn(c) /\ StopAt
  BY DEF ServerInv
<1>2. ServerTypes'
  BY <1>1 DEF ServerTypes, Phases, GwsOnOpen, AddConn, StatsOnConnect, To, ofStop, ofKick
<1>3. OnlyTouches(c)
  BY <1>1 DEF ServerTypes, OnlyTouches, Kept, GwsOnOpen, AddConn, StatsOnConnect, To, ofStop, ofKick
<1>4. Conn(c)'
  <2>1. OnItsPath(c)'
    BY <1>1 DEF ServerTypes, Conn, OnItsPath, GwsOnOpen, AddConn, StatsOnConnect, To, ofStop, ofKick
  <2>2. Socket(c)'
    BY <1>1, ServerAssumption DEF ServerTypes, Conn, OnItsPath, Socket, InTable, GwsOnOpen, AddConn, StatsOnConnect, To, ofStop, ofKick
  <2>3. InTable(c)'
    BY <1>1 DEF ServerTypes, Conn, OnItsPath, Socket, InTable, GwsOnOpen, AddConn, StatsOnConnect, To, ofStop, ofKick
  <2>4. Told(c)'
    BY <1>1 DEF ServerTypes, Conn, OnItsPath, Socket, InTable, Told, GwsOnOpen, AddConn, StatsOnConnect, To, ofStop, ofKick
  <2>5. Found(c)'
    BY <1>1 DEF ServerTypes, Conn, OnItsPath, Socket, Told, Found, GwsOnOpen, AddConn, StatsOnConnect, To, ofStop, ofKick
  <2>6. Waited(c)'
    BY <1>1 DEF ServerTypes, Conn, OnItsPath, Socket, InTable, StopAt, Snapped, Waited, GwsOnOpen, AddConn, StatsOnConnect, To, ofStop, ofKick
  <2> QED
    BY <2>1, <2>2, <2>3, <2>4, <2>5, <2>6 DEF Conn
<1>5. activeConns' = activeConns + Weight(c)' - Weight(c)
  BY <1>1 DEF ServerTypes, Conn, OnItsPath, Socket, InTable, Weight, IsUp, IsDown, GwsOnOpen, AddConn, StatsOnConnect, To, ofStop, ofKick
<1> QED
  BY <1>2, <1>3, <1>4, <1>5, Touches

LEMMA TcpOnOpenKeeps ==
  ASSUME ServerInv, NEW c \in ServerClients, TcpOnOpen(c)
  PROVE  ServerInv'
<1>1. ServerTypes /\ Conn(c) /\ StopAt
  BY DEF ServerInv
<1>2. ServerTypes'
  BY <1>1 DEF ServerTypes, Phases, TcpOnOpen, AddConn, StatsOnConnect, To, ofStop, ofKick
<1>3. OnlyTouches(c)
  BY <1>1 DEF ServerTypes, OnlyTouches, Kept, TcpOnOpen, AddConn, StatsOnConnect, To, ofStop, ofKick
<1>4. Conn(c)'
  <2>1. OnItsPath(c)'
    BY <1>1 DEF ServerTypes, Conn, OnItsPath, TcpOnOpen, AddConn, StatsOnConnect, To, ofStop, ofKick
  <2>2. Socket(c)'
    BY <1>1, ServerAssumption DEF ServerTypes, Conn, OnItsPath, Socket, InTable, TcpOnOpen, AddConn, StatsOnConnect, To, ofStop, ofKick
  <2>3. InTable(c)'
    BY <1>1 DEF ServerTypes, Conn, OnItsPath, Socket, InTable, TcpOnOpen, AddConn, StatsOnConnect, To, ofStop, ofKick
  <2>4. Told(c)'
    BY <1>1 DEF ServerTypes, Conn, OnItsPath, Socket, InTable, Told, TcpOnOpen, AddConn, StatsOnConnect, To, ofStop, ofKick
  <2>5. Found(c)'
    BY <1>1 DEF ServerTypes, Conn, OnItsPath, Socket, Told, Found, TcpOnOpen, AddConn, StatsOnConnect, To, ofStop, ofKick
  <2>6. Waited(c)'
    BY <1>1 DEF ServerTypes, Conn, OnItsPath, Socket, InTable, StopAt, Snapped, Waited, TcpOnOpen, AddConn, StatsOnConnect, To, ofStop, ofKick
  <2> QED
    BY <2>1, <2>2, <2>3, <2>4, <2>5, <2>6 DEF Conn
<1>5. activeConns' = activeConns + Weight(c)' - Weight(c)
  BY <1>1 DEF ServerTypes, Conn, OnItsPath, Socket, InTable, Weight, IsUp, IsDown, TcpOnOpen, AddConn, StatsOnConnect, To, ofStop, ofKick
<1> QED
  BY <1>2, <1>3, <1>4, <1>5, Touches

LEMMA PeerLeavesKeeps ==
  ASSUME ServerInv, NEW c \in ServerClients, PeerLeaves(c)
  PROVE  ServerInv'
<1>1. ServerTypes /\ Conn(c) /\ StopAt
  BY DEF ServerInv
<1>2. ServerTypes'
  BY <1>1 DEF ServerTypes, Phases, PeerLeaves, To, ofStop, ofKick
<1>3. OnlyTouches(c)
  BY <1>1 DEF ServerTypes, OnlyTouches, Kept, PeerLeaves, To, ofStop, ofKick
<1>4. Conn(c)'
  <2>1. OnItsPath(c)'
    BY <1>1 DEF ServerTypes, Conn, OnItsPath, PeerLeaves, To, ofStop, ofKick
  <2>2. Socket(c)'
    BY <1>1, ServerAssumption DEF ServerTypes, Conn, OnItsPath, Socket, InTable, PeerLeaves, To, ofStop, ofKick
  <2>3. InTable(c)'
    BY <1>1 DEF ServerTypes, Conn, OnItsPath, Socket, InTable, PeerLeaves, To, ofStop, ofKick
  <2>4. Told(c)'
    BY <1>1 DEF ServerTypes, Conn, OnItsPath, Socket, InTable, Told, PeerLeaves, To, ofStop, ofKick
  <2>5. Found(c)'
    BY <1>1 DEF ServerTypes, Conn, OnItsPath, Socket, Told, Found, PeerLeaves, To, ofStop, ofKick
  <2>6. Waited(c)'
    BY <1>1 DEF ServerTypes, Conn, OnItsPath, Socket, InTable, StopAt, Snapped, Waited, PeerLeaves, To, ofStop, ofKick
  <2> QED
    BY <2>1, <2>2, <2>3, <2>4, <2>5, <2>6 DEF Conn
<1>5. activeConns' = activeConns + Weight(c)' - Weight(c)
  BY <1>1 DEF ServerTypes, Conn, OnItsPath, Socket, InTable, Weight, IsUp, IsDown, PeerLeaves, To, ofStop, ofKick
<1> QED
  BY <1>2, <1>3, <1>4, <1>5, Touches

LEMMA readLoopKeeps ==
  ASSUME ServerInv, NEW c \in ServerClients, readLoop(c)
  PROVE  ServerInv'
<1>1. ServerTypes /\ Conn(c) /\ StopAt
  BY DEF ServerInv
<1>2. ServerTypes'
  BY <1>1 DEF ServerTypes, Phases, readLoop, To, ofStop, ofKick
<1>3. OnlyTouches(c)
  BY <1>1 DEF ServerTypes, OnlyTouches, Kept, readLoop, To, ofStop, ofKick
<1>4. Conn(c)'
  <2>1. OnItsPath(c)'
    BY <1>1 DEF ServerTypes, Conn, OnItsPath, readLoop, To, ofStop, ofKick
  <2>2. Socket(c)'
    BY <1>1, ServerAssumption DEF ServerTypes, Conn, OnItsPath, Socket, InTable, readLoop, To, ofStop, ofKick
  <2>3. InTable(c)'
    BY <1>1 DEF ServerTypes, Conn, OnItsPath, Socket, InTable, readLoop, To, ofStop, ofKick
  <2>4. Told(c)'
    BY <1>1 DEF ServerTypes, Conn, OnItsPath, Socket, InTable, Told, readLoop, To, ofStop, ofKick
  <2>5. Found(c)'
    BY <1>1 DEF ServerTypes, Conn, OnItsPath, Socket, Told, Found, readLoop, To, ofStop, ofKick
  <2>6. Waited(c)'
    BY <1>1 DEF ServerTypes, Conn, OnItsPath, Socket, InTable, StopAt, Snapped, Waited, readLoop, To, ofStop, ofKick
  <2> QED
    BY <2>1, <2>2, <2>3, <2>4, <2>5, <2>6 DEF Conn
<1>5. activeConns' = activeConns + Weight(c)' - Weight(c)
  BY <1>1 DEF ServerTypes, Conn, OnItsPath, Socket, InTable, Weight, IsUp, IsDown, readLoop, To, ofStop, ofKick
<1> QED
  BY <1>2, <1>3, <1>4, <1>5, Touches

LEMMA ReaderClosesKeeps ==
  ASSUME ServerInv, NEW c \in ServerClients, ReaderCloses(c)
  PROVE  ServerInv'
<1>1. ServerTypes /\ Conn(c) /\ StopAt
  BY DEF ServerInv
<1>2. ServerTypes'
  BY <1>1 DEF ServerTypes, Phases, ReaderCloses, closeWithError, StatsOnClose, To, ofStop, ofKick
<1>3. OnlyTouches(c)
  BY <1>1 DEF ServerTypes, OnlyTouches, Kept, ReaderCloses, closeWithError, StatsOnClose, To, ofStop, ofKick
<1>4. Conn(c)'
  <2>1. OnItsPath(c)'
    BY <1>1 DEF ServerTypes, Conn, OnItsPath, ReaderCloses, closeWithError, StatsOnClose, To, ofStop, ofKick
  <2>2. Socket(c)'
    BY <1>1, ServerAssumption DEF ServerTypes, Conn, OnItsPath, Socket, InTable, ReaderCloses, closeWithError, StatsOnClose, To, ofStop, ofKick
  <2>3. InTable(c)'
    BY <1>1 DEF ServerTypes, Conn, OnItsPath, Socket, InTable, ReaderCloses, closeWithError, StatsOnClose, To, ofStop, ofKick
  <2>4. Told(c)'
    BY <1>1 DEF ServerTypes, Conn, OnItsPath, Socket, InTable, Told, ReaderCloses, closeWithError, StatsOnClose, To, ofStop, ofKick
  <2>5. Found(c)'
    BY <1>1 DEF ServerTypes, Conn, OnItsPath, Socket, Told, Found, ReaderCloses, closeWithError, StatsOnClose, To, ofStop, ofKick
  <2>6. Waited(c)'
    BY <1>1 DEF ServerTypes, Conn, OnItsPath, Socket, InTable, StopAt, Snapped, Waited, ReaderCloses, closeWithError, StatsOnClose, To, ofStop, ofKick
  <2> QED
    BY <2>1, <2>2, <2>3, <2>4, <2>5, <2>6 DEF Conn
<1>5. activeConns' = activeConns + Weight(c)' - Weight(c)
  BY <1>1 DEF ServerTypes, Conn, OnItsPath, Socket, InTable, Weight, IsUp, IsDown, ReaderCloses, closeWithError, StatsOnClose, To, ofStop, ofKick
<1> QED
  BY <1>2, <1>3, <1>4, <1>5, Touches

LEMMA ReaderLeavesKeeps ==
  ASSUME ServerInv, NEW c \in ServerClients, ReaderLeaves(c)
  PROVE  ServerInv'
<1>1. ServerTypes /\ Conn(c) /\ StopAt
  BY DEF ServerInv
<1>2. ServerTypes'
  BY <1>1 DEF ServerTypes, Phases, ReaderLeaves, RemoveConn, To, ofStop, ofKick
<1>3. OnlyTouches(c)
  BY <1>1 DEF ServerTypes, OnlyTouches, Kept, ReaderLeaves, RemoveConn, To, ofStop, ofKick
<1>4. Conn(c)'
  <2>1. OnItsPath(c)'
    BY <1>1 DEF ServerTypes, Conn, OnItsPath, ReaderLeaves, RemoveConn, To, ofStop, ofKick
  <2>2. Socket(c)'
    BY <1>1, ServerAssumption DEF ServerTypes, Conn, OnItsPath, Socket, InTable, ReaderLeaves, RemoveConn, To, ofStop, ofKick
  <2>3. InTable(c)'
    BY <1>1 DEF ServerTypes, Conn, OnItsPath, Socket, InTable, ReaderLeaves, RemoveConn, To, ofStop, ofKick
  <2>4. Told(c)'
    BY <1>1 DEF ServerTypes, Conn, OnItsPath, Socket, InTable, Told, ReaderLeaves, RemoveConn, To, ofStop, ofKick
  <2>5. Found(c)'
    BY <1>1 DEF ServerTypes, Conn, OnItsPath, Socket, Told, Found, ReaderLeaves, RemoveConn, To, ofStop, ofKick
  <2>6. Waited(c)'
    BY <1>1 DEF ServerTypes, Conn, OnItsPath, Socket, InTable, StopAt, Snapped, Waited, ReaderLeaves, RemoveConn, To, ofStop, ofKick
  <2> QED
    BY <2>1, <2>2, <2>3, <2>4, <2>5, <2>6 DEF Conn
<1>5. activeConns' = activeConns + Weight(c)' - Weight(c)
  BY <1>1 DEF ServerTypes, Conn, OnItsPath, Socket, InTable, Weight, IsUp, IsDown, ReaderLeaves, RemoveConn, To, ofStop, ofKick
<1> QED
  BY <1>2, <1>3, <1>4, <1>5, Touches

LEMMA handlePingErrorKeeps ==
  ASSUME ServerInv, NEW c \in ServerClients, handlePingError(c)
  PROVE  ServerInv'
<1>1. ServerTypes /\ Conn(c) /\ StopAt
  BY DEF ServerInv
<1>2. ServerTypes'
  BY <1>1 DEF ServerTypes, Phases, handlePingError, closeWithError, StatsOnClose, To, ofStop, ofKick
<1>3. OnlyTouches(c)
  BY <1>1 DEF ServerTypes, OnlyTouches, Kept, handlePingError, closeWithError, StatsOnClose, To, ofStop, ofKick
<1>4. Conn(c)'
  <2>1. OnItsPath(c)'
    BY <1>1 DEF ServerTypes, Conn, OnItsPath, handlePingError, closeWithError, StatsOnClose, To, ofStop, ofKick
  <2>2. Socket(c)'
    BY <1>1, ServerAssumption DEF ServerTypes, Conn, OnItsPath, Socket, InTable, handlePingError, closeWithError, StatsOnClose, To, ofStop, ofKick
  <2>3. InTable(c)'
    BY <1>1 DEF ServerTypes, Conn, OnItsPath, Socket, InTable, handlePingError, closeWithError, StatsOnClose, To, ofStop, ofKick
  <2>4. Told(c)'
    BY <1>1 DEF ServerTypes, Conn, OnItsPath, Socket, InTable, Told, handlePingError, closeWithError, StatsOnClose, To, ofStop, ofKick
  <2>5. Found(c)'
    BY <1>1 DEF ServerTypes, Conn, OnItsPath, Socket, Told, Found, handlePingError, closeWithError, StatsOnClose, To, ofStop, ofKick
  <2>6. Waited(c)'
    BY <1>1 DEF ServerTypes, Conn, OnItsPath, Socket, InTable, StopAt, Snapped, Waited, handlePingError, closeWithError, StatsOnClose, To, ofStop, ofKick
  <2> QED
    BY <2>1, <2>2, <2>3, <2>4, <2>5, <2>6 DEF Conn
<1>5. activeConns' = activeConns + Weight(c)' - Weight(c)
  BY <1>1 DEF ServerTypes, Conn, OnItsPath, Socket, InTable, Weight, IsUp, IsDown, handlePingError, closeWithError, StatsOnClose, To, ofStop, ofKick
<1> QED
  BY <1>2, <1>3, <1>4, <1>5, Touches

LEMMA TcpOnCloseKeeps ==
  ASSUME ServerInv, NEW c \in ServerClients, TcpOnClose(c)
  PROVE  ServerInv'
<1>1. ServerTypes /\ Conn(c) /\ StopAt
  BY DEF ServerInv
<1>2. ServerTypes'
  BY <1>1 DEF ServerTypes, Phases, TcpOnClose, StatsOnClose, RemoveConn, To, ofStop, ofKick
<1>3. OnlyTouches(c)
  BY <1>1 DEF ServerTypes, OnlyTouches, Kept, TcpOnClose, StatsOnClose, RemoveConn, To, ofStop, ofKick
<1>4. Conn(c)'
  <2>1. OnItsPath(c)'
    BY <1>1 DEF ServerTypes, Conn, OnItsPath, TcpOnClose, StatsOnClose, RemoveConn, To, ofStop, ofKick
  <2>2. Socket(c)'
    BY <1>1, ServerAssumption DEF ServerTypes, Conn, OnItsPath, Socket, InTable, TcpOnClose, StatsOnClose, RemoveConn, To, ofStop, ofKick
  <2>3. InTable(c)'
    BY <1>1 DEF ServerTypes, Conn, OnItsPath, Socket, InTable, TcpOnClose, StatsOnClose, RemoveConn, To, ofStop, ofKick
  <2>4. Told(c)'
    BY <1>1 DEF ServerTypes, Conn, OnItsPath, Socket, InTable, Told, TcpOnClose, StatsOnClose, RemoveConn, To, ofStop, ofKick
  <2>5. Found(c)'
    BY <1>1 DEF ServerTypes, Conn, OnItsPath, Socket, Told, Found, TcpOnClose, StatsOnClose, RemoveConn, To, ofStop, ofKick
  <2>6. Waited(c)'
    BY <1>1 DEF ServerTypes, Conn, OnItsPath, Socket, InTable, StopAt, Snapped, Waited, TcpOnClose, StatsOnClose, RemoveConn, To, ofStop, ofKick
  <2> QED
    BY <2>1, <2>2, <2>3, <2>4, <2>5, <2>6 DEF Conn
<1>5. activeConns' = activeConns + Weight(c)' - Weight(c)
  BY <1>1 DEF ServerTypes, Conn, OnItsPath, Socket, InTable, Weight, IsUp, IsDown, TcpOnClose, StatsOnClose, RemoveConn, To, ofStop, ofKick
<1> QED
  BY <1>2, <1>3, <1>4, <1>5, Touches

LEMMA KickConnKeeps ==
  ASSUME ServerInv, NEW c \in ServerClients, KickConn(c)
  PROVE  ServerInv'
<1>1. ServerTypes /\ Conn(c) /\ StopAt
  BY DEF ServerInv
<1>2. ServerTypes'
  BY <1>1 DEF ServerTypes, Phases, KickConn, closeWithError, StatsOnClose, To, ofStop, ofKick
<1>3. OnlyTouches(c)
  BY <1>1 DEF ServerTypes, OnlyTouches, Kept, KickConn, closeWithError, StatsOnClose, To, ofStop, ofKick
<1>4. Conn(c)'
  <2>1. OnItsPath(c)'
    BY <1>1 DEF ServerTypes, Conn, OnItsPath, KickConn, closeWithError, StatsOnClose, To, ofStop, ofKick
  <2>2. Socket(c)'
    BY <1>1, ServerAssumption DEF ServerTypes, Conn, OnItsPath, Socket, InTable, KickConn, closeWithError, StatsOnClose, To, ofStop, ofKick
  <2>3. InTable(c)'
    BY <1>1 DEF ServerTypes, Conn, OnItsPath, Socket, InTable, KickConn, closeWithError, StatsOnClose, To, ofStop, ofKick
  <2>4. Told(c)'
    <3>1. CASE c \in closed \/ serverKind = "tcp"
      BY <1>1, <3>1 DEF ServerTypes, Conn, Told, KickConn, closeWithError
    <3>2. CASE c \notin closed /\ serverKind # "tcp"
      <4>1. /\ closed' = closed \cup {c} /\ phase' = phase /\ connects' = connects
            /\ serverKind' = serverKind /\ kicks' > 0
            /\ closes'[c] = closes[c] + (IF serverKind = "gws" THEN 1 ELSE 0)
            /\ silent' = IF serverKind = "gws" THEN silent ELSE silent \cup {c}
        BY <1>1, <3>2 DEF ServerTypes, KickConn, closeWithError
      <4>2. serverKind \in {"tls", "ws", "gws"} /\ closes[c] = 0 /\ c \notin silent
            /\ phase[c] # "gone"
        BY <1>1, <3>2, ServerAssumption DEF ServerTypes, Conn, InTable, Told, KickConn
      <4> QED
        BY <1>1, <4>1, <4>2 DEF Conn, Told
    <3> QED
      BY <3>1, <3>2
  <2>5. Found(c)'
    BY <1>1 DEF ServerTypes, Conn, OnItsPath, Socket, Told, Found, KickConn, closeWithError, StatsOnClose, To, ofStop, ofKick
  <2>6. Waited(c)'
    BY <1>1 DEF ServerTypes, Conn, OnItsPath, Socket, InTable, StopAt, Snapped, Waited, KickConn, closeWithError, StatsOnClose, To, ofStop, ofKick
  <2> QED
    BY <2>1, <2>2, <2>3, <2>4, <2>5, <2>6 DEF Conn
<1>5. activeConns' = activeConns + Weight(c)' - Weight(c)
  BY <1>1 DEF ServerTypes, Conn, OnItsPath, Socket, InTable, Weight, IsUp, IsDown, KickConn, closeWithError, StatsOnClose, To, ofStop, ofKick
<1> QED
  BY <1>2, <1>3, <1>4, <1>5, Touches

\* A step of Stop, or Start, that touches no connection.
LEMMA StopMoves ==
  ASSUME ServerInv,
         UNCHANGED <<serverKind, phase, openConns, table, closed, activeConns, connects, closes, silent,
                     kicking, kicks>>,
         stopPc' \in StopPcs, stopList' \subseteq ServerClients, StopAt',
         \A c \in ServerClients : Found(c)' /\ Waited(c)'
  PROVE  ServerInv'
<1>1. ServerTypes'
  BY DEF ServerInv, ServerTypes
<1>2. \A c \in ServerClients : Conn(c)'
  BY DEF ServerInv, Conn, OnItsPath, Socket, InTable, Told
<1>3. Counted'
  <2>1. Up' = Up /\ Down' = Down
    BY DEF Up, Down, IsUp, IsDown
  <2> QED
    BY <2>1 DEF ServerInv, Counted
<1> QED
  BY <1>1, <1>2, <1>3 DEF ServerInv

LEMMA StartKeeps == ServerInv /\ Start => ServerInv'
<1> SUFFICES ASSUME ServerInv, Start PROVE ServerInv'
  OBVIOUS
<1>1. ServerTypes /\ StopAt /\ \A c \in ServerClients : Conn(c)
  BY DEF ServerInv
<1>2. UNCHANGED <<serverKind, phase, openConns, table, closed, activeConns, connects, closes, silent,
                     kicking, kicks>>
  BY DEF Start, ofKick
<1>3. stopPc' \in StopPcs /\ stopList' \subseteq ServerClients
  BY <1>1 DEF ServerTypes, StopPcs, Start
<1>4. StopAt'
  BY <1>1, <1>2 DEF ServerTypes, StopAt, Snapped, Start, ofKick
<1>5. ASSUME NEW c \in ServerClients PROVE Found(c)' /\ Waited(c)'
  <2>1. Conn(c)
    BY <1>1
  <2>2. Found(c)'
    BY <1>1, <1>2, <2>1 DEF Conn, InTable, Socket, Found, StopAt, Start
  <2>3. Waited(c)'
    BY <1>1, <1>2, <2>1 DEF ServerTypes, Conn, Socket, InTable, Found, Waited, StopAt, Snapped, Start
  <2> QED
    BY <2>2, <2>3
<1> QED
  BY <1>2, <1>3, <1>4, <1>5, StopMoves

LEMMA ServerStopsKeeps == ServerInv /\ ServerStops => ServerInv'
<1> SUFFICES ASSUME ServerInv, ServerStops PROVE ServerInv'
  OBVIOUS
<1>1. ServerTypes /\ StopAt /\ \A c \in ServerClients : Conn(c)
  BY DEF ServerInv
<1>2. UNCHANGED <<serverKind, phase, openConns, table, closed, activeConns, connects, closes, silent,
                     kicking, kicks>>
  BY DEF ServerStops, Stepped, Untouched, ofKick
<1>3. stopPc' \in StopPcs /\ stopList' \subseteq ServerClients
  BY <1>1, ServerAssumption DEF ServerTypes, StopPcs, ServerStops
<1>4. StopAt'
  BY <1>1, <1>2, ServerAssumption DEF ServerTypes, StopAt, Snapped, ServerStops, Stepped, Untouched, ofKick
<1>5. ASSUME NEW c \in ServerClients PROVE Found(c)' /\ Waited(c)'
  <2>1. Conn(c)
    BY <1>1
  <2>2. Found(c)'
    BY <1>1, <1>2, <2>1 DEF Conn, InTable, Socket, Found, StopAt, ServerStops
  <2>3. Waited(c)'
    BY <1>1, <1>2, <2>1, ServerAssumption DEF ServerTypes, Conn, Socket, InTable, Found, Waited, StopAt, Snapped, ServerStops
  <2> QED
    BY <2>2, <2>3
<1> QED
  BY <1>2, <1>3, <1>4, <1>5, StopMoves

LEMMA ContextExpiresKeeps == ServerInv /\ ContextExpires => ServerInv'
<1> SUFFICES ASSUME ServerInv, ContextExpires PROVE ServerInv'
  OBVIOUS
<1>1. ServerTypes /\ StopAt /\ \A c \in ServerClients : Conn(c)
  BY DEF ServerInv
<1>2. UNCHANGED <<serverKind, phase, openConns, table, closed, activeConns, connects, closes, silent,
                     kicking, kicks>>
  BY DEF ContextExpires, Stepped, Untouched, ofKick
<1>3. stopPc' \in StopPcs /\ stopList' \subseteq ServerClients
  BY <1>1 DEF ServerTypes, StopPcs, ContextExpires
<1>4. StopAt'
  BY <1>1, <1>2 DEF ServerTypes, StopAt, Snapped, ContextExpires, Stepped, Untouched, ofKick
<1>5. ASSUME NEW c \in ServerClients PROVE Found(c)' /\ Waited(c)'
  <2>1. Conn(c)
    BY <1>1
  <2>2. Found(c)'
    BY <1>1, <1>2, <2>1 DEF Conn, InTable, Socket, Found, StopAt, ContextExpires
  <2>3. Waited(c)'
    BY <1>1, <1>2, <2>1 DEF ServerTypes, Conn, Socket, InTable, Found, Waited, StopAt, Snapped, ContextExpires
  <2> QED
    BY <2>2, <2>3
<1> QED
  BY <1>2, <1>3, <1>4, <1>5, StopMoves

LEMMA TlsStopsAcceptKeeps == ServerInv /\ TlsStopsAccept => ServerInv'
<1> SUFFICES ASSUME ServerInv, TlsStopsAccept PROVE ServerInv'
  OBVIOUS
<1>1. ServerTypes /\ StopAt /\ \A c \in ServerClients : Conn(c)
  BY DEF ServerInv
<1>2. UNCHANGED <<serverKind, phase, openConns, table, closed, activeConns, connects, closes, silent,
                     kicking, kicks>>
  BY DEF TlsStopsAccept, Stepped, Untouched, ofKick, In
<1>3. stopPc' \in StopPcs /\ stopList' \subseteq ServerClients
  BY <1>1 DEF ServerTypes, StopPcs, TlsStopsAccept
<1>4. StopAt'
  BY <1>1, <1>2 DEF ServerTypes, StopAt, Snapped, TlsStopsAccept, Stepped, Untouched, ofKick, In
<1>5. ASSUME NEW c \in ServerClients PROVE Found(c)' /\ Waited(c)'
  <2>1. Conn(c)
    BY <1>1
  <2>2. Found(c)'
    BY <1>1, <1>2, <2>1 DEF Conn, InTable, Socket, Found, StopAt, TlsStopsAccept
  <2>3. Waited(c)'
    BY <1>1, <1>2, <2>1 DEF ServerTypes, Conn, Socket, InTable, Found, Waited, StopAt, Snapped, TlsStopsAccept, In
  <2> QED
    BY <2>2, <2>3
<1> QED
  BY <1>2, <1>3, <1>4, <1>5, StopMoves

LEMMA WsShutdownKeeps == ServerInv /\ WsShutdown => ServerInv'
<1> SUFFICES ASSUME ServerInv, WsShutdown PROVE ServerInv'
  OBVIOUS
<1>1. ServerTypes /\ StopAt /\ \A c \in ServerClients : Conn(c)
  BY DEF ServerInv
<1>2. UNCHANGED <<serverKind, phase, openConns, table, closed, activeConns, connects, closes, silent,
                     kicking, kicks>>
  BY DEF WsShutdown, Stepped, Untouched, ofKick
<1>3. stopPc' \in StopPcs /\ stopList' \subseteq ServerClients
  BY <1>1 DEF ServerTypes, StopPcs, WsShutdown
<1>4. StopAt'
  BY <1>1, <1>2 DEF ServerTypes, StopAt, Snapped, WsShutdown, Stepped, Untouched, ofKick
<1>5. ASSUME NEW c \in ServerClients PROVE Found(c)' /\ Waited(c)'
  <2>1. Conn(c)
    BY <1>1
  <2>2. Found(c)'
    BY <1>1, <1>2, <2>1 DEF Conn, InTable, Socket, Found, StopAt, WsShutdown
  <2>3. Waited(c)'
    BY <1>1, <1>2, <2>1 DEF ServerTypes, Conn, Socket, InTable, Found, Waited, StopAt, Snapped, WsShutdown, In
  <2> QED
    BY <2>2, <2>3
<1> QED
  BY <1>2, <1>3, <1>4, <1>5, StopMoves

LEMMA StopSnapshotKeeps == ServerInv /\ StopSnapshot => ServerInv'
<1> SUFFICES ASSUME ServerInv, StopSnapshot PROVE ServerInv'
  OBVIOUS
<1>1. ServerTypes /\ StopAt /\ \A c \in ServerClients : Conn(c)
  BY DEF ServerInv
<1>2. UNCHANGED <<serverKind, phase, openConns, table, closed, activeConns, connects, closes, silent,
                     kicking, kicks>>
  BY DEF StopSnapshot, Stepped, Untouched, ofKick, In
<1>3. stopPc' \in StopPcs /\ stopList' \subseteq ServerClients
  BY <1>1 DEF ServerTypes, StopPcs, StopSnapshot
<1>4. StopAt'
  <2>1. serverKind = "tls" /\ ~expired => missed' = {}
    BY <1>1 DEF Conn, OnItsPath, Waited, StopSnapshot, In
  <2> QED
    BY <1>1, <1>2, <2>1 DEF ServerTypes, StopAt, Snapped, StopSnapshot
<1>5. ASSUME NEW c \in ServerClients PROVE Found(c)' /\ Waited(c)'
  <2>1. Conn(c)
    BY <1>1
  <2>2. Found(c)'
    BY <1>1, <1>2, <2>1 DEF Conn, InTable, Socket, Found, StopAt, StopSnapshot
  <2>3. /\ phase'[c] = phase[c] /\ serverKind' = serverKind /\ openConns' = openConns
        /\ expired' = expired /\ stopPc = "snapshot" /\ stopPc' = "closing" /\ stopList' = table
        /\ c \in missed' <=> phase[c] \in {"shaking", "accepted"}
    BY <1>2 DEF StopSnapshot, In
  <2>4. phase[c] \in Phases
    BY <1>1 DEF ServerTypes
  <2>5. c \in openConns => phase[c] \in {"dialled", "shaking", "accepted"} \/ c \in table
    BY <2>1, <2>4 DEF Conn, Socket, InTable, Phases
  <2>6. Waited(c)'
    BY <2>1, <2>3, <2>5 DEF Conn, Waited, Snapped
  <2> QED
    BY <2>2, <2>6
<1> QED
  BY <1>2, <1>3, <1>4, <1>5, StopMoves

LEMMA StopReturnsKeeps == ServerInv /\ StopReturns => ServerInv'
<1> SUFFICES ASSUME ServerInv, StopReturns PROVE ServerInv'
  OBVIOUS
<1>1. ServerTypes /\ StopAt /\ \A c \in ServerClients : Conn(c)
  BY DEF ServerInv
<1>2. UNCHANGED <<serverKind, phase, openConns, table, closed, activeConns, connects, closes, silent,
                     kicking, kicks>>
  BY DEF StopReturns, Stepped, Untouched, ofKick
<1>3. stopPc' \in StopPcs /\ stopList' \subseteq ServerClients
  BY <1>1 DEF ServerTypes, StopPcs, StopReturns
<1>4. StopAt'
  BY <1>1, <1>2 DEF ServerTypes, StopAt, Snapped, StopReturns, Stepped, Untouched, ofKick
<1>5. ASSUME NEW c \in ServerClients PROVE Found(c)' /\ Waited(c)'
  <2>1. Conn(c)
    BY <1>1
  <2>2. Found(c)'
    BY <1>1, <1>2, <2>1 DEF Conn, InTable, Socket, Found, StopAt, StopReturns
  <2>3. Waited(c)'
    BY <1>1, <1>2, <2>1 DEF ServerTypes, Conn, Socket, InTable, Found, Waited, StopAt, Snapped, StopReturns
  <2> QED
    BY <2>2, <2>3
<1> QED
  BY <1>2, <1>3, <1>4, <1>5, StopMoves

LEMMA KickRemovesKeeps == ServerInv /\ KickRemoves => ServerInv'
<1> SUFFICES ASSUME ServerInv, KickRemoves, NEW c \in ServerClients, c = kicking
             PROVE  ServerInv'
  BY DEF ServerInv, ServerTypes, KickRemoves
<1>1. ServerTypes /\ StopAt /\ Conn(c)
  BY DEF ServerInv
<1>2. /\ table' = table \ {c} /\ kicking' = NoKick /\ NoKick # c
      /\ UNCHANGED <<serverKind, phase, openConns, wg, closed, activeConns, connects, closes,
                     silent, kicks>>
      /\ UNCHANGED ofStop
  BY DEF KickRemoves, RemoveConn
<1>3. ServerTypes'
  BY <1>1, <1>2 DEF ServerTypes, ofStop
<1>4. OnlyTouches(c)
  BY <1>1, <1>2, ServerAssumption DEF ServerTypes, OnlyTouches, Kept, ofStop
<1>5. Conn(c)'
  BY <1>1, <1>2 DEF Conn, OnItsPath, Socket, InTable, Told, Found, Waited, ofStop
<1>6. activeConns' = activeConns + Weight(c)' - Weight(c)
  BY <1>1, <1>2 DEF ServerTypes, Weight, IsUp, IsDown
<1> QED
  BY <1>3, <1>4, <1>5, <1>6, Touches

LEMMA TcpEngineStopsKeeps == ServerInv /\ TcpEngineStops => ServerInv'
<1> SUFFICES ASSUME ServerInv, TcpEngineStops PROVE ServerInv'
  OBVIOUS
<1>1. ServerTypes /\ StopAt /\ \A c \in ServerClients : Conn(c)
  BY DEF ServerInv
<1>2. /\ stopPc = "engine" /\ UNCHANGED <<serverKind, phase, wg, connects, table, kicking, kicks>>
      /\ UNCHANGED <<started, listening, stopList, expired, missed, closed, activeConns, closes,
                     silent>>
  BY DEF TcpEngineStops, Stepped, ofKick
<1>3. ASSUME NEW c \in openConns, openConns' = openConns \ {c}, stopPc' = stopPc
      PROVE  ServerInv'
  <2>1. c \in ServerClients /\ Conn(c)
    BY <1>1, <1>3 DEF ServerTypes
  <2>2. ServerTypes'
    BY <1>1, <1>2, <1>3 DEF ServerTypes
  <2>3. OnlyTouches(c)
    BY <1>1, <1>2, <1>3 DEF ServerTypes, OnlyTouches, Kept
  <2>4. Conn(c)'
    BY <1>2, <1>3, <2>1 DEF Conn, OnItsPath, Socket, InTable, Told, Found, Waited
  <2>5. activeConns' = activeConns + Weight(c)' - Weight(c)
    BY <1>1, <1>2 DEF ServerTypes, Weight, IsUp, IsDown
  <2> QED
    BY <2>1, <2>2, <2>3, <2>4, <2>5, Touches
<1>4. ASSUME expired \/ In({"accepted", "counted", "reading"}) = {}, stopPc' = "returned",
             openConns' = openConns
      PROVE  ServerInv'
  <2>1. stopPc' \in StopPcs /\ stopList' \subseteq ServerClients
    BY <1>1, <1>2, <1>4 DEF ServerTypes, StopPcs
  <2>2. \A c \in ServerClients : c \notin stopList
    BY <1>1, <1>2 DEF Conn, Found, StopAt
  <2>3. StopAt'
    BY <1>1, <1>2, <1>4, <2>1, <2>2 DEF ServerTypes, StopAt, Snapped
  <2>4. ASSUME NEW c \in ServerClients PROVE Found(c)' /\ Waited(c)'
    BY <1>1, <1>2, <1>4, <2>2 DEF StopAt, Found, Waited, Snapped, In
  <2> QED
    BY <1>2, <1>4, <2>1, <2>3, <2>4, StopMoves
<1> QED
  BY <1>3, <1>4 DEF TcpEngineStops

LEMMA closeAllConnectionsKeeps == ServerInv /\ closeAllConnections => ServerInv'
<1> SUFFICES ASSUME ServerInv, closeAllConnections PROVE ServerInv'
  OBVIOUS
<1>1. ServerTypes /\ StopAt /\ \A c \in ServerClients : Conn(c)
  BY DEF ServerInv
<1>2. /\ stopPc = "closing" /\ UNCHANGED <<serverKind, phase, wg, connects, table, kicking, kicks>>
      /\ UNCHANGED <<started, listening, expired, missed>>
  BY DEF closeAllConnections, Stepped, ofKick
<1>3. serverKind \in {"tls", "ws", "gws"}
  BY <1>1, <1>2, ServerAssumption DEF ServerTypes, StopAt
<1>4. ASSUME NEW c \in stopList, ~expired, closeWithError(c, TRUE), stopList' = stopList \ {c},
             stopPc' = stopPc
      PROVE  ServerInv'
  <2>1. c \in ServerClients /\ Conn(c) /\ phase[c] \in Phases
    BY <1>1, <1>4 DEF ServerTypes
  <2>2. openConns' = openConns \ {c}
    BY <1>4 DEF closeWithError
  <2>3. CASE c \in closed
    <3>1. UNCHANGED <<closed, activeConns, closes, silent>>
      BY <1>4, <2>3 DEF closeWithError
    <3>2. ServerTypes'
      BY <1>1, <1>2, <1>4, <2>2, <3>1 DEF ServerTypes
    <3>3. OnlyTouches(c)
      BY <1>1, <1>2, <1>4, <2>2, <3>1 DEF ServerTypes, OnlyTouches, Kept
    <3>4. Conn(c)'
      BY <1>2, <1>4, <2>1, <2>2, <3>1
      DEF Conn, OnItsPath, Socket, InTable, Told, Found, Waited
    <3>5. activeConns' = activeConns + Weight(c)' - Weight(c)
      BY <1>1, <1>2, <3>1 DEF ServerTypes, Weight, IsUp, IsDown
    <3> QED
      BY <2>1, <3>2, <3>3, <3>4, <3>5, Touches
  <2>4. CASE c \notin closed
    <3>1. /\ closed' = closed \cup {c} /\ activeConns' = activeConns - 1
          /\ closes' = [closes EXCEPT ![c] = @ + 1] /\ silent' = silent
      BY <1>3, <1>4, <2>4 DEF closeWithError, StatsOnClose
    <3>2. ServerTypes'
      BY <1>1, <1>2, <1>4, <2>1, <2>2, <3>1 DEF ServerTypes
    <3>3. OnlyTouches(c)
      BY <1>1, <1>2, <1>4, <2>2, <3>1 DEF ServerTypes, OnlyTouches, Kept
    <3>4. phase[c] \in {"added", "counted", "reading", "ended"}
      BY <1>4, <2>1, <2>4 DEF Conn, Socket, Found, Phases
    <3>5. closes[c] = 0 /\ c \notin silent
      BY <1>3, <2>1, <2>4 DEF Conn, Told
    <3>6. closes'[c] = 1
      BY <1>1, <2>1, <3>1, <3>5 DEF ServerTypes
    <3>7. serverKind = "tls" => c \in connects
      BY <1>2, <1>4, <2>1, <3>4 DEF Conn, Waited, Snapped, Told
    <3>8. OnItsPath(c)' /\ Socket(c)' /\ InTable(c)' /\ Found(c)'
      BY <1>2, <1>3, <1>4, <2>1, <2>2, <3>1, <3>4 DEF Conn, OnItsPath, Socket, InTable, Found
    <3>9. Told(c)'
      BY <1>2, <1>3, <1>4, <2>1, <3>1, <3>4, <3>5, <3>6, <3>7 DEF Conn, Told
    <3>10. Waited(c)'
      BY <1>2, <1>3, <1>4, <2>1, <2>2, <3>1 DEF Conn, Waited
    <3>11. activeConns' = activeConns + Weight(c)' - Weight(c)
      BY <1>1, <1>2, <1>3, <2>4, <3>1, <3>4 DEF ServerTypes, Weight, IsUp, IsDown
    <3> QED
      BY <2>1, <3>2, <3>3, <3>8, <3>9, <3>10, <3>11, Touches DEF Conn
  <2> QED
    BY <2>3, <2>4
<1>5. ASSUME expired \/ stopList = {}, stopPc' = "waiting", stopList' = stopList, Untouched
      PROVE  ServerInv'
  <2>1. stopPc' \in StopPcs /\ stopList' \subseteq ServerClients
    BY <1>1, <1>2, <1>5 DEF ServerTypes, StopPcs
  <2>2. StopAt'
    BY <1>1, <1>2, <1>3, <1>5 DEF ServerTypes, StopAt, Snapped
  <2>3. ASSUME NEW c \in ServerClients PROVE Found(c)' /\ Waited(c)'
    BY <1>1, <1>2, <1>3, <1>5 DEF Conn, Found, Waited, Snapped, Untouched
  <2> QED
    BY <1>2, <1>5, <2>1, <2>2, <2>3, StopMoves DEF Untouched
<1> QED
  BY <1>4, <1>5 DEF closeAllConnections

-----------------------------------------------------------------------------
(* The theorem *)

LEMMA ServerInvInit == NewServer => ServerInv
<1> SUFFICES ASSUME NewServer PROVE ServerInv
  OBVIOUS
<1>1. ServerTypes
  BY DEF NewServer, ServerTypes, Phases, StopPcs
<1>2. \A c \in ServerClients : Conn(c)
  BY ServerAssumption
  DEF NewServer, Conn, OnItsPath, Socket, InTable, Told, Found, Waited, Snapped
<1>3. Up = {} /\ Down = {}
  BY DEF NewServer, Up, Down, IsUp, IsDown
<1>4. Counted
  BY <1>3, FS_EmptySet DEF NewServer, Counted
<1>5. StopAt
  BY DEF NewServer, StopAt, Snapped
<1> QED
  BY <1>1, <1>2, <1>4, <1>5 DEF ServerInv

LEMMA ServerInvStep == ServerInv /\ [ServerNext]_serverVars => ServerInv'
<1> SUFFICES ASSUME ServerInv, [ServerNext]_serverVars PROVE ServerInv'
  OBVIOUS
<1>1. ASSUME NEW c \in ServerClients,
             \/ Dials(c) \/ Accepts(c) \/ handleRawConn(c) \/ Upgraded(c) \/ GwsOnOpen(c)
             \/ TcpOnOpen(c) \/ PeerLeaves(c) \/ readLoop(c) \/ ReaderCloses(c)
             \/ ReaderLeaves(c) \/ handlePingError(c) \/ TcpOnClose(c) \/ KickConn(c)
      PROVE  ServerInv'
  BY <1>1, DialsKeeps, AcceptsKeeps, handleRawConnKeeps, UpgradedKeeps, GwsOnOpenKeeps,
     TcpOnOpenKeeps, PeerLeavesKeeps, readLoopKeeps, ReaderClosesKeeps, ReaderLeavesKeeps,
     handlePingErrorKeeps, TcpOnCloseKeeps, KickConnKeeps
<1>2. ASSUME \/ Start \/ KickRemoves \/ ServerStops \/ ContextExpires \/ TlsStopsAccept
             \/ WsShutdown \/ TcpEngineStops \/ StopSnapshot \/ closeAllConnections
             \/ StopReturns
      PROVE  ServerInv'
  BY <1>2, StartKeeps, KickRemovesKeeps, ServerStopsKeeps, ContextExpiresKeeps,
     TlsStopsAcceptKeeps, WsShutdownKeeps, TcpEngineStopsKeeps, StopSnapshotKeeps,
     closeAllConnectionsKeeps, StopReturnsKeeps
<1>3. CASE UNCHANGED serverVars
  BY <1>3 DEF serverVars, ServerInv, ServerTypes, Conn, OnItsPath, Socket, InTable, Told, Found,
     Waited, Counted, Up, Down, IsUp, IsDown, StopAt
<1> QED
  BY <1>1, <1>2, <1>3 DEF ServerNext

\* What the invariant says of the things a caller sees.
LEMMA ServerInvAccounts == ServerInv => ServerAccounts
<1> SUFFICES ASSUME ServerInv PROVE ServerAccounts
  OBVIOUS
<1>1. ServerTypes /\ StopAt /\ Counted /\ \A c \in ServerClients : Conn(c)
  BY DEF ServerInv
<1>2. CountsAgree
  <2> SUFFICES ASSUME Quiet PROVE table = In({"reading"}) /\ activeConns = Cardinality(table)
    BY DEF CountsAgree
  <2>1. \A c \in ServerClients : phase[c] \in {"none", "dialled", "gone"}
                                 \/ (phase[c] = "reading" /\ c \in openConns)
    BY DEF Quiet
  <2>2. table = In({"reading"})
    BY <1>1, <2>1 DEF ServerTypes, Conn, InTable, In
  <2>3. Up = In({"reading"})
    BY <1>1, <2>1 DEF Up, IsUp, In, Conn, Socket
  <2>4. Down = {}
    BY <2>1 DEF Down, IsDown
  <2>5. Cardinality(Up) \in Nat
    BY <1>1, FS_CardinalityType DEF Counted
  <2> QED
    BY <1>1, <2>2, <2>3, <2>4, <2>5, FS_EmptySet DEF Counted
<1>3. ToldOnce
  BY <1>1 DEF ServerTypes, ToldOnce, Conn, Told, OnItsPath, Socket
<1>4. StopLeavesNone
  <2> SUFFICES ASSUME stopPc = "returned", ~expired,
                      NEW c \in openConns, phase[c] # "dialled"
               PROVE  c \in missed /\ serverKind \notin {"tcp", "tls"}
    BY <1>1 DEF StopLeavesNone, In, ServerTypes
  <2>1. c \in ServerClients /\ Conn(c) /\ phase[c] \in Phases
    BY <1>1 DEF ServerTypes
  <2>2. serverKind # "tcp"
    BY <2>1 DEF Conn, OnItsPath, Socket, Waited, Phases
  <2>3. c \in missed
    BY <1>1, <2>1, <2>2 DEF Conn, Waited, Snapped, StopAt
  <2> QED
    BY <1>1, <2>2, <2>3 DEF StopAt, Snapped
<1> QED
  BY <1>2, <1>3, <1>4 DEF ServerAccounts

\* A server's table and its counter of connections are those that are being read whenever
\* nothing is under way; the handler is told of every end once, but for a Close that passes
\* none; and a Stop in time leaves open only what a WebSocket server was upgrading at its
\* snapshot (kktcp, kktcptls, kkws and kkgws server.go).
THEOREM ServerAccountsHolds == ServerSpec => []ServerAccounts
<1>1. ServerSpec => []ServerInv
  BY ServerInvInit, ServerInvStep, PTL DEF ServerSpec
<1> QED
  BY <1>1, ServerInvAccounts, PTL

-----------------------------------------------------------------------------
(*****************************************************************************)
(* The shards                                                                *)
(*****************************************************************************)

\* Every LogicServer anyone holds was made, and those not made yet are empty.
MadeInOrder ==
    /\ server \in {NoServer, made}
    /\ \A c \in Conns : obj[c] <= made
    /\ \A o \in Servers : o > made =>
          active[o] = 0 /\ \A s \in Shards : slots[o][s] = NoConn

\* A connection and its reader, and then its OnClose.
Stages ==
    \A c \in Conns :
        /\ c > dials <=> there[c] = "none"
        /\ reader[c] # "idle" => there[c] \in {"open", "lost"}
        /\ there[c] \in {"open", "lost", "detach", "forget"} => c \in known
        /\ there[c] # "done" => c \notin cleared

SlotsSound ==
    \A o \in Servers : \A s \in Shards :
        LET c == slots[o][s] IN
        c # NoConn =>
            /\ shard[c] = s /\ there[c] # "none"
            /\ o = server => /\ c \in bound
                             /\ \/ there[c] \in {"open", "lost"}
                                \/ there[c] = "detach" /\ obj[c] = server

\* A forwarder that works on a message has counted it.
Forwarding == \A f \in Clients : fwd[f] # "idle" => sent[f] > 0

IInv == TypeOK /\ MadeInOrder /\ Stages /\ SlotsSound /\ ActiveIsCount /\ Forwarding

ConstantsOK == NShards \in Nat \ {0} /\ Clients \subseteq Nat
               /\ MaxConns \in Nat /\ MaxMsgs \in Nat /\ MaxStops \in Nat

LEMMA ConstantsAreOK == ConstantsOK
BY ShardsAssumption, ClientsAssumption, BoundsAssumption DEF ConstantsOK

\* TypeOK without the queues.
Typed ==
    /\ Table
    /\ stopped \in BOOLEAN /\ stops \in 0..MaxStops
    /\ stop \in [at : 0..NShards, told : BOOLEAN]
    /\ dials \in 0..MaxConns /\ current \in [Shards -> Conns \cup {NoConn}]
    /\ shard \in [Conns -> Shards]
    /\ regs \in [Shards -> Nat] /\ ready \in [Shards -> Nat]
    /\ here \in [Conns -> {"none", "open", "draining", "closed"}]
    /\ there \in [Conns -> {"none", "open", "lost", "detach", "forget", "done"}]
    /\ reader \in [Conns -> {"idle", "find", "attach"}]
    /\ obj \in [Conns -> {NoServer} \cup Servers]
    /\ fwd \in [Clients -> {"idle", "read", "send"}]
    /\ fobj \in [Clients -> {NoServer} \cup Servers]
    /\ fconn \in [Clients -> Conns \cup {NoConn}]
    /\ sent \in [Clients -> 0..MaxMsgs]
    /\ crashed \in BOOLEAN

Queues ==
    /\ down \in [Conns -> Seq(Clients \X (1..MaxMsgs))]
    /\ up \in [Conns -> Seq({"register", "unregister"})]
    /\ got \in [Clients -> 0..MaxMsgs]

Held ==
    /\ \A c \in Conns : reader[c] = "attach" \/ there[c] = "detach" => obj[c] # NoServer
    /\ \A f \in Clients : /\ fwd[f] = "read" => fobj[f] # NoServer
                          /\ fwd[f] = "send" => fconn[f] # NoConn

LEMMA TypeOKIs == TypeOK <=> Typed /\ Queues /\ Held
BY Zenon DEF TypeOK, Typed, Queues, Held

-----------------------------------------------------------------------------
\* Counting

LEMMA ShardsFinite == IsFiniteSet(Shards) /\ Cardinality(Shards) = NShards
<1>1. NShards \in Nat \ {0} /\ 0 \in Int /\ NShards - 1 \in Int
  BY ConstantsAreOK DEF ConstantsOK
<1> QED  BY <1>1, FS_Interval, SMT DEF Shards

LEMMA CountTyped ==
    ASSUME NEW S \in SUBSET Shards
    PROVE  Cardinality(S) \in 0..NShards
<1>1. IsFiniteSet(S) /\ Cardinality(S) <= NShards  BY ShardsFinite, FS_Subset
<1>2. Cardinality(S) \in Nat  BY <1>1, FS_CardinalityType
<1> QED  BY <1>1, <1>2, ConstantsAreOK DEF ConstantsOK

\* What writing a slot does to the table.
LEMMA SlotSet ==
    ASSUME Typed, NEW o \in Servers, NEW s \in Shards, NEW c \in Conns \cup {NoConn},
           SetSlot(o, s, c)
    PROVE  /\ slots' \in [Servers -> [Shards -> Conns \cup {NoConn}]]
           /\ active' \in [Servers -> 0..NShards]
           /\ slots'[o][s] = c
           /\ \A p \in Servers, t \in Shards : p # o \/ t # s => slots'[p][t] = slots[p][t]
           /\ \A p \in Servers : p # o => active'[p] = active[p]
           /\ active'[o] = Cardinality({t \in Shards : slots'[o][t] # NoConn
                                                        /\ slots'[o][t] \notin cleared})
<1> DEFINE row == [slots[o] EXCEPT ![s] = c]
<1>1. slots \in [Servers -> [Shards -> Conns \cup {NoConn}]] /\ active \in [Servers -> 0..NShards]
  BY DEF Typed, Table
<1>2. row \in [Shards -> Conns \cup {NoConn}]  BY <1>1
<1>3. slots' = [slots EXCEPT ![o] = row] /\ active' = [active EXCEPT ![o] = ActiveCount(row)]
  BY DEF SetSlot
<1>4. ActiveCount(row) \in 0..NShards  BY CountTyped DEF ActiveCount
<1>5. slots'[o] = row  BY <1>1, <1>3
<1>6. active'[o] = Cardinality({t \in Shards : slots'[o][t] # NoConn /\ slots'[o][t] \notin cleared})
  BY <1>1, <1>3, <1>5 DEF ActiveCount
<1> HIDE DEF row
<1>7. slots' \in [Servers -> [Shards -> Conns \cup {NoConn}]]  BY <1>1, <1>2, <1>3
<1>8. active' \in [Servers -> 0..NShards]  BY <1>1, <1>3, <1>4
<1>9. \A p \in Servers : p # o => slots'[p] = slots[p] /\ active'[p] = active[p]
  BY <1>1, <1>3
<1>10. slots'[o][s] = c /\ \A t \in Shards : t # s => slots'[o][t] = slots[o][t]
  BY <1>1, <1>5 DEF row
<1> QED  BY <1>6, <1>7, <1>8, <1>9, <1>10

\* The part of it used when o and s are a connection's.
LEMMA SlotSetFrame ==
    ASSUME Typed, NEW o \in Servers, NEW s \in Shards, NEW c \in Conns \cup {NoConn},
           SetSlot(o, s, c)
    PROVE  /\ slots'[o][s] = c
           /\ \A p \in Servers : \A t \in Shards : p # o \/ t # s => slots'[p][t] = slots[p][t]
           /\ \A p \in Servers : p # o => active'[p] = active[p]
                                       /\ \A t \in Shards : slots'[p][t] = slots[p][t]
<1>1. /\ slots'[o][s] = c
      /\ \A p \in Servers, t \in Shards : p # o \/ t # s => slots'[p][t] = slots[p][t]
      /\ \A p \in Servers : p # o => active'[p] = active[p]
  BY SlotSet, ZenonT(60)
<1>2. \A p \in Servers : \A t \in Shards : p # o \/ t # s => slots'[p][t] = slots[p][t]
  BY <1>1
<1>3. ASSUME NEW p \in Servers, p # o
      PROVE  active'[p] = active[p] /\ \A t \in Shards : slots'[p][t] = slots[p][t]
  BY <1>1, <1>3, ZenonT(40)
<1> QED  BY <1>1, <1>2, <1>3, Zenon

-----------------------------------------------------------------------------
\* A step is one of the actions.
LEMMA StepCases ==
    ASSUME NEW P, [Next]_vars,
           UNCHANGED vars => P,
           \A s \in Shards : Dial(s) \/ RegisterChecks(s) \/ RegisterSends(s) \/ RegisterQuits(s) => P,
           StopBegins \/ StopTells \/ StopCloses \/ Restart => P,
           \A c \in Conns : NodeLoses(c) \/ NodeReads(c) \/ NodeDrained(c) \/ GateLoses(c) => P,
           \A c \in Conns : ReadRegister(c) \/ FindServer(c) \/ Attach(c) \/ ReadUnregister(c) => P,
           \A c \in Conns : CloseFinds(c) \/ CloseDetaches(c) \/ CloseForgets(c) => P,
           \A f \in Clients : ForwardFinds(f) \/ ForwardReads(f) \/ ForwardSends(f) => P
    PROVE  P
BY Zenon DEF Next, Registrar, NodeEnd, Reader, Closer, Forwarder

LEMMA TypedStep ==
    ASSUME Typed, Held, [Next]_vars
    PROVE  Typed'
<1> USE ConstantsAreOK DEF ConstantsOK
<1>1. CASE UNCHANGED vars
  BY <1>1 DEF vars, nodeVars, wireVars, tableVars, workVars, fwdVars, Typed, Table
<1>2. ASSUME NEW s \in Shards, Dial(s) PROVE Typed'
  <2>1. PICK c \in Conns : c = dials + 1 /\ c \in 0..MaxConns
    BY <1>2 DEF Dial, Typed, Conns
  <2>2. /\ dials' = c /\ current' = [current EXCEPT ![s] = c]
        /\ shard' = [shard EXCEPT ![c] = s]
        /\ here' = [here EXCEPT ![c] = "open"] /\ there' = [there EXCEPT ![c] = "open"]
        /\ known' = known \cup {c}
    BY <1>2, <2>1 DEF Dial
  <2>3. Table'  BY <1>2, <2>1, <2>2 DEF Dial, Typed, Table
  <2>4. regs' \in [Shards -> Nat]  BY <1>2 DEF Dial, Typed
  <2>5. /\ current' \in [Shards -> Conns \cup {NoConn}] /\ shard' \in [Conns -> Shards]
        /\ here' \in [Conns -> {"none", "open", "draining", "closed"}]
        /\ there' \in [Conns -> {"none", "open", "lost", "detach", "forget", "done"}]
    BY <2>1, <2>2 DEF Typed
  <2> QED  BY <1>2, <2>1, <2>2, <2>3, <2>4, <2>5 DEF Dial, fwdVars, Typed
<1>3. ASSUME NEW s \in Shards, RegisterChecks(s) PROVE Typed'
  BY <1>3 DEF RegisterChecks, nodeVars, wireVars, tableVars, workVars, fwdVars, Typed, Table
<1>4. ASSUME NEW s \in Shards, RegisterSends(s) PROVE Typed'
  BY <1>4 DEF RegisterSends, nodeVars, tableVars, workVars, fwdVars, Typed, Table
<1>5. ASSUME NEW s \in Shards, RegisterQuits(s) PROVE Typed'
  <2>1. regs' \in [Shards -> Nat] /\ ready' \in [Shards -> Nat]
    <3>1. CASE regs[s] > 0 /\ regs' = [regs EXCEPT ![s] = @ - 1] /\ UNCHANGED ready
      BY <3>1 DEF Typed
    <3>2. CASE ready[s] > 0 /\ ready' = [ready EXCEPT ![s] = @ - 1] /\ UNCHANGED regs
      BY <3>2 DEF Typed
    <3> QED  BY <1>5, <3>1, <3>2 DEF RegisterQuits
  <2> QED  BY <1>5, <2>1 DEF RegisterQuits, wireVars, tableVars, workVars, fwdVars, Typed, Table
<1>6. ASSUME StopBegins PROVE Typed'
  BY <1>6 DEF StopBegins, nodeVars, wireVars, tableVars, workVars, fwdVars, Typed, Table
<1>7. ASSUME StopTells PROVE Typed'
  BY <1>7 DEF StopTells, nodeVars, wireVars, tableVars, workVars, fwdVars, Typed, Table
<1>8. ASSUME StopCloses PROVE Typed'
  <2>1. stop' \in [at : 0..NShards, told : BOOLEAN]  BY <1>8 DEF StopCloses, Typed
  <2>2. here' \in [Conns -> {"none", "open", "draining", "closed"}]
    <3>1. CASE Open(stop.at)  BY <1>8, <3>1 DEF StopCloses, Ends, Typed
    <3>2. CASE ~Open(stop.at)  BY <1>8, <3>2 DEF StopCloses, Typed
    <3> QED  BY <3>1, <3>2
  <2> QED  BY <1>8, <2>1, <2>2 DEF StopCloses, tableVars, workVars, fwdVars, Typed, Table
<1>9. ASSUME Restart PROVE Typed'
  <2>1. stop' \in [at : 0..NShards, told : BOOLEAN]  BY <1>9 DEF Restart
  <2> QED  BY <1>9, <2>1 DEF Restart, wireVars, tableVars, workVars, fwdVars, Typed, Table
<1>10. ASSUME NEW c \in Conns, NodeLoses(c) PROVE Typed'
  BY <1>10 DEF NodeLoses, Ends, nodeVars, tableVars, workVars, fwdVars, Typed, Table
<1>11. ASSUME NEW c \in Conns, NodeReads(c) PROVE Typed'
  BY <1>11 DEF NodeReads, nodeVars, wireVars, tableVars, workVars, fwdVars, Typed, Table
<1>12. ASSUME NEW c \in Conns, NodeDrained(c) PROVE Typed'
  BY <1>12 DEF NodeDrained, nodeVars, wireVars, tableVars, workVars, fwdVars, Typed, Table
<1>13. ASSUME NEW c \in Conns, GateLoses(c) PROVE Typed'
  BY <1>13 DEF GateLoses, nodeVars, wireVars, tableVars, workVars, fwdVars, Typed, Table
<1>14. ASSUME NEW c \in Conns, ReadRegister(c) PROVE Typed'
  <2>1. server' \in {NoServer} \cup Servers /\ made' \in 0..(MaxStops + 1)
    <3>1. CASE server = NoServer  BY <1>14, <3>1 DEF ReadRegister, Servers
    <3>2. CASE server # NoServer  BY <1>14, <3>2 DEF ReadRegister, Typed, Table
    <3> QED  BY <3>1, <3>2
  <2>2. Table'  BY <1>14, <2>1 DEF ReadRegister, Typed, Table
  <2>3. reader' \in [Conns -> {"idle", "find", "attach"}]  BY <1>14 DEF ReadRegister, Typed
  <2> QED  BY <1>14, <2>2, <2>3 DEF ReadRegister, nodeVars, fwdVars, Typed
<1>15. ASSUME NEW c \in Conns, FindServer(c) PROVE Typed'
  BY <1>15 DEF FindServer, nodeVars, wireVars, tableVars, workVars, fwdVars, Typed, Table
<1>16. ASSUME NEW c \in Conns, Attach(c) PROVE Typed'
  <2>1. obj[c] \in Servers /\ shard[c] \in Shards  BY <1>16 DEF Attach, Held, Typed
  <2>2. /\ slots' \in [Servers -> [Shards -> Conns \cup {NoConn}]]
        /\ active' \in [Servers -> 0..NShards]
    BY <1>16, <2>1, SlotSet DEF Attach
  <2> QED  BY <1>16, <2>2 DEF Attach, nodeVars, wireVars, fwdVars, Typed, Table
<1>17. ASSUME NEW c \in Conns, ReadUnregister(c) PROVE Typed'
  BY <1>17 DEF ReadUnregister, nodeVars, wireVars, tableVars, workVars, fwdVars, Typed, Table
<1>18. ASSUME NEW c \in Conns, CloseFinds(c) PROVE Typed'
  BY <1>18 DEF CloseFinds, nodeVars, wireVars, tableVars, workVars, fwdVars, Typed, Table
<1>19. ASSUME NEW c \in Conns, CloseDetaches(c) PROVE Typed'
  <2>1. obj[c] \in Servers /\ shard[c] \in Shards  BY <1>19 DEF CloseDetaches, Held, Typed
  <2>2. /\ slots' \in [Servers -> [Shards -> Conns \cup {NoConn}]]
        /\ active' \in [Servers -> 0..NShards]
    BY <1>19, <2>1, SlotSet DEF CloseDetaches
  <2> QED  BY <1>19, <2>2 DEF CloseDetaches, nodeVars, wireVars, fwdVars, Typed, Table
<1>20. ASSUME NEW c \in Conns, CloseForgets(c) PROVE Typed'
  BY <1>20 DEF CloseForgets, nodeVars, wireVars, tableVars, workVars, fwdVars, Typed, Table
<1>21. ASSUME NEW f \in Clients, ForwardFinds(f) PROVE Typed'
  <2>1. sent' \in [Clients -> 0..MaxMsgs]  BY <1>21 DEF ForwardFinds, Typed
  <2>2. /\ fwd' \in [Clients -> {"idle", "read", "send"}]
        /\ fobj' \in [Clients -> {NoServer} \cup Servers]
    <3>1. CASE server = NoServer  BY <1>21, <3>1 DEF ForwardFinds, Typed
    <3>2. CASE server # NoServer
      <4>1. fwd' = [fwd EXCEPT ![f] = "read"] /\ fobj' = [fobj EXCEPT ![f] = server]
        BY <1>21, <3>2 DEF ForwardFinds
      <4>2. server \in {NoServer} \cup Servers  BY DEF Typed, Table
      <4> QED  BY <4>1, <4>2 DEF Typed
    <3> QED  BY <3>1, <3>2
  <2> QED  BY <1>21, <2>1, <2>2 DEF ForwardFinds, nodeVars, wireVars, tableVars, workVars, Typed, Table
<1>22. ASSUME NEW f \in Clients, ForwardReads(f) PROVE Typed'
  <2>1. slots[fobj[f]][ShardOf(f)] \in Conns \cup {NoConn}
    BY <1>22 DEF ForwardReads, Held, Typed, Table, ShardOf, Shards
  <2> QED  BY <1>22, <2>1 DEF ForwardReads, nodeVars, wireVars, tableVars, workVars, Typed, Table
<1>23. ASSUME NEW f \in Clients, ForwardSends(f) PROVE Typed'
  BY <1>23 DEF ForwardSends, nodeVars, wireVars, tableVars, workVars, fwdVars, Typed, Table
<1> QED  BY <1>1, <1>2, <1>3, <1>4, <1>5, <1>6, <1>7, <1>8, <1>9, <1>10, <1>11, <1>12, <1>13, <1>14, <1>15, <1>16, <1>17, <1>18, <1>19, <1>20, <1>21, <1>22, <1>23, StepCases, Zenon

-----------------------------------------------------------------------------
\* Queues

LEMMA TailOf ==
    ASSUME NEW S, NEW q \in Seq(S), q # <<>>
    PROVE  /\ Tail(q) \in Seq(S) /\ Head(q) \in S /\ Head(q) = q[1]
           /\ Len(q) \in Nat \ {0} /\ Len(Tail(q)) = Len(q) - 1
           /\ \A i \in 1..Len(Tail(q)) : Tail(q)[i] = q[i + 1]
BY HeadTailProperties, LenProperties, EmptySeq

LEMMA PrefixOf ==
    ASSUME NEW S, NEW q \in Seq(S), NEW n \in 0..Len(q)
    PROVE  /\ SubSeq(q, 1, n) \in Seq(S) /\ Len(SubSeq(q, 1, n)) = n
           /\ \A i \in 1..n : SubSeq(q, 1, n)[i] = q[i]
<1>1. Len(q) \in Nat /\ n \in Nat /\ n <= Len(q)  BY LenProperties
<1>2. \A i \in 1..n : q[i] \in S  BY <1>1, ElementOfSeq
<1> QED  BY <1>1, <1>2, SubSeqProperties

LEMMA OpenIsConn ==
    ASSUME Typed, NEW s \in Shards, Open(s)
    PROVE  current[s] \in Conns /\ here[current[s]] = "open"
BY DEF Typed, Open, CurrentEnd

LEMMA StopShard ==
    ASSUME Typed, StopTells \/ StopCloses
    PROVE  stop.at \in Shards
BY ConstantsAreOK DEF ConstantsOK, Typed, StopTells, StopCloses, Shards

LEMMA SendUpTyped ==
    ASSUME Queues, NEW c \in Conns, NEW m \in {"register", "unregister"}, SendUp(c, m)
    PROVE  up' \in [Conns -> Seq({"register", "unregister"})]
<1>1. Append(up[c], m) \in Seq({"register", "unregister"})  BY AppendProperties DEF Queues
<1> QED  BY <1>1 DEF SendUp, Queues

LEMMA EndsTyped ==
    ASSUME Queues, NEW c \in Conns, Ends(c)
    PROVE  down' \in [Conns -> Seq(Clients \X (1..MaxMsgs))]
<1>1. PICK n \in 0..Len(down[c]) : down' = [down EXCEPT ![c] = SubSeq(@, 1, n)]  BY DEF Ends
<1>2. SubSeq(down[c], 1, n) \in Seq(Clients \X (1..MaxMsgs))  BY PrefixOf DEF Queues
<1> QED  BY <1>1, <1>2 DEF Queues

LEMMA PopUpTyped ==
    ASSUME Queues, NEW c \in Conns, up[c] # <<>>, up' = [up EXCEPT ![c] = Tail(@)]
    PROVE  up' \in [Conns -> Seq({"register", "unregister"})]
<1>1. Tail(up[c]) \in Seq({"register", "unregister"})  BY TailOf DEF Queues
<1> QED  BY <1>1 DEF Queues

LEMMA QueuesStep ==
    ASSUME Typed, Queues, Held, Forwarding, [Next]_vars
    PROVE  Queues'
<1> USE ConstantsAreOK DEF ConstantsOK
<1>1. CASE UNCHANGED vars
  BY <1>1 DEF vars, nodeVars, wireVars, tableVars, workVars, fwdVars, Queues
<1>2. ASSUME NEW s \in Shards, RegisterSends(s) PROVE Queues'
  <2>1. up' \in [Conns -> Seq({"register", "unregister"})]
    BY <1>2, OpenIsConn, SendUpTyped DEF RegisterSends
  <2> QED  BY <1>2, <2>1 DEF RegisterSends, Queues
<1>3. ASSUME NEW s \in Shards,
           Dial(s) \/ RegisterChecks(s) \/ RegisterQuits(s)
      PROVE  Queues'
  BY <1>3 DEF Dial, RegisterChecks, RegisterQuits,
     nodeVars, wireVars, tableVars, workVars, fwdVars, Queues
<1>4. ASSUME StopTells PROVE Queues'
  <2>1. up' \in [Conns -> Seq({"register", "unregister"})]
    BY <1>4, OpenIsConn, StopShard, SendUpTyped DEF StopTells
  <2> QED  BY <1>4, <2>1 DEF StopTells, Queues
<1>5. ASSUME StopCloses PROVE Queues'
  <2>1. CASE Open(stop.at)
    <3>1. down' \in [Conns -> Seq(Clients \X (1..MaxMsgs))]
      BY <1>5, <2>1, OpenIsConn, StopShard, EndsTyped DEF StopCloses
    <3> QED  BY <1>5, <3>1 DEF StopCloses, Queues
  <2>2. CASE ~Open(stop.at)  BY <1>5, <2>2 DEF StopCloses, Queues
  <2> QED  BY <2>1, <2>2
<1>6. ASSUME StopBegins \/ Restart PROVE Queues'
  BY <1>6 DEF StopBegins, Restart,
     nodeVars, wireVars, tableVars, workVars, fwdVars, Queues
<1>7. ASSUME NEW c \in Conns, NodeLoses(c) PROVE Queues'
  <2>1. down' \in [Conns -> Seq(Clients \X (1..MaxMsgs))]  BY <1>7, EndsTyped DEF NodeLoses
  <2> QED  BY <1>7, <2>1 DEF NodeLoses, Queues
<1>8. ASSUME NEW c \in Conns, NodeReads(c) PROVE Queues'
  <2>1. /\ Tail(down[c]) \in Seq(Clients \X (1..MaxMsgs))
        /\ Head(down[c]) \in Clients \X (1..MaxMsgs)
    BY <1>8, TailOf DEF NodeReads, Queues
  <2>2. Head(down[c])[1] \in Clients /\ Head(down[c])[2] \in 0..MaxMsgs  BY <2>1
  <2>3. down' \in [Conns -> Seq(Clients \X (1..MaxMsgs))]  BY <1>8, <2>1 DEF NodeReads, Queues
  <2>4. got' \in [Clients -> 0..MaxMsgs]  BY <1>8, <2>2 DEF NodeReads, Queues
  <2> QED  BY <1>8, <2>3, <2>4 DEF NodeReads, Queues
<1>9. ASSUME NEW c \in Conns, GateLoses(c) PROVE Queues'
  <2>1. PICK n \in 0..Len(up[c]) : up' = [up EXCEPT ![c] = SubSeq(@, 1, n)]  BY <1>9 DEF GateLoses
  <2>2. SubSeq(up[c], 1, n) \in Seq({"register", "unregister"})  BY PrefixOf DEF Queues
  <2> QED  BY <1>9, <2>1, <2>2 DEF GateLoses, Queues
<1>10. ASSUME NEW c \in Conns, ReadRegister(c) PROVE Queues'
  <2>1. up' \in [Conns -> Seq({"register", "unregister"})]  BY <1>10, PopUpTyped DEF ReadRegister
  <2> QED  BY <1>10, <2>1 DEF ReadRegister, Queues
<1>11. ASSUME NEW c \in Conns, ReadUnregister(c) PROVE Queues'
  <2>1. up' \in [Conns -> Seq({"register", "unregister"})]  BY <1>11, PopUpTyped DEF ReadUnregister
  <2> QED  BY <1>11, <2>1 DEF ReadUnregister, Queues
<1>12. ASSUME NEW c \in Conns,
           NodeDrained(c) \/ FindServer(c) \/ Attach(c) \/ CloseFinds(c)
           \/ CloseDetaches(c) \/ CloseForgets(c)
      PROVE  Queues'
  BY <1>12 DEF NodeDrained, FindServer, Attach, CloseFinds, CloseDetaches, CloseForgets,
     nodeVars, wireVars, tableVars, workVars, fwdVars, Queues
<1>13. ASSUME NEW f \in Clients, ForwardSends(f) PROVE Queues'
  <2>1. fconn[f] \in Conns /\ sent[f] \in 1..MaxMsgs
    <3>1. fwd[f] = "send"  BY <1>13 DEF ForwardSends
    <3>2. fconn[f] \in Conns  BY <3>1 DEF Held, Typed
    <3>3. sent[f] \in 0..MaxMsgs /\ sent[f] > 0  BY <3>1 DEF Typed, Forwarding
    <3> QED  BY <3>2, <3>3
  <2>2. Append(down[fconn[f]], <<f, sent[f]>>) \in Seq(Clients \X (1..MaxMsgs))
    BY <2>1, AppendProperties DEF Queues
  <2>3. down' \in [Conns -> Seq(Clients \X (1..MaxMsgs))]
    BY <1>13, <2>1, <2>2 DEF ForwardSends, Queues
  <2> QED  BY <1>13, <2>3 DEF ForwardSends, Queues
<1>14. ASSUME NEW f \in Clients,
           ForwardFinds(f) \/ ForwardReads(f)
      PROVE  Queues'
  BY <1>14 DEF ForwardFinds, ForwardReads,
     nodeVars, wireVars, tableVars, workVars, fwdVars, Queues
<1> QED  BY <1>1, <1>2, <1>3, <1>4, <1>5, <1>6, <1>7, <1>8, <1>9, <1>10, <1>11, <1>12, <1>13, <1>14, StepCases, Zenon

LEMMA HeldStep ==
    ASSUME Typed, Held, Stages, [Next]_vars
    PROVE  Held'
<1> USE ConstantsAreOK DEF ConstantsOK
<1>1. CASE UNCHANGED vars
  BY <1>1 DEF vars, nodeVars, wireVars, tableVars, workVars, fwdVars, Held, Typed
<1>2. ASSUME NEW s \in Shards, Dial(s) PROVE Held'
  <2>1. PICK c \in Conns : c = dials + 1  BY <1>2 DEF Dial, Typed, Conns
  <2> QED  BY <1>2, <2>1 DEF Dial, fwdVars, Held, Typed
<1>3. ASSUME NEW s \in Shards,
           RegisterChecks(s) \/ RegisterSends(s) \/ RegisterQuits(s)
      PROVE  Held'
  BY <1>3 DEF RegisterChecks, RegisterSends, RegisterQuits,
     nodeVars, wireVars, tableVars, workVars, fwdVars, Held, Typed
<1>4. ASSUME StopBegins \/ StopTells \/ StopCloses \/ Restart PROVE Held'
  BY <1>4 DEF StopBegins, StopTells, StopCloses, Restart,
     nodeVars, wireVars, tableVars, workVars, fwdVars, Held, Typed
<1>5. ASSUME NEW c \in Conns, GateLoses(c) PROVE Held'
  BY <1>5 DEF GateLoses, nodeVars, wireVars, tableVars, workVars, fwdVars, Held, Typed
<1>6. ASSUME NEW c \in Conns, ReadRegister(c) PROVE Held'
  BY <1>6 DEF ReadRegister, nodeVars, wireVars, tableVars, workVars, fwdVars, Held, Typed
<1>7. ASSUME NEW c \in Conns, FindServer(c) PROVE Held'
  BY <1>7 DEF FindServer, nodeVars, wireVars, tableVars, workVars, fwdVars, Held, Typed
<1>8. ASSUME NEW c \in Conns, Attach(c) PROVE Held'
  BY <1>8 DEF Attach, fwdVars, Stages, Held, Typed
<1>9. ASSUME NEW c \in Conns, CloseFinds(c) PROVE Held'
  BY <1>9 DEF CloseFinds, nodeVars, wireVars, tableVars, workVars, fwdVars, Held, Typed
<1>10. ASSUME NEW c \in Conns, CloseDetaches(c) PROVE Held'
  BY <1>10 DEF CloseDetaches, fwdVars, Stages, Held, Typed
<1>11. ASSUME NEW c \in Conns, CloseForgets(c) PROVE Held'
  BY <1>11 DEF CloseForgets, nodeVars, wireVars, tableVars, workVars, fwdVars, Held, Typed
<1>12. ASSUME NEW c \in Conns,
           NodeLoses(c) \/ NodeReads(c) \/ NodeDrained(c)
           \/ ReadUnregister(c)
      PROVE  Held'
  BY <1>12 DEF NodeLoses, NodeReads, NodeDrained, ReadUnregister,
     nodeVars, wireVars, tableVars, workVars, fwdVars, Held, Typed
<1>13. ASSUME NEW f \in Clients, ForwardFinds(f) PROVE Held'
  BY <1>13 DEF ForwardFinds, nodeVars, wireVars, tableVars, workVars, fwdVars, Held, Typed
<1>14. ASSUME NEW f \in Clients, ForwardReads(f) PROVE Held'
  BY <1>14 DEF ForwardReads, nodeVars, wireVars, tableVars, workVars, fwdVars, Held, Typed
<1>15. ASSUME NEW f \in Clients, ForwardSends(f) PROVE Held'
  BY <1>15 DEF ForwardSends, nodeVars, wireVars, tableVars, workVars, fwdVars, Held, Typed
<1> QED  BY <1>1, <1>2, <1>3, <1>4, <1>5, <1>6, <1>7, <1>8, <1>9, <1>10, <1>11, <1>12, <1>13, <1>14, <1>15, StepCases, Zenon

LEMMA ForwardingStep ==
    ASSUME Typed, Forwarding, [Next]_vars
    PROVE  Forwarding'
<1> USE ConstantsAreOK DEF ConstantsOK
<1>1. CASE UNCHANGED vars
  BY <1>1 DEF vars, nodeVars, wireVars, tableVars, workVars, fwdVars, Forwarding, Typed
<1>2. ASSUME NEW s \in Shards,
           Dial(s) \/ RegisterChecks(s) \/ RegisterSends(s)
           \/ RegisterQuits(s)
      PROVE  Forwarding'
  BY <1>2 DEF Dial, RegisterChecks, RegisterSends, RegisterQuits,
     nodeVars, wireVars, tableVars, workVars, fwdVars, Forwarding, Typed
<1>3. ASSUME StopBegins \/ StopTells \/ StopCloses \/ Restart PROVE Forwarding'
  BY <1>3 DEF StopBegins, StopTells, StopCloses, Restart,
     nodeVars, wireVars, tableVars, workVars, fwdVars, Forwarding, Typed
<1>4. ASSUME NEW c \in Conns,
           NodeLoses(c) \/ NodeReads(c) \/ NodeDrained(c) \/ GateLoses(c)
           \/ ReadRegister(c) \/ FindServer(c) \/ Attach(c)
           \/ ReadUnregister(c) \/ CloseFinds(c) \/ CloseDetaches(c)
           \/ CloseForgets(c)
      PROVE  Forwarding'
  BY <1>4 DEF NodeLoses, NodeReads, NodeDrained, GateLoses, ReadRegister, FindServer, Attach, ReadUnregister, CloseFinds, CloseDetaches, CloseForgets,
     nodeVars, wireVars, tableVars, workVars, fwdVars, Forwarding, Typed
<1>5. ASSUME NEW f \in Clients, ForwardFinds(f) PROVE Forwarding'
  BY <1>5 DEF ForwardFinds, nodeVars, wireVars, tableVars, workVars, fwdVars, Forwarding, Typed
<1>6. ASSUME NEW f \in Clients, ForwardReads(f) PROVE Forwarding'
  BY <1>6 DEF ForwardReads, nodeVars, wireVars, tableVars, workVars, fwdVars, Forwarding, Typed
<1>7. ASSUME NEW f \in Clients, ForwardSends(f) PROVE Forwarding'
  BY <1>7 DEF ForwardSends, nodeVars, wireVars, tableVars, workVars, fwdVars, Forwarding, Typed
<1> QED  BY <1>1, <1>2, <1>3, <1>4, <1>5, <1>6, <1>7, StepCases, Zenon

-----------------------------------------------------------------------------
\* The table

LEMMA MadeStep ==
    ASSUME Typed, Held, MadeInOrder, [Next]_vars
    PROVE  MadeInOrder'
<1> USE ConstantsAreOK DEF ConstantsOK
<1>1. CASE UNCHANGED vars
  BY <1>1 DEF vars, nodeVars, wireVars, tableVars, workVars, fwdVars, MadeInOrder, Typed, Table
<1>2. ASSUME NEW s \in Shards,
           Dial(s) \/ RegisterChecks(s) \/ RegisterSends(s)
           \/ RegisterQuits(s)
      PROVE  MadeInOrder'
  BY <1>2 DEF Dial, RegisterChecks, RegisterSends, RegisterQuits,
     nodeVars, wireVars, tableVars, workVars, fwdVars, MadeInOrder, Typed, Table
<1>3. ASSUME StopBegins \/ StopTells \/ StopCloses \/ Restart PROVE MadeInOrder'
  BY <1>3 DEF StopBegins, StopTells, StopCloses, Restart,
     nodeVars, wireVars, tableVars, workVars, fwdVars, MadeInOrder, Typed, Table
<1>4. ASSUME NEW c \in Conns, ReadRegister(c) PROVE MadeInOrder'
  <2>1. CASE server = NoServer
    <3>1. made' = made + 1 /\ server' = made + 1 /\ made \in Nat
      BY <1>4, <2>1 DEF ReadRegister
    <3>2. obj' = obj /\ slots' = slots /\ active' = active  BY <1>4 DEF ReadRegister
    <3>3. \A d \in Conns : obj[d] \in Nat  BY DEF Typed, Servers, NoServer
    <3> QED  BY <3>1, <3>2, <3>3 DEF MadeInOrder, Servers
  <2>2. CASE server # NoServer  BY <1>4, <2>2 DEF ReadRegister, MadeInOrder
  <2> QED  BY <2>1, <2>2
<1>5. ASSUME NEW c \in Conns, FindServer(c) PROVE MadeInOrder'
  BY <1>5 DEF FindServer, nodeVars, wireVars, tableVars, workVars, fwdVars, MadeInOrder, Typed, Table
<1>6. ASSUME NEW c \in Conns, Attach(c) PROVE MadeInOrder'
  <2>1. obj[c] \in Servers /\ shard[c] \in Shards /\ obj[c] <= made
    BY <1>6 DEF Attach, Held, Typed, MadeInOrder
  <2>2. \A p \in Servers : p # obj[c] =>
            active'[p] = active[p] /\ \A t \in Shards : slots'[p][t] = slots[p][t]
    <3>1. PICK o \in Servers, t \in Shards : o = obj[c] /\ t = shard[c]  BY <2>1
    <3>2. SetSlot(o, t, c)  BY <1>6, <3>1 DEF Attach
    <3> QED  BY <3>1, <3>2, SlotSetFrame
  <2>3. server' = server /\ made' = made /\ obj' = [obj EXCEPT ![c] = NoServer]
    BY <1>6 DEF Attach
  <2> QED  BY <2>1, <2>2, <2>3 DEF MadeInOrder, Typed, Table, Servers, NoServer
<1>7. ASSUME NEW c \in Conns, ReadUnregister(c) PROVE MadeInOrder'
  BY <1>7 DEF ReadUnregister, workVars, MadeInOrder
<1>8. ASSUME NEW c \in Conns, CloseFinds(c) PROVE MadeInOrder'
  BY <1>8 DEF CloseFinds, nodeVars, wireVars, tableVars, workVars, fwdVars, MadeInOrder, Typed, Table
<1>9. ASSUME NEW c \in Conns, CloseDetaches(c) PROVE MadeInOrder'
  <2>1. obj[c] \in Servers /\ shard[c] \in Shards /\ obj[c] <= made
    BY <1>9 DEF CloseDetaches, Held, Typed, MadeInOrder
  <2>2. \A p \in Servers : p # obj[c] =>
            active'[p] = active[p] /\ \A t \in Shards : slots'[p][t] = slots[p][t]
    <3>1. PICK o \in Servers, t \in Shards : o = obj[c] /\ t = shard[c]  BY <2>1
    <3>2. SetSlot(o, t, NoConn)  BY <1>9, <3>1 DEF CloseDetaches
    <3> QED  BY <3>1, <3>2, SlotSetFrame
  <2>3. server' = server /\ made' = made /\ obj' = [obj EXCEPT ![c] = NoServer]
    BY <1>9 DEF CloseDetaches
  <2> QED  BY <2>1, <2>2, <2>3 DEF MadeInOrder, Typed, Table, Servers, NoServer
<1>10. ASSUME NEW c \in Conns,
           NodeLoses(c) \/ NodeReads(c) \/ NodeDrained(c) \/ GateLoses(c)
           \/ CloseForgets(c)
      PROVE  MadeInOrder'
  BY <1>10 DEF NodeLoses, NodeReads, NodeDrained, GateLoses, CloseForgets,
     nodeVars, wireVars, tableVars, workVars, fwdVars, MadeInOrder, Typed, Table
<1>11. ASSUME NEW f \in Clients,
           ForwardFinds(f) \/ ForwardReads(f) \/ ForwardSends(f)
      PROVE  MadeInOrder'
  BY <1>11 DEF ForwardFinds, ForwardReads, ForwardSends,
     nodeVars, wireVars, tableVars, workVars, fwdVars, MadeInOrder, Typed, Table
<1> QED  BY <1>1, <1>2, <1>3, <1>4, <1>5, <1>6, <1>7, <1>8, <1>9, <1>10, <1>11, StepCases, Zenon

LEMMA StagesStep ==
    ASSUME Typed, Stages, [Next]_vars
    PROVE  Stages'
<1> USE ConstantsAreOK DEF ConstantsOK
<1>1. CASE UNCHANGED vars
  BY <1>1 DEF vars, nodeVars, wireVars, tableVars, workVars, fwdVars, Stages, Typed
<1>2. ASSUME NEW s \in Shards, Dial(s) PROVE Stages'
  <2>1. PICK c \in Conns : c = dials + 1  BY <1>2 DEF Dial, Typed, Conns
  <2>2. /\ dials' = c /\ there' = [there EXCEPT ![c] = "open"] /\ known' = known \cup {c}
        /\ reader' = reader /\ cleared' = cleared
    BY <1>2, <2>1 DEF Dial
  <2>3. there[c] = "none" /\ dials \in Nat  BY <2>1 DEF Stages, Typed, Conns
  <2> QED  BY <2>1, <2>2, <2>3 DEF Stages, Typed, Conns
<1>3. ASSUME NEW s \in Shards,
           RegisterChecks(s) \/ RegisterSends(s) \/ RegisterQuits(s)
      PROVE  Stages'
  BY <1>3 DEF RegisterChecks, RegisterSends, RegisterQuits,
     nodeVars, wireVars, tableVars, workVars, fwdVars, Stages, Typed
<1>4. ASSUME StopBegins \/ StopTells \/ StopCloses \/ Restart PROVE Stages'
  BY <1>4 DEF StopBegins, StopTells, StopCloses, Restart,
     nodeVars, wireVars, tableVars, workVars, fwdVars, Stages, Typed
<1>5. ASSUME NEW c \in Conns, GateLoses(c) PROVE Stages'
  BY <1>5 DEF GateLoses, nodeVars, wireVars, tableVars, workVars, fwdVars, Stages, Typed
<1>6. ASSUME NEW c \in Conns, ReadRegister(c) PROVE Stages'
  BY <1>6 DEF ReadRegister, Reading, nodeVars, Stages, Typed
<1>7. ASSUME NEW c \in Conns, FindServer(c) PROVE Stages'
  BY <1>7 DEF FindServer, nodeVars, wireVars, tableVars, workVars, fwdVars, Stages, Typed
<1>8. ASSUME NEW c \in Conns, Attach(c) PROVE Stages'
  BY <1>8 DEF Attach, nodeVars, wireVars, tableVars, workVars, fwdVars, Stages, Typed
<1>9. ASSUME NEW c \in Conns, CloseFinds(c) PROVE Stages'
  BY <1>9 DEF CloseFinds, nodeVars, wireVars, tableVars, workVars, fwdVars, Stages, Typed
<1>10. ASSUME NEW c \in Conns, CloseDetaches(c) PROVE Stages'
  BY <1>10 DEF CloseDetaches, nodeVars, wireVars, tableVars, workVars, fwdVars, Stages, Typed
<1>11. ASSUME NEW c \in Conns, CloseForgets(c) PROVE Stages'
  BY <1>11 DEF CloseForgets, nodeVars, wireVars, tableVars, workVars, fwdVars, Stages, Typed
<1>12. ASSUME NEW c \in Conns,
           NodeLoses(c) \/ NodeReads(c) \/ NodeDrained(c)
           \/ ReadUnregister(c)
      PROVE  Stages'
  BY <1>12 DEF NodeLoses, NodeReads, NodeDrained, ReadUnregister,
     nodeVars, wireVars, tableVars, workVars, fwdVars, Stages, Typed
<1>13. ASSUME NEW f \in Clients,
           ForwardFinds(f) \/ ForwardReads(f) \/ ForwardSends(f)
      PROVE  Stages'
  BY <1>13 DEF ForwardFinds, ForwardReads, ForwardSends,
     nodeVars, wireVars, tableVars, workVars, fwdVars, Stages, Typed
<1> QED  BY <1>1, <1>2, <1>3, <1>4, <1>5, <1>6, <1>7, <1>8, <1>9, <1>10, <1>11, <1>12, <1>13, StepCases, Zenon

LEMMA SlotsStep ==
    ASSUME Typed, Held, MadeInOrder, Stages, SlotsSound, [Next]_vars
    PROVE  SlotsSound'
<1> USE ConstantsAreOK DEF ConstantsOK
<1>1. CASE UNCHANGED vars
  BY <1>1 DEF vars, nodeVars, wireVars, tableVars, workVars, fwdVars, SlotsSound, Typed, Table
<1>2. ASSUME NEW s \in Shards, Dial(s) PROVE SlotsSound'
  <2>1. PICK d \in Conns : d = dials + 1  BY <1>2 DEF Dial, Typed, Conns
  <2>2. /\ there' = [there EXCEPT ![d] = "open"] /\ shard' = [shard EXCEPT ![d] = s]
        /\ slots' = slots /\ bound' = bound /\ obj' = obj /\ server' = server
    BY <1>2, <2>1 DEF Dial
  <2>3. there[d] = "none"  BY <2>1 DEF Stages, Typed, Conns
  <2> QED  BY <2>2, <2>3 DEF SlotsSound, Typed, Table
<1>3. ASSUME NEW s \in Shards,
           RegisterChecks(s) \/ RegisterSends(s) \/ RegisterQuits(s)
      PROVE  SlotsSound'
  BY <1>3 DEF RegisterChecks, RegisterSends, RegisterQuits,
     nodeVars, wireVars, tableVars, workVars, fwdVars, SlotsSound, Typed, Table
<1>4. ASSUME StopBegins \/ StopTells \/ StopCloses \/ Restart PROVE SlotsSound'
  BY <1>4 DEF StopBegins, StopTells, StopCloses, Restart,
     nodeVars, wireVars, tableVars, workVars, fwdVars, SlotsSound, Typed, Table
<1>5. ASSUME NEW c \in Conns, GateLoses(c) PROVE SlotsSound'
  BY <1>5 DEF GateLoses, nodeVars, wireVars, tableVars, workVars, fwdVars, SlotsSound, Typed, Table
<1>6. ASSUME NEW c \in Conns, ReadRegister(c) PROVE SlotsSound'
  <2>1. slots' = slots /\ shard' = shard /\ there' = there /\ bound' = bound /\ obj' = obj
    BY <1>6 DEF ReadRegister, nodeVars
  <2>2. CASE server = NoServer
    <3>1. server' = made + 1 /\ made \in Nat  BY <1>6, <2>2 DEF ReadRegister
    <3>2. \A o \in Servers : o = server' => \A s \in Shards : slots[o][s] = NoConn
      BY <3>1 DEF MadeInOrder, Servers
    <3> QED  BY <2>1, <3>2 DEF SlotsSound
  <2>3. CASE server # NoServer  BY <1>6, <2>1, <2>3 DEF ReadRegister, SlotsSound
  <2> QED  BY <2>2, <2>3
<1>7. ASSUME NEW c \in Conns, FindServer(c) PROVE SlotsSound'
  BY <1>7 DEF FindServer, nodeVars, wireVars, tableVars, workVars, fwdVars, SlotsSound, Typed, Table
<1>8. ASSUME NEW c \in Conns, Attach(c) PROVE SlotsSound'
  <2>1. obj[c] \in Servers /\ shard[c] \in Shards  BY <1>8 DEF Attach, Held, Typed
  <2>2. /\ slots'[obj[c]][shard[c]] = c
        /\ \A p \in Servers, t \in Shards :
              p # obj[c] \/ t # shard[c] => slots'[p][t] = slots[p][t]
    <3>1. PICK o \in Servers, t \in Shards : o = obj[c] /\ t = shard[c]  BY <2>1
    <3>2. SetSlot(o, t, c)  BY <1>8, <3>1 DEF Attach
    <3> QED  BY <3>1, <3>2, SlotSetFrame
  <2>3. there[c] \in {"open", "lost"}  BY <1>8 DEF Attach, Stages
  <2>4. /\ shard' = shard /\ there' = there /\ server' = server /\ bound' = bound \cup {c}
        /\ \A d \in Conns : d # c => obj'[d] = obj[d]
    BY <1>8 DEF Attach, nodeVars, Typed
  <2> QED  BY <2>1, <2>2, <2>3, <2>4 DEF SlotsSound, Typed, Table
<1>9. ASSUME NEW c \in Conns, ReadUnregister(c) PROVE SlotsSound'
  <2>1. \A o \in Servers : o # server'  BY <1>9 DEF ReadUnregister, Servers, NoServer
  <2> QED  BY <1>9, <2>1 DEF ReadUnregister, nodeVars, workVars, SlotsSound
<1>10. ASSUME NEW c \in Conns, CloseFinds(c) PROVE SlotsSound'
  <2>1. /\ slots' = slots /\ shard' = shard /\ bound' = bound /\ server' = server
        /\ \A d \in Conns : d # c => there'[d] = there[d] /\ obj'[d] = obj[d]
        /\ there'[c] # "none"
    BY <1>10 DEF CloseFinds, nodeVars, tableVars, Typed
  <2>2. server \in Servers /\ c \in bound => there'[c] = "detach" /\ obj'[c] = server
    BY <1>10 DEF CloseFinds, Typed, Servers, NoServer
  <2> QED  BY <2>1, <2>2 DEF SlotsSound, Typed, Table
<1>11. ASSUME NEW c \in Conns, CloseDetaches(c) PROVE SlotsSound'
  <2>1. obj[c] \in Servers /\ shard[c] \in Shards  BY <1>11 DEF CloseDetaches, Held, Typed
  <2>2. /\ slots'[obj[c]][shard[c]] = NoConn
        /\ \A p \in Servers, t \in Shards :
              p # obj[c] \/ t # shard[c] => slots'[p][t] = slots[p][t]
    <3>1. PICK o \in Servers, t \in Shards : o = obj[c] /\ t = shard[c]  BY <2>1
    <3>2. SetSlot(o, t, NoConn)  BY <1>11, <3>1 DEF CloseDetaches
    <3> QED  BY <3>1, <3>2, SlotSetFrame
  <2>3. there[c] = "detach" /\ there' = [there EXCEPT ![c] = "forget"]
    BY <1>11 DEF CloseDetaches
  <2>4. /\ shard' = shard /\ server' = server /\ bound' = bound
        /\ \A d \in Conns : d # c => obj'[d] = obj[d] /\ there'[d] = there[d]
        /\ there'[c] # "none"
    BY <1>11 DEF CloseDetaches, nodeVars, Typed
  <2>5. \A p \in Servers : \A t \in Shards :
          slots'[p][t] # NoConn => /\ slots'[p][t] = slots[p][t]
                                   /\ p = server => slots[p][t] # c
    BY <2>1, <2>2, <2>3 DEF SlotsSound
  <2> QED  BY <2>4, <2>5 DEF SlotsSound, Typed, Table
<1>12. ASSUME NEW c \in Conns, CloseForgets(c) PROVE SlotsSound'
  BY <1>12 DEF CloseForgets, nodeVars, wireVars, tableVars, workVars, fwdVars, SlotsSound, Typed, Table
<1>13. ASSUME NEW c \in Conns,
           NodeLoses(c) \/ NodeReads(c) \/ NodeDrained(c)
      PROVE  SlotsSound'
  BY <1>13 DEF NodeLoses, NodeReads, NodeDrained,
     nodeVars, wireVars, tableVars, workVars, fwdVars, SlotsSound, Typed, Table
<1>14. ASSUME NEW f \in Clients,
           ForwardFinds(f) \/ ForwardReads(f) \/ ForwardSends(f)
      PROVE  SlotsSound'
  BY <1>14, SMTT(60) DEF ForwardFinds, ForwardReads, ForwardSends,
     nodeVars, wireVars, tableVars, workVars, fwdVars, SlotsSound, Typed, Table
<1> QED  BY <1>1, <1>2, <1>3, <1>4, <1>5, <1>6, <1>7, <1>8, <1>9, <1>10, <1>11, <1>12, <1>13, <1>14, StepCases, Zenon

\* The connections a slot of the current LogicServer holds are not cleared, so the
\* recount after writing a slot counts every occupied one.
LEMMA Recount ==
    ASSUME Typed, Stages, SlotsSound, ActiveIsCount,
           NEW o \in Servers, NEW s \in Shards, NEW c \in Conns \cup {NoConn},
           SetSlot(o, s, c), c # NoConn => c \notin cleared, server' = server
    PROVE  ActiveIsCount'
<1>1. CASE server = o
  <2>1. /\ slots'[o][s] = c
        /\ \A t \in Shards : t # s => slots'[o][t] = slots[o][t]
        /\ active'[o] = Cardinality({t \in Shards : slots'[o][t] # NoConn
                                                     /\ slots'[o][t] \notin cleared})
    BY SlotSet
  <2>2. \A t \in Shards : slots[o][t] # NoConn => slots[o][t] \notin cleared
    BY <1>1 DEF SlotsSound, Stages, Typed, Table
  <2>3. {t \in Shards : slots'[o][t] # NoConn /\ slots'[o][t] \notin cleared}
          = {t \in Shards : slots'[o][t] # NoConn}
    BY <2>1, <2>2
  <2> QED  BY <1>1, <2>1, <2>3 DEF ActiveIsCount
<1>2. CASE server # o
  <2>1. server # NoServer => server \in Servers  BY DEF Typed, Table
  <2>2. server # NoServer =>
          active'[server] = active[server]
          /\ \A t \in Shards : slots'[server][t] = slots[server][t]
    BY <1>2, <2>1, SlotSet, ZenonT(60)
  <2>3. server # NoServer => {t \in Shards : slots'[server][t] # NoConn}
                               = {t \in Shards : slots[server][t] # NoConn}
    BY <2>2
  <2> QED  BY <2>2, <2>3 DEF ActiveIsCount
<1> QED  BY <1>1, <1>2

LEMMA CountStep ==
    ASSUME Typed, Held, MadeInOrder, Stages, SlotsSound, ActiveIsCount, [Next]_vars
    PROVE  ActiveIsCount'
<1> USE ConstantsAreOK DEF ConstantsOK
<1>1. CASE UNCHANGED vars
  BY <1>1 DEF vars, nodeVars, wireVars, tableVars, workVars, fwdVars, ActiveIsCount
<1>2. ASSUME NEW s \in Shards,
           Dial(s) \/ RegisterChecks(s) \/ RegisterSends(s)
           \/ RegisterQuits(s)
      PROVE  ActiveIsCount'
  BY <1>2 DEF Dial, RegisterChecks, RegisterSends, RegisterQuits,
     nodeVars, wireVars, tableVars, workVars, fwdVars, ActiveIsCount
<1>3. ASSUME StopBegins \/ StopTells \/ StopCloses \/ Restart PROVE ActiveIsCount'
  BY <1>3 DEF StopBegins, StopTells, StopCloses, Restart,
     nodeVars, wireVars, tableVars, workVars, fwdVars, ActiveIsCount
<1>4. ASSUME NEW c \in Conns, ReadRegister(c) PROVE ActiveIsCount'
  <2>1. slots' = slots /\ active' = active  BY <1>4 DEF ReadRegister
  <2>2. CASE server = NoServer
    <3>1. server' = made + 1 /\ made \in 0..MaxStops  BY <1>4, <2>2 DEF ReadRegister
    <3>2. server' \in Servers /\ server' > made  BY <3>1 DEF Servers
    <3>3. active[server'] = 0 /\ {t \in Shards : slots[server'][t] # NoConn} = {}
      BY <3>2 DEF MadeInOrder
    <3> QED  BY <2>1, <3>3, FS_EmptySet DEF ActiveIsCount
  <2>3. CASE server # NoServer  BY <1>4, <2>1, <2>3 DEF ReadRegister, ActiveIsCount
  <2> QED  BY <2>2, <2>3
<1>5. ASSUME NEW c \in Conns, Attach(c) PROVE ActiveIsCount'
  <2>1. obj[c] \in Servers /\ shard[c] \in Shards  BY <1>5 DEF Attach, Held, Typed
  <2>2. c \notin cleared  BY <1>5 DEF Attach, Stages
  <2> QED  BY <1>5, <2>1, <2>2, Recount DEF Attach
<1>6. ASSUME NEW c \in Conns, ReadUnregister(c) PROVE ActiveIsCount'
  BY <1>6 DEF ReadUnregister, ActiveIsCount
<1>7. ASSUME NEW c \in Conns, CloseDetaches(c) PROVE ActiveIsCount'
  <2>1. obj[c] \in Servers /\ shard[c] \in Shards  BY <1>7 DEF CloseDetaches, Held, Typed
  <2> QED  BY <1>7, <2>1, Recount DEF CloseDetaches
<1>8. ASSUME NEW c \in Conns,
           NodeLoses(c) \/ NodeReads(c) \/ NodeDrained(c) \/ GateLoses(c)
           \/ FindServer(c) \/ CloseFinds(c) \/ CloseForgets(c)
      PROVE  ActiveIsCount'
  BY <1>8 DEF NodeLoses, NodeReads, NodeDrained, GateLoses, FindServer, CloseFinds, CloseForgets,
     nodeVars, wireVars, tableVars, workVars, fwdVars, ActiveIsCount
<1>9. ASSUME NEW f \in Clients,
           ForwardFinds(f) \/ ForwardReads(f) \/ ForwardSends(f)
      PROVE  ActiveIsCount'
  BY <1>9 DEF ForwardFinds, ForwardReads, ForwardSends,
     nodeVars, wireVars, tableVars, workVars, fwdVars, ActiveIsCount
<1> QED  BY <1>1, <1>2, <1>3, <1>4, <1>5, <1>6, <1>7, <1>8, <1>9, StepCases, Zenon

-----------------------------------------------------------------------------
LEMMA InitHolds == Init => IInv
<1> SUFFICES ASSUME Init PROVE IInv  OBVIOUS
<1> USE ConstantsAreOK DEF ConstantsOK
<1>1. 0 \in Shards /\ MaxConns \in Nat  BY DEF Shards
<1>2. Typed
  <2>1. Table  BY DEF Init, Table
  <2>2. stop \in [at : 0..NShards, told : BOOLEAN]  BY DEF Init
  <2>3. shard \in [Conns -> Shards] /\ current \in [Shards -> Conns \cup {NoConn}]
    BY <1>1 DEF Init
  <2>4. /\ obj \in [Conns -> {NoServer} \cup Servers]
        /\ fobj \in [Clients -> {NoServer} \cup Servers]
        /\ fconn \in [Clients -> Conns \cup {NoConn}]
        /\ sent \in [Clients -> 0..MaxMsgs]
    BY DEF Init
  <2>5. /\ regs \in [Shards -> Nat] /\ ready \in [Shards -> Nat]
        /\ stops \in 0..MaxStops /\ dials \in 0..MaxConns
    BY DEF Init
  <2>6. /\ stopped \in BOOLEAN
        /\ here \in [Conns -> {"none", "open", "draining", "closed"}]
        /\ there \in [Conns -> {"none", "open", "lost", "detach", "forget", "done"}]
        /\ reader \in [Conns -> {"idle", "find", "attach"}]
        /\ fwd \in [Clients -> {"idle", "read", "send"}]
        /\ crashed \in BOOLEAN
    BY DEF Init
  <2> QED  BY <2>1, <2>2, <2>3, <2>4, <2>5, <2>6 DEF Typed
<1>3. Queues /\ Held
  <2>1. <<>> \in Seq(Clients \X (1..MaxMsgs)) /\ <<>> \in Seq({"register", "unregister"})
    BY EmptySeq
  <2>2. down = [c \in Conns |-> <<>>] /\ up = [c \in Conns |-> <<>>]
        /\ got = [f \in Clients |-> 0]
    BY DEF Init
  <2>3. Queues  BY <2>1, <2>2 DEF Queues
  <2>4. Held  BY DEF Init, Held
  <2> QED  BY <2>3, <2>4
<1>4. MadeInOrder /\ SlotsSound /\ Forwarding
  <2>1. MadeInOrder  BY DEF Init, MadeInOrder, NoServer
  <2>2. SlotsSound /\ Forwarding  BY DEF Init, SlotsSound, Forwarding
  <2> QED  BY <2>1, <2>2
<1>5. Stages  BY DEF Init, Stages, Conns
<1>6. ActiveIsCount  BY DEF Init, ActiveIsCount
<1> QED  BY <1>2, <1>3, <1>4, <1>5, <1>6, TypeOKIs DEF IInv

LEMMA StepHolds == IInv /\ [Next]_vars => IInv'
<1> SUFFICES ASSUME IInv, [Next]_vars PROVE IInv'  OBVIOUS
<1>1. Typed /\ Queues /\ Held /\ MadeInOrder /\ Stages /\ SlotsSound /\ ActiveIsCount /\ Forwarding
  BY TypeOKIs DEF IInv
<1>2. Typed'  BY <1>1, TypedStep
<1>3. Queues'  BY <1>1, QueuesStep
<1>4. Held'  BY <1>1, HeldStep
<1>5. MadeInOrder'  BY <1>1, MadeStep
<1>6. Stages'  BY <1>1, StagesStep
<1>7. SlotsSound'  BY <1>1, SlotsStep
<1>8. ActiveIsCount'  BY <1>1, CountStep
<1>9. Forwarding'  BY <1>1, ForwardingStep
<1>10. TypeOK' <=> Typed' /\ Queues' /\ Held'  BY Zenon DEF TypeOK, Typed, Queues, Held
<1> QED  BY <1>2, <1>3, <1>4, <1>5, <1>6, <1>7, <1>8, <1>9, <1>10 DEF IInv

\* The inductive invariant: what every table, reader and closer of every run satisfies.
THEOREM Invariance == Spec => []IInv
BY InitHolds, StepHolds, PTL DEF Spec

\* Every variable keeps its type, and nobody works on a LogicServer that was never
\* made (logic_mgr.go).
THEOREM TypeCorrect == Spec => []TypeOK
<1>1. IInv => TypeOK  BY DEF IInv
<1> QED  BY <1>1, Invariance, PTL

\* The table offers no connection whose OnClose is past its slot (logic_mgr.go:115,
\* server.go:243).
THEOREM AttachedIsLiveHolds == Spec => []AttachedIsLive
<1>1. IInv => AttachedIsLive
  <2> SUFFICES ASSUME IInv, NEW s \in Shards, server # NoServer, slots[server][s] # NoConn
               PROVE  LET c == slots[server][s] IN
                      /\ shard[c] = s /\ c \in known /\ c \in bound /\ c \notin cleared
                      /\ there[c] \in {"open", "lost", "detach"}
    BY DEF AttachedIsLive
  <2>1. server \in Servers /\ slots[server][s] \in Conns
    BY TypeOKIs DEF IInv, Typed, Table
  <2> QED  BY <2>1 DEF IInv, SlotsSound, Stages
<1> QED  BY <1>1, Invariance, PTL

\* The count of active connections is exact (logic_mgr.go:49, 68).
THEOREM ActiveIsCountHolds == Spec => []ActiveIsCount
<1>1. IInv => ActiveIsCount  BY DEF IInv
<1> QED  BY <1>1, Invariance, PTL

-----------------------------------------------------------------------------
(* The order of a client's messages *)

Serving(c) == here[c] \in {"open", "draining"}

\* A connection with something to deliver is the last one of its shard.
OneServes ==
    /\ \A c \in Conns : c > dials => here[c] = "none"
    /\ \A c \in Conns : Serving(c) => c = current[shard[c]]
    /\ \A c \in Conns : ~Serving(c) => down[c] = <<>>

\* A forwarder is about to use a connection of its client's shard.
Aimed ==
    \A f \in Clients : fwd[f] = "send" =>
        there[fconn[f]] # "none" /\ shard[fconn[f]] = ShardOf(f)

\* The messages of a queue are for one shard, and each client's are in order.
Orderly(q, s) ==
    \A i \in 1..Len(q) :
        /\ ShardOf(q[i][1]) = s
        /\ \A j \in 1..Len(q) : i < j /\ q[i][1] = q[j][1] => q[i][2] < q[j][2]

Ascending == \A c \in Conns : Orderly(down[c], shard[c])

\* Message n of f is still to be processed, and f's forwarder may work on a later one.
Ahead(f, n) == got[f] < n /\ n <= sent[f] /\ (fwd[f] # "idle" => n < sent[f])

Waiting == \A c \in Conns : \A i \in 1..Len(down[c]) : Ahead(down[c][i][1], down[c][i][2])

\* What was processed had been forwarded before.
Behind == \A f \in Clients : got[f] <= sent[f] /\ (fwd[f] # "idle" => got[f] < sent[f])

OrderInv == OneServes /\ Aimed /\ Ascending /\ Waiting /\ Behind

Msgs == Clients \X (1..MaxMsgs)

-----------------------------------------------------------------------------
\* Queues

\* A stretch of an orderly queue is orderly.
LEMMA Stretch ==
    ASSUME NEW q \in Seq(Msgs), NEW r \in Seq(Msgs), NEW s, NEW k \in Nat,
           Len(r) + k <= Len(q), \A i \in 1..Len(r) : r[i] = q[i + k],
           Orderly(q, s)
    PROVE  Orderly(r, s)
<1>1. Len(q) \in Nat /\ Len(r) \in Nat  BY LenProperties
<1>2. ASSUME NEW i \in 1..Len(r) PROVE i + k \in 1..Len(q)  BY <1>1
<1>3. ASSUME NEW i \in 1..Len(r), NEW j \in 1..Len(r), i < j, r[i][1] = r[j][1]
      PROVE  r[i][2] < r[j][2]
  <2>1. i + k \in 1..Len(q) /\ j + k \in 1..Len(q) /\ i + k < j + k  BY <1>2, <1>3
  <2>2. r[i] = q[i + k] /\ r[j] = q[j + k]  OBVIOUS
  <2> QED  BY <1>3, <2>1, <2>2 DEF Orderly
<1>4. ASSUME NEW i \in 1..Len(r) PROVE ShardOf(r[i][1]) = s
  <2>1. i + k \in 1..Len(q) /\ r[i] = q[i + k]  BY <1>2
  <2> QED  BY <2>1 DEF Orderly
<1> QED  BY <1>3, <1>4 DEF Orderly

LEMMA PrefixOrderly ==
    ASSUME NEW q \in Seq(Msgs), NEW n \in 0..Len(q), NEW s, Orderly(q, s)
    PROVE  Orderly(SubSeq(q, 1, n), s)
<1> DEFINE r == SubSeq(q, 1, n)
<1>1. r \in Seq(Msgs) /\ Len(r) = n /\ \A i \in 1..n : r[i] = q[i]  BY PrefixOf
<1>2. Len(q) \in Nat  BY LenProperties
<1> HIDE DEF r
<1>3. Len(r) + 0 <= Len(q) /\ \A i \in 1..Len(r) : r[i] = q[i + 0]  BY <1>1, <1>2
<1>4. Orderly(r, s)  BY <1>1, <1>3, Stretch
<1> QED  BY <1>4 DEF r

LEMMA TailOrderly ==
    ASSUME NEW q \in Seq(Msgs), q # <<>>, NEW s, Orderly(q, s)
    PROVE  Orderly(Tail(q), s)
<1> DEFINE r == Tail(q)
<1>1. /\ r \in Seq(Msgs) /\ Len(r) = Len(q) - 1 /\ Len(q) \in Nat \ {0}
      /\ \A i \in 1..Len(r) : r[i] = q[i + 1]
  BY TailOf
<1> HIDE DEF r
<1>2. Len(r) + 1 <= Len(q)  BY <1>1
<1>3. Orderly(r, s)  BY <1>1, <1>2, Stretch
<1> QED  BY <1>3 DEF r

\* A number above all that went before may be appended.
LEMMA AppendOrderly ==
    ASSUME NEW q \in Seq(Msgs), NEW f \in Clients, NEW n \in 1..MaxMsgs, NEW s, Orderly(q, s),
           ShardOf(f) = s,
           \A i \in 1..Len(q) : q[i][1] = f => q[i][2] < n
    PROVE  Orderly(Append(q, <<f, n>>), s)
<1> DEFINE r == Append(q, <<f, n>>)
<1>1. /\ Len(r) = Len(q) + 1 /\ Len(q) \in Nat
      /\ \A i \in 1..Len(q) : r[i] = q[i]
      /\ r[Len(q) + 1] = <<f, n>>
  <2>1. <<f, n>> \in Msgs  BY DEF Msgs
  <2> QED  BY <2>1, AppendProperties, LenProperties
<1> HIDE DEF r
<1>2. ASSUME NEW i \in 1..Len(r) PROVE ShardOf(r[i][1]) = s
  <2>1. CASE i \in 1..Len(q)  BY <1>1, <2>1 DEF Orderly
  <2>2. CASE i = Len(q) + 1  BY <1>1, <2>2
  <2> QED  BY <1>1, <2>1, <2>2
<1>3. ASSUME NEW i \in 1..Len(r), NEW j \in 1..Len(r), i < j, r[i][1] = r[j][1]
      PROVE  r[i][2] < r[j][2]
  <2>1. i \in 1..Len(q) /\ r[i] = q[i]  BY <1>1, <1>3
  <2>2. CASE j \in 1..Len(q)
    <3>1. r[j] = q[j]  BY <1>1, <2>2
    <3> QED  BY <1>3, <2>1, <2>2, <3>1 DEF Orderly
  <2>3. CASE j = Len(q) + 1
    <3>1. r[j] = <<f, n>>  BY <1>1, <2>3
    <3>2. r[j][1] = f /\ r[j][2] = n  BY <3>1
    <3> QED  BY <1>3, <2>1, <3>2
  <2> QED  BY <1>1, <2>2, <2>3
<1>4. Orderly(r, s)  BY <1>2, <1>3 DEF Orderly
<1> QED  BY <1>4 DEF r


-----------------------------------------------------------------------------
\* One connection of a shard delivers

LEMMA EndsOneServes ==
    ASSUME Typed, OneServes, NEW c \in Conns, here[c] = "open", Ends(c),
           UNCHANGED <<dials, current, shard>>
    PROVE  OneServes'
<1>1. PICK n \in 0..Len(down[c]) :
          /\ here' = [here EXCEPT ![c] = "draining"]
          /\ down' = [down EXCEPT ![c] = SubSeq(@, 1, n)]
  BY DEF Ends
<1>2. \A d \in Conns : d # c => down'[d] = down[d]  BY <1>1
<1>3. \A d \in Conns : d # c => here'[d] = here[d]  BY <1>1 DEF Typed
<1>4. here'[c] = "draining" /\ here[c] \in {"open", "draining"}  BY <1>1 DEF Typed
<1> QED  BY <1>2, <1>3, <1>4 DEF OneServes, Serving

LEMMA OneServesStep ==
    ASSUME Typed, OneServes, [Next]_vars
    PROVE  OneServes'
<1> USE ConstantsAreOK DEF ConstantsOK
<1>1. CASE UNCHANGED vars
  BY <1>1 DEF vars, nodeVars, wireVars, OneServes, Serving
<1>2. ASSUME NEW s \in Shards, Dial(s) PROVE OneServes'
  <2>1. PICK d \in Conns : d = dials + 1  BY <1>2 DEF Dial, Typed, Conns
  <2>2. /\ CurrentEnd(s) = "closed" /\ dials' = d /\ down' = down
        /\ current' = [current EXCEPT ![s] = d] /\ shard' = [shard EXCEPT ![d] = s]
        /\ here' = [here EXCEPT ![d] = "open"]
    BY <1>2, <2>1 DEF Dial
  <2>3. /\ \A e \in Conns : e # d => shard'[e] = shard[e] /\ here'[e] = here[e]
        /\ shard'[d] = s /\ here'[d] = "open" /\ current'[s] = d
        /\ \A t \in Shards : t # s => current'[t] = current[t]
    BY <2>2 DEF Typed
  <2>4. \A e \in Conns : e # d /\ Serving(e) => shard[e] \in Shards /\ shard[e] # s
    BY <2>2 DEF OneServes, Serving, CurrentEnd, NoConn, Conns, Typed
  <2>5. \A e \in Conns : e > d => e > dials  BY <2>1 DEF Typed, Conns
  <2> QED  BY <2>2, <2>3, <2>4, <2>5 DEF OneServes, Serving, Conns
<1>3. ASSUME NEW s \in Shards,
           RegisterChecks(s) \/ RegisterSends(s) \/ RegisterQuits(s)
      PROVE  OneServes'
  BY <1>3 DEF RegisterChecks, RegisterSends, RegisterQuits, wireVars, OneServes, Serving
<1>4. ASSUME StopCloses PROVE OneServes'
  <2>1. UNCHANGED <<dials, current, shard>>  BY <1>4 DEF StopCloses
  <2>2. CASE Open(stop.at)
    <3>1. PICK c \in Conns : c = current[stop.at] /\ here[c] = "open"
      BY <1>4, <2>2, OpenIsConn, StopShard
    <3>2. Ends(c)  BY <1>4, <2>2, <3>1 DEF StopCloses
    <3> QED  BY <2>1, <3>1, <3>2, EndsOneServes
  <2>3. CASE ~Open(stop.at)  BY <1>4, <2>1, <2>3 DEF StopCloses, OneServes, Serving
  <2> QED  BY <2>2, <2>3
<1>5. ASSUME StopBegins \/ StopTells \/ Restart PROVE OneServes'
  BY <1>5 DEF StopBegins, StopTells, Restart, wireVars, OneServes, Serving
<1>6. ASSUME NEW c \in Conns, NodeLoses(c) PROVE OneServes'
  <2>1. here[c] = "open" /\ Ends(c) /\ UNCHANGED <<dials, current, shard>>
    BY <1>6 DEF NodeLoses, nodeVars
  <2> QED  BY <2>1, EndsOneServes
<1>7. ASSUME NEW c \in Conns, NodeReads(c) PROVE OneServes'
  <2>1. /\ Serving(c) /\ UNCHANGED <<dials, current, shard, here>>
        /\ \A d \in Conns : d # c => down'[d] = down[d]
    BY <1>7 DEF NodeReads, nodeVars, Serving
  <2> QED  BY <2>1 DEF OneServes, Serving
<1>8. ASSUME NEW c \in Conns, NodeDrained(c) PROVE OneServes'
  <2>1. /\ down[c] = <<>> /\ UNCHANGED <<dials, current, shard, down>>
        /\ \A d \in Conns : d # c => here'[d] = here[d]
        /\ here[c] = "draining" /\ here'[c] = "closed"
    BY <1>8 DEF NodeDrained, nodeVars, Typed
  <2> QED  BY <2>1 DEF OneServes, Serving
<1>9. ASSUME NEW c \in Conns,
           GateLoses(c) \/ ReadRegister(c) \/ FindServer(c) \/ Attach(c)
           \/ ReadUnregister(c) \/ CloseFinds(c) \/ CloseDetaches(c) \/ CloseForgets(c)
      PROVE  OneServes'
  BY <1>9 DEF GateLoses, ReadRegister, FindServer, Attach, ReadUnregister, CloseFinds,
     CloseDetaches, CloseForgets, nodeVars, wireVars, OneServes, Serving
<1>10. ASSUME NEW f \in Clients, ForwardSends(f) PROVE OneServes'
  <2>1. UNCHANGED <<dials, current, shard, here>>  BY <1>10 DEF ForwardSends, nodeVars
  <2>2. \A d \in Conns : down'[d] = down[d] \/ here[d] = "open"  BY <1>10 DEF ForwardSends
  <2> QED  BY <2>1, <2>2 DEF OneServes, Serving
<1>11. ASSUME NEW f \in Clients, ForwardFinds(f) \/ ForwardReads(f) PROVE OneServes'
  BY <1>11 DEF ForwardFinds, ForwardReads, nodeVars, wireVars, OneServes, Serving
<1> QED  BY <1>1, <1>2, <1>3, <1>4, <1>5, <1>6, <1>7, <1>8, <1>9, <1>10, <1>11, StepCases, Zenon

LEMMA AimedStep ==
    ASSUME Typed, Held, Stages, SlotsSound, Aimed, [Next]_vars
    PROVE  Aimed'
<1> USE ConstantsAreOK DEF ConstantsOK
<1>1. CASE UNCHANGED vars
  BY <1>1 DEF vars, nodeVars, workVars, fwdVars, Aimed
<1>2. ASSUME NEW s \in Shards, Dial(s) PROVE Aimed'
  <2>1. PICK d \in Conns : d = dials + 1  BY <1>2 DEF Dial, Typed, Conns
  <2>2. /\ there[d] = "none" /\ UNCHANGED <<fwd, fconn>>
        /\ \A e \in Conns : e # d => shard'[e] = shard[e] /\ there'[e] = there[e]
    BY <1>2, <2>1 DEF Dial, fwdVars, Typed, Conns, Stages
  <2> QED  BY <2>2 DEF Aimed, Held, Typed
<1>3. ASSUME NEW s \in Shards,
           RegisterChecks(s) \/ RegisterSends(s) \/ RegisterQuits(s)
      PROVE  Aimed'
  BY <1>3 DEF RegisterChecks, RegisterSends, RegisterQuits, workVars, fwdVars, Aimed
<1>4. ASSUME StopBegins \/ StopTells \/ StopCloses \/ Restart PROVE Aimed'
  BY <1>4 DEF StopBegins, StopTells, StopCloses, Restart, workVars, fwdVars, Aimed
<1>5. ASSUME NEW c \in Conns,
           NodeLoses(c) \/ NodeReads(c) \/ NodeDrained(c) \/ ReadRegister(c)
           \/ FindServer(c) \/ Attach(c) \/ ReadUnregister(c)
      PROVE  Aimed'
  BY <1>5 DEF NodeLoses, NodeReads, NodeDrained, ReadRegister, FindServer, Attach,
     ReadUnregister, nodeVars, workVars, fwdVars, Aimed
<1>6. ASSUME NEW c \in Conns,
           GateLoses(c) \/ CloseFinds(c) \/ CloseDetaches(c) \/ CloseForgets(c)
      PROVE  Aimed'
  <2>1. /\ UNCHANGED <<shard, fwd, fconn>>
        /\ \A e \in Conns : there'[e] = "none" => there[e] = "none"
    BY <1>6 DEF GateLoses, CloseFinds, CloseDetaches, CloseForgets, nodeVars, fwdVars, Typed
  <2> QED  BY <2>1 DEF Aimed, Held, Typed
<1>7. ASSUME NEW f \in Clients, ForwardFinds(f) PROVE Aimed'
  <2>1. /\ UNCHANGED <<shard, there, fconn>>
        /\ \A g \in Clients : fwd'[g] = "send" => fwd[g] = "send"
    BY <1>7 DEF ForwardFinds, nodeVars, workVars, Typed
  <2> QED  BY <2>1 DEF Aimed
<1>8. ASSUME NEW f \in Clients, ForwardReads(f) PROVE Aimed'
  <2>1. fobj[f] \in Servers /\ ShardOf(f) \in Shards
    BY <1>8 DEF ForwardReads, Held, Typed, ShardOf, Shards
  <2>2. PICK c \in Conns \cup {NoConn} : c = slots[fobj[f]][ShardOf(f)]
    BY <2>1 DEF Typed, Table
  <2>3. c # NoConn => shard[c] = ShardOf(f) /\ there[c] # "none"
    BY <2>1, <2>2 DEF SlotsSound
  <2>4. /\ UNCHANGED <<shard, there>>
        /\ fwd' = [fwd EXCEPT ![f] = IF c = NoConn THEN "idle" ELSE "send"]
        /\ fconn' = [fconn EXCEPT ![f] = c]
    BY <1>8, <2>2 DEF ForwardReads, nodeVars, workVars
  <2> QED  BY <2>3, <2>4 DEF Aimed, Typed
<1>9. ASSUME NEW f \in Clients, ForwardSends(f) PROVE Aimed'
  BY <1>9 DEF ForwardSends, nodeVars, workVars, Aimed, Typed
<1> QED  BY <1>1, <1>2, <1>3, <1>4, <1>5, <1>6, <1>7, <1>8, <1>9, StepCases, Zenon

-----------------------------------------------------------------------------
\* The queues

LEMMA EndsKeeps ==
    ASSUME Queues, Ascending, Waiting, NEW c \in Conns, Ends(c),
           UNCHANGED <<shard, got, sent, fwd>>
    PROVE  Ascending' /\ Waiting'
<1>1. PICK n \in 0..Len(down[c]) : down' = [down EXCEPT ![c] = SubSeq(@, 1, n)]  BY DEF Ends
<1>2. down[c] \in Seq(Msgs)  BY DEF Queues, Msgs
<1>3. /\ \A d \in Conns : d # c => down'[d] = down[d]
      /\ down'[c] = SubSeq(down[c], 1, n)
  BY <1>1 DEF Queues
<1>4. Orderly(down'[c], shard'[c])  BY <1>2, <1>3, PrefixOrderly DEF Ascending
<1>5. Ascending'  BY <1>3, <1>4 DEF Ascending
<1>6. /\ Len(down'[c]) = n /\ n \in 0..Len(down[c]) /\ Len(down[c]) \in Nat
      /\ \A i \in 1..n : down'[c][i] = down[c][i]
  BY <1>2, <1>3, PrefixOf, LenProperties
<1>7. \A i \in 1..Len(down'[c]) : i \in 1..Len(down[c]) /\ down'[c][i] = down[c][i]  BY <1>6
<1>8. Waiting'  BY <1>3, <1>7 DEF Waiting, Ahead
<1> QED  BY <1>5, <1>8

\* What waits is a message.
LEMMA MessageIs ==
    ASSUME Queues
    PROVE  \A c \in Conns : \A i \in 1..Len(down[c]) :
              \E m \in Msgs : /\ m = down[c][i]
                              /\ m[1] \in Clients /\ m[2] \in Int
BY ElementOfSeq DEF Queues, Msgs

\* Nothing of this part changes.
LEMMA QueuesFrame ==
    ASSUME Ascending, Waiting, Behind, UNCHANGED <<down, shard, got, sent, fwd>>
    PROVE  Ascending' /\ Waiting' /\ Behind'
<1>1. Ascending'  BY DEF Ascending
<1>2. Waiting'  BY DEF Waiting, Ahead
<1>3. Behind'  BY DEF Behind
<1> QED  BY <1>1, <1>2, <1>3

LEMMA ReadsInOrder ==
    ASSUME Typed, Queues, OneServes, Ascending, Waiting, Behind, NEW c \in Conns, NodeReads(c)
    PROVE  /\ Ascending' /\ Waiting' /\ Behind'
           /\ \A f \in Clients : got'[f] >= got[f]
<1>1. PICK f \in Clients, n \in 1..MaxMsgs : Head(down[c])[1] = f /\ Head(down[c])[2] = n
  <2>1. Head(down[c]) \in Clients \X (1..MaxMsgs)  BY TailOf DEF NodeReads, Queues
  <2> QED  BY <2>1
<1>2. /\ down[c] \in Seq(Msgs) /\ down[c] # <<>> /\ Serving(c)
      /\ down' = [down EXCEPT ![c] = Tail(@)] /\ got' = [got EXCEPT ![f] = n]
      /\ UNCHANGED <<shard, sent, fwd>>
  BY <1>1 DEF NodeReads, Queues, Msgs, Serving, nodeVars, fwdVars
<1>3. /\ down'[c] = Tail(down[c]) /\ got'[f] = n
      /\ \A d \in Conns : d # c => down'[d] = down[d]
      /\ \A g \in Clients : g # f => got'[g] = got[g]
  BY <1>2 DEF Queues
<1>4. /\ Head(down[c]) = down[c][1] /\ Len(down[c]) \in Nat \ {0}
      /\ Len(down'[c]) = Len(down[c]) - 1
      /\ \A i \in 1..Len(down'[c]) : down'[c][i] = down[c][i + 1]
  <2>1. PICK q \in Seq(Msgs) : q = down[c] /\ q # <<>>  BY <1>2
  <2>2. /\ Head(q) = q[1] /\ Len(q) \in Nat \ {0} /\ Len(Tail(q)) = Len(q) - 1
        /\ \A i \in 1..Len(Tail(q)) : Tail(q)[i] = q[i + 1]
    BY <2>1, TailOf
  <2> QED  BY <1>3, <2>1, <2>2
<1>5. down[c][1][1] = f /\ down[c][1][2] = n /\ 1 \in 1..Len(down[c])  BY <1>1, <1>4
<1>6. Ahead(f, n) /\ shard[c] = ShardOf(f)  BY <1>5 DEF Waiting, Ascending, Orderly
<1>7. Ascending'
  <2>1. Orderly(down'[c], shard[c])  BY <1>2, <1>3, TailOrderly DEF Ascending
  <2> QED  BY <1>2, <1>3, <2>1 DEF Ascending
<1>8. Behind'  BY <1>2, <1>3, <1>6 DEF Behind, Ahead
<1>9. ASSUME NEW g \in Clients PROVE got'[g] >= got[g]
  <2>1. got[g] \in 0..MaxMsgs /\ got[f] < n  BY <1>6 DEF Ahead, Queues
  <2>2. CASE g = f  BY <1>3, <2>1, <2>2
  <2>3. CASE g # f  BY <1>3, <2>1, <2>3
  <2> QED  BY <2>2, <2>3
<1>10. ASSUME NEW d \in Conns, NEW i \in 1..Len(down'[d])
       PROVE  \E m \in Msgs : m = down'[d][i] /\ Ahead(m[1], m[2])'
  <2>1. CASE d = c
    <3>1. i + 1 \in 1..Len(down[c]) /\ 1 < i + 1 /\ down'[c][i] = down[c][i + 1]
      BY <1>4, <2>1
    <3>2. PICK m : m = down[c][i + 1]  OBVIOUS
    <3>3. Ahead(m[1], m[2])  BY <3>1, <3>2 DEF Waiting
    <3>4. m[1] = f => n < m[2]  BY <1>5, <3>1, <3>2 DEF Ascending, Orderly
    <3>5. m \in Msgs  BY <1>2, <3>1, <3>2, ElementOfSeq
    <3>6. m[1] \in Clients /\ down'[d][i] = m  BY <2>1, <3>1, <3>2, <3>5 DEF Msgs
    <3>7. got'[m[1]] < m[2]
      <4>1. CASE m[1] = f  BY <1>3, <3>4, <4>1
      <4>2. CASE m[1] # f  BY <1>3, <3>3, <3>6, <4>2 DEF Ahead
      <4> QED  BY <4>1, <4>2
    <3>8. Ahead(m[1], m[2])'  BY <1>2, <3>3, <3>7 DEF Ahead
    <3> QED  BY <3>5, <3>6, <3>8
  <2>2. CASE d # c
    <3>1. PICK m : m = down[d][i] /\ down'[d] = down[d]  BY <1>3, <2>2
    <3>2. i \in 1..Len(down[d])  BY <3>1
    <3>3. Ahead(m[1], m[2]) /\ shard[d] = ShardOf(m[1])
      BY <3>1, <3>2 DEF Waiting, Ascending, Orderly
    <3>4. m \in Msgs  BY <3>1, <3>2, ElementOfSeq DEF Queues, Msgs
    <3>5. down[d] # <<>>  BY <3>2, EmptySeq
    <3>6. m[1] # f
      <4>1. Serving(d)  BY <3>5 DEF OneServes
      <4>2. d = current[shard[d]] /\ c = current[shard[c]]  BY <1>2, <4>1 DEF OneServes
      <4> QED  BY <1>6, <2>2, <3>3, <4>2
    <3>7. got'[m[1]] = got[m[1]]  BY <1>3, <3>4, <3>6 DEF Msgs
    <3>8. Ahead(m[1], m[2])'  BY <1>2, <3>3, <3>7 DEF Ahead
    <3> QED  BY <3>1, <3>4, <3>8
  <2> QED  BY <2>1, <2>2
<1>11. Waiting'
  <2> SUFFICES ASSUME NEW d \in Conns, NEW i \in 1..Len(down'[d])
               PROVE  Ahead(down[d][i][1], down[d][i][2])'
    BY DEF Waiting
  <2> QED  BY <1>10 DEF Ahead
<1> QED  BY <1>7, <1>8, <1>9, <1>11

\* The forwarder of f moves on: it may count its next message.
LEMMA ForwarderKeeps ==
    ASSUME Typed, Queues, Ascending, Waiting, Behind, NEW f \in Clients, ForwardFinds(f) \/ ForwardReads(f)
    PROVE  Ascending' /\ Waiting' /\ Behind'
<1>1. UNCHANGED <<down, shard, got>>
  BY DEF ForwardFinds, ForwardReads, nodeVars, wireVars
<1>2. /\ \A g \in Clients : g # f => sent'[g] = sent[g] /\ fwd'[g] = fwd[g]
      /\ \/ fwd[f] = "idle" /\ sent'[f] = sent[f] + 1
         \/ fwd[f] # "idle" /\ sent'[f] = sent[f]
  BY DEF ForwardFinds, ForwardReads, Typed
<1>3. \A g \in Clients : sent[g] \in Int  BY DEF Typed
<1>4. Ascending'  BY <1>1 DEF Ascending
<1>5. ASSUME NEW g \in Clients, NEW n \in Int, Ahead(g, n) PROVE Ahead(g, n)'
  BY <1>1, <1>2, <1>3, <1>5 DEF Ahead
<1>6. Waiting'  BY <1>1, <1>5, MessageIs DEF Waiting
<1>7. Behind'  BY <1>1, <1>2, <1>3, SMTT(60) DEF Behind, Queues
<1> QED  BY <1>4, <1>6, <1>7

\* The forwarder of f sends, on a connection of its shard or on none that arrives.
LEMMA SendKeeps ==
    ASSUME Typed, Queues, Held, Forwarding, Aimed, Ascending, Waiting, Behind,
           NEW f \in Clients, ForwardSends(f)
    PROVE  Ascending' /\ Waiting' /\ Behind'
<1>1. PICK c \in Conns, n \in 1..MaxMsgs : c = fconn[f] /\ n = sent[f]
  <2>1. fwd[f] = "send"  BY DEF ForwardSends
  <2>2. fconn[f] \in Conns  BY <2>1 DEF Held, Typed
  <2>3. sent[f] \in 0..MaxMsgs /\ sent[f] > 0  BY <2>1 DEF Typed, Forwarding
  <2> QED  BY <2>2, <2>3
<1>2. /\ fwd[f] = "send" /\ fwd' = [fwd EXCEPT ![f] = "idle"]
      /\ UNCHANGED <<shard, got, sent>>
  BY DEF ForwardSends, nodeVars
<1>3. ASSUME NEW g \in Clients, NEW k \in Int, Ahead(g, k) PROVE Ahead(g, k)'
  BY <1>2, <1>3 DEF Ahead, Typed
<1>4. Behind'  BY <1>2 DEF Behind, Typed
<1>5. CASE down' = down
  <2>1. Ascending'  BY <1>2, <1>5 DEF Ascending
  <2>2. Waiting'  BY <1>3, <1>5, MessageIs DEF Waiting
  <2> QED  BY <1>4, <2>1, <2>2
<1>6. CASE down' = [down EXCEPT ![c] = Append(@, <<f, n>>)]
  <2>1. PICK q \in Seq(Msgs) : q = down[c]  BY DEF Queues, Msgs
  <2>2. /\ down'[c] = Append(q, <<f, n>>) /\ \A d \in Conns : d # c => down'[d] = down[d]
    BY <1>6, <2>1 DEF Queues
  <2>3. \A i \in 1..Len(q) : q[i][1] = f => q[i][2] < n
    BY <1>1, <1>2, <2>1 DEF Waiting, Ahead
  <2>4. Orderly(down'[c], shard[c])
    <3>1. shard[c] = ShardOf(f)  BY <1>1, <1>2 DEF Aimed
    <3>2. Orderly(q, shard[c])  BY <2>1 DEF Ascending
    <3> QED  BY <2>2, <2>3, <3>1, <3>2, AppendOrderly
  <2>5. Ascending'  BY <1>2, <2>2, <2>4 DEF Ascending
  <2>6. Ahead(f, n)'
    <3>1. got[f] < n /\ sent[f] = n  BY <1>1, <1>2 DEF Behind
    <3> QED  BY <1>2, <3>1 DEF Ahead, Typed
  <2>7. /\ Len(down'[c]) = Len(q) + 1 /\ Len(q) \in Nat
        /\ \A i \in 1..Len(q) : down'[c][i] = q[i]
        /\ down'[c][Len(q) + 1] = <<f, n>>
    <3>1. <<f, n>> \in Msgs  BY DEF Msgs
    <3> QED  BY <2>2, <3>1, AppendProperties, LenProperties
  <2>8. ASSUME NEW d \in Conns, NEW i \in 1..Len(down'[d])
        PROVE  \E m \in Msgs : m = down'[d][i] /\ Ahead(m[1], m[2])'
    <3>1. CASE d = c /\ i = Len(q) + 1  BY <2>6, <2>7, <3>1 DEF Msgs
    <3>2. CASE ~(d = c /\ i = Len(q) + 1)
      <4>1. i \in 1..Len(down[d]) /\ down'[d][i] = down[d][i]  BY <2>1, <2>2, <2>7, <3>2
      <4>2. PICK m \in Msgs : m = down[d][i] /\ Ahead(m[1], m[2])
        BY <4>1, MessageIs DEF Waiting
      <4>3. m[1] \in Clients /\ m[2] \in Int  BY <4>2 DEF Msgs
      <4>4. Ahead(m[1], m[2])'  BY <1>3, <4>2, <4>3
      <4> QED  BY <4>1, <4>2, <4>4
    <3> QED  BY <3>1, <3>2
  <2>9. Waiting'
    <3> SUFFICES ASSUME NEW d \in Conns, NEW i \in 1..Len(down'[d])
                 PROVE  Ahead(down[d][i][1], down[d][i][2])'
      BY DEF Waiting
    <3> QED  BY <2>8 DEF Ahead
  <2> QED  BY <1>4, <2>5, <2>9
<1> QED  BY <1>1, <1>5, <1>6 DEF ForwardSends

\* Every step keeps the order.
LEMMA OrderStep ==
    ASSUME Typed, Queues, Held, Forwarding, Stages, SlotsSound, OrderInv, [Next]_vars
    PROVE  Ascending' /\ Waiting' /\ Behind' /\ \A f \in Clients : got'[f] >= got[f]
<1> DEFINE P == Ascending' /\ Waiting' /\ Behind' /\ \A f \in Clients : got'[f] >= got[f]
<1>0. OneServes /\ Aimed /\ Ascending /\ Waiting /\ Behind  BY DEF OrderInv
<1>a. got' = got => \A f \in Clients : got'[f] >= got[f]  BY DEF Queues
<1>1. CASE UNCHANGED vars
  <2>1. UNCHANGED <<down, shard, got, sent, fwd>>
    BY <1>1 DEF vars, nodeVars, wireVars, fwdVars
  <2> QED  BY <1>0, <1>a, <2>1, QueuesFrame
<1>2. ASSUME NEW s \in Shards, Dial(s) PROVE P
  <2>1. PICK d \in Conns : d = dials + 1 /\ d > dials
    BY <1>2, ConstantsAreOK DEF ConstantsOK, Dial, Typed, Conns
  <2>2. down[d] = <<>> /\ \A e \in Conns : e # d => shard'[e] = shard[e]
    BY <1>0, <1>2, <2>1 DEF Dial, OneServes, Serving, Typed
  <2>3. UNCHANGED <<down, got, sent, fwd>>  BY <1>2 DEF Dial, fwdVars
  <2>4. Len(down[d]) = 0  BY <2>2
  <2>5. Orderly(down[d], shard'[d])  BY <2>4 DEF Orderly
  <2>6. Ascending'  BY <1>0, <2>2, <2>3, <2>5 DEF Ascending
  <2>7. Waiting'  BY <1>0, <2>3 DEF Waiting, Ahead
  <2>8. Behind'  BY <1>0, <2>3 DEF Behind
  <2> QED  BY <1>a, <2>3, <2>6, <2>7, <2>8
<1>3. ASSUME NEW s \in Shards,
           RegisterChecks(s) \/ RegisterSends(s) \/ RegisterQuits(s)
      PROVE  P
  <2>1. UNCHANGED <<down, shard, got, sent, fwd>>
    BY <1>3 DEF RegisterChecks, RegisterSends, RegisterQuits, wireVars, fwdVars
  <2> QED  BY <1>0, <1>a, <2>1, QueuesFrame
<1>4. ASSUME StopBegins \/ StopTells \/ Restart PROVE P
  <2>1. UNCHANGED <<down, shard, got, sent, fwd>>
    BY <1>4 DEF StopBegins, StopTells, Restart, wireVars, fwdVars
  <2> QED  BY <1>0, <1>a, <2>1, QueuesFrame
<1>5. ASSUME StopCloses PROVE P
  <2>1. UNCHANGED <<shard, got, sent, fwd>>  BY <1>5 DEF StopCloses, fwdVars
  <2>2. CASE Open(stop.at)
    <3>1. PICK c \in Conns : c = current[stop.at]  BY <1>5, <2>2, OpenIsConn, StopShard
    <3>2. Ends(c)  BY <1>5, <2>2, <3>1 DEF StopCloses
    <3>3. Behind'  BY <1>0, <2>1 DEF Behind
    <3> QED  BY <1>0, <1>a, <2>1, <3>2, <3>3, EndsKeeps
  <2>3. CASE ~Open(stop.at)
    <3>1. down' = down  BY <1>5, <2>3 DEF StopCloses
    <3> QED  BY <1>0, <1>a, <2>1, <3>1, QueuesFrame
  <2> QED  BY <2>2, <2>3
<1>6. ASSUME NEW c \in Conns, NodeLoses(c) PROVE P
  <2>1. Ends(c) /\ UNCHANGED <<shard, got, sent, fwd>>
    BY <1>6 DEF NodeLoses, nodeVars, fwdVars
  <2>2. Behind'  BY <1>0, <2>1 DEF Behind
  <2> QED  BY <1>0, <1>a, <2>1, <2>2, EndsKeeps
<1>7. ASSUME NEW c \in Conns, NodeReads(c) PROVE P  BY <1>0, <1>7, ReadsInOrder
<1>8. ASSUME NEW c \in Conns,
           NodeDrained(c) \/ GateLoses(c) \/ ReadRegister(c) \/ FindServer(c) \/ Attach(c)
           \/ ReadUnregister(c) \/ CloseFinds(c) \/ CloseDetaches(c) \/ CloseForgets(c)
      PROVE  P
  <2>1. UNCHANGED <<down, shard, got, sent, fwd>>
    BY <1>8 DEF NodeDrained, GateLoses, ReadRegister, FindServer, Attach, ReadUnregister,
       CloseFinds, CloseDetaches, CloseForgets, nodeVars, wireVars, fwdVars
  <2> QED  BY <1>0, <1>a, <2>1, QueuesFrame
<1>9. ASSUME NEW f \in Clients, ForwardFinds(f) \/ ForwardReads(f) PROVE P
  <2>1. got' = got  BY <1>9 DEF ForwardFinds, ForwardReads, wireVars
  <2> QED  BY <1>0, <1>9, <1>a, <2>1, ForwarderKeeps
<1>10. ASSUME NEW f \in Clients, ForwardSends(f) PROVE P
  <2>1. got' = got  BY <1>10 DEF ForwardSends
  <2> QED  BY <1>0, <1>10, <1>a, <2>1, SendKeeps
<1> QED  BY <1>1, <1>2, <1>3, <1>4, <1>5, <1>6, <1>7, <1>8, <1>9, <1>10, StepCases, Zenon

-----------------------------------------------------------------------------
LEMMA OrderInit == Init => OrderInv
<1> SUFFICES ASSUME Init PROVE OrderInv  OBVIOUS
<1> USE ConstantsAreOK DEF ConstantsOK
<1>1. OneServes  BY DEF Init, OneServes, Serving
<1>2. Aimed /\ Behind  BY DEF Init, Aimed, Behind
<1>3. \A c \in Conns : Len(down[c]) = 0  BY DEF Init
<1>4. Ascending /\ Waiting  BY <1>3 DEF Ascending, Orderly, Waiting
<1> QED  BY <1>1, <1>2, <1>4 DEF OrderInv

LEMMA OrderKept ==
    ASSUME IInv, OrderInv, [Next]_vars
    PROVE  OrderInv' /\ \A f \in Clients : got'[f] >= got[f]
<1>1. Typed /\ Queues /\ Held /\ Forwarding /\ Stages /\ SlotsSound  BY TypeOKIs DEF IInv
<1>2. OneServes' /\ Aimed'  BY <1>1, OneServesStep, AimedStep DEF OrderInv
<1> QED  BY <1>1, <1>2, OrderStep DEF OrderInv

\* The logic node processes the messages of a client in the order the gate got them,
\* over losses, reconnects and restarts (doc.go:8, server.go:84).
THEOREM InOrderHolds == Spec => InOrder
<1>1. IInv /\ OrderInv /\ [Next]_vars => OrderInv'  BY OrderKept
<1>2. IInv /\ OrderInv /\ [Next]_vars => [\A f \in Clients : got'[f] >= got[f]]_vars
  BY OrderKept
<1> QED  BY <1>1, <1>2, OrderInit, Invariance, PTL DEF Spec, InOrder

=============================================================================
