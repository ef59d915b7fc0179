-------------------------- MODULE ConnectionProofs --------------------------
(***************************************************************************)
(* Proofs about who has a connection: the client over gnet (GnetClient),   *)
(* the nodes of the relay and its hub (ActorRelay), and both ends (Owners), *)
(* for any connections, loops, nodes, requests, calls and bounds.          *)
(*                                                                         *)
(* Of a client whose Connect met nothing of an earlier life, and whose     *)
(* Close met no connection that was opening (Clean): there is one          *)
(* connection or one goroutine that dials (Alone), because each status     *)
(* says which goroutines and connections there may be (ByStatus), and      *)
(* c.conn is the open connection (Held).  Close makes the loops stop by    *)
(* stopCh (Stops) and the connections by the engine they belong to         *)
(* (Engines).                                                              *)
(*                                                                         *)
(* Of the relay: the hub's session of a node is the last that registered,  *)
(* and the connection a node uses is that session or its registration is   *)
(* on the way (Dead, Replaced, Known).  A request is in one place until it *)
(* is served, and an answer is on a wire only after that (Once, Unserved,  *)
(* Replied).                                                               *)
(***************************************************************************)
EXTENDS Owners, SequenceTheorems, TLAPS

-----------------------------------------------------------------------------
(* The client                                                              *)

\* No Connect has met leftovers, and no Close has missed a connection that was opening.
Clean == ~crossed /\ ~missedOpening

\* Connections on their way in or open; the last stretch of a dial in Connect and in a
\* loop; and a loop that will still do something to the client.
Active(c) == conns[c] \in {"dialing", "opens", "reopens", "publishes", "signals", "open"}
Predial == caller.at \in {"renew", "start", "wait", "dial"}
Goes(l) == loop[l].at \in {"wait", "dial"}
Live(l) == \/ loop[l].at \in {"head", "wait", "dial", "sleep", "asleep"}
           \/ loop[l].at \in {"select", "blocked"} /\ loop[l].got = "err"

Statuses == {"Init", "Connecting", "Connected", "Reconnecting", "Reconnected", "Closing", "Closed"}
ConnPlaces == {"none", "dialing", "opens", "reopens", "publishes", "signals", "open", "left",
               "refused", "gone"}
CallerRec == [at : {"no", "renew", "start", "wait", "dial", "select", "blocked"},
              got : {"no", "ok", "err"}, gen : Nat, cli : Nat]
CloserRec == [at : {"no", "take", "stop", "engine", "wait", "closed"}, conn : Nat, cli : Nat]
LoopRec == [at : {"no", "head", "wait", "dial", "select", "blocked", "sleep", "asleep"},
            got : {"no", "ok", "err"}, gen : Nat, cli : Nat, n : Nat]
OpenChs == LoopSlots \cup {Nobody, Caller}
Types ==
  /\ need \in BOOLEAN /\ status \in Statuses /\ conn \in GConns \cup {NoConn}
  /\ conns \in [GConns -> ConnPlaces] /\ of \in [GConns -> Nat]
  /\ caller \in CallerRec /\ closer \in CloserRec /\ loop \in [LoopSlots -> LoopRec]
  /\ openCh \in OpenChs
  /\ stopCh \in Nat /\ closedTo \in Nat /\ closedTo <= stopCh
  /\ engine \in Nat /\ engines \in Nat
  /\ crossed \in BOOLEAN /\ missedOpening \in BOOLEAN

\* One connection, one loop that dials, and not both; a Connect dials when nothing is left.
OneDials == \A a, b \in GConns : Active(a) /\ Active(b) => a = b
OneGoes == \A i, j \in LoopSlots : Goes(i) /\ Goes(j) => i = j
GoesFirst == \A i \in LoopSlots, a \in GConns : ~(Goes(i) /\ Active(a))
PredialFirst ==
  Predial => /\ \A i \in LoopSlots : loop[i].at = "no"
             /\ \A a \in GConns : conns[a] \in {"none", "gone"}
             /\ status \in {"Connecting", "Closing", "Closed"}
Alone == OneDials /\ OneGoes /\ GoesFirst /\ PredialFirst

\* The event loop runs one handler of a connection at a time.
Working(a) == conns[a] \in {"opens", "reopens", "publishes", "signals", "refused"}
Turns == \A a, b \in GConns : Working(a) /\ Working(b) => a = b

NoLoops == \A i \in LoopSlots : loop[i].at = "no"
ConnsIn(set) == \A a \in GConns : conns[a] \in set

\* What each status says about loops and connections.
AsInit == status = "Init" => caller.at = "no" /\ NoLoops /\ ConnsIn({"none"})
AsConnecting == status = "Connecting" =>
  /\ caller.at # "no" /\ NoLoops
  /\ ConnsIn({"none", "gone", "dialing", "opens", "refused"})
  /\ \A a, b \in GConns : conns[a] = "refused" => ~Active(b) /\ (conns[b] = "refused" => a = b)
  /\ caller.at \in {"dial", "select", "blocked"} => caller.got # "ok"
  /\ caller.at = "blocked" => caller.gen = stopCh
\* A loop that will dial, or a dial under way that a loop waits for.
AsReconnecting == status = "Reconnecting" =>
  /\ ~Predial /\ ConnsIn({"none", "gone", "dialing", "reopens", "refused"})
  /\ \A i, j \in LoopSlots : Live(i) /\ Live(j) => i = j
  /\ \A i \in LoopSlots, a \in GConns : ~(Live(i) /\ Active(a))
  /\ \A i \in LoopSlots : loop[i].at = "dial" => openCh = i
  /\ \/ \E i \in LoopSlots : Live(i)
     \/ /\ \E a \in GConns : Active(a)
        /\ openCh \in LoopSlots /\ loop[openCh].at \in {"select", "blocked"}
AsConnected == Connected(status) =>
  /\ ~Predial /\ \A i \in LoopSlots : ~Live(i)
  /\ ConnsIn({"none", "gone", "publishes", "signals", "open", "left"})
  /\ \A a, b \in GConns : conns[a] = "left" => ~Active(b) /\ (conns[b] = "left" => a = b)
  /\ need => \E a \in GConns : Active(a) \/ conns[a] = "left"
AsClosing ==
  /\ status = "Closing" => closer.at # "no"
  /\ closer.at # "no" => Gone(status)
\* While the client is not closed nor about to renew it, stopCh is open; who waits, waits on it.
Stops ==
  /\ ~Gone(status) /\ status # "Init" /\ caller.at # "renew" => closedTo < stopCh
  /\ \A i \in LoopSlots : loop[i].at \in {"blocked", "asleep"} => loop[i].gen = stopCh
ByStatus == AsInit /\ AsConnecting /\ AsReconnecting /\ AsConnected /\ AsClosing /\ Stops

\* c.conn is the connection that is open, up to a Close that has taken it.
Held ==
  /\ conn # NoConn => /\ conns[conn] \in {"signals", "open"}
                      /\ Connected(status) \/ closer.at = "take"
  /\ \A a \in GConns : conns[a] \in {"signals", "open"} =>
                         conn = a \/ closer.at \in {"stop", "engine", "wait"}
  /\ \A a \in GConns : conns[a] = "publishes" => Connected(status) \/ closer.at = "take"
  /\ closer.at \in {"stop", "engine", "wait"} => ~Predial /\ \A i \in LoopSlots : ~Goes(i)

\* Who dials, and what is connected, has the engine of now, or the one a Close stops.
Engines ==
  /\ caller.cli # NoEngine => caller.at = "dial" /\ caller.cli = engine
  /\ \A i \in LoopSlots : loop[i].cli # NoEngine => loop[i].at = "dial" /\ loop[i].cli = engine
  /\ \A a \in GConns : Active(a) => of[a] = IF closer.at = "wait" THEN closer.cli ELSE engine

\* A loop whose channel is asked for has been told nothing yet.
Asked == openCh \in LoopSlots => loop[openCh].got = "no"

GInv == Types /\ (Clean => Alone /\ Turns /\ ByStatus /\ Held /\ Engines /\ Asked)

-----------------------------------------------------------------------------
\* What some of the actions assign, as the lemmas below use it.
LEMMA CallerDials ==
  ASSUME ConnectDials, caller \in CallerRec
  PROVE  caller' \in CallerRec /\ caller'.at \in {"select", "no"}
<1>1. caller' = [caller EXCEPT !.at = "select", !.cli = NoEngine]
      \/ caller' = [caller EXCEPT !.at = "no", !.cli = NoEngine]
  BY DEF ConnectDials
<1>2. /\ [caller EXCEPT !.at = "select", !.cli = NoEngine] \in CallerRec
      /\ [caller EXCEPT !.at = "select", !.cli = NoEngine].at = "select"
  BY DEF CallerRec, NoEngine
<1>3. /\ [caller EXCEPT !.at = "no", !.cli = NoEngine] \in CallerRec
      /\ [caller EXCEPT !.at = "no", !.cli = NoEngine].at = "no"
  BY DEF CallerRec, NoEngine
<1> QED BY <1>1, <1>2, <1>3, Zenon

LEMMA LoopMoves ==
  ASSUME NEW l \in LoopSlots, LoopWaits(l) \/ LoopBlocks(l),
         loop \in [LoopSlots -> LoopRec], stopCh \in Nat
  PROVE  loop' \in [LoopSlots -> LoopRec]
<1>1. loop[l] \in LoopRec
  OBVIOUS
<1>2. /\ [loop[l] EXCEPT !.at = "dial", !.got = "no"] \in LoopRec
      /\ [loop[l] EXCEPT !.at = "blocked", !.gen = stopCh] \in LoopRec
      /\ [loop[l] EXCEPT !.at = "asleep", !.gen = stopCh] \in LoopRec
  BY <1>1 DEF LoopRec
<1>3. \/ loop' = [loop EXCEPT ![l] = [loop[l] EXCEPT !.at = "dial", !.got = "no"]]
      \/ loop' = [loop EXCEPT ![l] = [loop[l] EXCEPT !.at = "blocked", !.gen = stopCh]]
      \/ loop' = [loop EXCEPT ![l] = [loop[l] EXCEPT !.at = "asleep", !.gen = stopCh]]
  <2>1. CASE LoopWaits(l)
    BY <2>1 DEF LoopWaits
  <2>2. CASE LoopBlocks(l) /\ loop[l].at = "select"
    BY <2>2 DEF LoopBlocks
  <2>3. CASE LoopBlocks(l) /\ loop[l].at # "select"
    BY <2>3 DEF LoopBlocks
  <2> QED BY <2>1, <2>2, <2>3
<1> QED BY <1>2, <1>3

\* A reconnect that changes the status begins a loop.
LEMMA LoopBegins ==
  ASSUME NEW c \in GConns, startReconnect(c), ~UNCHANGED <<status, loop>>
  PROVE  /\ need /\ ~Gone(status) /\ status # "Reconnecting" /\ status' = "Reconnecting"
         /\ \E k \in LoopSlots : loop[k].at = "no" /\ loop' = [loop EXCEPT ![k].at = "head", ![k].n = 0]
BY DEF startReconnect

\* A Close that found no connection, and missed none that was opening.
LEMMA NoneMissed ==
  ASSUME CloseTakes, conn = NoConn, ~missedOpening'
  PROVE  \A a \in GConns : conns[a] # "publishes"
BY Zenon DEF CloseTakes

\* Every step keeps the types.
LEMMA TypesKept ==
  ASSUME Types, GnetNext
  PROVE  Types'
<1> USE GnetSizes DEF Types, CallerRec, CloserRec, LoopRec, ConnPlaces, Statuses, OpenChs, netVars, callVars, history, Gone, NoConn, NoEngine, Nobody, Caller
<1>1. ASSUME ConnectBegins PROVE Types'
  <2>1. caller' \in CallerRec
    BY <1>1 DEF ConnectBegins
  <2>2. loop' \in [LoopSlots -> LoopRec]
    BY <1>1 DEF ConnectBegins
  <2>3. closer' \in CloserRec
    BY <1>1 DEF ConnectBegins
  <2> HIDE DEF CallerRec, LoopRec, CloserRec
  <2> QED BY <1>1, <2>1, <2>2, <2>3 DEF ConnectBegins
<1>2. ASSUME ConnectRenews PROVE Types'
  BY <1>2 DEF ConnectRenews
<1>3. ASSUME EngineStarts PROVE Types'
  BY <1>3 DEF EngineStarts
<1>4. ASSUME EngineFails PROVE Types'
  BY <1>4 DEF EngineFails
<1>5. ASSUME ConnectWaits PROVE Types'
  <2>1. caller' \in CallerRec
    BY <1>5 DEF ConnectWaits
  <2>2. loop' \in [LoopSlots -> LoopRec]
    BY <1>5 DEF ConnectWaits
  <2>3. closer' \in CloserRec
    BY <1>5 DEF ConnectWaits
  <2> HIDE DEF CallerRec, LoopRec, CloserRec
  <2> QED BY <1>5, <2>1, <2>2, <2>3 DEF ConnectWaits
<1>6. ASSUME ConnectReads PROVE Types'
  BY <1>6 DEF ConnectReads, clearOpenWait
<1>7. ASSUME ConnectDials PROVE Types'
  <2>1. caller \in CallerRec
    OBVIOUS
  <2>2. caller' \in CallerRec
    BY <1>7, <2>1, CallerDials
  <2>3. conns' \in [GConns -> ConnPlaces] /\ of' \in [GConns -> Nat]
    <3>1. CASE DialsOut(caller.cli)
      <4>1. PICK c \in GConns : conns' = [conns EXCEPT ![c] = "dialing"] /\ of' = [of EXCEPT ![c] = caller.cli]
        BY <3>1 DEF DialsOut, Unused
      <4> QED BY <4>1
    <3>2. CASE UNCHANGED <<conns, of>>
      BY <3>2
    <3> QED BY <1>7, <3>1, <3>2 DEF ConnectDials
  <2>4. status' \in Statuses /\ openCh' \in OpenChs
    BY <1>7 DEF ConnectDials, clearOpenWait
  <2> HIDE DEF CallerRec, LoopRec, CloserRec, ConnPlaces, OpenChs, Statuses
  <2> QED BY <1>7, <2>2, <2>3, <2>4 DEF ConnectDials
<1>8. ASSUME ConnectBlocks PROVE Types'
  <2>1. caller' \in CallerRec
    BY <1>8 DEF ConnectBlocks
  <2>2. loop' \in [LoopSlots -> LoopRec]
    BY <1>8 DEF ConnectBlocks
  <2>3. closer' \in CloserRec
    BY <1>8 DEF ConnectBlocks
  <2> HIDE DEF CallerRec, LoopRec, CloserRec
  <2> QED BY <1>8, <2>1, <2>2, <2>3 DEF ConnectBlocks
<1>9. ASSUME ConnectReturns PROVE Types'
  <2>1. caller' \in CallerRec
    BY <1>9 DEF ConnectReturns
  <2>2. loop' \in [LoopSlots -> LoopRec]
    BY <1>9 DEF ConnectReturns
  <2>3. closer' \in CloserRec
    BY <1>9 DEF ConnectReturns
  <2> HIDE DEF CallerRec, LoopRec, CloserRec
  <2> QED BY <1>9, <2>1, <2>2, <2>3 DEF ConnectReturns
<1>10. ASSUME CloseBegins PROVE Types'
  BY <1>10 DEF CloseBegins
<1>11. ASSUME CloseTakes PROVE Types'
  <2>1. caller' \in CallerRec
    BY <1>11 DEF CloseTakes, Signals
  <2>2. loop' \in [LoopSlots -> LoopRec]
    BY <1>11 DEF CloseTakes, Signals
  <2>3. closer' = [at |-> IF conn = NoConn THEN "closed" ELSE "stop", conn |-> conn, cli |-> closer.cli]
    BY <1>11 DEF CloseTakes
  <2>4. closer' \in CloserRec
    <3>1. conn \in Nat
      OBVIOUS
    <3> QED BY <2>3, <3>1
  <2> HIDE DEF CallerRec, LoopRec, CloserRec
  <2> QED BY <1>11, <2>1, <2>2, <2>4 DEF CloseTakes, Signals
<1>12. ASSUME CloseStops PROVE Types'
  BY <1>12 DEF CloseStops
<1>13. ASSUME CloseTakesEngine PROVE Types'
  <2>1. caller' \in CallerRec
    BY <1>13 DEF CloseTakesEngine
  <2>2. loop' \in [LoopSlots -> LoopRec]
    BY <1>13 DEF CloseTakesEngine
  <2>3. closer' \in CloserRec
    BY <1>13 DEF CloseTakesEngine
  <2> HIDE DEF CallerRec, LoopRec, CloserRec
  <2> QED BY <1>13, <2>1, <2>2, <2>3 DEF CloseTakesEngine
<1>14. ASSUME EngineStopped PROVE Types'
  BY <1>14 DEF EngineStopped
<1>15. ASSUME CloseReturns PROVE Types'
  BY <1>15 DEF CloseReturns
<1>16. ASSUME NEW l \in LoopSlots, LoopHead(l) PROVE Types'
  BY <1>16 DEF LoopHead, Ends
<1>17. ASSUME NEW l \in LoopSlots, LoopWaits(l) PROVE Types'
  <2>1. loop \in [LoopSlots -> LoopRec] /\ stopCh \in Nat
    OBVIOUS
  <2>2. loop' \in [LoopSlots -> LoopRec]
    BY <1>17, <2>1, LoopMoves
  <2> HIDE DEF CallerRec, LoopRec, CloserRec
  <2> QED BY <1>17, <2>2 DEF LoopWaits
<1>18. ASSUME NEW l \in LoopSlots, LoopReads(l) PROVE Types'
  BY <1>18 DEF LoopReads, clearOpenWait, Ends
<1>19. ASSUME NEW l \in LoopSlots, LoopDials(l) PROVE Types'
  BY <1>19 DEF LoopDials, DialsOut, clearOpenWait, Unused, Running
<1>20. ASSUME NEW l \in LoopSlots, LoopBlocks(l) PROVE Types'
  <2>1. loop \in [LoopSlots -> LoopRec] /\ stopCh \in Nat
    OBVIOUS
  <2>2. loop' \in [LoopSlots -> LoopRec]
    BY <1>20, <2>1, LoopMoves
  <2> HIDE DEF CallerRec, LoopRec, CloserRec
  <2> QED BY <1>20, <2>2 DEF LoopBlocks
<1>21. ASSUME NEW l \in LoopSlots, LoopWakes(l) PROVE Types'
  BY <1>21 DEF LoopWakes, Ends
<1>22. ASSUME NEW c \in GConns, OpenLoads(c) PROVE Types'
  BY <1>22 DEF OpenLoads, Moves, Handling
<1>23. ASSUME NEW c \in GConns, OpenStores(c) PROVE Types'
  BY <1>23 DEF OpenStores, Moves
<1>24. ASSUME NEW c \in GConns, OpenPublishes(c) PROVE Types'
  BY <1>24 DEF OpenPublishes, Moves
<1>25. ASSUME NEW c \in GConns, signalOpenResult(c) PROVE Types'
  BY <1>25 DEF signalOpenResult, Signals, Moves
<1>26. ASSUME NEW c \in GConns, OnCloseOpened(c) PROVE Types'
  BY <1>26 DEF OnCloseOpened, Moves, Lost, Handling
<1>27. ASSUME NEW c \in GConns, OnCloseUnopened(c) PROVE Types'
  BY <1>27 DEF OnCloseUnopened, Signals, Moves, Lost, Handling
<1>28. ASSUME NEW c \in GConns, startReconnect(c) PROVE Types'
  <2>1. CASE UNCHANGED <<status, loop>>
    BY <1>28, <2>1 DEF startReconnect, Moves, Handling
  <2>2. CASE ~UNCHANGED <<status, loop>>
    <3>1. /\ need /\ ~Gone(status) /\ status # "Reconnecting" /\ status' = "Reconnecting"
          /\ \E k \in LoopSlots : loop[k].at = "no" /\ loop' = [loop EXCEPT ![k].at = "head", ![k].n = 0]
      BY <1>28, <2>2, LoopBegins
    <3>2. PICK k \in LoopSlots : loop[k].at = "no" /\ loop' = [loop EXCEPT ![k].at = "head", ![k].n = 0]
      BY <3>1
    <3>3. /\ loop'[k] = [loop[k] EXCEPT !.at = "head", !.n = 0]
          /\ \A i \in LoopSlots : i # k => loop'[i] = loop[i]
      BY <3>2
    <3>4. /\ loop'[k].at = "head" /\ loop'[k].got = loop[k].got /\ loop'[k].cli = loop[k].cli /\ loop'[k].gen = loop[k].gen
      BY <3>3
    <3>5. /\ conns[c] \in {"left", "refused"} /\ conns'[c] = "gone"
          /\ \A a \in GConns : a # c => conns'[a] = conns[a]
      BY <1>28 DEF startReconnect, Moves
    <3>6. UNCHANGED <<need, stopCh, closedTo, engineStarted, engine, engines, of, conn, openCh, caller, closer, callVars, history>>
      BY <1>28 DEF startReconnect
    <3>7. [loop[k] EXCEPT !.at = "head", !.n = 0] \in LoopRec
      <4>1. loop[k] \in LoopRec
        OBVIOUS
      <4> QED BY <4>1
    <3>8. loop' \in [LoopSlots -> LoopRec]
      BY <3>2, <3>3, <3>7
    <3>9. conns' \in [GConns -> ConnPlaces]
      BY <1>28 DEF startReconnect, Moves
    <3> HIDE DEF CallerRec, LoopRec, CloserRec
    <3> QED BY <3>1, <3>6, <3>8, <3>9
  <2> QED BY <2>1, <2>2
<1> QED
  BY <1>1, <1>2, <1>3, <1>4, <1>5, <1>6, <1>7, <1>8, <1>9, <1>10, <1>11, <1>12, <1>13, <1>14, <1>15, <1>16, <1>17, <1>18, <1>19, <1>20, <1>21, <1>22, <1>23, <1>24, <1>25, <1>26, <1>27, <1>28
  DEF GnetNext, Connecting, Closing, Looping, Opening

\* At most one connection is on its way in or open: who dials finds none.
LEMMA OneDialsKept ==
  ASSUME Types, Types', Clean, Clean', Alone, Turns, ByStatus, Held, Engines, Asked, GnetNext
  PROVE  OneDials'
<1> USE GnetSizes DEF Types, CallerRec, CloserRec, LoopRec, ConnPlaces, Statuses, OpenChs, netVars, callVars, history, Gone, NoConn, NoEngine, Nobody, Caller, Alone, OneDials, OneGoes, GoesFirst, PredialFirst, ByStatus, AsInit, AsConnecting, AsReconnecting, AsConnected, AsClosing, Stops, NoLoops, ConnsIn, Connected, Clean, Held, Engines, Asked, Turns, Active, Predial, Goes, Live, Working
<1>1. ASSUME ConnectBegins PROVE OneDials'
  BY <1>1 DEF ConnectBegins, Leftovers
<1>2. ASSUME ConnectRenews PROVE OneDials'
  BY <1>2 DEF ConnectRenews
<1>3. ASSUME EngineStarts PROVE OneDials'
  BY <1>3 DEF EngineStarts
<1>4. ASSUME EngineFails PROVE OneDials'
  BY <1>4 DEF EngineFails
<1>5. ASSUME ConnectWaits PROVE OneDials'
  BY <1>5 DEF ConnectWaits
<1>6. ASSUME ConnectReads PROVE OneDials'
  BY <1>6 DEF ConnectReads, clearOpenWait
<1>7. ASSUME ConnectDials PROVE OneDials'
  BY <1>7 DEF ConnectDials, DialsOut, clearOpenWait, Unused, Running
<1>8. ASSUME ConnectBlocks PROVE OneDials'
  BY <1>8 DEF ConnectBlocks
<1>9. ASSUME ConnectReturns PROVE OneDials'
  BY <1>9 DEF ConnectReturns
<1>10. ASSUME CloseBegins PROVE OneDials'
  BY <1>10 DEF CloseBegins
<1>11. ASSUME CloseTakes PROVE OneDials'
  BY <1>11 DEF CloseTakes, Signals
<1>12. ASSUME CloseStops PROVE OneDials'
  BY <1>12 DEF CloseStops
<1>13. ASSUME CloseTakesEngine PROVE OneDials'
  BY <1>13 DEF CloseTakesEngine
<1>14. ASSUME EngineStopped PROVE OneDials'
  BY <1>14 DEF EngineStopped
<1>15. ASSUME CloseReturns PROVE OneDials'
  BY <1>15 DEF CloseReturns
<1>16. ASSUME NEW l \in LoopSlots, LoopHead(l) PROVE OneDials'
  BY <1>16 DEF LoopHead, Ends
<1>17. ASSUME NEW l \in LoopSlots, LoopWaits(l) PROVE OneDials'
  BY <1>17 DEF LoopWaits
<1>18. ASSUME NEW l \in LoopSlots, LoopReads(l) PROVE OneDials'
  BY <1>18 DEF LoopReads, clearOpenWait, Ends
<1>19. ASSUME NEW l \in LoopSlots, LoopDials(l) PROVE OneDials'
  BY <1>19 DEF LoopDials, DialsOut, clearOpenWait, Unused, Running
<1>20. ASSUME NEW l \in LoopSlots, LoopBlocks(l) PROVE OneDials'
  BY <1>20 DEF LoopBlocks
<1>21. ASSUME NEW l \in LoopSlots, LoopWakes(l) PROVE OneDials'
  BY <1>21 DEF LoopWakes, Ends
<1>22. ASSUME NEW c \in GConns, OpenLoads(c) PROVE OneDials'
  BY <1>22 DEF OpenLoads, Moves, Handling
<1>23. ASSUME NEW c \in GConns, OpenStores(c) PROVE OneDials'
  BY <1>23 DEF OpenStores, Moves
<1>24. ASSUME NEW c \in GConns, OpenPublishes(c) PROVE OneDials'
  BY <1>24 DEF OpenPublishes, Moves
<1>25. ASSUME NEW c \in GConns, signalOpenResult(c) PROVE OneDials'
  BY <1>25 DEF signalOpenResult, Signals, Moves
<1>26. ASSUME NEW c \in GConns, OnCloseOpened(c) PROVE OneDials'
  BY <1>26 DEF OnCloseOpened, Moves, Lost, Handling
<1>27. ASSUME NEW c \in GConns, OnCloseUnopened(c) PROVE OneDials'
  BY <1>27 DEF OnCloseUnopened, Signals, Moves, Lost, Handling
<1>28. ASSUME NEW c \in GConns, startReconnect(c) PROVE OneDials'
  BY <1>28 DEF startReconnect, Moves, Handling
<1> QED
  BY <1>1, <1>2, <1>3, <1>4, <1>5, <1>6, <1>7, <1>8, <1>9, <1>10, <1>11, <1>12, <1>13, <1>14, <1>15, <1>16, <1>17, <1>18, <1>19, <1>20, <1>21, <1>22, <1>23, <1>24, <1>25, <1>26, <1>27, <1>28
  DEF GnetNext, Connecting, Closing, Looping, Opening

\* At most one loop dials: a loop begins only where none is live.
LEMMA OneGoesKept ==
  ASSUME Types, Types', Clean, Clean', Alone, Turns, ByStatus, Held, Engines, Asked, GnetNext
  PROVE  OneGoes'
<1> USE GnetSizes DEF Types, CallerRec, CloserRec, LoopRec, ConnPlaces, Statuses, OpenChs, netVars, callVars, history, Gone, NoConn, NoEngine, Nobody, Caller, Alone, OneDials, OneGoes, GoesFirst, PredialFirst, ByStatus, AsInit, AsConnecting, AsReconnecting, AsConnected, AsClosing, Stops, NoLoops, ConnsIn, Connected, Clean, Held, Engines, Asked, Turns, Active, Predial, Goes, Live, Working
<1>1. ASSUME ConnectBegins PROVE OneGoes'
  BY <1>1 DEF ConnectBegins, Leftovers
<1>2. ASSUME ConnectRenews PROVE OneGoes'
  BY <1>2 DEF ConnectRenews
<1>3. ASSUME EngineStarts PROVE OneGoes'
  BY <1>3 DEF EngineStarts
<1>4. ASSUME EngineFails PROVE OneGoes'
  BY <1>4 DEF EngineFails
<1>5. ASSUME ConnectWaits PROVE OneGoes'
  BY <1>5 DEF ConnectWaits
<1>6. ASSUME ConnectReads PROVE OneGoes'
  BY <1>6 DEF ConnectReads, clearOpenWait
<1>7. ASSUME ConnectDials PROVE OneGoes'
  BY <1>7 DEF ConnectDials, DialsOut, clearOpenWait, Unused, Running
<1>8. ASSUME ConnectBlocks PROVE OneGoes'
  BY <1>8 DEF ConnectBlocks
<1>9. ASSUME ConnectReturns PROVE OneGoes'
  BY <1>9 DEF ConnectReturns
<1>10. ASSUME CloseBegins PROVE OneGoes'
  BY <1>10 DEF CloseBegins
<1>11. ASSUME CloseTakes PROVE OneGoes'
  BY <1>11 DEF CloseTakes, Signals
<1>12. ASSUME CloseStops PROVE OneGoes'
  BY <1>12 DEF CloseStops
<1>13. ASSUME CloseTakesEngine PROVE OneGoes'
  BY <1>13 DEF CloseTakesEngine
<1>14. ASSUME EngineStopped PROVE OneGoes'
  BY <1>14 DEF EngineStopped
<1>15. ASSUME CloseReturns PROVE OneGoes'
  BY <1>15 DEF CloseReturns
<1>16. ASSUME NEW l \in LoopSlots, LoopHead(l) PROVE OneGoes'
  <2>1. \A i \in LoopSlots : i # l => loop'[i] = loop[i]
    BY <1>16 DEF LoopHead, Ends
  <2>2. CASE Gone(status) \/ loop[l].n >= MaxRetries
    <3>1. loop'[l].at = "no"
      BY <1>16, <2>2 DEF LoopHead, Ends
    <3> QED BY <2>1, <3>1
  <2>3. CASE ~Gone(status)
    <3>1. status = "Reconnecting"
      <4>1. loop[l].at = "head"
        BY <1>16 DEF LoopHead
      <4> QED BY <2>3, <4>1
    <3>2. \A i \in LoopSlots : Goes(i) => i = l
      BY <1>16, <3>1 DEF LoopHead
    <3> QED BY <2>1, <3>2
  <2> QED BY <2>2, <2>3
<1>17. ASSUME NEW l \in LoopSlots, LoopWaits(l) PROVE OneGoes'
  BY <1>17 DEF LoopWaits
<1>18. ASSUME NEW l \in LoopSlots, LoopReads(l) PROVE OneGoes'
  BY <1>18 DEF LoopReads, clearOpenWait, Ends
<1>19. ASSUME NEW l \in LoopSlots, LoopDials(l) PROVE OneGoes'
  BY <1>19 DEF LoopDials, DialsOut, clearOpenWait, Unused, Running
<1>20. ASSUME NEW l \in LoopSlots, LoopBlocks(l) PROVE OneGoes'
  BY <1>20 DEF LoopBlocks
<1>21. ASSUME NEW l \in LoopSlots, LoopWakes(l) PROVE OneGoes'
  <2>1. \A i \in LoopSlots : i # l => loop'[i] = loop[i]
    BY <1>21 DEF LoopWakes, Ends
  <2>2. loop'[l].at \in {"no", "sleep", "head"}
    BY <1>21 DEF LoopWakes, Ends
  <2> QED BY <2>1, <2>2
<1>22. ASSUME NEW c \in GConns, OpenLoads(c) PROVE OneGoes'
  BY <1>22 DEF OpenLoads, Moves, Handling
<1>23. ASSUME NEW c \in GConns, OpenStores(c) PROVE OneGoes'
  BY <1>23 DEF OpenStores, Moves
<1>24. ASSUME NEW c \in GConns, OpenPublishes(c) PROVE OneGoes'
  BY <1>24 DEF OpenPublishes, Moves
<1>25. ASSUME NEW c \in GConns, signalOpenResult(c) PROVE OneGoes'
  BY <1>25 DEF signalOpenResult, Signals, Moves
<1>26. ASSUME NEW c \in GConns, OnCloseOpened(c) PROVE OneGoes'
  BY <1>26 DEF OnCloseOpened, Moves, Lost, Handling
<1>27. ASSUME NEW c \in GConns, OnCloseUnopened(c) PROVE OneGoes'
  BY <1>27 DEF OnCloseUnopened, Signals, Moves, Lost, Handling
<1>28. ASSUME NEW c \in GConns, startReconnect(c) PROVE OneGoes'
  <2>1. CASE UNCHANGED <<status, loop>>
    BY <1>28, <2>1 DEF startReconnect, Moves, Handling
  <2>2. CASE ~UNCHANGED <<status, loop>>
    <3>1. /\ need /\ ~Gone(status) /\ status # "Reconnecting" /\ status' = "Reconnecting"
          /\ \E k \in LoopSlots : loop[k].at = "no" /\ loop' = [loop EXCEPT ![k].at = "head", ![k].n = 0]
      BY <1>28, <2>2, LoopBegins
    <3>2. PICK k \in LoopSlots : loop[k].at = "no" /\ loop' = [loop EXCEPT ![k].at = "head", ![k].n = 0]
      BY <3>1
    <3>3. /\ loop'[k] = [loop[k] EXCEPT !.at = "head", !.n = 0]
          /\ \A i \in LoopSlots : i # k => loop'[i] = loop[i]
      BY <3>2
    <3>4. /\ loop'[k].at = "head" /\ loop'[k].got = loop[k].got /\ loop'[k].cli = loop[k].cli /\ loop'[k].gen = loop[k].gen
      BY <3>3
    <3>5. /\ conns[c] \in {"left", "refused"} /\ conns'[c] = "gone"
          /\ \A a \in GConns : a # c => conns'[a] = conns[a]
      BY <1>28 DEF startReconnect, Moves
    <3>6. UNCHANGED <<need, stopCh, closedTo, engineStarted, engine, engines, of, conn, openCh, caller, closer, callVars, history>>
      BY <1>28 DEF startReconnect
    <3> QED BY <1>28, <3>1, <3>3, <3>4, <3>5, <3>6
  <2> QED BY <2>1, <2>2
<1> QED
  BY <1>1, <1>2, <1>3, <1>4, <1>5, <1>6, <1>7, <1>8, <1>9, <1>10, <1>11, <1>12, <1>13, <1>14, <1>15, <1>16, <1>17, <1>18, <1>19, <1>20, <1>21, <1>22, <1>23, <1>24, <1>25, <1>26, <1>27, <1>28
  DEF GnetNext, Connecting, Closing, Looping, Opening

\* A loop that dials has no connection beside it.
LEMMA GoesFirstKept ==
  ASSUME Types, Types', Clean, Clean', Alone, Turns, ByStatus, Held, Engines, Asked, GnetNext
  PROVE  GoesFirst'
<1> USE GnetSizes DEF Types, CallerRec, CloserRec, LoopRec, ConnPlaces, Statuses, OpenChs, netVars, callVars, history, Gone, NoConn, NoEngine, Nobody, Caller, Alone, OneDials, OneGoes, GoesFirst, PredialFirst, ByStatus, AsInit, AsConnecting, AsReconnecting, AsConnected, AsClosing, Stops, NoLoops, ConnsIn, Connected, Clean, Held, Engines, Asked, Turns, Active, Predial, Goes, Live, Working
<1>1. ASSUME ConnectBegins PROVE GoesFirst'
  BY <1>1 DEF ConnectBegins, Leftovers
<1>2. ASSUME ConnectRenews PROVE GoesFirst'
  BY <1>2 DEF ConnectRenews
<1>3. ASSUME EngineStarts PROVE GoesFirst'
  BY <1>3 DEF EngineStarts
<1>4. ASSUME EngineFails PROVE GoesFirst'
  BY <1>4 DEF EngineFails
<1>5. ASSUME ConnectWaits PROVE GoesFirst'
  BY <1>5 DEF ConnectWaits
<1>6. ASSUME ConnectReads PROVE GoesFirst'
  BY <1>6 DEF ConnectReads, clearOpenWait
<1>7. ASSUME ConnectDials PROVE GoesFirst'
  BY <1>7 DEF ConnectDials, DialsOut, clearOpenWait, Unused, Running
<1>8. ASSUME ConnectBlocks PROVE GoesFirst'
  BY <1>8 DEF ConnectBlocks
<1>9. ASSUME ConnectReturns PROVE GoesFirst'
  BY <1>9 DEF ConnectReturns
<1>10. ASSUME CloseBegins PROVE GoesFirst'
  BY <1>10 DEF CloseBegins
<1>11. ASSUME CloseTakes PROVE GoesFirst'
  BY <1>11 DEF CloseTakes, Signals
<1>12. ASSUME CloseStops PROVE GoesFirst'
  BY <1>12 DEF CloseStops
<1>13. ASSUME CloseTakesEngine PROVE GoesFirst'
  BY <1>13 DEF CloseTakesEngine
<1>14. ASSUME EngineStopped PROVE GoesFirst'
  BY <1>14 DEF EngineStopped
<1>15. ASSUME CloseReturns PROVE GoesFirst'
  BY <1>15 DEF CloseReturns
<1>16. ASSUME NEW l \in LoopSlots, LoopHead(l) PROVE GoesFirst'
  BY <1>16 DEF LoopHead, Ends
<1>17. ASSUME NEW l \in LoopSlots, LoopWaits(l) PROVE GoesFirst'
  BY <1>17 DEF LoopWaits
<1>18. ASSUME NEW l \in LoopSlots, LoopReads(l) PROVE GoesFirst'
  BY <1>18 DEF LoopReads, clearOpenWait, Ends
<1>19. ASSUME NEW l \in LoopSlots, LoopDials(l) PROVE GoesFirst'
  BY <1>19 DEF LoopDials, DialsOut, clearOpenWait, Unused, Running
<1>20. ASSUME NEW l \in LoopSlots, LoopBlocks(l) PROVE GoesFirst'
  BY <1>20 DEF LoopBlocks
<1>21. ASSUME NEW l \in LoopSlots, LoopWakes(l) PROVE GoesFirst'
  BY <1>21 DEF LoopWakes, Ends
<1>22. ASSUME NEW c \in GConns, OpenLoads(c) PROVE GoesFirst'
  BY <1>22 DEF OpenLoads, Moves, Handling
<1>23. ASSUME NEW c \in GConns, OpenStores(c) PROVE GoesFirst'
  BY <1>23 DEF OpenStores, Moves
<1>24. ASSUME NEW c \in GConns, OpenPublishes(c) PROVE GoesFirst'
  BY <1>24 DEF OpenPublishes, Moves
<1>25. ASSUME NEW c \in GConns, signalOpenResult(c) PROVE GoesFirst'
  BY <1>25 DEF signalOpenResult, Signals, Moves
<1>26. ASSUME NEW c \in GConns, OnCloseOpened(c) PROVE GoesFirst'
  BY <1>26 DEF OnCloseOpened, Moves, Lost, Handling
<1>27. ASSUME NEW c \in GConns, OnCloseUnopened(c) PROVE GoesFirst'
  BY <1>27 DEF OnCloseUnopened, Signals, Moves, Lost, Handling
<1>28. ASSUME NEW c \in GConns, startReconnect(c) PROVE GoesFirst'
  <2>1. CASE UNCHANGED <<status, loop>>
    BY <1>28, <2>1 DEF startReconnect, Moves, Handling
  <2>2. CASE ~UNCHANGED <<status, loop>>
    <3>1. /\ need /\ ~Gone(status) /\ status # "Reconnecting" /\ status' = "Reconnecting"
          /\ \E k \in LoopSlots : loop[k].at = "no" /\ loop' = [loop EXCEPT ![k].at = "head", ![k].n = 0]
      BY <1>28, <2>2, LoopBegins
    <3>2. PICK k \in LoopSlots : loop[k].at = "no" /\ loop' = [loop EXCEPT ![k].at = "head", ![k].n = 0]
      BY <3>1
    <3>3. /\ loop'[k] = [loop[k] EXCEPT !.at = "head", !.n = 0]
          /\ \A i \in LoopSlots : i # k => loop'[i] = loop[i]
      BY <3>2
    <3>4. /\ loop'[k].at = "head" /\ loop'[k].got = loop[k].got /\ loop'[k].cli = loop[k].cli /\ loop'[k].gen = loop[k].gen
      BY <3>3
    <3>5. /\ conns[c] \in {"left", "refused"} /\ conns'[c] = "gone"
          /\ \A a \in GConns : a # c => conns'[a] = conns[a]
      BY <1>28 DEF startReconnect, Moves
    <3>6. UNCHANGED <<need, stopCh, closedTo, engineStarted, engine, engines, of, conn, openCh, caller, closer, callVars, history>>
      BY <1>28 DEF startReconnect
    <3> QED BY <1>28, <3>1, <3>3, <3>4, <3>5, <3>6
  <2> QED BY <2>1, <2>2
<1> QED
  BY <1>1, <1>2, <1>3, <1>4, <1>5, <1>6, <1>7, <1>8, <1>9, <1>10, <1>11, <1>12, <1>13, <1>14, <1>15, <1>16, <1>17, <1>18, <1>19, <1>20, <1>21, <1>22, <1>23, <1>24, <1>25, <1>26, <1>27, <1>28
  DEF GnetNext, Connecting, Closing, Looping, Opening

\* A Connect that is about to dial is alone, as it met no leftovers.
LEMMA PredialFirstKept ==
  ASSUME Types, Types', Clean, Clean', Alone, Turns, ByStatus, Held, Engines, Asked, GnetNext
  PROVE  PredialFirst'
<1> USE GnetSizes DEF Types, CallerRec, CloserRec, LoopRec, ConnPlaces, Statuses, OpenChs, netVars, callVars, history, Gone, NoConn, NoEngine, Nobody, Caller, Alone, OneDials, OneGoes, GoesFirst, PredialFirst, ByStatus, AsInit, AsConnecting, AsReconnecting, AsConnected, AsClosing, Stops, NoLoops, ConnsIn, Connected, Clean, Held, Engines, Asked, Turns, Active, Predial, Goes, Live, Working
<1>1. ASSUME ConnectBegins PROVE PredialFirst'
  BY <1>1 DEF ConnectBegins, Leftovers
<1>2. ASSUME ConnectRenews PROVE PredialFirst'
  BY <1>2 DEF ConnectRenews
<1>3. ASSUME EngineStarts PROVE PredialFirst'
  BY <1>3 DEF EngineStarts
<1>4. ASSUME EngineFails PROVE PredialFirst'
  BY <1>4 DEF EngineFails
<1>5. ASSUME ConnectWaits PROVE PredialFirst'
  BY <1>5 DEF ConnectWaits
<1>6. ASSUME ConnectReads PROVE PredialFirst'
  BY <1>6 DEF ConnectReads, clearOpenWait
<1>7. ASSUME ConnectDials PROVE PredialFirst'
  <2>1. caller \in CallerRec
    OBVIOUS
  <2>2. caller'.at \in {"select", "no"}
    BY <1>7, <2>1, CallerDials
  <2> QED BY <2>2
<1>8. ASSUME ConnectBlocks PROVE PredialFirst'
  BY <1>8 DEF ConnectBlocks
<1>9. ASSUME ConnectReturns PROVE PredialFirst'
  BY <1>9 DEF ConnectReturns
<1>10. ASSUME CloseBegins PROVE PredialFirst'
  BY <1>10 DEF CloseBegins
<1>11. ASSUME CloseTakes PROVE PredialFirst'
  BY <1>11 DEF CloseTakes, Signals
<1>12. ASSUME CloseStops PROVE PredialFirst'
  BY <1>12 DEF CloseStops
<1>13. ASSUME CloseTakesEngine PROVE PredialFirst'
  BY <1>13 DEF CloseTakesEngine
<1>14. ASSUME EngineStopped PROVE PredialFirst'
  BY <1>14 DEF EngineStopped
<1>15. ASSUME CloseReturns PROVE PredialFirst'
  BY <1>15 DEF CloseReturns
<1>16. ASSUME NEW l \in LoopSlots, LoopHead(l) PROVE PredialFirst'
  BY <1>16 DEF LoopHead, Ends
<1>17. ASSUME NEW l \in LoopSlots, LoopWaits(l) PROVE PredialFirst'
  BY <1>17 DEF LoopWaits
<1>18. ASSUME NEW l \in LoopSlots, LoopReads(l) PROVE PredialFirst'
  BY <1>18 DEF LoopReads, clearOpenWait, Ends
<1>19. ASSUME NEW l \in LoopSlots, LoopDials(l) PROVE PredialFirst'
  BY <1>19 DEF LoopDials, DialsOut, clearOpenWait, Unused, Running
<1>20. ASSUME NEW l \in LoopSlots, LoopBlocks(l) PROVE PredialFirst'
  BY <1>20 DEF LoopBlocks
<1>21. ASSUME NEW l \in LoopSlots, LoopWakes(l) PROVE PredialFirst'
  BY <1>21 DEF LoopWakes, Ends
<1>22. ASSUME NEW c \in GConns, OpenLoads(c) PROVE PredialFirst'
  BY <1>22 DEF OpenLoads, Moves, Handling
<1>23. ASSUME NEW c \in GConns, OpenStores(c) PROVE PredialFirst'
  BY <1>23 DEF OpenStores, Moves
<1>24. ASSUME NEW c \in GConns, OpenPublishes(c) PROVE PredialFirst'
  BY <1>24 DEF OpenPublishes, Moves
<1>25. ASSUME NEW c \in GConns, signalOpenResult(c) PROVE PredialFirst'
  BY <1>25 DEF signalOpenResult, Signals, Moves
<1>26. ASSUME NEW c \in GConns, OnCloseOpened(c) PROVE PredialFirst'
  BY <1>26 DEF OnCloseOpened, Moves, Lost, Handling
<1>27. ASSUME NEW c \in GConns, OnCloseUnopened(c) PROVE PredialFirst'
  BY <1>27 DEF OnCloseUnopened, Signals, Moves, Lost, Handling
<1>28. ASSUME NEW c \in GConns, startReconnect(c) PROVE PredialFirst'
  BY <1>28 DEF startReconnect, Moves, Handling
<1> QED
  BY <1>1, <1>2, <1>3, <1>4, <1>5, <1>6, <1>7, <1>8, <1>9, <1>10, <1>11, <1>12, <1>13, <1>14, <1>15, <1>16, <1>17, <1>18, <1>19, <1>20, <1>21, <1>22, <1>23, <1>24, <1>25, <1>26, <1>27, <1>28
  DEF GnetNext, Connecting, Closing, Looping, Opening

\* The handlers of two connections never overlap.
LEMMA TurnsKept ==
  ASSUME Types, Types', Clean, Clean', Alone, Turns, ByStatus, Held, Engines, Asked, GnetNext
  PROVE  Turns'
<1> USE GnetSizes DEF Types, CallerRec, CloserRec, LoopRec, ConnPlaces, Statuses, OpenChs, netVars, callVars, history, Gone, NoConn, NoEngine, Nobody, Caller, Alone, OneDials, OneGoes, GoesFirst, PredialFirst, ByStatus, AsInit, AsConnecting, AsReconnecting, AsConnected, AsClosing, Stops, NoLoops, ConnsIn, Connected, Clean, Held, Engines, Asked, Turns, Active, Predial, Goes, Live, Working
<1>1. ASSUME ConnectBegins PROVE Turns'
  BY <1>1 DEF ConnectBegins, Leftovers
<1>2. ASSUME ConnectRenews PROVE Turns'
  BY <1>2 DEF ConnectRenews
<1>3. ASSUME EngineStarts PROVE Turns'
  BY <1>3 DEF EngineStarts
<1>4. ASSUME EngineFails PROVE Turns'
  BY <1>4 DEF EngineFails
<1>5. ASSUME ConnectWaits PROVE Turns'
  BY <1>5 DEF ConnectWaits
<1>6. ASSUME ConnectReads PROVE Turns'
  BY <1>6 DEF ConnectReads, clearOpenWait
<1>7. ASSUME ConnectDials PROVE Turns'
  BY <1>7 DEF ConnectDials, DialsOut, clearOpenWait, Unused, Running
<1>8. ASSUME ConnectBlocks PROVE Turns'
  BY <1>8 DEF ConnectBlocks
<1>9. ASSUME ConnectReturns PROVE Turns'
  BY <1>9 DEF ConnectReturns
<1>10. ASSUME CloseBegins PROVE Turns'
  BY <1>10 DEF CloseBegins
<1>11. ASSUME CloseTakes PROVE Turns'
  BY <1>11 DEF CloseTakes, Signals
<1>12. ASSUME CloseStops PROVE Turns'
  BY <1>12 DEF CloseStops
<1>13. ASSUME CloseTakesEngine PROVE Turns'
  BY <1>13 DEF CloseTakesEngine
<1>14. ASSUME EngineStopped PROVE Turns'
  BY <1>14 DEF EngineStopped
<1>15. ASSUME CloseReturns PROVE Turns'
  BY <1>15 DEF CloseReturns
<1>16. ASSUME NEW l \in LoopSlots, LoopHead(l) PROVE Turns'
  BY <1>16 DEF LoopHead, Ends
<1>17. ASSUME NEW l \in LoopSlots, LoopWaits(l) PROVE Turns'
  BY <1>17 DEF LoopWaits
<1>18. ASSUME NEW l \in LoopSlots, LoopReads(l) PROVE Turns'
  BY <1>18 DEF LoopReads, clearOpenWait, Ends
<1>19. ASSUME NEW l \in LoopSlots, LoopDials(l) PROVE Turns'
  BY <1>19 DEF LoopDials, DialsOut, clearOpenWait, Unused, Running
<1>20. ASSUME NEW l \in LoopSlots, LoopBlocks(l) PROVE Turns'
  BY <1>20 DEF LoopBlocks
<1>21. ASSUME NEW l \in LoopSlots, LoopWakes(l) PROVE Turns'
  BY <1>21 DEF LoopWakes, Ends
<1>22. ASSUME NEW c \in GConns, OpenLoads(c) PROVE Turns'
  BY <1>22 DEF OpenLoads, Moves, Handling
<1>23. ASSUME NEW c \in GConns, OpenStores(c) PROVE Turns'
  BY <1>23 DEF OpenStores, Moves
<1>24. ASSUME NEW c \in GConns, OpenPublishes(c) PROVE Turns'
  BY <1>24 DEF OpenPublishes, Moves
<1>25. ASSUME NEW c \in GConns, signalOpenResult(c) PROVE Turns'
  BY <1>25 DEF signalOpenResult, Signals, Moves
<1>26. ASSUME NEW c \in GConns, OnCloseOpened(c) PROVE Turns'
  BY <1>26 DEF OnCloseOpened, Moves, Lost, Handling
<1>27. ASSUME NEW c \in GConns, OnCloseUnopened(c) PROVE Turns'
  BY <1>27 DEF OnCloseUnopened, Signals, Moves, Lost, Handling
<1>28. ASSUME NEW c \in GConns, startReconnect(c) PROVE Turns'
  BY <1>28 DEF startReconnect, Moves, Handling
<1> QED
  BY <1>1, <1>2, <1>3, <1>4, <1>5, <1>6, <1>7, <1>8, <1>9, <1>10, <1>11, <1>12, <1>13, <1>14, <1>15, <1>16, <1>17, <1>18, <1>19, <1>20, <1>21, <1>22, <1>23, <1>24, <1>25, <1>26, <1>27, <1>28
  DEF GnetNext, Connecting, Closing, Looping, Opening

\* Before the first Connect there is nothing.
LEMMA AsInitKept ==
  ASSUME Types, Types', Clean, Clean', Alone, Turns, ByStatus, Held, Engines, Asked, GnetNext
  PROVE  AsInit'
<1> USE GnetSizes DEF Types, CallerRec, CloserRec, LoopRec, ConnPlaces, Statuses, OpenChs, netVars, callVars, history, Gone, NoConn, NoEngine, Nobody, Caller, Alone, OneDials, OneGoes, GoesFirst, PredialFirst, ByStatus, AsInit, AsConnecting, AsReconnecting, AsConnected, AsClosing, Stops, NoLoops, ConnsIn, Connected, Clean, Held, Engines, Asked, Turns, Active, Predial, Goes, Live, Working
<1>1. ASSUME ConnectBegins PROVE AsInit'
  BY <1>1 DEF ConnectBegins, Leftovers
<1>2. ASSUME ConnectRenews PROVE AsInit'
  BY <1>2 DEF ConnectRenews
<1>3. ASSUME EngineStarts PROVE AsInit'
  BY <1>3 DEF EngineStarts
<1>4. ASSUME EngineFails PROVE AsInit'
  BY <1>4 DEF EngineFails
<1>5. ASSUME ConnectWaits PROVE AsInit'
  BY <1>5 DEF ConnectWaits
<1>6. ASSUME ConnectReads PROVE AsInit'
  BY <1>6 DEF ConnectReads, clearOpenWait
<1>7. ASSUME ConnectDials PROVE AsInit'
  BY <1>7 DEF ConnectDials, DialsOut, clearOpenWait, Unused, Running
<1>8. ASSUME ConnectBlocks PROVE AsInit'
  BY <1>8 DEF ConnectBlocks
<1>9. ASSUME ConnectReturns PROVE AsInit'
  BY <1>9 DEF ConnectReturns
<1>10. ASSUME CloseBegins PROVE AsInit'
  BY <1>10 DEF CloseBegins
<1>11. ASSUME CloseTakes PROVE AsInit'
  BY <1>11 DEF CloseTakes, Signals
<1>12. ASSUME CloseStops PROVE AsInit'
  BY <1>12 DEF CloseStops
<1>13. ASSUME CloseTakesEngine PROVE AsInit'
  BY <1>13 DEF CloseTakesEngine
<1>14. ASSUME EngineStopped PROVE AsInit'
  BY <1>14 DEF EngineStopped
<1>15. ASSUME CloseReturns PROVE AsInit'
  BY <1>15 DEF CloseReturns
<1>16. ASSUME NEW l \in LoopSlots, LoopHead(l) PROVE AsInit'
  BY <1>16 DEF LoopHead, Ends
<1>17. ASSUME NEW l \in LoopSlots, LoopWaits(l) PROVE AsInit'
  BY <1>17 DEF LoopWaits
<1>18. ASSUME NEW l \in LoopSlots, LoopReads(l) PROVE AsInit'
  BY <1>18 DEF LoopReads, clearOpenWait, Ends
<1>19. ASSUME NEW l \in LoopSlots, LoopDials(l) PROVE AsInit'
  BY <1>19 DEF LoopDials, DialsOut, clearOpenWait, Unused, Running
<1>20. ASSUME NEW l \in LoopSlots, LoopBlocks(l) PROVE AsInit'
  BY <1>20 DEF LoopBlocks
<1>21. ASSUME NEW l \in LoopSlots, LoopWakes(l) PROVE AsInit'
  BY <1>21 DEF LoopWakes, Ends
<1>22. ASSUME NEW c \in GConns, OpenLoads(c) PROVE AsInit'
  BY <1>22 DEF OpenLoads, Moves, Handling
<1>23. ASSUME NEW c \in GConns, OpenStores(c) PROVE AsInit'
  BY <1>23 DEF OpenStores, Moves
<1>24. ASSUME NEW c \in GConns, OpenPublishes(c) PROVE AsInit'
  BY <1>24 DEF OpenPublishes, Moves
<1>25. ASSUME NEW c \in GConns, signalOpenResult(c) PROVE AsInit'
  BY <1>25 DEF signalOpenResult, Signals, Moves
<1>26. ASSUME NEW c \in GConns, OnCloseOpened(c) PROVE AsInit'
  BY <1>26 DEF OnCloseOpened, Moves, Lost, Handling
<1>27. ASSUME NEW c \in GConns, OnCloseUnopened(c) PROVE AsInit'
  BY <1>27 DEF OnCloseUnopened, Signals, Moves, Lost, Handling
<1>28. ASSUME NEW c \in GConns, startReconnect(c) PROVE AsInit'
  BY <1>28 DEF startReconnect, Moves, Handling
<1> QED
  BY <1>1, <1>2, <1>3, <1>4, <1>5, <1>6, <1>7, <1>8, <1>9, <1>10, <1>11, <1>12, <1>13, <1>14, <1>15, <1>16, <1>17, <1>18, <1>19, <1>20, <1>21, <1>22, <1>23, <1>24, <1>25, <1>26, <1>27, <1>28
  DEF GnetNext, Connecting, Closing, Looping, Opening

\* While the status is Connecting, only Connect dials.
LEMMA AsConnectingKept ==
  ASSUME Types, Types', Clean, Clean', Alone, Turns, ByStatus, Held, Engines, Asked, GnetNext
  PROVE  AsConnecting'
<1> USE GnetSizes DEF Types, CallerRec, CloserRec, LoopRec, ConnPlaces, Statuses, OpenChs, netVars, callVars, history, Gone, NoConn, NoEngine, Nobody, Caller, Alone, OneDials, OneGoes, GoesFirst, PredialFirst, ByStatus, AsInit, AsConnecting, AsReconnecting, AsConnected, AsClosing, Stops, NoLoops, ConnsIn, Connected, Clean, Held, Engines, Asked, Turns, Active, Predial, Goes, Live, Working
<1>1. ASSUME ConnectBegins PROVE AsConnecting'
  BY <1>1 DEF ConnectBegins, Leftovers
<1>2. ASSUME ConnectRenews PROVE AsConnecting'
  BY <1>2 DEF ConnectRenews
<1>3. ASSUME EngineStarts PROVE AsConnecting'
  BY <1>3 DEF EngineStarts
<1>4. ASSUME EngineFails PROVE AsConnecting'
  BY <1>4 DEF EngineFails
<1>5. ASSUME ConnectWaits PROVE AsConnecting'
  BY <1>5 DEF ConnectWaits
<1>6. ASSUME ConnectReads PROVE AsConnecting'
  BY <1>6 DEF ConnectReads, clearOpenWait
<1>7. ASSUME ConnectDials PROVE AsConnecting'
  <2>1. UNCHANGED <<loop, stopCh>> /\ caller'.got = caller.got /\ caller'.at \in {"select", "no"}
    <3>1. \/ caller' = [caller EXCEPT !.at = "select", !.cli = NoEngine]
          \/ caller' = [caller EXCEPT !.at = "no", !.cli = NoEngine]
      BY <1>7 DEF ConnectDials
    <3>2. UNCHANGED <<loop, stopCh>>
      BY <1>7 DEF ConnectDials
    <3>3. caller \in CallerRec
      OBVIOUS
    <3>4. [caller EXCEPT !.at = "select", !.cli = NoEngine].got = caller.got /\ [caller EXCEPT !.at = "no", !.cli = NoEngine].got = caller.got
      BY <3>3
    <3>5. [caller EXCEPT !.at = "select", !.cli = NoEngine].at = "select" /\ [caller EXCEPT !.at = "no", !.cli = NoEngine].at = "no"
      BY <3>3
    <3>6. CASE caller' = [caller EXCEPT !.at = "select", !.cli = NoEngine]
      BY <3>2, <3>4, <3>5, <3>6
    <3>7. CASE caller' = [caller EXCEPT !.at = "no", !.cli = NoEngine]
      BY <3>2, <3>4, <3>5, <3>7
    <3> QED BY <3>1, <3>6, <3>7
  <2>2. CASE status' = "Closed"
    BY <2>2
  <2>3. CASE DialsOut(caller.cli) /\ UNCHANGED status /\ caller'.at = "select"
    <3>1. PICK c \in GConns : conns[c] = "none" /\ conns' = [conns EXCEPT ![c] = "dialing"]
      BY <2>3 DEF DialsOut, Unused
    <3>2. conns'[c] = "dialing" /\ \A a \in GConns : a # c => conns'[a] = conns[a]
      BY <3>1
    <3>3. \A a \in GConns : conns[a] \in {"none", "gone"}
      BY <1>7 DEF ConnectDials
    <3>4. \A a \in GConns : conns'[a] \in {"none", "gone", "dialing"}
      BY <3>2, <3>3
    <3> QED BY <1>7, <2>1, <2>3, <3>4 DEF ConnectDials
  <2> QED BY <1>7, <2>2, <2>3 DEF ConnectDials
<1>8. ASSUME ConnectBlocks PROVE AsConnecting'
  BY <1>8 DEF ConnectBlocks
<1>9. ASSUME ConnectReturns PROVE AsConnecting'
  BY <1>9 DEF ConnectReturns
<1>10. ASSUME CloseBegins PROVE AsConnecting'
  BY <1>10 DEF CloseBegins
<1>11. ASSUME CloseTakes PROVE AsConnecting'
  BY <1>11 DEF CloseTakes, Signals
<1>12. ASSUME CloseStops PROVE AsConnecting'
  BY <1>12 DEF CloseStops
<1>13. ASSUME CloseTakesEngine PROVE AsConnecting'
  BY <1>13 DEF CloseTakesEngine
<1>14. ASSUME EngineStopped PROVE AsConnecting'
  BY <1>14 DEF EngineStopped
<1>15. ASSUME CloseReturns PROVE AsConnecting'
  BY <1>15 DEF CloseReturns
<1>16. ASSUME NEW l \in LoopSlots, LoopHead(l) PROVE AsConnecting'
  BY <1>16 DEF LoopHead, Ends
<1>17. ASSUME NEW l \in LoopSlots, LoopWaits(l) PROVE AsConnecting'
  BY <1>17 DEF LoopWaits
<1>18. ASSUME NEW l \in LoopSlots, LoopReads(l) PROVE AsConnecting'
  BY <1>18 DEF LoopReads, clearOpenWait, Ends
<1>19. ASSUME NEW l \in LoopSlots, LoopDials(l) PROVE AsConnecting'
  BY <1>19 DEF LoopDials, DialsOut, clearOpenWait, Unused, Running
<1>20. ASSUME NEW l \in LoopSlots, LoopBlocks(l) PROVE AsConnecting'
  BY <1>20 DEF LoopBlocks
<1>21. ASSUME NEW l \in LoopSlots, LoopWakes(l) PROVE AsConnecting'
  BY <1>21 DEF LoopWakes, Ends
<1>22. ASSUME NEW c \in GConns, OpenLoads(c) PROVE AsConnecting'
  BY <1>22 DEF OpenLoads, Moves, Handling
<1>23. ASSUME NEW c \in GConns, OpenStores(c) PROVE AsConnecting'
  BY <1>23 DEF OpenStores, Moves
<1>24. ASSUME NEW c \in GConns, OpenPublishes(c) PROVE AsConnecting'
  BY <1>24 DEF OpenPublishes, Moves
<1>25. ASSUME NEW c \in GConns, signalOpenResult(c) PROVE AsConnecting'
  BY <1>25 DEF signalOpenResult, Signals, Moves
<1>26. ASSUME NEW c \in GConns, OnCloseOpened(c) PROVE AsConnecting'
  BY <1>26 DEF OnCloseOpened, Moves, Lost, Handling
<1>27. ASSUME NEW c \in GConns, OnCloseUnopened(c) PROVE AsConnecting'
  BY <1>27 DEF OnCloseUnopened, Signals, Moves, Lost, Handling
<1>28. ASSUME NEW c \in GConns, startReconnect(c) PROVE AsConnecting'
  <2>1. /\ conns[c] \in {"left", "refused"} /\ conns'[c] = "gone"
        /\ \A a \in GConns : a # c => conns'[a] = conns[a]
        /\ UNCHANGED <<caller, stopCh>>
        /\ UNCHANGED <<status, loop>> \/ status' = "Reconnecting"
    BY <1>28 DEF startReconnect, Moves
  <2>2. CASE UNCHANGED <<status, loop>>
    <3>1. \A a \in GConns : conns'[a] = "gone" \/ conns'[a] = conns[a]
      BY <2>1
    <3>2. \A a \in GConns : Active(a)' => Active(a)
      BY <3>1
    <3> QED BY <2>1, <2>2, <3>1, <3>2
  <2>3. CASE status' = "Reconnecting"
    BY <2>3
  <2> QED BY <2>1, <2>2, <2>3
<1> QED
  BY <1>1, <1>2, <1>3, <1>4, <1>5, <1>6, <1>7, <1>8, <1>9, <1>10, <1>11, <1>12, <1>13, <1>14, <1>15, <1>16, <1>17, <1>18, <1>19, <1>20, <1>21, <1>22, <1>23, <1>24, <1>25, <1>26, <1>27, <1>28
  DEF GnetNext, Connecting, Closing, Looping, Opening

\* While it is Reconnecting, a loop is at work or waits for a dial.
LEMMA AsReconnectingKept ==
  ASSUME Types, Types', Clean, Clean', Alone, Turns, ByStatus, Held, Engines, Asked, GnetNext
  PROVE  AsReconnecting'
<1> USE GnetSizes DEF Types, CallerRec, CloserRec, LoopRec, ConnPlaces, Statuses, OpenChs, netVars, callVars, history, Gone, NoConn, NoEngine, Nobody, Caller, Alone, OneDials, OneGoes, GoesFirst, PredialFirst, ByStatus, AsInit, AsConnecting, AsReconnecting, AsConnected, AsClosing, Stops, NoLoops, ConnsIn, Connected, Clean, Held, Engines, Asked, Turns, Active, Predial, Goes, Live, Working
<1>1. ASSUME ConnectBegins PROVE AsReconnecting'
  BY <1>1 DEF ConnectBegins, Leftovers
<1>2. ASSUME ConnectRenews PROVE AsReconnecting'
  BY <1>2 DEF ConnectRenews
<1>3. ASSUME EngineStarts PROVE AsReconnecting'
  BY <1>3 DEF EngineStarts
<1>4. ASSUME EngineFails PROVE AsReconnecting'
  BY <1>4 DEF EngineFails
<1>5. ASSUME ConnectWaits PROVE AsReconnecting'
  BY <1>5 DEF ConnectWaits
<1>6. ASSUME ConnectReads PROVE AsReconnecting'
  BY <1>6 DEF ConnectReads, clearOpenWait
<1>7. ASSUME ConnectDials PROVE AsReconnecting'
  BY <1>7 DEF ConnectDials, DialsOut, clearOpenWait, Unused, Running
<1>8. ASSUME ConnectBlocks PROVE AsReconnecting'
  BY <1>8 DEF ConnectBlocks
<1>9. ASSUME ConnectReturns PROVE AsReconnecting'
  BY <1>9 DEF ConnectReturns
<1>10. ASSUME CloseBegins PROVE AsReconnecting'
  BY <1>10 DEF CloseBegins
<1>11. ASSUME CloseTakes PROVE AsReconnecting'
  BY <1>11 DEF CloseTakes, Signals
<1>12. ASSUME CloseStops PROVE AsReconnecting'
  BY <1>12 DEF CloseStops
<1>13. ASSUME CloseTakesEngine PROVE AsReconnecting'
  BY <1>13 DEF CloseTakesEngine
<1>14. ASSUME EngineStopped PROVE AsReconnecting'
  BY <1>14 DEF EngineStopped
<1>15. ASSUME CloseReturns PROVE AsReconnecting'
  BY <1>15 DEF CloseReturns
<1>16. ASSUME NEW l \in LoopSlots, LoopHead(l) PROVE AsReconnecting'
  BY <1>16 DEF LoopHead, Ends
<1>17. ASSUME NEW l \in LoopSlots, LoopWaits(l) PROVE AsReconnecting'
  BY <1>17 DEF LoopWaits
<1>18. ASSUME NEW l \in LoopSlots, LoopReads(l) PROVE AsReconnecting'
  BY <1>18 DEF LoopReads, clearOpenWait, Ends
<1>19. ASSUME NEW l \in LoopSlots, LoopDials(l) PROVE AsReconnecting'
  <2>1. /\ loop[l].at = "dial" /\ UNCHANGED <<status, caller>>
        /\ \A i \in LoopSlots : i # l => loop'[i] = loop[i]
    BY <1>19 DEF LoopDials
  <2>2. CASE loop' = [loop EXCEPT ![l].at = "select", ![l].cli = NoEngine] /\ openCh' = openCh
    <3>1. PICK c \in GConns : conns[c] = "none" /\ conns' = [conns EXCEPT ![c] = "dialing"]
      BY <1>19, <2>2 DEF LoopDials, DialsOut, Unused
    <3>2. loop'[l].at = "select"
      BY <2>2
    <3> QED BY <2>1, <2>2, <3>1, <3>2
  <2>3. CASE /\ loop' = [loop EXCEPT ![l].at = "sleep", ![l].cli = NoEngine] /\ conns' = conns
             /\ clearOpenWait(l)
    <3>1. loop'[l].at = "sleep"
      BY <2>3
    <3> QED BY <2>1, <2>3, <3>1 DEF clearOpenWait
  <2> QED BY <1>19, <2>2, <2>3 DEF LoopDials
<1>20. ASSUME NEW l \in LoopSlots, LoopBlocks(l) PROVE AsReconnecting'
  BY <1>20 DEF LoopBlocks
<1>21. ASSUME NEW l \in LoopSlots, LoopWakes(l) PROVE AsReconnecting'
  <2>1. /\ \A i \in LoopSlots : i # l => loop'[i] = loop[i]
        /\ UNCHANGED <<need, status, stopCh, closedTo, conns, conn, openCh, caller, closer>>
    BY <1>21 DEF LoopWakes, Ends
  <2>2. loop'[l].at \in {"no", "sleep", "head"} /\ loop[l].at \in {"blocked", "asleep"}
    BY <1>21 DEF LoopWakes, Ends
  <2>3. CASE status # "Reconnecting"
    BY <2>1, <2>3
  <2>4. CASE status = "Reconnecting" /\ Live(l)
    <3>1. ~(loop[l].gen <= closedTo)
      BY <2>2, <2>4
    <3>2. loop'[l].at \in {"sleep", "head"}
      BY <1>21, <2>2, <2>4, <3>1 DEF LoopWakes
    <3> QED BY <2>1, <2>2, <2>4, <3>2
  <2>5. CASE status = "Reconnecting" /\ ~Live(l)
    <3>1. ~(loop[l].gen <= closedTo)
      BY <2>2, <2>5
    <3>2. loop[l].got = "ok" /\ loop'[l].at = "no"
      BY <1>21, <2>2, <2>5, <3>1 DEF LoopWakes, Ends
    <3> QED BY <2>1, <2>2, <2>5, <3>2
  <2> QED BY <2>3, <2>4, <2>5
<1>22. ASSUME NEW c \in GConns, OpenLoads(c) PROVE AsReconnecting'
  BY <1>22 DEF OpenLoads, Moves, Handling
<1>23. ASSUME NEW c \in GConns, OpenStores(c) PROVE AsReconnecting'
  BY <1>23 DEF OpenStores, Moves
<1>24. ASSUME NEW c \in GConns, OpenPublishes(c) PROVE AsReconnecting'
  BY <1>24 DEF OpenPublishes, Moves
<1>25. ASSUME NEW c \in GConns, signalOpenResult(c) PROVE AsReconnecting'
  BY <1>25 DEF signalOpenResult, Signals, Moves
<1>26. ASSUME NEW c \in GConns, OnCloseOpened(c) PROVE AsReconnecting'
  BY <1>26 DEF OnCloseOpened, Moves, Lost, Handling
<1>27. ASSUME NEW c \in GConns, OnCloseUnopened(c) PROVE AsReconnecting'
  BY <1>27 DEF OnCloseUnopened, Signals, Moves, Lost, Handling
<1>28. ASSUME NEW c \in GConns, startReconnect(c) PROVE AsReconnecting'
  <2>1. CASE UNCHANGED <<status, loop>>
    BY <1>28, <2>1 DEF startReconnect, Moves, Handling
  <2>2. CASE ~UNCHANGED <<status, loop>>
    <3>1. /\ need /\ ~Gone(status) /\ status # "Reconnecting" /\ status' = "Reconnecting"
          /\ \E k \in LoopSlots : loop[k].at = "no" /\ loop' = [loop EXCEPT ![k].at = "head", ![k].n = 0]
      BY <1>28, <2>2, LoopBegins
    <3>2. PICK k \in LoopSlots : loop[k].at = "no" /\ loop' = [loop EXCEPT ![k].at = "head", ![k].n = 0]
      BY <3>1
    <3>3. /\ loop'[k] = [loop[k] EXCEPT !.at = "head", !.n = 0]
          /\ \A i \in LoopSlots : i # k => loop'[i] = loop[i]
      BY <3>2
    <3>4. /\ loop'[k].at = "head" /\ loop'[k].got = loop[k].got /\ loop'[k].cli = loop[k].cli /\ loop'[k].gen = loop[k].gen
      BY <3>3
    <3>5. /\ conns[c] \in {"left", "refused"} /\ conns'[c] = "gone"
          /\ \A a \in GConns : a # c => conns'[a] = conns[a]
      BY <1>28 DEF startReconnect, Moves
    <3>6. UNCHANGED <<need, stopCh, closedTo, engineStarted, engine, engines, of, conn, openCh, caller, closer, callVars, history>>
      BY <1>28 DEF startReconnect
    <3>7. Connected(status) \/ (status = "Connecting" /\ conns[c] = "refused")
      BY <3>1, <3>5
    <3>8. ~Predial /\ \A a \in GConns : ~Active(a) /\ (a # c => conns[a] \in {"none", "gone"})
      <4>1. CASE Connected(status)
        BY <3>5, <4>1
      <4>2. CASE status = "Connecting" /\ conns[c] = "refused"
        BY <3>5, <4>2
      <4> QED BY <3>7, <4>1, <4>2
    <3>9. \A i \in LoopSlots : ~Live(i)
      BY <3>7
    <3>10. ASSUME NEW i \in LoopSlots PROVE loop'[i].at # "dial"
      <4>1. CASE i = k
        BY <3>4, <4>1
      <4>2. CASE i # k
        BY <3>3, <3>9, <4>2
      <4> QED BY <4>1, <4>2
    <3>11. Live(k)' /\ \A i \in LoopSlots : Live(i)' => i = k
      BY <3>3, <3>4, <3>9
    <3>12. \A a \in GConns : conns'[a] \in {"none", "gone"}
      BY <3>5, <3>8
    <3> QED BY <3>6, <3>8, <3>10, <3>11, <3>12
  <2> QED BY <2>1, <2>2
<1> QED
  BY <1>1, <1>2, <1>3, <1>4, <1>5, <1>6, <1>7, <1>8, <1>9, <1>10, <1>11, <1>12, <1>13, <1>14, <1>15, <1>16, <1>17, <1>18, <1>19, <1>20, <1>21, <1>22, <1>23, <1>24, <1>25, <1>26, <1>27, <1>28
  DEF GnetNext, Connecting, Closing, Looping, Opening

\* While it is Connected or Reconnected, no loop works, and a client that reconnects has
\* a connection or the handler of a lost one.
LEMMA AsConnectedKept ==
  ASSUME Types, Types', Clean, Clean', Alone, Turns, ByStatus, Held, Engines, Asked, GnetNext
  PROVE  AsConnected'
<1> USE GnetSizes DEF Types, CallerRec, CloserRec, LoopRec, ConnPlaces, Statuses, OpenChs, netVars, callVars, history, Gone, NoConn, NoEngine, Nobody, Caller, Alone, OneDials, OneGoes, GoesFirst, PredialFirst, ByStatus, AsInit, AsConnecting, AsReconnecting, AsConnected, AsClosing, Stops, NoLoops, ConnsIn, Connected, Clean, Held, Engines, Asked, Turns, Active, Predial, Goes, Live, Working
<1>1. ASSUME ConnectBegins PROVE AsConnected'
  BY <1>1 DEF ConnectBegins, Leftovers
<1>2. ASSUME ConnectRenews PROVE AsConnected'
  BY <1>2 DEF ConnectRenews
<1>3. ASSUME EngineStarts PROVE AsConnected'
  BY <1>3 DEF EngineStarts
<1>4. ASSUME EngineFails PROVE AsConnected'
  BY <1>4 DEF EngineFails
<1>5. ASSUME ConnectWaits PROVE AsConnected'
  BY <1>5 DEF ConnectWaits
<1>6. ASSUME ConnectReads PROVE AsConnected'
  BY <1>6 DEF ConnectReads, clearOpenWait
<1>7. ASSUME ConnectDials PROVE AsConnected'
  BY <1>7 DEF ConnectDials, DialsOut, clearOpenWait, Unused, Running
<1>8. ASSUME ConnectBlocks PROVE AsConnected'
  BY <1>8 DEF ConnectBlocks
<1>9. ASSUME ConnectReturns PROVE AsConnected'
  BY <1>9 DEF ConnectReturns
<1>10. ASSUME CloseBegins PROVE AsConnected'
  BY <1>10 DEF CloseBegins
<1>11. ASSUME CloseTakes PROVE AsConnected'
  BY <1>11 DEF CloseTakes, Signals
<1>12. ASSUME CloseStops PROVE AsConnected'
  BY <1>12 DEF CloseStops
<1>13. ASSUME CloseTakesEngine PROVE AsConnected'
  BY <1>13 DEF CloseTakesEngine
<1>14. ASSUME EngineStopped PROVE AsConnected'
  BY <1>14 DEF EngineStopped
<1>15. ASSUME CloseReturns PROVE AsConnected'
  BY <1>15 DEF CloseReturns
<1>16. ASSUME NEW l \in LoopSlots, LoopHead(l) PROVE AsConnected'
  BY <1>16 DEF LoopHead, Ends
<1>17. ASSUME NEW l \in LoopSlots, LoopWaits(l) PROVE AsConnected'
  BY <1>17 DEF LoopWaits
<1>18. ASSUME NEW l \in LoopSlots, LoopReads(l) PROVE AsConnected'
  BY <1>18 DEF LoopReads, clearOpenWait, Ends
<1>19. ASSUME NEW l \in LoopSlots, LoopDials(l) PROVE AsConnected'
  BY <1>19 DEF LoopDials, DialsOut, clearOpenWait, Unused, Running
<1>20. ASSUME NEW l \in LoopSlots, LoopBlocks(l) PROVE AsConnected'
  BY <1>20 DEF LoopBlocks
<1>21. ASSUME NEW l \in LoopSlots, LoopWakes(l) PROVE AsConnected'
  <2>1. /\ \A i \in LoopSlots : i # l => loop'[i] = loop[i]
        /\ UNCHANGED <<need, status, conns, caller>>
    BY <1>21 DEF LoopWakes, Ends
  <2>2. CASE ~Connected(status)
    BY <2>1, <2>2
  <2>3. CASE Connected(status)
    <3>1. ~Live(l)
      BY <2>3
    <3>2. loop'[l].at = "no"
      BY <1>21, <3>1 DEF LoopWakes, Ends
    <3> QED BY <2>1, <2>3, <3>2
  <2> QED BY <2>2, <2>3
<1>22. ASSUME NEW c \in GConns, OpenLoads(c) PROVE AsConnected'
  BY <1>22 DEF OpenLoads, Moves, Handling
<1>23. ASSUME NEW c \in GConns, OpenStores(c) PROVE AsConnected'
  <2>0. ~Gone(status)
    BY <1>23 DEF OpenStores
  <2>1. /\ conns[c] \in {"opens", "reopens"} /\ UNCHANGED <<caller, loop, need>>
        /\ conns'[c] = "publishes" /\ \A a \in GConns : a # c => conns'[a] = conns[a]
    BY <1>23 DEF OpenStores, Moves
  <2>2. status \in {"Connecting", "Reconnecting"}
    BY <2>0, <2>1
  <2>3. ~Predial /\ \A i \in LoopSlots : ~Live(i)
    BY <2>1, <2>2
  <2>4. \A a \in GConns : a # c => conns[a] \in {"none", "gone"}
    BY <2>1, <2>2
  <2> QED BY <2>1, <2>3, <2>4
<1>24. ASSUME NEW c \in GConns, OpenPublishes(c) PROVE AsConnected'
  BY <1>24 DEF OpenPublishes, Moves
<1>25. ASSUME NEW c \in GConns, signalOpenResult(c) PROVE AsConnected'
  BY <1>25 DEF signalOpenResult, Signals, Moves
<1>26. ASSUME NEW c \in GConns, OnCloseOpened(c) PROVE AsConnected'
  BY <1>26 DEF OnCloseOpened, Moves, Lost, Handling
<1>27. ASSUME NEW c \in GConns, OnCloseUnopened(c) PROVE AsConnected'
  BY <1>27 DEF OnCloseUnopened, Signals, Moves, Lost, Handling
<1>28. ASSUME NEW c \in GConns, startReconnect(c) PROVE AsConnected'
  <2>1. /\ conns[c] \in {"left", "refused"} /\ conns'[c] = "gone"
        /\ \A a \in GConns : a # c => conns'[a] = conns[a]
        /\ UNCHANGED <<caller, need, status>> \/ status' = "Reconnecting"
        /\ UNCHANGED <<status, loop>> => UNCHANGED <<caller, need>>
        /\ UNCHANGED <<status, loop>> \/ status' = "Reconnecting"
        /\ UNCHANGED <<status, loop>> => ~need \/ Gone(status) \/ status = "Reconnecting"
    BY <1>28 DEF startReconnect, Moves
  <2>2. CASE UNCHANGED <<status, loop>>
    BY <2>1, <2>2
  <2>3. CASE status' = "Reconnecting"
    BY <2>3
  <2> QED BY <2>1, <2>2, <2>3
<1> QED
  BY <1>1, <1>2, <1>3, <1>4, <1>5, <1>6, <1>7, <1>8, <1>9, <1>10, <1>11, <1>12, <1>13, <1>14, <1>15, <1>16, <1>17, <1>18, <1>19, <1>20, <1>21, <1>22, <1>23, <1>24, <1>25, <1>26, <1>27, <1>28
  DEF GnetNext, Connecting, Closing, Looping, Opening

\* Closing belongs to a Close.
LEMMA AsClosingKept ==
  ASSUME Types, Types', Clean, Clean', Alone, Turns, ByStatus, Held, Engines, Asked, GnetNext
  PROVE  AsClosing'
<1> USE GnetSizes DEF Types, CallerRec, CloserRec, LoopRec, ConnPlaces, Statuses, OpenChs, netVars, callVars, history, Gone, NoConn, NoEngine, Nobody, Caller, Alone, OneDials, OneGoes, GoesFirst, PredialFirst, ByStatus, AsInit, AsConnecting, AsReconnecting, AsConnected, AsClosing, Stops, NoLoops, ConnsIn, Connected, Clean, Held, Engines, Asked, Turns, Active, Predial, Goes, Live, Working
<1>1. ASSUME ConnectBegins PROVE AsClosing'
  BY <1>1 DEF ConnectBegins, Leftovers
<1>2. ASSUME ConnectRenews PROVE AsClosing'
  BY <1>2 DEF ConnectRenews
<1>3. ASSUME EngineStarts PROVE AsClosing'
  BY <1>3 DEF EngineStarts
<1>4. ASSUME EngineFails PROVE AsClosing'
  BY <1>4 DEF EngineFails
<1>5. ASSUME ConnectWaits PROVE AsClosing'
  BY <1>5 DEF ConnectWaits
<1>6. ASSUME ConnectReads PROVE AsClosing'
  BY <1>6 DEF ConnectReads, clearOpenWait
<1>7. ASSUME ConnectDials PROVE AsClosing'
  BY <1>7 DEF ConnectDials, DialsOut, clearOpenWait, Unused, Running
<1>8. ASSUME ConnectBlocks PROVE AsClosing'
  BY <1>8 DEF ConnectBlocks
<1>9. ASSUME ConnectReturns PROVE AsClosing'
  BY <1>9 DEF ConnectReturns
<1>10. ASSUME CloseBegins PROVE AsClosing'
  BY <1>10 DEF CloseBegins
<1>11. ASSUME CloseTakes PROVE AsClosing'
  BY <1>11 DEF CloseTakes, Signals
<1>12. ASSUME CloseStops PROVE AsClosing'
  BY <1>12 DEF CloseStops
<1>13. ASSUME CloseTakesEngine PROVE AsClosing'
  BY <1>13 DEF CloseTakesEngine
<1>14. ASSUME EngineStopped PROVE AsClosing'
  BY <1>14 DEF EngineStopped
<1>15. ASSUME CloseReturns PROVE AsClosing'
  BY <1>15 DEF CloseReturns
<1>16. ASSUME NEW l \in LoopSlots, LoopHead(l) PROVE AsClosing'
  BY <1>16 DEF LoopHead, Ends
<1>17. ASSUME NEW l \in LoopSlots, LoopWaits(l) PROVE AsClosing'
  BY <1>17 DEF LoopWaits
<1>18. ASSUME NEW l \in LoopSlots, LoopReads(l) PROVE AsClosing'
  BY <1>18 DEF LoopReads, clearOpenWait, Ends
<1>19. ASSUME NEW l \in LoopSlots, LoopDials(l) PROVE AsClosing'
  BY <1>19 DEF LoopDials, DialsOut, clearOpenWait, Unused, Running
<1>20. ASSUME NEW l \in LoopSlots, LoopBlocks(l) PROVE AsClosing'
  BY <1>20 DEF LoopBlocks
<1>21. ASSUME NEW l \in LoopSlots, LoopWakes(l) PROVE AsClosing'
  BY <1>21 DEF LoopWakes, Ends
<1>22. ASSUME NEW c \in GConns, OpenLoads(c) PROVE AsClosing'
  BY <1>22 DEF OpenLoads, Moves, Handling
<1>23. ASSUME NEW c \in GConns, OpenStores(c) PROVE AsClosing'
  BY <1>23 DEF OpenStores, Moves
<1>24. ASSUME NEW c \in GConns, OpenPublishes(c) PROVE AsClosing'
  BY <1>24 DEF OpenPublishes, Moves
<1>25. ASSUME NEW c \in GConns, signalOpenResult(c) PROVE AsClosing'
  BY <1>25 DEF signalOpenResult, Signals, Moves
<1>26. ASSUME NEW c \in GConns, OnCloseOpened(c) PROVE AsClosing'
  BY <1>26 DEF OnCloseOpened, Moves, Lost, Handling
<1>27. ASSUME NEW c \in GConns, OnCloseUnopened(c) PROVE AsClosing'
  BY <1>27 DEF OnCloseUnopened, Signals, Moves, Lost, Handling
<1>28. ASSUME NEW c \in GConns, startReconnect(c) PROVE AsClosing'
  BY <1>28 DEF startReconnect, Moves, Handling
<1> QED
  BY <1>1, <1>2, <1>3, <1>4, <1>5, <1>6, <1>7, <1>8, <1>9, <1>10, <1>11, <1>12, <1>13, <1>14, <1>15, <1>16, <1>17, <1>18, <1>19, <1>20, <1>21, <1>22, <1>23, <1>24, <1>25, <1>26, <1>27, <1>28
  DEF GnetNext, Connecting, Closing, Looping, Opening

\* stopCh is open until a Close, and every loop waits on the present one.
LEMMA StopsKept ==
  ASSUME Types, Types', Clean, Clean', Alone, Turns, ByStatus, Held, Engines, Asked, GnetNext
  PROVE  Stops'
<1> USE GnetSizes DEF Types, CallerRec, CloserRec, LoopRec, ConnPlaces, Statuses, OpenChs, netVars, callVars, history, Gone, NoConn, NoEngine, Nobody, Caller, Alone, OneDials, OneGoes, GoesFirst, PredialFirst, ByStatus, AsInit, AsConnecting, AsReconnecting, AsConnected, AsClosing, Stops, NoLoops, ConnsIn, Connected, Clean, Held, Engines, Asked, Turns, Active, Predial, Goes, Live, Working
<1>1. ASSUME ConnectBegins PROVE Stops'
  BY <1>1 DEF ConnectBegins, Leftovers
<1>2. ASSUME ConnectRenews PROVE Stops'
  BY <1>2 DEF ConnectRenews
<1>3. ASSUME EngineStarts PROVE Stops'
  BY <1>3 DEF EngineStarts
<1>4. ASSUME EngineFails PROVE Stops'
  BY <1>4 DEF EngineFails
<1>5. ASSUME ConnectWaits PROVE Stops'
  BY <1>5 DEF ConnectWaits
<1>6. ASSUME ConnectReads PROVE Stops'
  BY <1>6 DEF ConnectReads, clearOpenWait
<1>7. ASSUME ConnectDials PROVE Stops'
  BY <1>7 DEF ConnectDials, DialsOut, clearOpenWait, Unused, Running
<1>8. ASSUME ConnectBlocks PROVE Stops'
  BY <1>8 DEF ConnectBlocks
<1>9. ASSUME ConnectReturns PROVE Stops'
  BY <1>9 DEF ConnectReturns
<1>10. ASSUME CloseBegins PROVE Stops'
  BY <1>10 DEF CloseBegins
<1>11. ASSUME CloseTakes PROVE Stops'
  BY <1>11 DEF CloseTakes, Signals
<1>12. ASSUME CloseStops PROVE Stops'
  BY <1>12 DEF CloseStops
<1>13. ASSUME CloseTakesEngine PROVE Stops'
  BY <1>13 DEF CloseTakesEngine
<1>14. ASSUME EngineStopped PROVE Stops'
  BY <1>14 DEF EngineStopped
<1>15. ASSUME CloseReturns PROVE Stops'
  BY <1>15 DEF CloseReturns
<1>16. ASSUME NEW l \in LoopSlots, LoopHead(l) PROVE Stops'
  <2>1. /\ UNCHANGED <<stopCh, closedTo, caller>>
        /\ status' = status \/ status' = "Closed"
    BY <1>16 DEF LoopHead, Ends
  <2>2. /\ loop'[l].at \in {"no", "wait"}
        /\ \A i \in LoopSlots : i # l => loop'[i] = loop[i]
    BY <1>16 DEF LoopHead, Ends
  <2> QED BY <2>1, <2>2
<1>17. ASSUME NEW l \in LoopSlots, LoopWaits(l) PROVE Stops'
  BY <1>17 DEF LoopWaits
<1>18. ASSUME NEW l \in LoopSlots, LoopReads(l) PROVE Stops'
  BY <1>18 DEF LoopReads, clearOpenWait, Ends
<1>19. ASSUME NEW l \in LoopSlots, LoopDials(l) PROVE Stops'
  BY <1>19 DEF LoopDials, DialsOut, clearOpenWait, Unused, Running
<1>20. ASSUME NEW l \in LoopSlots, LoopBlocks(l) PROVE Stops'
  BY <1>20 DEF LoopBlocks
<1>21. ASSUME NEW l \in LoopSlots, LoopWakes(l) PROVE Stops'
  BY <1>21 DEF LoopWakes, Ends
<1>22. ASSUME NEW c \in GConns, OpenLoads(c) PROVE Stops'
  BY <1>22 DEF OpenLoads, Moves, Handling
<1>23. ASSUME NEW c \in GConns, OpenStores(c) PROVE Stops'
  <2>1. ~Gone(status)
    BY <1>23 DEF OpenStores
  <2>2. status # "Init" /\ caller.at # "renew"
    BY <1>23 DEF OpenStores
  <2>3. UNCHANGED <<stopCh, closedTo, loop>>
    BY <1>23 DEF OpenStores
  <2> QED BY <2>1, <2>2, <2>3
<1>24. ASSUME NEW c \in GConns, OpenPublishes(c) PROVE Stops'
  BY <1>24 DEF OpenPublishes, Moves
<1>25. ASSUME NEW c \in GConns, signalOpenResult(c) PROVE Stops'
  BY <1>25 DEF signalOpenResult, Signals, Moves
<1>26. ASSUME NEW c \in GConns, OnCloseOpened(c) PROVE Stops'
  BY <1>26 DEF OnCloseOpened, Moves, Lost, Handling
<1>27. ASSUME NEW c \in GConns, OnCloseUnopened(c) PROVE Stops'
  BY <1>27 DEF OnCloseUnopened, Signals, Moves, Lost, Handling
<1>28. ASSUME NEW c \in GConns, startReconnect(c) PROVE Stops'
  <2>1. CASE UNCHANGED <<status, loop>>
    BY <1>28, <2>1 DEF startReconnect, Moves, Handling
  <2>2. CASE ~UNCHANGED <<status, loop>>
    <3>1. /\ need /\ ~Gone(status) /\ status # "Reconnecting" /\ status' = "Reconnecting"
          /\ \E k \in LoopSlots : loop[k].at = "no" /\ loop' = [loop EXCEPT ![k].at = "head", ![k].n = 0]
      BY <1>28, <2>2, LoopBegins
    <3>2. PICK k \in LoopSlots : loop[k].at = "no" /\ loop' = [loop EXCEPT ![k].at = "head", ![k].n = 0]
      BY <3>1
    <3>3. /\ loop'[k] = [loop[k] EXCEPT !.at = "head", !.n = 0]
          /\ \A i \in LoopSlots : i # k => loop'[i] = loop[i]
      BY <3>2
    <3>4. /\ loop'[k].at = "head" /\ loop'[k].got = loop[k].got /\ loop'[k].cli = loop[k].cli /\ loop'[k].gen = loop[k].gen
      BY <3>3
    <3>5. /\ conns[c] \in {"left", "refused"} /\ conns'[c] = "gone"
          /\ \A a \in GConns : a # c => conns'[a] = conns[a]
      BY <1>28 DEF startReconnect, Moves
    <3>6. UNCHANGED <<need, stopCh, closedTo, engineStarted, engine, engines, of, conn, openCh, caller, closer, callVars, history>>
      BY <1>28 DEF startReconnect
    <3> QED BY <1>28, <3>1, <3>3, <3>4, <3>5, <3>6
  <2> QED BY <2>1, <2>2
<1> QED
  BY <1>1, <1>2, <1>3, <1>4, <1>5, <1>6, <1>7, <1>8, <1>9, <1>10, <1>11, <1>12, <1>13, <1>14, <1>15, <1>16, <1>17, <1>18, <1>19, <1>20, <1>21, <1>22, <1>23, <1>24, <1>25, <1>26, <1>27, <1>28
  DEF GnetNext, Connecting, Closing, Looping, Opening

\* c.conn is the open connection, or a Close took it.
LEMMA HeldKept ==
  ASSUME Types, Types', Clean, Clean', Alone, Turns, ByStatus, Held, Engines, Asked, GnetNext
  PROVE  Held'
<1> USE GnetSizes DEF Types, CallerRec, CloserRec, LoopRec, ConnPlaces, Statuses, OpenChs, netVars, callVars, history, Gone, NoConn, NoEngine, Nobody, Caller, Alone, OneDials, OneGoes, GoesFirst, PredialFirst, ByStatus, AsInit, AsConnecting, AsReconnecting, AsConnected, AsClosing, Stops, NoLoops, ConnsIn, Connected, Clean, Held, Engines, Asked, Turns, Active, Predial, Goes, Live, Working
<1>1. ASSUME ConnectBegins PROVE Held'
  BY <1>1 DEF ConnectBegins, Leftovers
<1>2. ASSUME ConnectRenews PROVE Held'
  BY <1>2 DEF ConnectRenews
<1>3. ASSUME EngineStarts PROVE Held'
  BY <1>3 DEF EngineStarts
<1>4. ASSUME EngineFails PROVE Held'
  BY <1>4 DEF EngineFails
<1>5. ASSUME ConnectWaits PROVE Held'
  BY <1>5 DEF ConnectWaits
<1>6. ASSUME ConnectReads PROVE Held'
  BY <1>6 DEF ConnectReads, clearOpenWait
<1>7. ASSUME ConnectDials PROVE Held'
  BY <1>7 DEF ConnectDials, DialsOut, clearOpenWait, Unused, Running
<1>8. ASSUME ConnectBlocks PROVE Held'
  BY <1>8 DEF ConnectBlocks
<1>9. ASSUME ConnectReturns PROVE Held'
  BY <1>9 DEF ConnectReturns
<1>10. ASSUME CloseBegins PROVE Held'
  BY <1>10 DEF CloseBegins
<1>11. ASSUME CloseTakes PROVE Held'
  <2>1. /\ UNCHANGED <<conns, status>> /\ conn' = NoConn /\ closer.at = "take"
        /\ closer'.at = IF conn = NoConn THEN "closed" ELSE "stop"
        /\ caller'.at = caller.at
    BY <1>11 DEF CloseTakes, Signals
  <2>2. \A i \in LoopSlots : loop'[i].at = loop[i].at
    BY <1>11 DEF CloseTakes, Signals
  <2>3. Gone(status)
    BY <2>1
  <2>4. CASE conn = NoConn
    <3>1. \A a \in GConns : conns[a] # "publishes"
      BY <1>11, <2>4, NoneMissed
    <3> QED BY <2>1, <2>2, <2>4, <3>1
  <2>5. CASE conn # NoConn
    <3>1. conn \in GConns /\ Active(conn)
      BY <2>5
    <3>2. ~Predial /\ \A i \in LoopSlots : ~Goes(i)
      BY <3>1
    <3>3. \A a \in GConns : conns[a] # "publishes"
      BY <2>5, <3>1
    <3> QED BY <2>1, <2>2, <2>5, <3>2, <3>3
  <2> QED BY <2>4, <2>5
<1>12. ASSUME CloseStops PROVE Held'
  BY <1>12 DEF CloseStops
<1>13. ASSUME CloseTakesEngine PROVE Held'
  BY <1>13 DEF CloseTakesEngine
<1>14. ASSUME EngineStopped PROVE Held'
  BY <1>14 DEF EngineStopped
<1>15. ASSUME CloseReturns PROVE Held'
  BY <1>15 DEF CloseReturns
<1>16. ASSUME NEW l \in LoopSlots, LoopHead(l) PROVE Held'
  BY <1>16 DEF LoopHead, Ends
<1>17. ASSUME NEW l \in LoopSlots, LoopWaits(l) PROVE Held'
  BY <1>17 DEF LoopWaits
<1>18. ASSUME NEW l \in LoopSlots, LoopReads(l) PROVE Held'
  BY <1>18 DEF LoopReads, clearOpenWait, Ends
<1>19. ASSUME NEW l \in LoopSlots, LoopDials(l) PROVE Held'
  BY <1>19 DEF LoopDials, DialsOut, clearOpenWait, Unused, Running
<1>20. ASSUME NEW l \in LoopSlots, LoopBlocks(l) PROVE Held'
  BY <1>20 DEF LoopBlocks
<1>21. ASSUME NEW l \in LoopSlots, LoopWakes(l) PROVE Held'
  BY <1>21 DEF LoopWakes, Ends
<1>22. ASSUME NEW c \in GConns, OpenLoads(c) PROVE Held'
  BY <1>22 DEF OpenLoads, Moves, Handling
<1>23. ASSUME NEW c \in GConns, OpenStores(c) PROVE Held'
  BY <1>23 DEF OpenStores, Moves
<1>24. ASSUME NEW c \in GConns, OpenPublishes(c) PROVE Held'
  BY <1>24 DEF OpenPublishes, Moves
<1>25. ASSUME NEW c \in GConns, signalOpenResult(c) PROVE Held'
  BY <1>25 DEF signalOpenResult, Signals, Moves
<1>26. ASSUME NEW c \in GConns, OnCloseOpened(c) PROVE Held'
  BY <1>26 DEF OnCloseOpened, Moves, Lost, Handling
<1>27. ASSUME NEW c \in GConns, OnCloseUnopened(c) PROVE Held'
  BY <1>27 DEF OnCloseUnopened, Signals, Moves, Lost, Handling
<1>28. ASSUME NEW c \in GConns, startReconnect(c) PROVE Held'
  <2>1. CASE UNCHANGED <<status, loop>>
    BY <1>28, <2>1 DEF startReconnect, Moves, Handling
  <2>2. CASE ~UNCHANGED <<status, loop>>
    <3>1. /\ need /\ ~Gone(status) /\ status # "Reconnecting" /\ status' = "Reconnecting"
          /\ \E k \in LoopSlots : loop[k].at = "no" /\ loop' = [loop EXCEPT ![k].at = "head", ![k].n = 0]
      BY <1>28, <2>2, LoopBegins
    <3>2. PICK k \in LoopSlots : loop[k].at = "no" /\ loop' = [loop EXCEPT ![k].at = "head", ![k].n = 0]
      BY <3>1
    <3>3. /\ loop'[k] = [loop[k] EXCEPT !.at = "head", !.n = 0]
          /\ \A i \in LoopSlots : i # k => loop'[i] = loop[i]
      BY <3>2
    <3>4. /\ loop'[k].at = "head" /\ loop'[k].got = loop[k].got /\ loop'[k].cli = loop[k].cli /\ loop'[k].gen = loop[k].gen
      BY <3>3
    <3>5. /\ conns[c] \in {"left", "refused"} /\ conns'[c] = "gone"
          /\ \A a \in GConns : a # c => conns'[a] = conns[a]
      BY <1>28 DEF startReconnect, Moves
    <3>6. UNCHANGED <<need, stopCh, closedTo, engineStarted, engine, engines, of, conn, openCh, caller, closer, callVars, history>>
      BY <1>28 DEF startReconnect
    <3> QED BY <1>28, <3>1, <3>3, <3>4, <3>5, <3>6
  <2> QED BY <2>1, <2>2
<1> QED
  BY <1>1, <1>2, <1>3, <1>4, <1>5, <1>6, <1>7, <1>8, <1>9, <1>10, <1>11, <1>12, <1>13, <1>14, <1>15, <1>16, <1>17, <1>18, <1>19, <1>20, <1>21, <1>22, <1>23, <1>24, <1>25, <1>26, <1>27, <1>28
  DEF GnetNext, Connecting, Closing, Looping, Opening

\* A dial uses the present engine, or the one a Close stops.
LEMMA EnginesKept ==
  ASSUME Types, Types', Clean, Clean', Alone, Turns, ByStatus, Held, Engines, Asked, GnetNext
  PROVE  Engines'
<1> USE GnetSizes DEF Types, CallerRec, CloserRec, LoopRec, ConnPlaces, Statuses, OpenChs, netVars, callVars, history, Gone, NoConn, NoEngine, Nobody, Caller, Alone, OneDials, OneGoes, GoesFirst, PredialFirst, ByStatus, AsInit, AsConnecting, AsReconnecting, AsConnected, AsClosing, Stops, NoLoops, ConnsIn, Connected, Clean, Held, Engines, Asked, Turns, Active, Predial, Goes, Live, Working
<1>1. ASSUME ConnectBegins PROVE Engines'
  BY <1>1 DEF ConnectBegins, Leftovers
<1>2. ASSUME ConnectRenews PROVE Engines'
  BY <1>2 DEF ConnectRenews
<1>3. ASSUME EngineStarts PROVE Engines'
  BY <1>3 DEF EngineStarts
<1>4. ASSUME EngineFails PROVE Engines'
  BY <1>4 DEF EngineFails
<1>5. ASSUME ConnectWaits PROVE Engines'
  BY <1>5 DEF ConnectWaits
<1>6. ASSUME ConnectReads PROVE Engines'
  BY <1>6 DEF ConnectReads, clearOpenWait
<1>7. ASSUME ConnectDials PROVE Engines'
  <2>1. caller'.cli = NoEngine /\ UNCHANGED <<loop, closer, engine>>
    BY <1>7 DEF ConnectDials
  <2>2. CASE UNCHANGED <<conns, of>>
    BY <2>1, <2>2
  <2>3. CASE DialsOut(caller.cli)
    <3>1. PICK c \in GConns : conns[c] = "none" /\ conns' = [conns EXCEPT ![c] = "dialing"] /\ of' = [of EXCEPT ![c] = caller.cli]
      BY <2>3 DEF DialsOut, Unused
    <3>2. /\ \A a \in GConns : a # c => conns'[a] = conns[a] /\ of'[a] = of[a]
          /\ of'[c] = caller.cli
      BY <3>1
    <3>3. caller.cli = engine /\ closer.at # "wait"
      BY <1>7 DEF ConnectDials
    <3> QED BY <2>1, <3>2, <3>3
  <2> QED BY <1>7, <2>2, <2>3 DEF ConnectDials
<1>8. ASSUME ConnectBlocks PROVE Engines'
  BY <1>8 DEF ConnectBlocks
<1>9. ASSUME ConnectReturns PROVE Engines'
  BY <1>9 DEF ConnectReturns
<1>10. ASSUME CloseBegins PROVE Engines'
  BY <1>10 DEF CloseBegins
<1>11. ASSUME CloseTakes PROVE Engines'
  BY <1>11 DEF CloseTakes, Signals
<1>12. ASSUME CloseStops PROVE Engines'
  BY <1>12 DEF CloseStops
<1>13. ASSUME CloseTakesEngine PROVE Engines'
  BY <1>13 DEF CloseTakesEngine
<1>14. ASSUME EngineStopped PROVE Engines'
  BY <1>14 DEF EngineStopped
<1>15. ASSUME CloseReturns PROVE Engines'
  BY <1>15 DEF CloseReturns
<1>16. ASSUME NEW l \in LoopSlots, LoopHead(l) PROVE Engines'
  BY <1>16 DEF LoopHead, Ends
<1>17. ASSUME NEW l \in LoopSlots, LoopWaits(l) PROVE Engines'
  BY <1>17 DEF LoopWaits
<1>18. ASSUME NEW l \in LoopSlots, LoopReads(l) PROVE Engines'
  BY <1>18 DEF LoopReads, clearOpenWait, Ends
<1>19. ASSUME NEW l \in LoopSlots, LoopDials(l) PROVE Engines'
  <2>1. /\ loop[l].at = "dial" /\ loop[l].cli # NoEngine /\ UNCHANGED <<caller, closer, engine>>
        /\ loop'[l].cli = NoEngine
        /\ \A i \in LoopSlots : i # l => loop'[i] = loop[i]
    BY <1>19 DEF LoopDials
  <2>2. CASE UNCHANGED <<conns, of>>
    BY <2>1, <2>2
  <2>3. CASE DialsOut(loop[l].cli)
    <3>1. PICK c \in GConns : /\ conns[c] = "none" /\ conns' = [conns EXCEPT ![c] = "dialing"]
                            /\ of' = [of EXCEPT ![c] = loop[l].cli]
      BY <2>3 DEF DialsOut, Unused
    <3>2. \A a \in GConns : a # c => conns'[a] = conns[a] /\ of'[a] = of[a]
      BY <3>1
    <3>3. of'[c] = engine /\ closer.at # "wait"
      BY <2>1, <3>1
    <3> QED BY <2>1, <3>2, <3>3
  <2> QED BY <1>19, <2>2, <2>3 DEF LoopDials
<1>20. ASSUME NEW l \in LoopSlots, LoopBlocks(l) PROVE Engines'
  BY <1>20 DEF LoopBlocks
<1>21. ASSUME NEW l \in LoopSlots, LoopWakes(l) PROVE Engines'
  BY <1>21 DEF LoopWakes, Ends
<1>22. ASSUME NEW c \in GConns, OpenLoads(c) PROVE Engines'
  BY <1>22 DEF OpenLoads, Moves, Handling
<1>23. ASSUME NEW c \in GConns, OpenStores(c) PROVE Engines'
  BY <1>23 DEF OpenStores, Moves
<1>24. ASSUME NEW c \in GConns, OpenPublishes(c) PROVE Engines'
  BY <1>24 DEF OpenPublishes, Moves
<1>25. ASSUME NEW c \in GConns, signalOpenResult(c) PROVE Engines'
  BY <1>25 DEF signalOpenResult, Signals, Moves
<1>26. ASSUME NEW c \in GConns, OnCloseOpened(c) PROVE Engines'
  BY <1>26 DEF OnCloseOpened, Moves, Lost, Handling
<1>27. ASSUME NEW c \in GConns, OnCloseUnopened(c) PROVE Engines'
  BY <1>27 DEF OnCloseUnopened, Signals, Moves, Lost, Handling
<1>28. ASSUME NEW c \in GConns, startReconnect(c) PROVE Engines'
  <2>1. CASE UNCHANGED <<status, loop>>
    BY <1>28, <2>1 DEF startReconnect, Moves, Handling
  <2>2. CASE ~UNCHANGED <<status, loop>>
    <3>1. /\ need /\ ~Gone(status) /\ status # "Reconnecting" /\ status' = "Reconnecting"
          /\ \E k \in LoopSlots : loop[k].at = "no" /\ loop' = [loop EXCEPT ![k].at = "head", ![k].n = 0]
      BY <1>28, <2>2, LoopBegins
    <3>2. PICK k \in LoopSlots : loop[k].at = "no" /\ loop' = [loop EXCEPT ![k].at = "head", ![k].n = 0]
      BY <3>1
    <3>3. /\ loop'[k] = [loop[k] EXCEPT !.at = "head", !.n = 0]
          /\ \A i \in LoopSlots : i # k => loop'[i] = loop[i]
      BY <3>2
    <3>4. /\ loop'[k].at = "head" /\ loop'[k].got = loop[k].got /\ loop'[k].cli = loop[k].cli /\ loop'[k].gen = loop[k].gen
      BY <3>3
    <3>5. /\ conns[c] \in {"left", "refused"} /\ conns'[c] = "gone"
          /\ \A a \in GConns : a # c => conns'[a] = conns[a]
      BY <1>28 DEF startReconnect, Moves
    <3>6. UNCHANGED <<need, stopCh, closedTo, engineStarted, engine, engines, of, conn, openCh, caller, closer, callVars, history>>
      BY <1>28 DEF startReconnect
    <3> QED BY <1>28, <3>1, <3>3, <3>4, <3>5, <3>6
  <2> QED BY <2>1, <2>2
<1> QED
  BY <1>1, <1>2, <1>3, <1>4, <1>5, <1>6, <1>7, <1>8, <1>9, <1>10, <1>11, <1>12, <1>13, <1>14, <1>15, <1>16, <1>17, <1>18, <1>19, <1>20, <1>21, <1>22, <1>23, <1>24, <1>25, <1>26, <1>27, <1>28
  DEF GnetNext, Connecting, Closing, Looping, Opening

\* A signal is sent to a channel once.
LEMMA AskedKept ==
  ASSUME Types, Types', Clean, Clean', Alone, Turns, ByStatus, Held, Engines, Asked, GnetNext
  PROVE  Asked'
<1> USE GnetSizes DEF Types, CallerRec, CloserRec, LoopRec, ConnPlaces, Statuses, OpenChs, netVars, callVars, history, Gone, NoConn, NoEngine, Nobody, Caller, Alone, OneDials, OneGoes, GoesFirst, PredialFirst, ByStatus, AsInit, AsConnecting, AsReconnecting, AsConnected, AsClosing, Stops, NoLoops, ConnsIn, Connected, Clean, Held, Engines, Asked, Turns, Active, Predial, Goes, Live, Working
<1>1. ASSUME ConnectBegins PROVE Asked'
  BY <1>1 DEF ConnectBegins, Leftovers
<1>2. ASSUME ConnectRenews PROVE Asked'
  BY <1>2 DEF ConnectRenews
<1>3. ASSUME EngineStarts PROVE Asked'
  BY <1>3 DEF EngineStarts
<1>4. ASSUME EngineFails PROVE Asked'
  BY <1>4 DEF EngineFails
<1>5. ASSUME ConnectWaits PROVE Asked'
  BY <1>5 DEF ConnectWaits
<1>6. ASSUME ConnectReads PROVE Asked'
  BY <1>6 DEF ConnectReads, clearOpenWait
<1>7. ASSUME ConnectDials PROVE Asked'
  BY <1>7 DEF ConnectDials, DialsOut, clearOpenWait, Unused, Running
<1>8. ASSUME ConnectBlocks PROVE Asked'
  BY <1>8 DEF ConnectBlocks
<1>9. ASSUME ConnectReturns PROVE Asked'
  BY <1>9 DEF ConnectReturns
<1>10. ASSUME CloseBegins PROVE Asked'
  BY <1>10 DEF CloseBegins
<1>11. ASSUME CloseTakes PROVE Asked'
  BY <1>11 DEF CloseTakes, Signals
<1>12. ASSUME CloseStops PROVE Asked'
  BY <1>12 DEF CloseStops
<1>13. ASSUME CloseTakesEngine PROVE Asked'
  BY <1>13 DEF CloseTakesEngine
<1>14. ASSUME EngineStopped PROVE Asked'
  BY <1>14 DEF EngineStopped
<1>15. ASSUME CloseReturns PROVE Asked'
  BY <1>15 DEF CloseReturns
<1>16. ASSUME NEW l \in LoopSlots, LoopHead(l) PROVE Asked'
  BY <1>16 DEF LoopHead, Ends
<1>17. ASSUME NEW l \in LoopSlots, LoopWaits(l) PROVE Asked'
  BY <1>17 DEF LoopWaits
<1>18. ASSUME NEW l \in LoopSlots, LoopReads(l) PROVE Asked'
  BY <1>18 DEF LoopReads, clearOpenWait, Ends
<1>19. ASSUME NEW l \in LoopSlots, LoopDials(l) PROVE Asked'
  BY <1>19 DEF LoopDials, DialsOut, clearOpenWait, Unused, Running
<1>20. ASSUME NEW l \in LoopSlots, LoopBlocks(l) PROVE Asked'
  BY <1>20 DEF LoopBlocks
<1>21. ASSUME NEW l \in LoopSlots, LoopWakes(l) PROVE Asked'
  BY <1>21 DEF LoopWakes, Ends
<1>22. ASSUME NEW c \in GConns, OpenLoads(c) PROVE Asked'
  BY <1>22 DEF OpenLoads, Moves, Handling
<1>23. ASSUME NEW c \in GConns, OpenStores(c) PROVE Asked'
  BY <1>23 DEF OpenStores, Moves
<1>24. ASSUME NEW c \in GConns, OpenPublishes(c) PROVE Asked'
  BY <1>24 DEF OpenPublishes, Moves
<1>25. ASSUME NEW c \in GConns, signalOpenResult(c) PROVE Asked'
  BY <1>25 DEF signalOpenResult, Signals, Moves
<1>26. ASSUME NEW c \in GConns, OnCloseOpened(c) PROVE Asked'
  BY <1>26 DEF OnCloseOpened, Moves, Lost, Handling
<1>27. ASSUME NEW c \in GConns, OnCloseUnopened(c) PROVE Asked'
  BY <1>27 DEF OnCloseUnopened, Signals, Moves, Lost, Handling
<1>28. ASSUME NEW c \in GConns, startReconnect(c) PROVE Asked'
  <2>1. CASE UNCHANGED <<status, loop>>
    BY <1>28, <2>1 DEF startReconnect, Moves, Handling
  <2>2. CASE ~UNCHANGED <<status, loop>>
    <3>1. /\ need /\ ~Gone(status) /\ status # "Reconnecting" /\ status' = "Reconnecting"
          /\ \E k \in LoopSlots : loop[k].at = "no" /\ loop' = [loop EXCEPT ![k].at = "head", ![k].n = 0]
      BY <1>28, <2>2, LoopBegins
    <3>2. PICK k \in LoopSlots : loop[k].at = "no" /\ loop' = [loop EXCEPT ![k].at = "head", ![k].n = 0]
      BY <3>1
    <3>3. /\ loop'[k] = [loop[k] EXCEPT !.at = "head", !.n = 0]
          /\ \A i \in LoopSlots : i # k => loop'[i] = loop[i]
      BY <3>2
    <3>4. /\ loop'[k].at = "head" /\ loop'[k].got = loop[k].got /\ loop'[k].cli = loop[k].cli /\ loop'[k].gen = loop[k].gen
      BY <3>3
    <3>5. /\ conns[c] \in {"left", "refused"} /\ conns'[c] = "gone"
          /\ \A a \in GConns : a # c => conns'[a] = conns[a]
      BY <1>28 DEF startReconnect, Moves
    <3>6. UNCHANGED <<need, stopCh, closedTo, engineStarted, engine, engines, of, conn, openCh, caller, closer, callVars, history>>
      BY <1>28 DEF startReconnect
    <3> QED BY <1>28, <3>1, <3>3, <3>4, <3>5, <3>6
  <2> QED BY <2>1, <2>2
<1> QED
  BY <1>1, <1>2, <1>3, <1>4, <1>5, <1>6, <1>7, <1>8, <1>9, <1>10, <1>11, <1>12, <1>13, <1>14, <1>15, <1>16, <1>17, <1>18, <1>19, <1>20, <1>21, <1>22, <1>23, <1>24, <1>25, <1>26, <1>27, <1>28
  DEF GnetNext, Connecting, Closing, Looping, Opening

\* The two histories only grow.
LEMMA CleanBefore ==
  ASSUME Types, Clean', GnetNext
  PROVE  Clean
<1> USE GnetSizes DEF Clean, netVars, callVars, history, Gone, NoConn, NoEngine, Nobody, Caller
<1>1. ASSUME ConnectBegins PROVE Clean
  BY <1>1 DEF ConnectBegins, Leftovers
<1>2. ASSUME ConnectRenews PROVE Clean
  BY <1>2 DEF ConnectRenews
<1>3. ASSUME EngineStarts PROVE Clean
  BY <1>3 DEF EngineStarts
<1>4. ASSUME EngineFails PROVE Clean
  BY <1>4 DEF EngineFails
<1>5. ASSUME ConnectWaits PROVE Clean
  BY <1>5 DEF ConnectWaits
<1>6. ASSUME ConnectReads PROVE Clean
  BY <1>6 DEF ConnectReads, clearOpenWait
<1>7. ASSUME ConnectDials PROVE Clean
  BY <1>7 DEF ConnectDials, DialsOut, clearOpenWait, Unused, Running
<1>8. ASSUME ConnectBlocks PROVE Clean
  BY <1>8 DEF ConnectBlocks
<1>9. ASSUME ConnectReturns PROVE Clean
  BY <1>9 DEF ConnectReturns
<1>10. ASSUME CloseBegins PROVE Clean
  BY <1>10 DEF CloseBegins
<1>11. ASSUME CloseTakes PROVE Clean
  BY <1>11 DEF CloseTakes, Signals
<1>12. ASSUME CloseStops PROVE Clean
  BY <1>12 DEF CloseStops
<1>13. ASSUME CloseTakesEngine PROVE Clean
  BY <1>13 DEF CloseTakesEngine
<1>14. ASSUME EngineStopped PROVE Clean
  BY <1>14 DEF EngineStopped
<1>15. ASSUME CloseReturns PROVE Clean
  BY <1>15 DEF CloseReturns
<1>16. ASSUME NEW l \in LoopSlots, LoopHead(l) PROVE Clean
  BY <1>16 DEF LoopHead, Ends
<1>17. ASSUME NEW l \in LoopSlots, LoopWaits(l) PROVE Clean
  BY <1>17 DEF LoopWaits
<1>18. ASSUME NEW l \in LoopSlots, LoopReads(l) PROVE Clean
  BY <1>18 DEF LoopReads, clearOpenWait, Ends
<1>19. ASSUME NEW l \in LoopSlots, LoopDials(l) PROVE Clean
  BY <1>19 DEF LoopDials, DialsOut, clearOpenWait, Unused, Running
<1>20. ASSUME NEW l \in LoopSlots, LoopBlocks(l) PROVE Clean
  BY <1>20 DEF LoopBlocks
<1>21. ASSUME NEW l \in LoopSlots, LoopWakes(l) PROVE Clean
  BY <1>21 DEF LoopWakes, Ends
<1>22. ASSUME NEW c \in GConns, OpenLoads(c) PROVE Clean
  BY <1>22 DEF OpenLoads, Moves, Handling
<1>23. ASSUME NEW c \in GConns, OpenStores(c) PROVE Clean
  BY <1>23 DEF OpenStores, Moves
<1>24. ASSUME NEW c \in GConns, OpenPublishes(c) PROVE Clean
  BY <1>24 DEF OpenPublishes, Moves
<1>25. ASSUME NEW c \in GConns, signalOpenResult(c) PROVE Clean
  BY <1>25 DEF signalOpenResult, Signals, Moves
<1>26. ASSUME NEW c \in GConns, OnCloseOpened(c) PROVE Clean
  BY <1>26 DEF OnCloseOpened, Moves, Lost, Handling
<1>27. ASSUME NEW c \in GConns, OnCloseUnopened(c) PROVE Clean
  BY <1>27 DEF OnCloseUnopened, Signals, Moves, Lost, Handling
<1>28. ASSUME NEW c \in GConns, startReconnect(c) PROVE Clean
  BY <1>28 DEF startReconnect, Moves, Handling
<1> QED
  BY <1>1, <1>2, <1>3, <1>4, <1>5, <1>6, <1>7, <1>8, <1>9, <1>10, <1>11, <1>12, <1>13, <1>14, <1>15, <1>16, <1>17, <1>18, <1>19, <1>20, <1>21, <1>22, <1>23, <1>24, <1>25, <1>26, <1>27, <1>28
  DEF GnetNext, Connecting, Closing, Looping, Opening

\* The initial state.
LEMMA GnetStarts == GnetInit => GInv
<1> SUFFICES ASSUME GnetInit PROVE GInv
  OBVIOUS
<1> USE GnetSizes DEF GnetInit, NoConn, NoEngine, Nobody, Caller
<1>1. Types
  <2>1. caller \in CallerRec /\ closer \in CloserRec
    BY DEF CallerRec, CloserRec
  <2>2. loop \in [LoopSlots -> LoopRec]
    BY DEF LoopRec
  <2>3. conns \in [GConns -> ConnPlaces] /\ of \in [GConns -> Nat]
    BY DEF ConnPlaces
  <2>4. need \in BOOLEAN /\ status \in Statuses /\ conn \in GConns \cup {NoConn} /\ openCh \in OpenChs
    BY DEF Statuses, OpenChs
  <2>5. stopCh \in Nat /\ closedTo \in Nat /\ closedTo <= stopCh /\ engine \in Nat /\ engines \in Nat
    OBVIOUS
  <2>6. crossed = FALSE /\ missedOpening = FALSE
    OBVIOUS
  <2> HIDE DEF GnetInit
  <2> QED BY <2>1, <2>2, <2>3, <2>4, <2>5, <2>6 DEF Types
<1>2. Alone /\ Turns
  BY DEF Alone, OneDials, OneGoes, GoesFirst, PredialFirst, Turns, Active, Goes, Predial, Working
<1>3. ByStatus
  BY DEF ByStatus, AsInit, AsConnecting, AsReconnecting, AsConnected, AsClosing, Stops, NoLoops, ConnsIn, Connected, Gone
<1>4. Held /\ Engines /\ Asked
  BY DEF Held, Engines, Asked, Active, Goes, Predial
<1> QED BY <1>1, <1>2, <1>3, <1>4 DEF GInv

\* Every step of the client keeps its invariant.
LEMMA GnetKept ==
  ASSUME GInv, [GnetNext]_gnetVars
  PROVE  GInv'
<1>1. CASE GnetNext
  <2>1. Types /\ Types'
    BY <1>1, TypesKept DEF GInv
  <2>2. CASE Clean'
    <3>1. Clean
      BY <1>1, <2>1, <2>2, CleanBefore
    <3>2. Alone /\ Turns /\ ByStatus /\ Held /\ Engines /\ Asked
      BY <3>1 DEF GInv
    <3>3. Alone'
      BY <1>1, <2>1, <2>2, <3>1, <3>2, OneDialsKept, OneGoesKept, GoesFirstKept, PredialFirstKept DEF Alone
    <3>4. Turns' /\ Held' /\ Engines' /\ Asked'
      BY <1>1, <2>1, <2>2, <3>1, <3>2, TurnsKept, HeldKept, EnginesKept, AskedKept
    <3>5. ByStatus'
      BY <1>1, <2>1, <2>2, <3>1, <3>2, AsInitKept, AsConnectingKept, AsReconnectingKept, AsConnectedKept, AsClosingKept, StopsKept DEF ByStatus
    <3> QED BY <2>1, <3>3, <3>4, <3>5 DEF GInv
  <2> QED BY <2>1, <2>2 DEF GInv
<1>2. CASE UNCHANGED gnetVars
  BY <1>2 DEF gnetVars, netVars, callVars, history, GInv, Types, Clean, Alone, OneDials, OneGoes, GoesFirst, PredialFirst,
    Turns, ByStatus, AsInit, AsConnecting, AsReconnecting, AsConnected, AsClosing, Stops, Held, Engines, Asked,
    Active, Goes, Predial, Live, Working, NoLoops, ConnsIn
<1> QED BY <1>1, <1>2

\* The invariant says what is promised of one client.
LEMMA GnetSays == GInv => GnetOwns
<1> SUFFICES ASSUME GInv, Clean PROVE OneConn /\ StatusTrue
  BY DEF GnetOwns, Clean
<1>1. Types /\ Alone /\ Turns /\ ByStatus /\ Held
  BY DEF GInv
<1>2. OneConn
  <2>1. \A e \in GConns : conns[e] \notin {"none", "left", "refused", "gone"} => Active(e)
    BY <1>1 DEF Types, ConnPlaces, Active
  <2> QED BY <1>1, <2>1 DEF OneConn, Alone, OneDials
<1>3. StatusTrue
  <2> SUFFICES ASSUME AtRest
      PROVE  /\ status \in {"Init", "Connected", "Reconnected", "Closed"}
             /\ \A c \in GConns : conns[c] = "open" <=> c = conn
             /\ conn # NoConn => Connected(status)
             /\ need /\ Connected(status) => conn # NoConn
    BY DEF StatusTrue
  <2>1. /\ caller.at = "no" /\ closer.at = "no" /\ \A i \in LoopSlots : loop[i].at = "no"
        /\ \A a \in GConns : conns[a] \in {"none", "open", "gone"}
    BY DEF AtRest
  <2>2. status \in {"Init", "Connected", "Reconnected", "Closed"}
    <3>1. status # "Connecting" /\ status # "Closing"
      BY <1>1, <2>1 DEF ByStatus, AsConnecting, AsClosing
    <3>2. status # "Reconnecting"
      BY <1>1, <2>1 DEF ByStatus, AsReconnecting, Active, Live, ConnsIn
    <3> QED BY <1>1, <3>1, <3>2 DEF Types, Statuses
  <2>3. \A a \in GConns : conns[a] = "open" => a = conn
    BY <1>1, <2>1 DEF Held
  <2>4. conn # NoConn => conn \in GConns /\ conns[conn] = "open" /\ Connected(status)
    BY <1>1, <2>1 DEF Held, Types
  <2>5. need /\ Connected(status) => conn # NoConn
    <3> SUFFICES ASSUME need, Connected(status) PROVE conn # NoConn
      OBVIOUS
    <3>1. PICK a \in GConns : Active(a) \/ conns[a] = "left"
      BY <1>1 DEF ByStatus, AsConnected
    <3>2. conns[a] = "open"
      BY <2>1, <3>1 DEF Active
    <3> QED BY <2>3, <3>2, GnetSizes DEF NoConn
  <2>6. \A a \in GConns : a = conn => conns[a] = "open"
    BY <2>4, GnetSizes DEF NoConn
  <2> QED BY <2>2, <2>3, <2>4, <2>5, <2>6
<1> QED BY <1>2, <1>3

\* A client whose Connect met no leftovers and whose Close met no connection that was
\* opening has one connection at most, and at rest its status is that of c.conn
\* (client.go, client_handler.go).
THEOREM GnetOwnsAlways == GnetSpec => []GnetOwns
<1>1. GnetInit => GInv
  BY GnetStarts
<1>2. GInv /\ [GnetNext]_gnetVars => GInv'
  BY GnetKept
<1>3. GInv => GnetOwns
  BY GnetSays
<1> QED BY <1>1, <1>2, <1>3, PTL DEF GnetSpec

-----------------------------------------------------------------------------
(* The relay                                                               *)

\* What is on a wire.
Msgs == [what : {"reg"}, req : {"none"}] \cup [what : {"relay", "reply", "err"}, req : RelayReqs]
Wires == [RelayNodes -> [Links -> Seq(Msgs)]]
\* What a queue holds, and holds twice; and the three ways a step changes a wire: connection k
\* of n takes a message, gives its first, or ends.
Holds(s, m) == \E i \in 1..Len(s) : s[i] = m
Twice(s, m) == \E i, j \in 1..Len(s) : i # j /\ s[i] = m /\ s[j] = m
Takes(f, g, n, k, m) == g = [f EXCEPT ![n][k] = Append(@, m)]
Gives(f, g, n, k) == g = [f EXCEPT ![n][k] = Tail(@)]
Clears(f, g, n, k) == g = [f EXCEPT ![n][k] = <<>>]

LifeTypes ==
  /\ life \in [RelayNodes -> {"none", "starting", "running", "closed"}]
  /\ startedNodes \subseteq RelayNodes /\ registered \subseteq RelayNodes /\ misled \subseteq RelayNodes
  /\ client \in [RelayNodes -> Nat]
  /\ dialing \subseteq RelayNodes \X Nat
ReqTypes ==
  /\ pending \subseteq RelayReqs /\ serving \subseteq RelayReqs
  /\ chan \in [RelayReqs -> {"none", "reg", "relay", "err", "reply"}]
  /\ result \in [RelayReqs -> {"none", "reg", "relay", "err", "reply", "timeout"}]
  /\ reqAt \in [RelayReqs -> {"idle", "stores", "sends", "waits", "done"}]
  /\ served \in [RelayReqs -> Nat]
LinkTypes ==
  /\ link \in [RelayNodes -> [Links -> {"none", "open", "closed", "done"}]]
  /\ loopAt \in [RelayNodes -> [Links -> {"idle", "register", "store"}]]
  /\ own \in [RelayNodes -> [Links -> Nat]]
HubTypes ==
  /\ nodes \in [RelayNodes -> Links \cup {NoLink}]
  /\ alive \subseteq RelayNodes \X Links /\ named \subseteq RelayNodes \X Links
  /\ gone \subseteq RelayNodes \X Links /\ kicked \subseteq RelayNodes \X Links
StateTypes == LifeTypes /\ ReqTypes /\ LinkTypes /\ HubTypes
WireTypes == up \in Wires /\ down \in Wires

\* Connections are made in order, by the clients made so far; a client with a dial under way
\* has none, any other at most one.  A connection not made yet is known to nobody.
Ordered == \A x \in RelayNodes, i, j \in Links : link[x][j] # "none" /\ i < j => link[x][i] # "none"
OwnDials ==
  /\ \A x \in RelayNodes, i \in Links : link[x][i] # "none" => own[x][i] <= client[x]
  /\ \A x \in RelayNodes : \A i \in Nat : <<x, i>> \in dialing => i <= client[x]
  /\ \A x \in RelayNodes, i \in Links :
       link[x][i] \in {"open", "closed"} => <<x, own[x][i]>> \notin dialing
  /\ \A x \in RelayNodes, i, j \in Links :
       /\ link[x][i] \in {"open", "closed"} /\ link[x][j] \in {"open", "closed"}
       /\ own[x][i] = own[x][j]
       => i = j
Fresh == \A x \in RelayNodes, i \in Links : link[x][i] = "none" =>
  /\ loopAt[x][i] = "idle" /\ up[x][i] = <<>>
  /\ <<x, i>> \notin alive /\ <<x, i>> \notin named /\ <<x, i>> \notin gone
  /\ nodes[x] # i

\* The hub: a connection whose end was handled is dead; the session of a node is one that
\* registered and has not ended; one that registered and is not the node's any more is dead
\* or will be closed.
Ended == \A x \in RelayNodes, i \in Links : <<x, i>> \in gone => <<x, i>> \notin alive
Dead == \A x \in RelayNodes :
  nodes[x] # NoLink => <<x, nodes[x]>> \in named /\ <<x, nodes[x]>> \notin gone
Replaced == \A x \in RelayNodes, i \in Links :
  <<x, i>> \in named /\ i # nodes[x] => <<x, i>> \notin alive \/ <<x, i>> \in kicked

\* The connection a node uses is its session at the hub, or its registration is to come or on
\* the way; and once OnConnect is over the node says that it is registered, unless misled.
Current(x, i) == link[x][i] = "open" /\ own[x][i] = client[x]
Known == \A x \in RelayNodes, i \in Links :
  Current(x, i) /\ <<x, i>> \in alive /\ <<x, i>> \notin kicked =>
    nodes[x] = i \/ loopAt[x][i] = "register" \/ Holds(up[x][i], Msg("reg", "none"))
Marked == \A x \in RelayNodes, i \in Links :
  Current(x, i) /\ loopAt[x][i] = "idle" /\ x \in startedNodes => x \in registered \/ x \in misled

\* A request is in one place only, before it is served; what answers it comes after that.
Once == \A q \in RelayReqs :
  /\ \A x \in RelayNodes, i \in Links :
       ~Twice(up[x][i], Msg("relay", q)) /\ ~Twice(down[x][i], Msg("relay", q))
  /\ \A x, y \in RelayNodes, i, j \in Links :
       /\ Holds(up[x][i], Msg("relay", q)) /\ Holds(up[y][j], Msg("relay", q)) => x = y /\ i = j
       /\ Holds(down[x][i], Msg("relay", q)) /\ Holds(down[y][j], Msg("relay", q)) => x = y /\ i = j
       /\ ~(Holds(up[x][i], Msg("relay", q)) /\ Holds(down[y][j], Msg("relay", q)))
Unserved == \A q \in RelayReqs, x \in RelayNodes, i \in Links :
  Holds(up[x][i], Msg("relay", q)) \/ Holds(down[x][i], Msg("relay", q)) =>
    served[q] = 0 /\ reqAt[q] \in {"waits", "done"}
Early == \A q \in RelayReqs : reqAt[q] \in {"idle", "stores", "sends"} => served[q] = 0
Replied == \A q \in RelayReqs, x \in RelayNodes, i \in Links :
  Holds(up[x][i], Msg("reply", q)) \/ Holds(down[x][i], Msg("reply", q)) => served[q] = 1
Served == \A q \in RelayReqs :
  /\ served[q] \in {0, 1} /\ (q \in serving => served[q] = 1)
  /\ (chan[q] = "reply" => served[q] = 1) /\ (result[q] = "reply" => served[q] = 1)
Untagged == \A q \in RelayReqs : reqAt[q] \in {"done", "idle", "stores"} => q \notin pending

RInv ==
  /\ StateTypes /\ WireTypes /\ Ordered /\ OwnDials /\ Fresh /\ Ended /\ Dead /\ Replaced
  /\ Known /\ Marked /\ Once /\ Unserved /\ Early /\ Replied /\ Served /\ Untagged

\* The next connection of a node is the first number not used yet.
LEMMA NewLink ==
  ASSUME StateTypes, Ordered, NEW n \in RelayNodes, NEW k \in Links \ Made(n),
         \A j \in Links \ Made(n) : k <= j
  PROVE  /\ link[n][k] = "none"
         /\ \A j \in Links : j < k => link[n][j] # "none"
         /\ \A j \in Links : link[n][j] # "none" => j < k
<1>1. link[n][k] = "none" /\ \A j \in Links : j < k => link[n][j] # "none"
  BY DEF Made, Links
<1>2. \A j \in Links : link[n][j] # "none" => j < k
  BY <1>1 DEF Ordered, Links
<1> QED BY <1>1, <1>2

\* What a queue holds after an append.
LEMMA AppendHolds ==
  ASSUME NEW s \in Seq(Msgs), NEW m \in Msgs, NEW w
  PROVE  /\ Holds(Append(s, m), w) <=> Holds(s, w) \/ w = m
         /\ Twice(Append(s, m), w) => Twice(s, w) \/ (w = m /\ Holds(s, m))
<1>1. /\ Len(Append(s, m)) = Len(s) + 1 /\ Len(s) \in Nat /\ Append(s, m)[Len(s) + 1] = m
      /\ \A i \in 1..Len(s) : Append(s, m)[i] = s[i]
  OBVIOUS
<1> DEFINE t == Append(s, m)
<1> HIDE DEF t
<1>2. /\ Len(t) = Len(s) + 1 /\ t[Len(s) + 1] = m /\ \A i \in 1..Len(s) : t[i] = s[i]
  BY <1>1 DEF t
<1>3. \A i \in 1..Len(t) : i = Len(s) + 1 \/ i \in 1..Len(s)
  BY <1>1, <1>2
<1>4. Holds(t, w) <=> Holds(s, w) \/ w = m
  BY <1>1, <1>2, <1>3 DEF Holds
<1>5. Twice(t, w) => Twice(s, w) \/ (w = m /\ Holds(s, m))
  BY <1>1, <1>2, <1>3 DEF Twice, Holds
<1> QED BY <1>4, <1>5 DEF t

\* What a queue holds after its first message was taken.
LEMMA TailHolds ==
  ASSUME NEW s \in Seq(Msgs), s # <<>>
  PROVE  /\ Tail(s) \in Seq(Msgs) /\ Head(s) \in Msgs /\ Holds(s, Head(s))
         /\ \A w : /\ Holds(Tail(s), w) => Holds(s, w)
                   /\ Holds(s, w) => w = Head(s) \/ Holds(Tail(s), w)
                   /\ Twice(Tail(s), w) => Twice(s, w)
         /\ Holds(Tail(s), Head(s)) => Twice(s, Head(s))
<1>1. /\ Tail(s) \in Seq(Msgs) /\ Head(s) = s[1] /\ Len(s) \in Nat /\ Len(s) >= 1
      /\ Len(Tail(s)) = Len(s) - 1 /\ \A i \in 1..(Len(s) - 1) : Tail(s)[i] = s[i + 1]
  OBVIOUS
<1> DEFINE t == Tail(s)
<1> HIDE DEF t
<1>2. /\ Len(t) = Len(s) - 1 /\ \A i \in 1..Len(t) : i + 1 \in 1..Len(s) /\ t[i] = s[i + 1] /\ i + 1 # 1
  BY <1>1 DEF t
<1>3. \A i \in 1..Len(s) : i = 1 \/ (i - 1 \in 1..Len(t) /\ s[i] = t[i - 1])
  <2> TAKE i \in 1..Len(s)
  <2> SUFFICES ASSUME i # 1 PROVE i - 1 \in 1..Len(t) /\ s[i] = t[i - 1]
    OBVIOUS
  <2>1. i - 1 \in 1..Len(t) /\ (i - 1) + 1 = i
    BY <1>1, <1>2
  <2> QED BY <1>2, <2>1
<1>4. Holds(s, Head(s)) /\ Head(s) \in Msgs
  BY <1>1 DEF Holds
<1>5. \A w : Holds(t, w) => Holds(s, w)
  BY <1>2 DEF Holds
<1>6. \A w : Holds(s, w) => w = Head(s) \/ Holds(t, w)
  BY <1>1, <1>3 DEF Holds
<1>7. \A w : Twice(t, w) => Twice(s, w)
  <2> SUFFICES ASSUME NEW w, Twice(t, w) PROVE Twice(s, w)
    OBVIOUS
  <2>1. PICK i, j \in 1..Len(t) : i # j /\ t[i] = w /\ t[j] = w
    BY DEF Twice
  <2>2. i + 1 \in 1..Len(s) /\ j + 1 \in 1..Len(s) /\ i + 1 # j + 1 /\ s[i + 1] = w /\ s[j + 1] = w
    BY <1>2, <2>1
  <2> QED BY <2>2 DEF Twice
<1>8. Holds(t, Head(s)) => Twice(s, Head(s))
  <2> SUFFICES ASSUME Holds(t, Head(s)) PROVE Twice(s, Head(s))
    OBVIOUS
  <2>1. PICK i \in 1..Len(t) : t[i] = Head(s)
    BY DEF Holds
  <2>2. 1 \in 1..Len(s) /\ s[1] = Head(s) /\ i + 1 \in 1..Len(s) /\ i + 1 # 1 /\ s[i + 1] = Head(s)
    BY <1>1, <1>2, <2>1
  <2> QED BY <2>2 DEF Twice
<1> QED BY <1>1, <1>4, <1>5, <1>6, <1>7, <1>8 DEF t

\* An empty queue holds nothing.
LEMMA EmptyHolds == <<>> \in Seq(Msgs) /\ \A w : ~Holds(<<>>, w) /\ ~Twice(<<>>, w)
BY DEF Holds, Twice

\* A wire of which one connection takes a message.
LEMMA Grown ==
  ASSUME NEW f \in Wires, NEW n \in RelayNodes, NEW k \in Links, NEW m \in Msgs, NEW g, Takes(f, g, n, k, m)
  PROVE  /\ g \in Wires
         /\ \A x \in RelayNodes, i \in Links : x # n \/ i # k => g[x][i] = f[x][i]
         /\ \A x \in RelayNodes, i \in Links, w \in Msgs :
              /\ Holds(g[x][i], w) <=> Holds(f[x][i], w) \/ (x = n /\ i = k /\ w = m)
              /\ Twice(g[x][i], w) => Twice(f[x][i], w) \/ (x = n /\ i = k /\ w = m /\ Holds(f[n][k], m))
<1>1. f[n][k] \in Seq(Msgs) /\ Append(f[n][k], m) \in Seq(Msgs)
  BY DEF Wires
<1>2. g[n][k] = Append(f[n][k], m) /\ \A x \in RelayNodes, i \in Links : x # n \/ i # k => g[x][i] = f[x][i]
  BY DEF Wires, Takes
<1>3. g \in Wires
  BY <1>1 DEF Wires, Takes
<1>4. \A w \in Msgs : /\ Holds(g[n][k], w) <=> Holds(f[n][k], w) \/ w = m
                      /\ Twice(g[n][k], w) => Twice(f[n][k], w) \/ (w = m /\ Holds(f[n][k], m))
  BY <1>1, <1>2, AppendHolds
<1> QED BY <1>2, <1>3, <1>4

\* A wire of which one connection gives its first message.
LEMMA Dropped ==
  ASSUME NEW f \in Wires, NEW n \in RelayNodes, NEW k \in Links, f[n][k] # <<>>, NEW g, Gives(f, g, n, k)
  PROVE  /\ g \in Wires /\ Head(f[n][k]) \in Msgs /\ Holds(f[n][k], Head(f[n][k]))
         /\ \A x \in RelayNodes, i \in Links : x # n \/ i # k => g[x][i] = f[x][i]
         /\ \A x \in RelayNodes, i \in Links, w \in Msgs :
              /\ Holds(g[x][i], w) => Holds(f[x][i], w)
              /\ Twice(g[x][i], w) => Twice(f[x][i], w)
              /\ Holds(f[x][i], w) => Holds(g[x][i], w) \/ (x = n /\ i = k /\ w = Head(f[n][k]))
         /\ Holds(g[n][k], Head(f[n][k])) => Twice(f[n][k], Head(f[n][k]))
<1>1. f[n][k] \in Seq(Msgs)
  BY DEF Wires
<1>2. g[n][k] = Tail(f[n][k]) /\ \A x \in RelayNodes, i \in Links : x # n \/ i # k => g[x][i] = f[x][i]
  BY DEF Wires, Gives
<1>3. Tail(f[n][k]) \in Seq(Msgs)
  BY <1>1, TailHolds
<1>4. g \in Wires
  BY <1>3 DEF Wires, Gives
<1>5. Head(f[n][k]) \in Msgs /\ Holds(f[n][k], Head(f[n][k])) /\ (Holds(g[n][k], Head(f[n][k])) => Twice(f[n][k], Head(f[n][k])))
  BY <1>1, <1>2, TailHolds
<1>6. \A w \in Msgs : /\ Holds(g[n][k], w) => Holds(f[n][k], w)
                      /\ Twice(g[n][k], w) => Twice(f[n][k], w)
                      /\ Holds(f[n][k], w) => Holds(g[n][k], w) \/ w = Head(f[n][k])
  BY <1>1, <1>2, TailHolds
<1> QED BY <1>2, <1>4, <1>5, <1>6

\* A wire of which one connection ends.
LEMMA Cleared ==
  ASSUME NEW f \in Wires, NEW n \in RelayNodes, NEW k \in Links, NEW g, Clears(f, g, n, k)
  PROVE  /\ g \in Wires /\ g[n][k] = <<>>
         /\ \A x \in RelayNodes, i \in Links : x # n \/ i # k => g[x][i] = f[x][i]
         /\ \A x \in RelayNodes, i \in Links, w \in Msgs :
              /\ Holds(g[x][i], w) => Holds(f[x][i], w)
              /\ Twice(g[x][i], w) => Twice(f[x][i], w)
<1>1. g[n][k] = <<>> /\ \A x \in RelayNodes, i \in Links : x # n \/ i # k => g[x][i] = f[x][i]
  BY DEF Wires, Clears
<1>2. g \in Wires
  BY EmptyHolds DEF Wires, Clears
<1> QED BY <1>1, <1>2, EmptyHolds

\* client.conn is the one open connection of the present client, or there is none.
LEMMA CurIs ==
  ASSUME StateTypes, OwnDials, NEW n \in RelayNodes
  PROVE  \/ Cur(n) = NoLink /\ \A i \in Links : ~Current(n, i)
         \/ Cur(n) \in Links /\ Current(n, Cur(n)) /\ \A i \in Links : Current(n, i) => i = Cur(n)
<1>1. CASE \A i \in Links : ~Current(n, i)
  BY <1>1 DEF Cur, OfClient, Made, Current
<1>2. CASE \E i \in Links : Current(n, i)
  <2>1. Cur(n) \in Links /\ Current(n, Cur(n))
    BY <1>2 DEF Cur, OfClient, Made, Current
  <2>2. \A i, j \in Links : Current(n, i) /\ Current(n, j) => i = j
    BY DEF OwnDials, Current
  <2> QED BY <2>1, <2>2
<1> QED BY <1>1, <1>2

\* What a Send of a node adds to its wire: nothing, or one message on a live connection.
LEMMA Sent ==
  ASSUME StateTypes, WireTypes, NEW n \in RelayNodes, NEW m \in Msgs, SendUp(n, m)
  PROVE  /\ up' \in Wires
         /\ \A x \in RelayNodes, i \in Links : <<x, i>> \notin alive => up'[x][i] = up[x][i]
         /\ \A x \in RelayNodes, i \in Links, w \in Msgs :
              /\ Holds(up'[x][i], w) => Holds(up[x][i], w) \/ (x = n /\ i = Cur(n) /\ w = m)
              /\ Holds(up[x][i], w) => Holds(up'[x][i], w)
              /\ Twice(up'[x][i], w) => Twice(up[x][i], w) \/ (x = n /\ i = Cur(n) /\ w = m /\ Holds(up[x][i], w))
         /\ <<n, Cur(n)>> \in alive => Holds(up'[n][Cur(n)], m)
<1>1. CASE <<n, Cur(n)>> \notin alive
  BY <1>1 DEF SendUp, WireTypes
<1>2. CASE <<n, Cur(n)>> \in alive
  <2>1. PICK k \in Links : k = Cur(n)
    BY <1>2 DEF StateTypes, HubTypes
  <2>2. Takes(up, up', n, k, m) /\ up \in Wires
    BY <1>2, <2>1 DEF Takes, SendUp, WireTypes
  <2>3. /\ up' \in Wires
        /\ \A x \in RelayNodes, i \in Links : x # n \/ i # k => up'[x][i] = up[x][i]
        /\ \A x \in RelayNodes, i \in Links, w \in Msgs :
             /\ Holds(up'[x][i], w) <=> Holds(up[x][i], w) \/ (x = n /\ i = k /\ w = m)
             /\ Twice(up'[x][i], w) => Twice(up[x][i], w) \/ (x = n /\ i = k /\ w = m /\ Holds(up[n][k], m))
    BY <2>2, Grown
  <2> QED BY <1>2, <2>1, <2>3
<1> QED BY <1>1, <1>2

\* Messages are told apart by what they say and of which request.
LEMMA MsgsAre ==
  /\ Msg("reg", "none") \in Msgs
  /\ \A q \in RelayReqs : Msg("relay", q) \in Msgs /\ Msg("reply", q) \in Msgs /\ Msg("err", q) \in Msgs
  /\ \A m \in Msgs : /\ m = Msg(m.what, m.req) /\ m.what \in {"reg", "relay", "reply", "err"}
                     /\ m.what = "reg" => m.req = "none"
                     /\ m.what # "reg" => m.req \in RelayReqs
  /\ \A v1, v2, r1, r2 : Msg(v1, r1) = Msg(v2, r2) => v1 = v2 /\ r1 = r2
<1>1. \A v1, v2, r1, r2 : Msg(v1, r1) = Msg(v2, r2) => v1 = v2 /\ r1 = r2
  <2> SUFFICES ASSUME NEW v1, NEW v2, NEW r1, NEW r2, Msg(v1, r1) = Msg(v2, r2) PROVE v1 = v2 /\ r1 = r2
    OBVIOUS
  <2>1. Msg(v1, r1).what = v1 /\ Msg(v1, r1).req = r1 /\ Msg(v2, r2).what = v2 /\ Msg(v2, r2).req = r2
    BY DEF Msg
  <2> QED BY <2>1
<1> QED BY <1>1 DEF Msg, Msgs

\* The hub takes the first message of a connection, and forwards it, answers with an
\* error, or neither.
LEMMA Dispatched ==
  ASSUME StateTypes, WireTypes, NEW n \in RelayNodes, NEW k \in Links, dispatch(n, k)
  PROVE  /\ up[n][k] # <<>> /\ Gives(up, up', n, k)
         /\ \/ down' = down
            \/ \E x \in RelayNodes, i \in Links, m \in Msgs :
                 /\ m = Head(up[n][k]) \/ m = Msg("err", Head(up[n][k]).req)
                 /\ Takes(down, down', x, i, m)
<1> USE RelaySizes
<1> DEFINE h == Head(up[n][k])
<1>1. up[n][k] # <<>> /\ Gives(up, up', n, k)
  BY DEF dispatch, Gives
<1>2. h \in Msgs
  BY <1>1, Dropped DEF WireTypes
<1>3. CASE h.what = "reg"
  BY <1>1, <1>3 DEF dispatch
<1>4. CASE h.what # "reg"
  <2>1. h.req \in RelayReqs
    BY <1>2, <1>4, MsgsAre
  <2>2. PICK x \in RelayNodes : x = IF h.what = "relay" THEN Dst[h.req] ELSE Src[h.req]
    BY <2>1
  <2>3. \/ down' = down
        \/ nodes[x] # NoLink /\ Forward(x, nodes[x], h)
        \/ Forward(n, k, Msg("err", h.req))
    BY <1>4, <2>2 DEF dispatch
  <2>4. Msg("err", h.req) \in Msgs
    BY <2>1, MsgsAre
  <2>5. CASE nodes[x] # NoLink /\ Forward(x, nodes[x], h)
    <3>1. nodes[x] \in Links
      BY <2>5 DEF StateTypes, HubTypes
    <3> QED BY <1>1, <1>2, <2>5, <3>1 DEF Forward, Takes
  <2>6. CASE Forward(n, k, Msg("err", h.req))
    BY <1>1, <2>4, <2>6 DEF Forward, Takes
  <2> QED BY <1>1, <2>3, <2>5, <2>6
<1> QED BY <1>3, <1>4

\* A wire that has no more of w than before.
Within(f, g, w) == \A x \in RelayNodes, i \in Links :
  (Holds(g[x][i], w) => Holds(f[x][i], w)) /\ (Twice(g[x][i], w) => Twice(f[x][i], w))

\* What OnConnect sends is no request and no answer.
LEMMA OnConnectWires ==
  ASSUME StateTypes, WireTypes, NEW n \in RelayNodes, NEW k \in Links, OnConnect(n, k)
  PROVE  /\ down' = down /\ up' \in Wires
         /\ \A q \in RelayReqs : Within(up, up', Msg("relay", q)) /\ Within(up, up', Msg("reply", q))
<1>1. SendUp(n, Msg("reg", "none")) /\ down' = down
  BY DEF OnConnect
<1>2. \A q \in RelayReqs : /\ Msg("relay", q) \in Msgs /\ Msg("relay", q) # Msg("reg", "none")
                           /\ Msg("reply", q) \in Msgs /\ Msg("reply", q) # Msg("reg", "none")
  BY MsgsAre
<1>3. Msg("reg", "none") \in Msgs
  BY MsgsAre
<1>4. \A w \in Msgs : w # Msg("reg", "none") => Within(up, up', w)
  <2>1. /\ \A x \in RelayNodes, i \in Links, w \in Msgs :
             /\ Holds(up'[x][i], w) => Holds(up[x][i], w) \/ (x = n /\ i = Cur(n) /\ w = Msg("reg", "none"))
             /\ Holds(up[x][i], w) => Holds(up'[x][i], w)
             /\ Twice(up'[x][i], w) => Twice(up[x][i], w) \/ (x = n /\ i = Cur(n) /\ w = Msg("reg", "none") /\ Holds(up[x][i], w))
    BY <1>1, <1>3, Sent
  <2> QED BY <2>1 DEF Within
<1>5. up' \in Wires
  BY <1>1, <1>3, Sent
<1> QED BY <1>1, <1>2, <1>4, <1>5

\* OnClose of a node only takes messages away.
LEMMA OnCloseWires ==
  ASSUME WireTypes, NEW n \in RelayNodes, NEW k \in Links, OnClose(n, k)
  PROVE  /\ up' = up /\ down' \in Wires
         /\ \A w \in Msgs : Within(down, down', w)
<1>1. Clears(down, down', n, k) /\ up' = up
  BY DEF OnClose, Clears
<1> QED BY <1>1, Cleared DEF Within, WireTypes

\* So does the hub's, from what it has not read.
LEMMA HubClosesWires ==
  ASSUME WireTypes, NEW n \in RelayNodes, NEW k \in Links, HubCloses(n, k)
  PROVE  /\ down' = down /\ up' \in Wires /\ \A w \in Msgs : Within(up, up', w)
         /\ up'[n][k] = <<>> /\ \A x \in RelayNodes, i \in Links : x # n \/ i # k => up'[x][i] = up[x][i]
<1>1. Clears(up, up', n, k) /\ down' = down
  BY DEF HubCloses, Clears
<1> QED BY <1>1, Cleared DEF Within, WireTypes

\* A node takes the first message of a connection.
LEMMA NodeReadsWires ==
  ASSUME WireTypes, NEW n \in RelayNodes, NEW k \in Links, NodeReads(n, k)
  PROVE  /\ up' = up /\ down' \in Wires
         /\ \A w \in Msgs : Within(down, down', w)
         /\ Head(down[n][k]) \in Msgs /\ Holds(down[n][k], Head(down[n][k]))
         /\ Holds(down'[n][k], Head(down[n][k])) => Twice(down[n][k], Head(down[n][k]))
<1>1. Gives(down, down', n, k) /\ up' = up /\ down[n][k] # <<>> /\ down \in Wires
  BY DEF NodeReads, Gives, wireVars, WireTypes
<1>2. /\ down' \in Wires /\ Head(down[n][k]) \in Msgs /\ Holds(down[n][k], Head(down[n][k]))
      /\ \A x \in RelayNodes, i \in Links, w \in Msgs :
           /\ Holds(down'[x][i], w) => Holds(down[x][i], w)
           /\ Twice(down'[x][i], w) => Twice(down[x][i], w)
      /\ Holds(down'[n][k], Head(down[n][k])) => Twice(down[n][k], Head(down[n][k]))
  BY <1>1, Dropped
<1> QED BY <1>1, <1>2 DEF Within

\* A handled request adds its answer at most.
LEMMA RepliesWires ==
  ASSUME StateTypes, WireTypes, NEW r \in RelayReqs, handleInboundRelay(r)
  PROVE  /\ down' = down /\ up' \in Wires
         /\ \A w \in Msgs : w # Msg("reply", r) => Within(up, up', w)
         /\ \A x \in RelayNodes, i \in Links : <<x, i>> \notin alive => up'[x][i] = up[x][i]
         /\ \A x \in RelayNodes, i \in Links, w \in Msgs : Holds(up[x][i], w) => Holds(up'[x][i], w)
<1>1. down' = down /\ (up' = up \/ SendUp(Dst[r], Msg("reply", r)))
  BY DEF handleInboundRelay
<1>2. Dst[r] \in RelayNodes /\ Msg("reply", r) \in Msgs
  BY MsgsAre, RelaySizes
<1>3. CASE up' = up
  BY <1>1, <1>3 DEF Within, WireTypes
<1>4. CASE SendUp(Dst[r], Msg("reply", r))
  <2>1. /\ up' \in Wires
        /\ \A x \in RelayNodes, i \in Links : <<x, i>> \notin alive => up'[x][i] = up[x][i]
        /\ \A x \in RelayNodes, i \in Links, w \in Msgs :
             /\ Holds(up'[x][i], w) => Holds(up[x][i], w) \/ (x = Dst[r] /\ i = Cur(Dst[r]) /\ w = Msg("reply", r))
             /\ Holds(up[x][i], w) => Holds(up'[x][i], w)
             /\ Twice(up'[x][i], w) => Twice(up[x][i], w) \/ (x = Dst[r] /\ i = Cur(Dst[r]) /\ w = Msg("reply", r) /\ Holds(up[x][i], w))
    BY <1>2, <1>4, Sent
  <2> QED BY <1>1, <2>1 DEF Within
<1> QED BY <1>1, <1>3, <1>4

\* A request that is sent adds itself at most.
LEMMA RequestWires ==
  ASSUME StateTypes, WireTypes, NEW r \in RelayReqs, RequestSends(r)
  PROVE  /\ down' = down /\ up' \in Wires
         /\ \A w \in Msgs : w # Msg("relay", r) => Within(up, up', w)
         /\ \A x \in RelayNodes, i \in Links : <<x, i>> \notin alive => up'[x][i] = up[x][i]
         /\ \A x \in RelayNodes, i \in Links, w \in Msgs : Holds(up[x][i], w) => Holds(up'[x][i], w)
         /\ \A x \in RelayNodes, i \in Links : Holds(up'[x][i], Msg("relay", r)) =>
              \/ Holds(up[x][i], Msg("relay", r))
              \/ x = Src[r] /\ i = Cur(Src[r]) /\ reqAt' = [reqAt EXCEPT ![r] = "waits"]
         /\ \A x \in RelayNodes, i \in Links : Twice(up'[x][i], Msg("relay", r)) => Holds(up[x][i], Msg("relay", r)) \/ Twice(up[x][i], Msg("relay", r))
<1>1. down' = down /\ (up' = up \/ (SendUp(Src[r], Msg("relay", r)) /\ reqAt' = [reqAt EXCEPT ![r] = "waits"]))
  BY DEF RequestSends
<1>2. Src[r] \in RelayNodes /\ Msg("relay", r) \in Msgs
  BY MsgsAre, RelaySizes
<1>3. CASE up' = up
  BY <1>1, <1>3 DEF Within, WireTypes
<1>4. CASE SendUp(Src[r], Msg("relay", r)) /\ reqAt' = [reqAt EXCEPT ![r] = "waits"]
  <2>1. /\ up' \in Wires
        /\ \A x \in RelayNodes, i \in Links : <<x, i>> \notin alive => up'[x][i] = up[x][i]
        /\ \A x \in RelayNodes, i \in Links, w \in Msgs :
             /\ Holds(up'[x][i], w) => Holds(up[x][i], w) \/ (x = Src[r] /\ i = Cur(Src[r]) /\ w = Msg("relay", r))
             /\ Holds(up[x][i], w) => Holds(up'[x][i], w)
             /\ Twice(up'[x][i], w) => Twice(up[x][i], w) \/ (x = Src[r] /\ i = Cur(Src[r]) /\ w = Msg("relay", r) /\ Holds(up[x][i], w))
    BY <1>2, <1>4, Sent
  <2>2. \A w \in Msgs : w # Msg("relay", r) => Within(up, up', w)
    BY <2>1 DEF Within
  <2> QED BY <1>1, <1>2, <1>4, <2>1, <2>2
<1> QED BY <1>1, <1>3, <1>4

\* The hub's dispatch takes a message away from what goes up, ...
LEMMA DispatchWires ==
  ASSUME StateTypes, WireTypes, NEW n \in RelayNodes, NEW k \in Links, dispatch(n, k)
  PROVE  /\ up[n][k] # <<>> /\ up' \in Wires /\ \A w \in Msgs : Within(up, up', w)
         /\ Head(up[n][k]) \in Msgs /\ Holds(up[n][k], Head(up[n][k]))
         /\ Holds(up'[n][k], Head(up[n][k])) => Twice(up[n][k], Head(up[n][k]))
         /\ \A x \in RelayNodes, i \in Links : x # n \/ i # k => up'[x][i] = up[x][i]
         /\ \A w \in Msgs : Holds(up[n][k], w) => Holds(up'[n][k], w) \/ w = Head(up[n][k])
<1>1. up \in Wires
  BY DEF WireTypes
<1>2. /\ up[n][k] # <<>> /\ Gives(up, up', n, k)
  BY Dispatched
<1> QED BY <1>1, <1>2, Dropped DEF Within

\* ... and adds at most that message, or an error, to what goes down.
LEMMA DispatchDown ==
  ASSUME StateTypes, WireTypes, NEW n \in RelayNodes, NEW k \in Links, dispatch(n, k)
  PROVE  /\ down' \in Wires
         /\ \/ down' = down
            \/ \E x \in RelayNodes, i \in Links, m \in Msgs :
                 /\ m = Head(up[n][k]) \/ m = Msg("err", Head(up[n][k]).req)
                 /\ \A y \in RelayNodes, j \in Links, w \in Msgs :
                      /\ Holds(down'[y][j], w) => Holds(down[y][j], w) \/ (y = x /\ j = i /\ w = m)
                      /\ Twice(down'[y][j], w) => Twice(down[y][j], w) \/ (y = x /\ j = i /\ w = m /\ Holds(down[x][i], m))
<1>1. down \in Wires
  BY DEF WireTypes
<1>2. \/ down' = down
      \/ \E x \in RelayNodes, i \in Links, m \in Msgs :
              /\ m = Head(up[n][k]) \/ m = Msg("err", Head(up[n][k]).req)
              /\ Takes(down, down', x, i, m)
  BY Dispatched
<1>4. CASE down' = down
  BY <1>1, <1>4
<1>5. CASE down' # down
  <2>1. PICK x \in RelayNodes, i \in Links, m \in Msgs :
              /\ m = Head(up[n][k]) \/ m = Msg("err", Head(up[n][k]).req)
              /\ Takes(down, down', x, i, m)
    BY <1>2, <1>5
  <2>2. /\ down' \in Wires
        /\ \A y \in RelayNodes, j \in Links, w \in Msgs :
                      /\ Holds(down'[y][j], w) => Holds(down[y][j], w) \/ (y = x /\ j = i /\ w = m)
                      /\ Twice(down'[y][j], w) => Twice(down[y][j], w) \/ (y = x /\ j = i /\ w = m /\ Holds(down[x][i], m))
    BY <1>1, <2>1, Grown
  <2> QED BY <2>1, <2>2
<1> QED BY <1>4, <1>5

\* Every step keeps the types of the states, ...
LEMMA StateTypesKept ==
  ASSUME StateTypes, WireTypes, Ordered, OwnDials, Fresh, Ended, Dead, Replaced, Known, Marked, Once, Unserved, Early, Replied, Served, Untagged, RelayNext
  PROVE  StateTypes'
<1> USE RelaySizes DEF lifeVars, reqVars, servVars, dialVars, linkVars, wireVars, relayHubVars
<1>1. ASSUME NEW n \in RelayNodes, TransportStart(n) PROVE StateTypes'
  BY <1>1 DEF TransportStart, StateTypes, LifeTypes, ReqTypes, LinkTypes, HubTypes
<1>2. ASSUME NEW n \in RelayNodes, StartFails(n) PROVE StateTypes'
  BY <1>2 DEF StartFails, StateTypes, LifeTypes, ReqTypes, LinkTypes, HubTypes
<1>3. ASSUME NEW n \in RelayNodes, StartReturns(n) PROVE StateTypes'
  BY <1>3 DEF StartReturns, StateTypes, LifeTypes, ReqTypes, LinkTypes, HubTypes
<1>4. ASSUME NEW n \in RelayNodes, Close(n) PROVE StateTypes'
  <2>1. LifeTypes'
    BY <1>4 DEF Close, StateTypes, LifeTypes
  <2>2. ReqTypes'
    <3>1. chan' \in [RelayReqs -> {"none", "reg", "relay", "err", "reply"}]
      BY <1>4 DEF Close, failAllPending, Answered, StateTypes, ReqTypes
    <3>2. pending' \subseteq RelayReqs
      BY <1>4 DEF Close, failAllPending, StateTypes, ReqTypes
    <3> QED BY <1>4, <3>1, <3>2 DEF Close, StateTypes, ReqTypes
  <2>3. LinkTypes'
    <3>1. CASE Cur(n) = NoLink
      BY <1>4, <3>1 DEF Close, StateTypes, LinkTypes
    <3>2. CASE Cur(n) # NoLink
      <4>1. Cur(n) \in Links
        BY <3>2, CurIs
      <4> QED BY <1>4, <3>2, <4>1 DEF Close, StateTypes, LinkTypes
    <3> QED BY <3>1, <3>2
  <2>4. HubTypes'
    BY <1>4 DEF Close, StateTypes, HubTypes
  <2> QED BY <2>1, <2>2, <2>3, <2>4 DEF StateTypes
<1>5. ASSUME NEW n \in RelayNodes, NEW k \in Links, OnConnect(n, k) PROVE StateTypes'
  BY <1>5 DEF OnConnect, StateTypes, LifeTypes, ReqTypes, LinkTypes, HubTypes
<1>6. ASSUME NEW n \in RelayNodes, NEW k \in Links, OnConnectStores(n, k) PROVE StateTypes'
  BY <1>6 DEF OnConnectStores, StateTypes, LifeTypes, ReqTypes, LinkTypes, HubTypes
<1>7. ASSUME NEW n \in RelayNodes, NEW k \in Links, LinkLost(n, k) PROVE StateTypes'
  BY <1>7 DEF LinkLost, StateTypes, LifeTypes, ReqTypes, LinkTypes, HubTypes
<1>8. ASSUME NEW n \in RelayNodes, NEW k \in Links, OnClose(n, k) PROVE StateTypes'
  <2>1. LifeTypes'
    BY <1>8 DEF OnClose, StateTypes, LifeTypes, LinkTypes
  <2>2. ReqTypes'
    <3>1. chan' \in [RelayReqs -> {"none", "reg", "relay", "err", "reply"}]
      BY <1>8 DEF OnClose, failAllPending, Answered, StateTypes, ReqTypes
    <3>2. pending' \subseteq RelayReqs
      BY <1>8 DEF OnClose, failAllPending, StateTypes, ReqTypes
    <3> QED BY <1>8, <3>1, <3>2 DEF OnClose, StateTypes, ReqTypes
  <2>3. LinkTypes'
    BY <1>8 DEF OnClose, StateTypes, LinkTypes
  <2>4. HubTypes'
    BY <1>8 DEF OnClose, StateTypes, HubTypes
  <2> QED BY <2>1, <2>2, <2>3, <2>4 DEF StateTypes
<1>9. ASSUME NEW n \in RelayNodes, NEW k \in Links, NodeReads(n, k) PROVE StateTypes'
  <2>1. LifeTypes'
    BY <1>9 DEF NodeReads, StateTypes, LifeTypes
  <2>2. ReqTypes'
    <3> DEFINE h == Head(down[n][k])
    <3>1. h \in Msgs
      BY <1>9, NodeReadsWires
    <3>2. h.what \in {"reg", "relay", "reply", "err"} /\ (h.what = "relay" => h.req \in RelayReqs)
      BY <3>1, MsgsAre
    <3>3. /\ UNCHANGED <<reqAt, result>> /\ pending' \subseteq pending
          /\ \/ h.what = "relay" /\ served' = [served EXCEPT ![h.req] = @ + 1] /\ serving' = serving \cup {h.req} /\ UNCHANGED chan
             \/ h.what # "relay" /\ UNCHANGED <<served, serving>> /\ chan' = [q \in RelayReqs |-> IF q \in {h.req} \cap pending THEN h.what ELSE chan[q]]
      BY <1>9 DEF NodeReads, Answered
    <3> HIDE DEF h
    <3>4. chan' \in [RelayReqs -> {"none", "reg", "relay", "err", "reply"}]
      BY <3>2, <3>3 DEF StateTypes, ReqTypes
    <3>5. served' \in [RelayReqs -> Nat] /\ serving' \subseteq RelayReqs
      BY <3>2, <3>3 DEF StateTypes, ReqTypes
    <3> QED BY <3>3, <3>4, <3>5 DEF StateTypes, ReqTypes
  <2>3. LinkTypes'
    BY <1>9 DEF NodeReads, StateTypes, LinkTypes
  <2>4. HubTypes'
    BY <1>9 DEF NodeReads, StateTypes, HubTypes
  <2> QED BY <2>1, <2>2, <2>3, <2>4 DEF StateTypes
<1>10. ASSUME NEW n \in RelayNodes, NEW k \in Links, dispatch(n, k) PROVE StateTypes'
  <2>1. LifeTypes'
    BY <1>10 DEF dispatch, StateTypes, LifeTypes
  <2>2. ReqTypes'
    BY <1>10 DEF dispatch, StateTypes, ReqTypes
  <2>3. LinkTypes'
    BY <1>10 DEF dispatch, StateTypes, LinkTypes
  <2>4. HubTypes'
    <3>1. CASE UNCHANGED <<nodes, named, kicked>>
      BY <1>10, <3>1 DEF dispatch, StateTypes, HubTypes
    <3>2. CASE bind(n, k)
      <4>1. UNCHANGED <<alive, gone>>
        BY <1>10 DEF dispatch
      <4>2. nodes[n] \in Links \cup {NoLink}
        BY DEF StateTypes, HubTypes
      <4> QED BY <3>2, <4>1, <4>2 DEF bind, StateTypes, HubTypes
    <3> QED BY <1>10, <3>1, <3>2 DEF dispatch
  <2> QED BY <2>1, <2>2, <2>3, <2>4 DEF StateTypes
<1>11. ASSUME NEW n \in RelayNodes, NEW k \in Links, HubCloses(n, k) PROVE StateTypes'
  <2>1. LifeTypes'
    BY <1>11 DEF HubCloses, StateTypes, LifeTypes
  <2>2. ReqTypes'
    BY <1>11 DEF HubCloses, StateTypes, ReqTypes
  <2>3. LinkTypes'
    BY <1>11 DEF HubCloses, StateTypes, LinkTypes
  <2>4. HubTypes'
    <3>1. /\ alive' = alive /\ gone' = gone \cup {<<n, k>>} /\ kicked' = kicked \ {<<n, k>>}
          /\ nodes' = [nodes EXCEPT ![n] = IF nodes[n] = k THEN NoLink ELSE nodes[n]] /\ named' = named \ {<<n, k>>}
      BY <1>11 DEF HubCloses, unregister
    <3>2. nodes' \in [RelayNodes -> Links \cup {NoLink}]
      BY <3>1 DEF StateTypes, HubTypes
    <3> QED BY <3>1, <3>2 DEF StateTypes, HubTypes
  <2> QED BY <2>1, <2>2, <2>3, <2>4 DEF StateTypes
<1>12. ASSUME NEW n \in RelayNodes, NEW k \in Links, HubKicks(n, k) PROVE StateTypes'
  BY <1>12 DEF HubKicks, StateTypes, LifeTypes, ReqTypes, LinkTypes, HubTypes
<1>13. ASSUME NEW n \in RelayNodes, NEW k \in Links, LinkBreaks(n, k) PROVE StateTypes'
  BY <1>13 DEF LinkBreaks, StateTypes, LifeTypes, ReqTypes, LinkTypes, HubTypes
<1>14. ASSUME NEW n \in RelayNodes, NEW c \in 0..client[n], OnOpen(n, c) PROVE StateTypes'
  <2>0. PICK k \in Links \ Made(n) :
          /\ <<n, c>> \in dialing /\ dialing' = dialing \ {<<n, c>>} /\ stopped' = stopped \ {<<n, c>>}
          /\ own' = [own EXCEPT ![n][k] = c] /\ link' = [link EXCEPT ![n][k] = "open"]
          /\ loopAt' = [loopAt EXCEPT ![n][k] = "register"] /\ alive' = alive \cup {<<n, k>>}
          /\ UNCHANGED <<lifeVars, registered, reqVars, servVars, wireVars, relayHubVars, breaks, misled>>
          /\ \A j \in Links \ Made(n) : k <= j
    BY <1>14 DEF OnOpen
  <2>1. /\ k \in Links /\ link[n][k] = "none" /\ \A j \in Links : j < k => link[n][j] # "none"
        /\ \A j \in Links : link[n][j] # "none" => j < k
    BY <2>0, NewLink
  <2>2. /\ <<n, c>> \in dialing /\ dialing' = dialing \ {<<n, c>>} /\ stopped' = stopped \ {<<n, c>>}
        /\ own' = [own EXCEPT ![n][k] = c] /\ link' = [link EXCEPT ![n][k] = "open"]
        /\ loopAt' = [loopAt EXCEPT ![n][k] = "register"] /\ alive' = alive \cup {<<n, k>>}
        /\ UNCHANGED <<lifeVars, registered, reqVars, servVars, wireVars, relayHubVars, breaks, misled>>
    BY <2>0
  <2> QED BY <2>1, <2>2 DEF StateTypes, LifeTypes, ReqTypes, LinkTypes, HubTypes
<1>15. ASSUME NEW n \in RelayNodes, NEW c \in 0..client[n], DialEnds(n, c) PROVE StateTypes'
  BY <1>15 DEF DialEnds, StateTypes, LifeTypes, ReqTypes, LinkTypes, HubTypes
<1>16. ASSUME NEW r \in RelayReqs, RequestChecks(r) PROVE StateTypes'
  BY <1>16 DEF RequestChecks, StateTypes, LifeTypes, ReqTypes, LinkTypes, HubTypes
<1>17. ASSUME NEW r \in RelayReqs, RequestStores(r) PROVE StateTypes'
  BY <1>17 DEF RequestStores, StateTypes, LifeTypes, ReqTypes, LinkTypes, HubTypes
<1>18. ASSUME NEW r \in RelayReqs, RequestSends(r) PROVE StateTypes'
  BY <1>18 DEF RequestSends, StateTypes, LifeTypes, ReqTypes, LinkTypes, HubTypes
<1>19. ASSUME NEW r \in RelayReqs, RequestReturns(r) PROVE StateTypes'
  <2>1. LifeTypes'
    BY <1>19 DEF RequestReturns, StateTypes, LifeTypes
  <2>2. ReqTypes'
    <3>1. result' \in [RelayReqs -> {"none", "reg", "relay", "err", "reply", "timeout"}]
      <4>1. PICK v : v \in {chan[r], "timeout"} /\ result' = [result EXCEPT ![r] = v]
        BY <1>19 DEF RequestReturns
      <4>2. v \in {"none", "reg", "relay", "err", "reply", "timeout"}
        BY <4>1 DEF StateTypes, ReqTypes
      <4> QED BY <4>1, <4>2 DEF StateTypes, ReqTypes
    <3> QED BY <1>19, <3>1 DEF RequestReturns, StateTypes, ReqTypes
  <2>3. LinkTypes'
    BY <1>19 DEF RequestReturns, StateTypes, LinkTypes
  <2>4. HubTypes'
    BY <1>19 DEF RequestReturns, StateTypes, HubTypes
  <2> QED BY <2>1, <2>2, <2>3, <2>4 DEF StateTypes
<1>20. ASSUME NEW r \in RelayReqs, handleInboundRelay(r) PROVE StateTypes'
  BY <1>20 DEF handleInboundRelay, StateTypes, LifeTypes, ReqTypes, LinkTypes, HubTypes
<1> QED
  BY <1>1, <1>2, <1>3, <1>4, <1>5, <1>6, <1>7, <1>8, <1>9, <1>10, <1>11, <1>12, <1>13, <1>14, <1>15, <1>16, <1>17, <1>18, <1>19, <1>20
  DEF RelayNext, OfLink, OfDial, Requester

\* ... and of the wires.
LEMMA WireTypesKept ==
  ASSUME StateTypes, WireTypes, Ordered, OwnDials, Fresh, Ended, Dead, Replaced, Known, Marked, Once, Unserved, Early, Replied, Served, Untagged, RelayNext
  PROVE  WireTypes'
<1> USE RelaySizes DEF WireTypes, lifeVars, reqVars, servVars, dialVars, linkVars, wireVars, relayHubVars
<1>1. ASSUME NEW n \in RelayNodes, TransportStart(n) PROVE WireTypes'
  BY <1>1 DEF TransportStart
<1>2. ASSUME NEW n \in RelayNodes, StartFails(n) PROVE WireTypes'
  BY <1>2 DEF StartFails
<1>3. ASSUME NEW n \in RelayNodes, StartReturns(n) PROVE WireTypes'
  BY <1>3 DEF StartReturns
<1>4. ASSUME NEW n \in RelayNodes, Close(n) PROVE WireTypes'
  BY <1>4 DEF Close
<1>5. ASSUME NEW n \in RelayNodes, NEW k \in Links, OnConnect(n, k) PROVE WireTypes'
  <2> HIDE DEF WireTypes
  <2>1. up' \in Wires /\ down' \in Wires
    BY <1>5, OnConnectWires DEF WireTypes
  <2> QED BY <2>1 DEF WireTypes
<1>6. ASSUME NEW n \in RelayNodes, NEW k \in Links, OnConnectStores(n, k) PROVE WireTypes'
  BY <1>6 DEF OnConnectStores
<1>7. ASSUME NEW n \in RelayNodes, NEW k \in Links, LinkLost(n, k) PROVE WireTypes'
  BY <1>7 DEF LinkLost
<1>8. ASSUME NEW n \in RelayNodes, NEW k \in Links, OnClose(n, k) PROVE WireTypes'
  <2> HIDE DEF WireTypes
  <2>1. up' \in Wires /\ down' \in Wires
    BY <1>8, OnCloseWires DEF WireTypes
  <2> QED BY <2>1 DEF WireTypes
<1>9. ASSUME NEW n \in RelayNodes, NEW k \in Links, NodeReads(n, k) PROVE WireTypes'
  <2> HIDE DEF WireTypes
  <2>1. up' \in Wires /\ down' \in Wires
    BY <1>9, NodeReadsWires DEF WireTypes
  <2> QED BY <2>1 DEF WireTypes
<1>10. ASSUME NEW n \in RelayNodes, NEW k \in Links, dispatch(n, k) PROVE WireTypes'
  <2> HIDE DEF WireTypes
  <2>1. up' \in Wires /\ down' \in Wires
    BY <1>10, DispatchWires, DispatchDown DEF WireTypes
  <2> QED BY <2>1 DEF WireTypes
<1>11. ASSUME NEW n \in RelayNodes, NEW k \in Links, HubCloses(n, k) PROVE WireTypes'
  <2> HIDE DEF WireTypes
  <2>1. up' \in Wires /\ down' \in Wires
    BY <1>11, HubClosesWires DEF WireTypes
  <2> QED BY <2>1 DEF WireTypes
<1>12. ASSUME NEW n \in RelayNodes, NEW k \in Links, HubKicks(n, k) PROVE WireTypes'
  BY <1>12 DEF HubKicks
<1>13. ASSUME NEW n \in RelayNodes, NEW k \in Links, LinkBreaks(n, k) PROVE WireTypes'
  BY <1>13 DEF LinkBreaks
<1>14. ASSUME NEW n \in RelayNodes, NEW c \in 0..client[n], OnOpen(n, c) PROVE WireTypes'
  <2>0. PICK k \in Links \ Made(n) :
          /\ <<n, c>> \in dialing /\ dialing' = dialing \ {<<n, c>>} /\ stopped' = stopped \ {<<n, c>>}
          /\ own' = [own EXCEPT ![n][k] = c] /\ link' = [link EXCEPT ![n][k] = "open"]
          /\ loopAt' = [loopAt EXCEPT ![n][k] = "register"] /\ alive' = alive \cup {<<n, k>>}
          /\ UNCHANGED <<lifeVars, registered, reqVars, servVars, wireVars, relayHubVars, breaks, misled>>
          /\ \A j \in Links \ Made(n) : k <= j
    BY <1>14 DEF OnOpen
  <2>1. /\ k \in Links /\ link[n][k] = "none" /\ \A j \in Links : j < k => link[n][j] # "none"
        /\ \A j \in Links : link[n][j] # "none" => j < k
    BY <2>0, NewLink
  <2>2. /\ <<n, c>> \in dialing /\ dialing' = dialing \ {<<n, c>>} /\ stopped' = stopped \ {<<n, c>>}
        /\ own' = [own EXCEPT ![n][k] = c] /\ link' = [link EXCEPT ![n][k] = "open"]
        /\ loopAt' = [loopAt EXCEPT ![n][k] = "register"] /\ alive' = alive \cup {<<n, k>>}
        /\ UNCHANGED <<lifeVars, registered, reqVars, servVars, wireVars, relayHubVars, breaks, misled>>
    BY <2>0
  <2> QED BY <2>1, <2>2 DEF StateTypes, LifeTypes, ReqTypes, LinkTypes, HubTypes
<1>15. ASSUME NEW n \in RelayNodes, NEW c \in 0..client[n], DialEnds(n, c) PROVE WireTypes'
  BY <1>15 DEF DialEnds
<1>16. ASSUME NEW r \in RelayReqs, RequestChecks(r) PROVE WireTypes'
  BY <1>16 DEF RequestChecks
<1>17. ASSUME NEW r \in RelayReqs, RequestStores(r) PROVE WireTypes'
  BY <1>17 DEF RequestStores
<1>18. ASSUME NEW r \in RelayReqs, RequestSends(r) PROVE WireTypes'
  <2> HIDE DEF WireTypes
  <2>1. up' \in Wires /\ down' \in Wires
    BY <1>18, RequestWires DEF WireTypes
  <2> QED BY <2>1 DEF WireTypes
<1>19. ASSUME NEW r \in RelayReqs, RequestReturns(r) PROVE WireTypes'
  BY <1>19 DEF RequestReturns
<1>20. ASSUME NEW r \in RelayReqs, handleInboundRelay(r) PROVE WireTypes'
  <2> HIDE DEF WireTypes
  <2>1. up' \in Wires /\ down' \in Wires
    BY <1>20, RepliesWires DEF WireTypes
  <2> QED BY <2>1 DEF WireTypes
<1> QED
  BY <1>1, <1>2, <1>3, <1>4, <1>5, <1>6, <1>7, <1>8, <1>9, <1>10, <1>11, <1>12, <1>13, <1>14, <1>15, <1>16, <1>17, <1>18, <1>19, <1>20
  DEF RelayNext, OfLink, OfDial, Requester

\* Connections are made in order.
LEMMA OrderedKept ==
  ASSUME StateTypes', WireTypes', StateTypes, WireTypes, Ordered, OwnDials, Fresh, Ended, Dead, Replaced, Known, Marked, Once, Unserved, Early, Replied, Served, Untagged, RelayNext
  PROVE  Ordered'
<1> USE RelaySizes DEF lifeVars, reqVars, servVars, dialVars, linkVars, wireVars, relayHubVars, Ordered
<1>1. ASSUME NEW n \in RelayNodes, TransportStart(n) PROVE Ordered'
  BY <1>1 DEF TransportStart, StateTypes, LifeTypes, ReqTypes, LinkTypes, HubTypes
<1>2. ASSUME NEW n \in RelayNodes, StartFails(n) PROVE Ordered'
  BY <1>2 DEF StartFails, StateTypes, LifeTypes, ReqTypes, LinkTypes, HubTypes
<1>3. ASSUME NEW n \in RelayNodes, StartReturns(n) PROVE Ordered'
  BY <1>3 DEF StartReturns, StateTypes, LifeTypes, ReqTypes, LinkTypes, HubTypes
<1>4. ASSUME NEW n \in RelayNodes, Close(n) PROVE Ordered'
  <2>1. /\ UNCHANGED <<own, client, dialing>>
        /\ \A x \in RelayNodes, i \in Links : link'[x][i] = link[x][i] \/ (link[x][i] = "open" /\ link'[x][i] = "closed")
    <3>1. CASE Cur(n) = NoLink
      BY <1>4, <3>1 DEF Close, dialVars, linkVars
    <3>2. CASE Cur(n) # NoLink
      <4>1. Cur(n) \in Links /\ Current(n, Cur(n))
        BY <3>2, CurIs
      <4> QED BY <1>4, <3>2, <4>1 DEF Close, Current, StateTypes, LifeTypes, ReqTypes, LinkTypes, HubTypes
    <3> QED BY <3>1, <3>2
  <2> QED BY <2>1
<1>5. ASSUME NEW n \in RelayNodes, NEW k \in Links, OnConnect(n, k) PROVE Ordered'
  BY <1>5 DEF OnConnect, StateTypes, LifeTypes, ReqTypes, LinkTypes, HubTypes
<1>6. ASSUME NEW n \in RelayNodes, NEW k \in Links, OnConnectStores(n, k) PROVE Ordered'
  BY <1>6 DEF OnConnectStores, StateTypes, LifeTypes, ReqTypes, LinkTypes, HubTypes
<1>7. ASSUME NEW n \in RelayNodes, NEW k \in Links, LinkLost(n, k) PROVE Ordered'
  BY <1>7 DEF LinkLost, StateTypes, LifeTypes, ReqTypes, LinkTypes, HubTypes
<1>8. ASSUME NEW n \in RelayNodes, NEW k \in Links, OnClose(n, k) PROVE Ordered'
  BY <1>8 DEF OnClose, StateTypes, LifeTypes, ReqTypes, LinkTypes, HubTypes
<1>9. ASSUME NEW n \in RelayNodes, NEW k \in Links, NodeReads(n, k) PROVE Ordered'
  BY <1>9 DEF NodeReads, StateTypes, LifeTypes, ReqTypes, LinkTypes, HubTypes
<1>10. ASSUME NEW n \in RelayNodes, NEW k \in Links, dispatch(n, k) PROVE Ordered'
  BY <1>10 DEF dispatch, bind, StateTypes, LifeTypes, ReqTypes, LinkTypes, HubTypes
<1>11. ASSUME NEW n \in RelayNodes, NEW k \in Links, HubCloses(n, k) PROVE Ordered'
  BY <1>11 DEF HubCloses, unregister, StateTypes, LifeTypes, ReqTypes, LinkTypes, HubTypes
<1>12. ASSUME NEW n \in RelayNodes, NEW k \in Links, HubKicks(n, k) PROVE Ordered'
  BY <1>12 DEF HubKicks, StateTypes, LifeTypes, ReqTypes, LinkTypes, HubTypes
<1>13. ASSUME NEW n \in RelayNodes, NEW k \in Links, LinkBreaks(n, k) PROVE Ordered'
  BY <1>13 DEF LinkBreaks, StateTypes, LifeTypes, ReqTypes, LinkTypes, HubTypes
<1>14. ASSUME NEW n \in RelayNodes, NEW c \in 0..client[n], OnOpen(n, c) PROVE Ordered'
  <2>0. PICK k \in Links \ Made(n) :
          /\ <<n, c>> \in dialing /\ dialing' = dialing \ {<<n, c>>} /\ stopped' = stopped \ {<<n, c>>}
          /\ own' = [own EXCEPT ![n][k] = c] /\ link' = [link EXCEPT ![n][k] = "open"]
          /\ loopAt' = [loopAt EXCEPT ![n][k] = "register"] /\ alive' = alive \cup {<<n, k>>}
          /\ UNCHANGED <<lifeVars, registered, reqVars, servVars, wireVars, relayHubVars, breaks, misled>>
          /\ \A j \in Links \ Made(n) : k <= j
    BY <1>14 DEF OnOpen
  <2>1. /\ k \in Links /\ link[n][k] = "none" /\ \A j \in Links : j < k => link[n][j] # "none"
        /\ \A j \in Links : link[n][j] # "none" => j < k
    BY <2>0, NewLink
  <2>2. /\ <<n, c>> \in dialing /\ dialing' = dialing \ {<<n, c>>} /\ stopped' = stopped \ {<<n, c>>}
        /\ own' = [own EXCEPT ![n][k] = c] /\ link' = [link EXCEPT ![n][k] = "open"]
        /\ loopAt' = [loopAt EXCEPT ![n][k] = "register"] /\ alive' = alive \cup {<<n, k>>}
        /\ UNCHANGED <<lifeVars, registered, reqVars, servVars, wireVars, relayHubVars, breaks, misled>>
    BY <2>0
  <2> QED BY <2>1, <2>2 DEF StateTypes, LifeTypes, ReqTypes, LinkTypes, HubTypes
<1>15. ASSUME NEW n \in RelayNodes, NEW c \in 0..client[n], DialEnds(n, c) PROVE Ordered'
  BY <1>15 DEF DialEnds, StateTypes, LifeTypes, ReqTypes, LinkTypes, HubTypes
<1>16. ASSUME NEW r \in RelayReqs, RequestChecks(r) PROVE Ordered'
  BY <1>16 DEF RequestChecks, StateTypes, LifeTypes, ReqTypes, LinkTypes, HubTypes
<1>17. ASSUME NEW r \in RelayReqs, RequestStores(r) PROVE Ordered'
  BY <1>17 DEF RequestStores, StateTypes, LifeTypes, ReqTypes, LinkTypes, HubTypes
<1>18. ASSUME NEW r \in RelayReqs, RequestSends(r) PROVE Ordered'
  BY <1>18 DEF RequestSends, StateTypes, LifeTypes, ReqTypes, LinkTypes, HubTypes
<1>19. ASSUME NEW r \in RelayReqs, RequestReturns(r) PROVE Ordered'
  BY <1>19 DEF RequestReturns, StateTypes, LifeTypes, ReqTypes, LinkTypes, HubTypes
<1>20. ASSUME NEW r \in RelayReqs, handleInboundRelay(r) PROVE Ordered'
  BY <1>20 DEF handleInboundRelay, StateTypes, LifeTypes, ReqTypes, LinkTypes, HubTypes
<1> QED
  BY <1>1, <1>2, <1>3, <1>4, <1>5, <1>6, <1>7, <1>8, <1>9, <1>10, <1>11, <1>12, <1>13, <1>14, <1>15, <1>16, <1>17, <1>18, <1>19, <1>20
  DEF RelayNext, OfLink, OfDial, Requester

\* A client has a dial under way, or one connection at most.
LEMMA OwnDialsKept ==
  ASSUME StateTypes', WireTypes', StateTypes, WireTypes, Ordered, OwnDials, Fresh, Ended, Dead, Replaced, Known, Marked, Once, Unserved, Early, Replied, Served, Untagged, RelayNext
  PROVE  OwnDials'
<1> USE RelaySizes DEF lifeVars, reqVars, servVars, dialVars, linkVars, wireVars, relayHubVars, OwnDials
<1>1. ASSUME NEW n \in RelayNodes, TransportStart(n) PROVE OwnDials'
  <2>1. UNCHANGED <<link, own>> /\ client' = [client EXCEPT ![n] = @ + 1] /\ dialing' = dialing \cup {<<n, client[n] + 1>>}
    BY <1>1 DEF TransportStart
  <2>2. client'[n] = client[n] + 1 /\ client[n] \in Nat /\ \A x \in RelayNodes : x # n => client'[x] = client[x]
    BY <2>1 DEF StateTypes, LifeTypes, ReqTypes, LinkTypes, HubTypes
  <2>3. \A x \in RelayNodes, i \in Links : own[x][i] \in Nat
    BY DEF StateTypes, LifeTypes, ReqTypes, LinkTypes, HubTypes
  <2> QED BY <2>1, <2>2, <2>3
<1>2. ASSUME NEW n \in RelayNodes, StartFails(n) PROVE OwnDials'
  BY <1>2 DEF StartFails, StateTypes, LifeTypes, ReqTypes, LinkTypes, HubTypes
<1>3. ASSUME NEW n \in RelayNodes, StartReturns(n) PROVE OwnDials'
  BY <1>3 DEF StartReturns, StateTypes, LifeTypes, ReqTypes, LinkTypes, HubTypes
<1>4. ASSUME NEW n \in RelayNodes, Close(n) PROVE OwnDials'
  <2>1. /\ UNCHANGED <<own, client, dialing>>
        /\ \A x \in RelayNodes, i \in Links : link'[x][i] = link[x][i] \/ (link[x][i] = "open" /\ link'[x][i] = "closed")
    <3>1. CASE Cur(n) = NoLink
      BY <1>4, <3>1 DEF Close, dialVars, linkVars
    <3>2. CASE Cur(n) # NoLink
      <4>1. Cur(n) \in Links /\ Current(n, Cur(n))
        BY <3>2, CurIs
      <4> QED BY <1>4, <3>2, <4>1 DEF Close, Current, StateTypes, LifeTypes, ReqTypes, LinkTypes, HubTypes
    <3> QED BY <3>1, <3>2
  <2> QED BY <2>1
<1>5. ASSUME NEW n \in RelayNodes, NEW k \in Links, OnConnect(n, k) PROVE OwnDials'
  BY <1>5 DEF OnConnect, StateTypes, LifeTypes, ReqTypes, LinkTypes, HubTypes
<1>6. ASSUME NEW n \in RelayNodes, NEW k \in Links, OnConnectStores(n, k) PROVE OwnDials'
  BY <1>6 DEF OnConnectStores, StateTypes, LifeTypes, ReqTypes, LinkTypes, HubTypes
<1>7. ASSUME NEW n \in RelayNodes, NEW k \in Links, LinkLost(n, k) PROVE OwnDials'
  BY <1>7 DEF LinkLost, StateTypes, LifeTypes, ReqTypes, LinkTypes, HubTypes
<1>8. ASSUME NEW n \in RelayNodes, NEW k \in Links, OnClose(n, k) PROVE OwnDials'
  BY <1>8 DEF OnClose, StateTypes, LifeTypes, ReqTypes, LinkTypes, HubTypes
<1>9. ASSUME NEW n \in RelayNodes, NEW k \in Links, NodeReads(n, k) PROVE OwnDials'
  BY <1>9 DEF NodeReads, StateTypes, LifeTypes, ReqTypes, LinkTypes, HubTypes
<1>10. ASSUME NEW n \in RelayNodes, NEW k \in Links, dispatch(n, k) PROVE OwnDials'
  <2>1. UNCHANGED <<link, own, client, dialing>>
    BY <1>10 DEF dispatch
  <2> QED BY <2>1
<1>11. ASSUME NEW n \in RelayNodes, NEW k \in Links, HubCloses(n, k) PROVE OwnDials'
  BY <1>11 DEF HubCloses, unregister, StateTypes, LifeTypes, ReqTypes, LinkTypes, HubTypes
<1>12. ASSUME NEW n \in RelayNodes, NEW k \in Links, HubKicks(n, k) PROVE OwnDials'
  BY <1>12 DEF HubKicks, StateTypes, LifeTypes, ReqTypes, LinkTypes, HubTypes
<1>13. ASSUME NEW n \in RelayNodes, NEW k \in Links, LinkBreaks(n, k) PROVE OwnDials'
  BY <1>13 DEF LinkBreaks, StateTypes, LifeTypes, ReqTypes, LinkTypes, HubTypes
<1>14. ASSUME NEW n \in RelayNodes, NEW c \in 0..client[n], OnOpen(n, c) PROVE OwnDials'
  <2>0. PICK k \in Links \ Made(n) :
          /\ <<n, c>> \in dialing /\ dialing' = dialing \ {<<n, c>>} /\ stopped' = stopped \ {<<n, c>>}
          /\ own' = [own EXCEPT ![n][k] = c] /\ link' = [link EXCEPT ![n][k] = "open"]
          /\ loopAt' = [loopAt EXCEPT ![n][k] = "register"] /\ alive' = alive \cup {<<n, k>>}
          /\ UNCHANGED <<lifeVars, registered, reqVars, servVars, wireVars, relayHubVars, breaks, misled>>
          /\ \A j \in Links \ Made(n) : k <= j
    BY <1>14 DEF OnOpen
  <2>1. /\ k \in Links /\ link[n][k] = "none" /\ \A j \in Links : j < k => link[n][j] # "none"
        /\ \A j \in Links : link[n][j] # "none" => j < k
    BY <2>0, NewLink
  <2>2. /\ <<n, c>> \in dialing /\ dialing' = dialing \ {<<n, c>>} /\ stopped' = stopped \ {<<n, c>>}
        /\ own' = [own EXCEPT ![n][k] = c] /\ link' = [link EXCEPT ![n][k] = "open"]
        /\ loopAt' = [loopAt EXCEPT ![n][k] = "register"] /\ alive' = alive \cup {<<n, k>>}
        /\ UNCHANGED <<lifeVars, registered, reqVars, servVars, wireVars, relayHubVars, breaks, misled>>
    BY <2>0
  <2> QED BY <2>1, <2>2 DEF StateTypes, LifeTypes, ReqTypes, LinkTypes, HubTypes
<1>15. ASSUME NEW n \in RelayNodes, NEW c \in 0..client[n], DialEnds(n, c) PROVE OwnDials'
  BY <1>15 DEF DialEnds, StateTypes, LifeTypes, ReqTypes, LinkTypes, HubTypes
<1>16. ASSUME NEW r \in RelayReqs, RequestChecks(r) PROVE OwnDials'
  BY <1>16 DEF RequestChecks, StateTypes, LifeTypes, ReqTypes, LinkTypes, HubTypes
<1>17. ASSUME NEW r \in RelayReqs, RequestStores(r) PROVE OwnDials'
  BY <1>17 DEF RequestStores, StateTypes, LifeTypes, ReqTypes, LinkTypes, HubTypes
<1>18. ASSUME NEW r \in RelayReqs, RequestSends(r) PROVE OwnDials'
  BY <1>18 DEF RequestSends, StateTypes, LifeTypes, ReqTypes, LinkTypes, HubTypes
<1>19. ASSUME NEW r \in RelayReqs, RequestReturns(r) PROVE OwnDials'
  BY <1>19 DEF RequestReturns, StateTypes, LifeTypes, ReqTypes, LinkTypes, HubTypes
<1>20. ASSUME NEW r \in RelayReqs, handleInboundRelay(r) PROVE OwnDials'
  BY <1>20 DEF handleInboundRelay, StateTypes, LifeTypes, ReqTypes, LinkTypes, HubTypes
<1> QED
  BY <1>1, <1>2, <1>3, <1>4, <1>5, <1>6, <1>7, <1>8, <1>9, <1>10, <1>11, <1>12, <1>13, <1>14, <1>15, <1>16, <1>17, <1>18, <1>19, <1>20
  DEF RelayNext, OfLink, OfDial, Requester

\* Nobody knows a connection that is not made yet.
LEMMA FreshKept ==
  ASSUME StateTypes', WireTypes', StateTypes, WireTypes, Ordered, OwnDials, Fresh, Ended, Dead, Replaced, Known, Marked, Once, Unserved, Early, Replied, Served, Untagged, RelayNext
  PROVE  Fresh'
<1> USE RelaySizes DEF lifeVars, reqVars, servVars, dialVars, linkVars, wireVars, relayHubVars, Fresh
<1>1. ASSUME NEW n \in RelayNodes, TransportStart(n) PROVE Fresh'
  BY <1>1 DEF TransportStart, StateTypes, LifeTypes, ReqTypes, LinkTypes, HubTypes
<1>2. ASSUME NEW n \in RelayNodes, StartFails(n) PROVE Fresh'
  BY <1>2 DEF StartFails, StateTypes, LifeTypes, ReqTypes, LinkTypes, HubTypes
<1>3. ASSUME NEW n \in RelayNodes, StartReturns(n) PROVE Fresh'
  BY <1>3 DEF StartReturns, StateTypes, LifeTypes, ReqTypes, LinkTypes, HubTypes
<1>4. ASSUME NEW n \in RelayNodes, Close(n) PROVE Fresh'
  BY <1>4 DEF Close, StateTypes, LifeTypes, ReqTypes, LinkTypes, HubTypes
<1>5. ASSUME NEW n \in RelayNodes, NEW k \in Links, OnConnect(n, k) PROVE Fresh'
  <2>1. \A x \in RelayNodes, i \in Links : <<x, i>> \notin alive => up'[x][i] = up[x][i]
    BY <1>5, Sent, MsgsAre DEF OnConnect
  <2>2. /\ UNCHANGED <<link, alive, named, gone, nodes>>
        /\ \A x \in RelayNodes, i \in Links : loopAt'[x][i] = loopAt[x][i] \/ loopAt[x][i] = "register"
    BY <1>5 DEF OnConnect, StateTypes, LifeTypes, ReqTypes, LinkTypes, HubTypes
  <2>3. ASSUME NEW x \in RelayNodes, NEW i \in Links, link[x][i] = "none"
        PROVE  /\ loopAt'[x][i] = "idle" /\ up'[x][i] = <<>>
               /\ <<x, i>> \notin alive' /\ <<x, i>> \notin named' /\ <<x, i>> \notin gone'
               /\ nodes'[x] # i
    <3>1. /\ loopAt[x][i] = "idle" /\ up[x][i] = <<>>
          /\ <<x, i>> \notin alive /\ <<x, i>> \notin named /\ <<x, i>> \notin gone
          /\ nodes[x] # i
      BY <2>3
    <3>2. up'[x][i] = up[x][i]
      BY <2>1, <3>1
    <3>3. loopAt'[x][i] = loopAt[x][i] \/ loopAt[x][i] = "register"
      BY <2>2
    <3>4. loopAt'[x][i] = "idle"
      BY <3>1, <3>3
    <3> QED BY <2>2, <3>1, <3>2, <3>4
  <2> QED BY <2>2, <2>3
<1>6. ASSUME NEW n \in RelayNodes, NEW k \in Links, OnConnectStores(n, k) PROVE Fresh'
  BY <1>6 DEF OnConnectStores, StateTypes, LifeTypes, ReqTypes, LinkTypes, HubTypes
<1>7. ASSUME NEW n \in RelayNodes, NEW k \in Links, LinkLost(n, k) PROVE Fresh'
  BY <1>7 DEF LinkLost, StateTypes, LifeTypes, ReqTypes, LinkTypes, HubTypes
<1>8. ASSUME NEW n \in RelayNodes, NEW k \in Links, OnClose(n, k) PROVE Fresh'
  BY <1>8 DEF OnClose, StateTypes, LifeTypes, ReqTypes, LinkTypes, HubTypes
<1>9. ASSUME NEW n \in RelayNodes, NEW k \in Links, NodeReads(n, k) PROVE Fresh'
  BY <1>9 DEF NodeReads, StateTypes, LifeTypes, ReqTypes, LinkTypes, HubTypes
<1>10. ASSUME NEW n \in RelayNodes, NEW k \in Links, dispatch(n, k) PROVE Fresh'
  <2>1. up[n][k] # <<>>
    BY <1>10 DEF dispatch
  <2>a. \A x \in RelayNodes, i \in Links : x # n \/ i # k => up'[x][i] = up[x][i]
    BY <1>10, DispatchWires
  <2>2. link[n][k] # "none"
    BY <2>1
  <2>3. /\ UNCHANGED <<link, loopAt, alive, gone>> /\ named' \subseteq named \cup {<<n, k>>}
        /\ \A x \in RelayNodes : nodes'[x] = nodes[x] \/ (x = n /\ nodes'[x] = k)
    <3>1. UNCHANGED <<link, loopAt, alive, gone>> /\ (UNCHANGED <<nodes, named>> \/ bind(n, k))
      BY <1>10 DEF dispatch
    <3> QED BY <3>1 DEF bind, StateTypes, LifeTypes, ReqTypes, LinkTypes, HubTypes
  <2>4. ASSUME NEW x \in RelayNodes, NEW i \in Links, link[x][i] = "none"
        PROVE  /\ loopAt'[x][i] = "idle" /\ up'[x][i] = <<>> /\ <<x, i>> \notin alive' /\ <<x, i>> \notin named'
               /\ <<x, i>> \notin gone' /\ nodes'[x] # i
    <3>1. x # n \/ i # k
      BY <2>2, <2>4
    <3>2. up'[x][i] = <<>>
      BY <2>a, <2>4, <3>1
    <3>3. <<x, i>> \notin named' /\ nodes'[x] # i
      BY <2>3, <2>4, <3>1
    <3> QED BY <2>3, <2>4, <3>2, <3>3
  <2> QED BY <2>3, <2>4
<1>11. ASSUME NEW n \in RelayNodes, NEW k \in Links, HubCloses(n, k) PROVE Fresh'
  <2>1. /\ link[n][k] # "none" /\ UNCHANGED <<link, loopAt, alive>>
        /\ named' \subseteq named /\ gone' = gone \cup {<<n, k>>}
        /\ \A x \in RelayNodes : nodes'[x] = nodes[x] \/ nodes'[x] = NoLink
    BY <1>11 DEF HubCloses, unregister, Made, StateTypes, LifeTypes, ReqTypes, LinkTypes, HubTypes
  <2>2. \A x \in RelayNodes, i \in Links : x # n \/ i # k => up'[x][i] = up[x][i]
    BY <1>11, HubClosesWires
  <2>3. NoLink \notin Links
    BY DEF NoLink, Links
  <2> QED BY <2>1, <2>2, <2>3
<1>12. ASSUME NEW n \in RelayNodes, NEW k \in Links, HubKicks(n, k) PROVE Fresh'
  BY <1>12 DEF HubKicks, StateTypes, LifeTypes, ReqTypes, LinkTypes, HubTypes
<1>13. ASSUME NEW n \in RelayNodes, NEW k \in Links, LinkBreaks(n, k) PROVE Fresh'
  BY <1>13 DEF LinkBreaks, StateTypes, LifeTypes, ReqTypes, LinkTypes, HubTypes
<1>14. ASSUME NEW n \in RelayNodes, NEW c \in 0..client[n], OnOpen(n, c) PROVE Fresh'
  <2>0. PICK k \in Links \ Made(n) :
          /\ <<n, c>> \in dialing /\ dialing' = dialing \ {<<n, c>>} /\ stopped' = stopped \ {<<n, c>>}
          /\ own' = [own EXCEPT ![n][k] = c] /\ link' = [link EXCEPT ![n][k] = "open"]
          /\ loopAt' = [loopAt EXCEPT ![n][k] = "register"] /\ alive' = alive \cup {<<n, k>>}
          /\ UNCHANGED <<lifeVars, registered, reqVars, servVars, wireVars, relayHubVars, breaks, misled>>
          /\ \A j \in Links \ Made(n) : k <= j
    BY <1>14 DEF OnOpen
  <2>1. /\ k \in Links /\ link[n][k] = "none" /\ \A j \in Links : j < k => link[n][j] # "none"
        /\ \A j \in Links : link[n][j] # "none" => j < k
    BY <2>0, NewLink
  <2>2. /\ <<n, c>> \in dialing /\ dialing' = dialing \ {<<n, c>>} /\ stopped' = stopped \ {<<n, c>>}
        /\ own' = [own EXCEPT ![n][k] = c] /\ link' = [link EXCEPT ![n][k] = "open"]
        /\ loopAt' = [loopAt EXCEPT ![n][k] = "register"] /\ alive' = alive \cup {<<n, k>>}
        /\ UNCHANGED <<lifeVars, registered, reqVars, servVars, wireVars, relayHubVars, breaks, misled>>
    BY <2>0
  <2> QED BY <2>1, <2>2 DEF StateTypes, LifeTypes, ReqTypes, LinkTypes, HubTypes
<1>15. ASSUME NEW n \in RelayNodes, NEW c \in 0..client[n], DialEnds(n, c) PROVE Fresh'
  BY <1>15 DEF DialEnds, StateTypes, LifeTypes, ReqTypes, LinkTypes, HubTypes
<1>16. ASSUME NEW r \in RelayReqs, RequestChecks(r) PROVE Fresh'
  BY <1>16 DEF RequestChecks, StateTypes, LifeTypes, ReqTypes, LinkTypes, HubTypes
<1>17. ASSUME NEW r \in RelayReqs, RequestStores(r) PROVE Fresh'
  BY <1>17 DEF RequestStores, StateTypes, LifeTypes, ReqTypes, LinkTypes, HubTypes
<1>18. ASSUME NEW r \in RelayReqs, RequestSends(r) PROVE Fresh'
  <2>1. \A x \in RelayNodes, i \in Links : <<x, i>> \notin alive => up'[x][i] = up[x][i]
    BY <1>18, RequestWires
  <2>2. /\ UNCHANGED <<link, alive, named, gone, nodes>>
        /\ \A x \in RelayNodes, i \in Links : loopAt'[x][i] = loopAt[x][i] \/ loopAt[x][i] = "register"
    BY <1>18 DEF RequestSends, StateTypes, LifeTypes, ReqTypes, LinkTypes, HubTypes
  <2> QED BY <2>1, <2>2
<1>19. ASSUME NEW r \in RelayReqs, RequestReturns(r) PROVE Fresh'
  BY <1>19 DEF RequestReturns, StateTypes, LifeTypes, ReqTypes, LinkTypes, HubTypes
<1>20. ASSUME NEW r \in RelayReqs, handleInboundRelay(r) PROVE Fresh'
  <2>1. \A x \in RelayNodes, i \in Links : <<x, i>> \notin alive => up'[x][i] = up[x][i]
    BY <1>20, RepliesWires
  <2>2. /\ UNCHANGED <<link, alive, named, gone, nodes>>
        /\ \A x \in RelayNodes, i \in Links : loopAt'[x][i] = loopAt[x][i] \/ loopAt[x][i] = "register"
    BY <1>20 DEF handleInboundRelay, StateTypes, LifeTypes, ReqTypes, LinkTypes, HubTypes
  <2> QED BY <2>1, <2>2
<1> QED
  BY <1>1, <1>2, <1>3, <1>4, <1>5, <1>6, <1>7, <1>8, <1>9, <1>10, <1>11, <1>12, <1>13, <1>14, <1>15, <1>16, <1>17, <1>18, <1>19, <1>20
  DEF RelayNext, OfLink, OfDial, Requester

\* A connection whose end the hub handled stays dead.
LEMMA EndedKept ==
  ASSUME StateTypes', WireTypes', StateTypes, WireTypes, Ordered, OwnDials, Fresh, Ended, Dead, Replaced, Known, Marked, Once, Unserved, Early, Replied, Served, Untagged, RelayNext
  PROVE  Ended'
<1> USE RelaySizes DEF lifeVars, reqVars, servVars, dialVars, linkVars, wireVars, relayHubVars, Ended
<1>1. ASSUME NEW n \in RelayNodes, TransportStart(n) PROVE Ended'
  BY <1>1 DEF TransportStart, StateTypes, LifeTypes, ReqTypes, LinkTypes, HubTypes, Fresh
<1>2. ASSUME NEW n \in RelayNodes, StartFails(n) PROVE Ended'
  BY <1>2 DEF StartFails, StateTypes, LifeTypes, ReqTypes, LinkTypes, HubTypes, Fresh
<1>3. ASSUME NEW n \in RelayNodes, StartReturns(n) PROVE Ended'
  BY <1>3 DEF StartReturns, StateTypes, LifeTypes, ReqTypes, LinkTypes, HubTypes, Fresh
<1>4. ASSUME NEW n \in RelayNodes, Close(n) PROVE Ended'
  BY <1>4 DEF Close, StateTypes, LifeTypes, ReqTypes, LinkTypes, HubTypes, Fresh
<1>5. ASSUME NEW n \in RelayNodes, NEW k \in Links, OnConnect(n, k) PROVE Ended'
  BY <1>5 DEF OnConnect, StateTypes, LifeTypes, ReqTypes, LinkTypes, HubTypes, Fresh
<1>6. ASSUME NEW n \in RelayNodes, NEW k \in Links, OnConnectStores(n, k) PROVE Ended'
  BY <1>6 DEF OnConnectStores, StateTypes, LifeTypes, ReqTypes, LinkTypes, HubTypes, Fresh
<1>7. ASSUME NEW n \in RelayNodes, NEW k \in Links, LinkLost(n, k) PROVE Ended'
  BY <1>7 DEF LinkLost, StateTypes, LifeTypes, ReqTypes, LinkTypes, HubTypes, Fresh
<1>8. ASSUME NEW n \in RelayNodes, NEW k \in Links, OnClose(n, k) PROVE Ended'
  BY <1>8 DEF OnClose, StateTypes, LifeTypes, ReqTypes, LinkTypes, HubTypes, Fresh
<1>9. ASSUME NEW n \in RelayNodes, NEW k \in Links, NodeReads(n, k) PROVE Ended'
  BY <1>9 DEF NodeReads, StateTypes, LifeTypes, ReqTypes, LinkTypes, HubTypes, Fresh
<1>10. ASSUME NEW n \in RelayNodes, NEW k \in Links, dispatch(n, k) PROVE Ended'
  BY <1>10 DEF dispatch, bind, StateTypes, LifeTypes, ReqTypes, LinkTypes, HubTypes, Fresh
<1>11. ASSUME NEW n \in RelayNodes, NEW k \in Links, HubCloses(n, k) PROVE Ended'
  BY <1>11 DEF HubCloses, unregister, StateTypes, LifeTypes, ReqTypes, LinkTypes, HubTypes, Fresh
<1>12. ASSUME NEW n \in RelayNodes, NEW k \in Links, HubKicks(n, k) PROVE Ended'
  BY <1>12 DEF HubKicks, StateTypes, LifeTypes, ReqTypes, LinkTypes, HubTypes, Fresh
<1>13. ASSUME NEW n \in RelayNodes, NEW k \in Links, LinkBreaks(n, k) PROVE Ended'
  BY <1>13 DEF LinkBreaks, StateTypes, LifeTypes, ReqTypes, LinkTypes, HubTypes, Fresh
<1>14. ASSUME NEW n \in RelayNodes, NEW c \in 0..client[n], OnOpen(n, c) PROVE Ended'
  <2>0. PICK k \in Links \ Made(n) :
          /\ <<n, c>> \in dialing /\ dialing' = dialing \ {<<n, c>>} /\ stopped' = stopped \ {<<n, c>>}
          /\ own' = [own EXCEPT ![n][k] = c] /\ link' = [link EXCEPT ![n][k] = "open"]
          /\ loopAt' = [loopAt EXCEPT ![n][k] = "register"] /\ alive' = alive \cup {<<n, k>>}
          /\ UNCHANGED <<lifeVars, registered, reqVars, servVars, wireVars, relayHubVars, breaks, misled>>
          /\ \A j \in Links \ Made(n) : k <= j
    BY <1>14 DEF OnOpen
  <2>1. /\ k \in Links /\ link[n][k] = "none" /\ \A j \in Links : j < k => link[n][j] # "none"
        /\ \A j \in Links : link[n][j] # "none" => j < k
    BY <2>0, NewLink
  <2>2. /\ <<n, c>> \in dialing /\ dialing' = dialing \ {<<n, c>>} /\ stopped' = stopped \ {<<n, c>>}
        /\ own' = [own EXCEPT ![n][k] = c] /\ link' = [link EXCEPT ![n][k] = "open"]
        /\ loopAt' = [loopAt EXCEPT ![n][k] = "register"] /\ alive' = alive \cup {<<n, k>>}
        /\ UNCHANGED <<lifeVars, registered, reqVars, servVars, wireVars, relayHubVars, breaks, misled>>
    BY <2>0
  <2> QED BY <2>1, <2>2 DEF StateTypes, LifeTypes, ReqTypes, LinkTypes, HubTypes, Fresh
<1>15. ASSUME NEW n \in RelayNodes, NEW c \in 0..client[n], DialEnds(n, c) PROVE Ended'
  BY <1>15 DEF DialEnds, StateTypes, LifeTypes, ReqTypes, LinkTypes, HubTypes, Fresh
<1>16. ASSUME NEW r \in RelayReqs, RequestChecks(r) PROVE Ended'
  BY <1>16 DEF RequestChecks, StateTypes, LifeTypes, ReqTypes, LinkTypes, HubTypes, Fresh
<1>17. ASSUME NEW r \in RelayReqs, RequestStores(r) PROVE Ended'
  BY <1>17 DEF RequestStores, StateTypes, LifeTypes, ReqTypes, LinkTypes, HubTypes, Fresh
<1>18. ASSUME NEW r \in RelayReqs, RequestSends(r) PROVE Ended'
  BY <1>18 DEF RequestSends, StateTypes, LifeTypes, ReqTypes, LinkTypes, HubTypes, Fresh
<1>19. ASSUME NEW r \in RelayReqs, RequestReturns(r) PROVE Ended'
  BY <1>19 DEF RequestReturns, StateTypes, LifeTypes, ReqTypes, LinkTypes, HubTypes, Fresh
<1>20. ASSUME NEW r \in RelayReqs, handleInboundRelay(r) PROVE Ended'
  BY <1>20 DEF handleInboundRelay, StateTypes, LifeTypes, ReqTypes, LinkTypes, HubTypes, Fresh
<1> QED
  BY <1>1, <1>2, <1>3, <1>4, <1>5, <1>6, <1>7, <1>8, <1>9, <1>10, <1>11, <1>12, <1>13, <1>14, <1>15, <1>16, <1>17, <1>18, <1>19, <1>20
  DEF RelayNext, OfLink, OfDial, Requester

\* The session of a node has registered and has not ended: unregister looks whose it is.
LEMMA DeadKept ==
  ASSUME StateTypes', WireTypes', StateTypes, WireTypes, Ordered, OwnDials, Fresh, Ended, Dead, Replaced, Known, Marked, Once, Unserved, Early, Replied, Served, Untagged, RelayNext
  PROVE  Dead'
<1> USE RelaySizes DEF lifeVars, reqVars, servVars, dialVars, linkVars, wireVars, relayHubVars, Dead
<1>1. ASSUME NEW n \in RelayNodes, TransportStart(n) PROVE Dead'
  BY <1>1 DEF TransportStart, StateTypes, LifeTypes, ReqTypes, LinkTypes, HubTypes, Fresh, Ended
<1>2. ASSUME NEW n \in RelayNodes, StartFails(n) PROVE Dead'
  BY <1>2 DEF StartFails, StateTypes, LifeTypes, ReqTypes, LinkTypes, HubTypes, Fresh, Ended
<1>3. ASSUME NEW n \in RelayNodes, StartReturns(n) PROVE Dead'
  BY <1>3 DEF StartReturns, StateTypes, LifeTypes, ReqTypes, LinkTypes, HubTypes, Fresh, Ended
<1>4. ASSUME NEW n \in RelayNodes, Close(n) PROVE Dead'
  BY <1>4 DEF Close, StateTypes, LifeTypes, ReqTypes, LinkTypes, HubTypes, Fresh, Ended
<1>5. ASSUME NEW n \in RelayNodes, NEW k \in Links, OnConnect(n, k) PROVE Dead'
  BY <1>5 DEF OnConnect, StateTypes, LifeTypes, ReqTypes, LinkTypes, HubTypes, Fresh, Ended
<1>6. ASSUME NEW n \in RelayNodes, NEW k \in Links, OnConnectStores(n, k) PROVE Dead'
  BY <1>6 DEF OnConnectStores, StateTypes, LifeTypes, ReqTypes, LinkTypes, HubTypes, Fresh, Ended
<1>7. ASSUME NEW n \in RelayNodes, NEW k \in Links, LinkLost(n, k) PROVE Dead'
  BY <1>7 DEF LinkLost, StateTypes, LifeTypes, ReqTypes, LinkTypes, HubTypes, Fresh, Ended
<1>8. ASSUME NEW n \in RelayNodes, NEW k \in Links, OnClose(n, k) PROVE Dead'
  BY <1>8 DEF OnClose, StateTypes, LifeTypes, ReqTypes, LinkTypes, HubTypes, Fresh, Ended
<1>9. ASSUME NEW n \in RelayNodes, NEW k \in Links, NodeReads(n, k) PROVE Dead'
  BY <1>9 DEF NodeReads, StateTypes, LifeTypes, ReqTypes, LinkTypes, HubTypes, Fresh, Ended
<1>10. ASSUME NEW n \in RelayNodes, NEW k \in Links, dispatch(n, k) PROVE Dead'
  <2>1. UNCHANGED <<alive, gone>> /\ <<n, k>> \notin gone
    BY <1>10 DEF dispatch
  <2>2. CASE UNCHANGED <<nodes, named, kicked>>
    BY <2>1, <2>2
  <2>3. CASE bind(n, k)
    <3>1. /\ nodes' = [nodes EXCEPT ![n] = k] /\ named' = named \cup {<<n, k>>}
          /\ kicked' = IF nodes[n] \in {NoLink, k} THEN kicked ELSE kicked \cup {<<n, nodes[n]>>}
      BY <2>3 DEF bind
    <3>2. NoLink \notin Links
      BY DEF NoLink, Links
    <3>3. nodes'[n] = k /\ \A x \in RelayNodes : x # n => nodes'[x] = nodes[x]
      BY <3>1 DEF StateTypes, LifeTypes, ReqTypes, LinkTypes, HubTypes
    <3>4. nodes[n] \in Links \cup {NoLink}
      BY DEF StateTypes, LifeTypes, ReqTypes, LinkTypes, HubTypes
    <3> QED BY <2>1, <3>1, <3>2, <3>3, <3>4
  <2> QED BY <1>10, <2>2, <2>3 DEF dispatch
<1>11. ASSUME NEW n \in RelayNodes, NEW k \in Links, HubCloses(n, k) PROVE Dead'
  BY <1>11 DEF HubCloses, unregister, StateTypes, LifeTypes, ReqTypes, LinkTypes, HubTypes, Fresh, Ended
<1>12. ASSUME NEW n \in RelayNodes, NEW k \in Links, HubKicks(n, k) PROVE Dead'
  BY <1>12 DEF HubKicks, StateTypes, LifeTypes, ReqTypes, LinkTypes, HubTypes, Fresh, Ended
<1>13. ASSUME NEW n \in RelayNodes, NEW k \in Links, LinkBreaks(n, k) PROVE Dead'
  BY <1>13 DEF LinkBreaks, StateTypes, LifeTypes, ReqTypes, LinkTypes, HubTypes, Fresh, Ended
<1>14. ASSUME NEW n \in RelayNodes, NEW c \in 0..client[n], OnOpen(n, c) PROVE Dead'
  <2>0. PICK k \in Links \ Made(n) :
          /\ <<n, c>> \in dialing /\ dialing' = dialing \ {<<n, c>>} /\ stopped' = stopped \ {<<n, c>>}
          /\ own' = [own EXCEPT ![n][k] = c] /\ link' = [link EXCEPT ![n][k] = "open"]
          /\ loopAt' = [loopAt EXCEPT ![n][k] = "register"] /\ alive' = alive \cup {<<n, k>>}
          /\ UNCHANGED <<lifeVars, registered, reqVars, servVars, wireVars, relayHubVars, breaks, misled>>
          /\ \A j \in Links \ Made(n) : k <= j
    BY <1>14 DEF OnOpen
  <2>1. /\ k \in Links /\ link[n][k] = "none" /\ \A j \in Links : j < k => link[n][j] # "none"
        /\ \A j \in Links : link[n][j] # "none" => j < k
    BY <2>0, NewLink
  <2>2. /\ <<n, c>> \in dialing /\ dialing' = dialing \ {<<n, c>>} /\ stopped' = stopped \ {<<n, c>>}
        /\ own' = [own EXCEPT ![n][k] = c] /\ link' = [link EXCEPT ![n][k] = "open"]
        /\ loopAt' = [loopAt EXCEPT ![n][k] = "register"] /\ alive' = alive \cup {<<n, k>>}
        /\ UNCHANGED <<lifeVars, registered, reqVars, servVars, wireVars, relayHubVars, breaks, misled>>
    BY <2>0
  <2> QED BY <2>1, <2>2 DEF StateTypes, LifeTypes, ReqTypes, LinkTypes, HubTypes, Fresh, Ended
<1>15. ASSUME NEW n \in RelayNodes, NEW c \in 0..client[n], DialEnds(n, c) PROVE Dead'
  BY <1>15 DEF DialEnds, StateTypes, LifeTypes, ReqTypes, LinkTypes, HubTypes, Fresh, Ended
<1>16. ASSUME NEW r \in RelayReqs, RequestChecks(r) PROVE Dead'
  BY <1>16 DEF RequestChecks, StateTypes, LifeTypes, ReqTypes, LinkTypes, HubTypes, Fresh, Ended
<1>17. ASSUME NEW r \in RelayReqs, RequestStores(r) PROVE Dead'
  BY <1>17 DEF RequestStores, StateTypes, LifeTypes, ReqTypes, LinkTypes, HubTypes, Fresh, Ended
<1>18. ASSUME NEW r \in RelayReqs, RequestSends(r) PROVE Dead'
  BY <1>18 DEF RequestSends, StateTypes, LifeTypes, ReqTypes, LinkTypes, HubTypes, Fresh, Ended
<1>19. ASSUME NEW r \in RelayReqs, RequestReturns(r) PROVE Dead'
  BY <1>19 DEF RequestReturns, StateTypes, LifeTypes, ReqTypes, LinkTypes, HubTypes, Fresh, Ended
<1>20. ASSUME NEW r \in RelayReqs, handleInboundRelay(r) PROVE Dead'
  BY <1>20 DEF handleInboundRelay, StateTypes, LifeTypes, ReqTypes, LinkTypes, HubTypes, Fresh, Ended
<1> QED
  BY <1>1, <1>2, <1>3, <1>4, <1>5, <1>6, <1>7, <1>8, <1>9, <1>10, <1>11, <1>12, <1>13, <1>14, <1>15, <1>16, <1>17, <1>18, <1>19, <1>20
  DEF RelayNext, OfLink, OfDial, Requester

\* bind closes the session it replaces.
LEMMA ReplacedKept ==
  ASSUME StateTypes', WireTypes', StateTypes, WireTypes, Ordered, OwnDials, Fresh, Ended, Dead, Replaced, Known, Marked, Once, Unserved, Early, Replied, Served, Untagged, RelayNext
  PROVE  Replaced'
<1> USE RelaySizes DEF lifeVars, reqVars, servVars, dialVars, linkVars, wireVars, relayHubVars, Replaced
<1>1. ASSUME NEW n \in RelayNodes, TransportStart(n) PROVE Replaced'
  BY <1>1 DEF TransportStart, StateTypes, LifeTypes, ReqTypes, LinkTypes, HubTypes, Fresh
<1>2. ASSUME NEW n \in RelayNodes, StartFails(n) PROVE Replaced'
  BY <1>2 DEF StartFails, StateTypes, LifeTypes, ReqTypes, LinkTypes, HubTypes, Fresh
<1>3. ASSUME NEW n \in RelayNodes, StartReturns(n) PROVE Replaced'
  BY <1>3 DEF StartReturns, StateTypes, LifeTypes, ReqTypes, LinkTypes, HubTypes, Fresh
<1>4. ASSUME NEW n \in RelayNodes, Close(n) PROVE Replaced'
  BY <1>4 DEF Close, StateTypes, LifeTypes, ReqTypes, LinkTypes, HubTypes, Fresh
<1>5. ASSUME NEW n \in RelayNodes, NEW k \in Links, OnConnect(n, k) PROVE Replaced'
  BY <1>5 DEF OnConnect, StateTypes, LifeTypes, ReqTypes, LinkTypes, HubTypes, Fresh
<1>6. ASSUME NEW n \in RelayNodes, NEW k \in Links, OnConnectStores(n, k) PROVE Replaced'
  BY <1>6 DEF OnConnectStores, StateTypes, LifeTypes, ReqTypes, LinkTypes, HubTypes, Fresh
<1>7. ASSUME NEW n \in RelayNodes, NEW k \in Links, LinkLost(n, k) PROVE Replaced'
  BY <1>7 DEF LinkLost, StateTypes, LifeTypes, ReqTypes, LinkTypes, HubTypes, Fresh
<1>8. ASSUME NEW n \in RelayNodes, NEW k \in Links, OnClose(n, k) PROVE Replaced'
  BY <1>8 DEF OnClose, StateTypes, LifeTypes, ReqTypes, LinkTypes, HubTypes, Fresh
<1>9. ASSUME NEW n \in RelayNodes, NEW k \in Links, NodeReads(n, k) PROVE Replaced'
  BY <1>9 DEF NodeReads, StateTypes, LifeTypes, ReqTypes, LinkTypes, HubTypes, Fresh
<1>10. ASSUME NEW n \in RelayNodes, NEW k \in Links, dispatch(n, k) PROVE Replaced'
  <2>1. UNCHANGED <<alive, gone>> /\ <<n, k>> \notin gone
    BY <1>10 DEF dispatch
  <2>2. CASE UNCHANGED <<nodes, named, kicked>>
    BY <2>1, <2>2
  <2>3. CASE bind(n, k)
    <3>1. /\ nodes' = [nodes EXCEPT ![n] = k] /\ named' = named \cup {<<n, k>>}
          /\ kicked' = IF nodes[n] \in {NoLink, k} THEN kicked ELSE kicked \cup {<<n, nodes[n]>>}
      BY <2>3 DEF bind
    <3>2. NoLink \notin Links
      BY DEF NoLink, Links
    <3>3. nodes'[n] = k /\ \A x \in RelayNodes : x # n => nodes'[x] = nodes[x]
      BY <3>1 DEF StateTypes, LifeTypes, ReqTypes, LinkTypes, HubTypes
    <3>4. nodes[n] \in Links \cup {NoLink}
      BY DEF StateTypes, LifeTypes, ReqTypes, LinkTypes, HubTypes
    <3> QED BY <2>1, <3>1, <3>2, <3>3, <3>4
  <2> QED BY <1>10, <2>2, <2>3 DEF dispatch
<1>11. ASSUME NEW n \in RelayNodes, NEW k \in Links, HubCloses(n, k) PROVE Replaced'
  BY <1>11 DEF HubCloses, unregister, StateTypes, LifeTypes, ReqTypes, LinkTypes, HubTypes, Fresh
<1>12. ASSUME NEW n \in RelayNodes, NEW k \in Links, HubKicks(n, k) PROVE Replaced'
  BY <1>12 DEF HubKicks, StateTypes, LifeTypes, ReqTypes, LinkTypes, HubTypes, Fresh
<1>13. ASSUME NEW n \in RelayNodes, NEW k \in Links, LinkBreaks(n, k) PROVE Replaced'
  BY <1>13 DEF LinkBreaks, StateTypes, LifeTypes, ReqTypes, LinkTypes, HubTypes, Fresh
<1>14. ASSUME NEW n \in RelayNodes, NEW c \in 0..client[n], OnOpen(n, c) PROVE Replaced'
  <2>0. PICK k \in Links \ Made(n) :
          /\ <<n, c>> \in dialing /\ dialing' = dialing \ {<<n, c>>} /\ stopped' = stopped \ {<<n, c>>}
          /\ own' = [own EXCEPT ![n][k] = c] /\ link' = [link EXCEPT ![n][k] = "open"]
          /\ loopAt' = [loopAt EXCEPT ![n][k] = "register"] /\ alive' = alive \cup {<<n, k>>}
          /\ UNCHANGED <<lifeVars, registered, reqVars, servVars, wireVars, relayHubVars, breaks, misled>>
          /\ \A j \in Links \ Made(n) : k <= j
    BY <1>14 DEF OnOpen
  <2>1. /\ k \in Links /\ link[n][k] = "none" /\ \A j \in Links : j < k => link[n][j] # "none"
        /\ \A j \in Links : link[n][j] # "none" => j < k
    BY <2>0, NewLink
  <2>2. /\ <<n, c>> \in dialing /\ dialing' = dialing \ {<<n, c>>} /\ stopped' = stopped \ {<<n, c>>}
        /\ own' = [own EXCEPT ![n][k] = c] /\ link' = [link EXCEPT ![n][k] = "open"]
        /\ loopAt' = [loopAt EXCEPT ![n][k] = "register"] /\ alive' = alive \cup {<<n, k>>}
        /\ UNCHANGED <<lifeVars, registered, reqVars, servVars, wireVars, relayHubVars, breaks, misled>>
    BY <2>0
  <2> QED BY <2>1, <2>2 DEF StateTypes, LifeTypes, ReqTypes, LinkTypes, HubTypes, Fresh
<1>15. ASSUME NEW n \in RelayNodes, NEW c \in 0..client[n], DialEnds(n, c) PROVE Replaced'
  BY <1>15 DEF DialEnds, StateTypes, LifeTypes, ReqTypes, LinkTypes, HubTypes, Fresh
<1>16. ASSUME NEW r \in RelayReqs, RequestChecks(r) PROVE Replaced'
  BY <1>16 DEF RequestChecks, StateTypes, LifeTypes, ReqTypes, LinkTypes, HubTypes, Fresh
<1>17. ASSUME NEW r \in RelayReqs, RequestStores(r) PROVE Replaced'
  BY <1>17 DEF RequestStores, StateTypes, LifeTypes, ReqTypes, LinkTypes, HubTypes, Fresh
<1>18. ASSUME NEW r \in RelayReqs, RequestSends(r) PROVE Replaced'
  BY <1>18 DEF RequestSends, StateTypes, LifeTypes, ReqTypes, LinkTypes, HubTypes, Fresh
<1>19. ASSUME NEW r \in RelayReqs, RequestReturns(r) PROVE Replaced'
  BY <1>19 DEF RequestReturns, StateTypes, LifeTypes, ReqTypes, LinkTypes, HubTypes, Fresh
<1>20. ASSUME NEW r \in RelayReqs, handleInboundRelay(r) PROVE Replaced'
  BY <1>20 DEF handleInboundRelay, StateTypes, LifeTypes, ReqTypes, LinkTypes, HubTypes, Fresh
<1> QED
  BY <1>1, <1>2, <1>3, <1>4, <1>5, <1>6, <1>7, <1>8, <1>9, <1>10, <1>11, <1>12, <1>13, <1>14, <1>15, <1>16, <1>17, <1>18, <1>19, <1>20
  DEF RelayNext, OfLink, OfDial, Requester

\* The hub knows a node's connection, or its registration is under way.
LEMMA KnownKept ==
  ASSUME StateTypes', WireTypes', StateTypes, WireTypes, Ordered, OwnDials, Fresh, Ended, Dead, Replaced, Known, Marked, Once, Unserved, Early, Replied, Served, Untagged, RelayNext
  PROVE  Known'
<1> USE RelaySizes DEF lifeVars, reqVars, servVars, dialVars, linkVars, wireVars, relayHubVars, Known
<1>1. ASSUME NEW n \in RelayNodes, TransportStart(n) PROVE Known'
  BY <1>1 DEF TransportStart, StateTypes, LifeTypes, ReqTypes, LinkTypes, HubTypes, Current, OwnDials, Fresh
<1>2. ASSUME NEW n \in RelayNodes, StartFails(n) PROVE Known'
  BY <1>2 DEF StartFails, StateTypes, LifeTypes, ReqTypes, LinkTypes, HubTypes, Current, OwnDials, Fresh
<1>3. ASSUME NEW n \in RelayNodes, StartReturns(n) PROVE Known'
  BY <1>3 DEF StartReturns, StateTypes, LifeTypes, ReqTypes, LinkTypes, HubTypes, Current, OwnDials, Fresh
<1>4. ASSUME NEW n \in RelayNodes, Close(n) PROVE Known'
  BY <1>4 DEF Close, StateTypes, LifeTypes, ReqTypes, LinkTypes, HubTypes, Current, OwnDials, Fresh
<1>5. ASSUME NEW n \in RelayNodes, NEW k \in Links, OnConnect(n, k) PROVE Known'
  <2>1. /\ \A x \in RelayNodes, i \in Links : Holds(up[x][i], Msg("reg", "none")) => Holds(up'[x][i], Msg("reg", "none"))
        /\ <<n, Cur(n)>> \in alive => Holds(up'[n][Cur(n)], Msg("reg", "none"))
    <3>1. SendUp(n, Msg("reg", "none")) /\ Msg("reg", "none") \in Msgs
      BY <1>5, MsgsAre DEF OnConnect
    <3> QED BY <3>1, Sent
  <2>2. /\ UNCHANGED <<link, own, client, alive, kicked, nodes>>
        /\ \A x \in RelayNodes, i \in Links : x # n \/ i # k => loopAt'[x][i] = loopAt[x][i]
    BY <1>5 DEF OnConnect, StateTypes, LifeTypes, ReqTypes, LinkTypes, HubTypes
  <2>3. Current(n, k) => k = Cur(n)
    BY CurIs
  <2> QED BY <2>1, <2>2, <2>3 DEF Current
<1>6. ASSUME NEW n \in RelayNodes, NEW k \in Links, OnConnectStores(n, k) PROVE Known'
  BY <1>6 DEF OnConnectStores, StateTypes, LifeTypes, ReqTypes, LinkTypes, HubTypes, Current, OwnDials, Fresh
<1>7. ASSUME NEW n \in RelayNodes, NEW k \in Links, LinkLost(n, k) PROVE Known'
  BY <1>7 DEF LinkLost, StateTypes, LifeTypes, ReqTypes, LinkTypes, HubTypes, Current, OwnDials, Fresh
<1>8. ASSUME NEW n \in RelayNodes, NEW k \in Links, OnClose(n, k) PROVE Known'
  BY <1>8 DEF OnClose, StateTypes, LifeTypes, ReqTypes, LinkTypes, HubTypes, Current, OwnDials, Fresh
<1>9. ASSUME NEW n \in RelayNodes, NEW k \in Links, NodeReads(n, k) PROVE Known'
  BY <1>9 DEF NodeReads, StateTypes, LifeTypes, ReqTypes, LinkTypes, HubTypes, Current, OwnDials, Fresh
<1>10. ASSUME NEW n \in RelayNodes, NEW k \in Links, dispatch(n, k) PROVE Known'
  <2> DEFINE h == Head(up[n][k])
  <2>1. /\ \A x \in RelayNodes, i \in Links : x # n \/ i # k => up'[x][i] = up[x][i]
        /\ Holds(up[n][k], Msg("reg", "none")) => Holds(up'[n][k], Msg("reg", "none")) \/ h = Msg("reg", "none")
    <3>1. Msg("reg", "none") \in Msgs
      BY MsgsAre
    <3> QED BY <1>10, <3>1, DispatchWires
  <2>2. UNCHANGED <<link, own, client, alive, loopAt>>
    BY <1>10 DEF dispatch
  <2>3. CASE h.what = "reg"
    <3>1. /\ nodes' = [nodes EXCEPT ![n] = k]
          /\ kicked' = IF nodes[n] \in {NoLink, k} THEN kicked ELSE kicked \cup {<<n, nodes[n]>>}
      BY <1>10, <2>3 DEF dispatch, bind
    <3>2. NoLink \notin Links
      BY DEF NoLink, Links
    <3> HIDE DEF h
    <3>3. nodes'[n] = k /\ \A x \in RelayNodes : x # n => nodes'[x] = nodes[x]
      BY <3>1 DEF StateTypes, LifeTypes, ReqTypes, LinkTypes, HubTypes
    <3> QED BY <2>1, <2>2, <3>1, <3>2, <3>3 DEF Current
  <2>4. CASE h.what # "reg"
    <3>1. UNCHANGED <<nodes, kicked>>
      BY <1>10, <2>4 DEF dispatch
    <3>2. h # Msg("reg", "none")
      BY <2>4 DEF Msg
    <3> HIDE DEF h
    <3> QED BY <2>1, <2>2, <3>1, <3>2 DEF Current
  <2> QED BY <2>3, <2>4
<1>11. ASSUME NEW n \in RelayNodes, NEW k \in Links, HubCloses(n, k) PROVE Known'
  <2>1. \A x \in RelayNodes, i \in Links : x # n \/ i # k => up'[x][i] = up[x][i]
    BY <1>11, HubClosesWires
  <2>2. /\ UNCHANGED <<link, own, client, alive, loopAt>> /\ <<n, k>> \notin alive /\ kicked' = kicked \ {<<n, k>>}
        /\ \A x \in RelayNodes : nodes'[x] = nodes[x] \/ (x = n /\ nodes[x] = k)
    BY <1>11 DEF HubCloses, unregister, StateTypes, LifeTypes, ReqTypes, LinkTypes, HubTypes
  <2> QED BY <2>1, <2>2 DEF Current
<1>12. ASSUME NEW n \in RelayNodes, NEW k \in Links, HubKicks(n, k) PROVE Known'
  BY <1>12 DEF HubKicks, StateTypes, LifeTypes, ReqTypes, LinkTypes, HubTypes, Current, OwnDials, Fresh
<1>13. ASSUME NEW n \in RelayNodes, NEW k \in Links, LinkBreaks(n, k) PROVE Known'
  BY <1>13 DEF LinkBreaks, StateTypes, LifeTypes, ReqTypes, LinkTypes, HubTypes, Current, OwnDials, Fresh
<1>14. ASSUME NEW n \in RelayNodes, NEW c \in 0..client[n], OnOpen(n, c) PROVE Known'
  <2>0. PICK k \in Links \ Made(n) :
          /\ <<n, c>> \in dialing /\ dialing' = dialing \ {<<n, c>>} /\ stopped' = stopped \ {<<n, c>>}
          /\ own' = [own EXCEPT ![n][k] = c] /\ link' = [link EXCEPT ![n][k] = "open"]
          /\ loopAt' = [loopAt EXCEPT ![n][k] = "register"] /\ alive' = alive \cup {<<n, k>>}
          /\ UNCHANGED <<lifeVars, registered, reqVars, servVars, wireVars, relayHubVars, breaks, misled>>
          /\ \A j \in Links \ Made(n) : k <= j
    BY <1>14 DEF OnOpen
  <2>1. /\ k \in Links /\ link[n][k] = "none" /\ \A j \in Links : j < k => link[n][j] # "none"
        /\ \A j \in Links : link[n][j] # "none" => j < k
    BY <2>0, NewLink
  <2>2. /\ <<n, c>> \in dialing /\ dialing' = dialing \ {<<n, c>>} /\ stopped' = stopped \ {<<n, c>>}
        /\ own' = [own EXCEPT ![n][k] = c] /\ link' = [link EXCEPT ![n][k] = "open"]
        /\ loopAt' = [loopAt EXCEPT ![n][k] = "register"] /\ alive' = alive \cup {<<n, k>>}
        /\ UNCHANGED <<lifeVars, registered, reqVars, servVars, wireVars, relayHubVars, breaks, misled>>
    BY <2>0
  <2> QED BY <2>1, <2>2 DEF StateTypes, LifeTypes, ReqTypes, LinkTypes, HubTypes, Current, OwnDials, Fresh
<1>15. ASSUME NEW n \in RelayNodes, NEW c \in 0..client[n], DialEnds(n, c) PROVE Known'
  BY <1>15 DEF DialEnds, StateTypes, LifeTypes, ReqTypes, LinkTypes, HubTypes, Current, OwnDials, Fresh
<1>16. ASSUME NEW r \in RelayReqs, RequestChecks(r) PROVE Known'
  BY <1>16 DEF RequestChecks, StateTypes, LifeTypes, ReqTypes, LinkTypes, HubTypes, Current, OwnDials, Fresh
<1>17. ASSUME NEW r \in RelayReqs, RequestStores(r) PROVE Known'
  BY <1>17 DEF RequestStores, StateTypes, LifeTypes, ReqTypes, LinkTypes, HubTypes, Current, OwnDials, Fresh
<1>18. ASSUME NEW r \in RelayReqs, RequestSends(r) PROVE Known'
  <2>1. \A x \in RelayNodes, i \in Links : Holds(up[x][i], Msg("reg", "none")) => Holds(up'[x][i], Msg("reg", "none"))
    <3>1. Msg("reg", "none") \in Msgs
      BY MsgsAre
    <3> QED BY <1>18, <3>1, RequestWires
  <2>2. UNCHANGED <<link, own, client, alive, kicked, nodes, loopAt>>
    BY <1>18 DEF RequestSends
  <2> QED BY <2>1, <2>2 DEF Current
<1>19. ASSUME NEW r \in RelayReqs, RequestReturns(r) PROVE Known'
  BY <1>19 DEF RequestReturns, StateTypes, LifeTypes, ReqTypes, LinkTypes, HubTypes, Current, OwnDials, Fresh
<1>20. ASSUME NEW r \in RelayReqs, handleInboundRelay(r) PROVE Known'
  <2>1. \A x \in RelayNodes, i \in Links : Holds(up[x][i], Msg("reg", "none")) => Holds(up'[x][i], Msg("reg", "none"))
    <3>1. Msg("reg", "none") \in Msgs
      BY MsgsAre
    <3> QED BY <1>20, <3>1, RepliesWires
  <2>2. UNCHANGED <<link, own, client, alive, kicked, nodes, loopAt>>
    BY <1>20 DEF handleInboundRelay
  <2> QED BY <2>1, <2>2 DEF Current
<1> QED
  BY <1>1, <1>2, <1>3, <1>4, <1>5, <1>6, <1>7, <1>8, <1>9, <1>10, <1>11, <1>12, <1>13, <1>14, <1>15, <1>16, <1>17, <1>18, <1>19, <1>20
  DEF RelayNext, OfLink, OfDial, Requester

\* A node with a connection says that it is registered, unless misled.
LEMMA MarkedKept ==
  ASSUME StateTypes', WireTypes', StateTypes, WireTypes, Ordered, OwnDials, Fresh, Ended, Dead, Replaced, Known, Marked, Once, Unserved, Early, Replied, Served, Untagged, RelayNext
  PROVE  Marked'
<1> USE RelaySizes DEF lifeVars, reqVars, servVars, dialVars, linkVars, wireVars, relayHubVars, Marked
<1>1. ASSUME NEW n \in RelayNodes, TransportStart(n) PROVE Marked'
  <2>1. /\ UNCHANGED <<link, own, registered, misled, loopAt>> /\ startedNodes' = startedNodes \cup {n}
        /\ client' = [client EXCEPT ![n] = @ + 1]
    BY <1>1 DEF TransportStart
  <2>2. client'[n] = client[n] + 1 /\ client[n] \in Nat /\ \A x \in RelayNodes : x # n => client'[x] = client[x]
    BY <2>1 DEF StateTypes, LifeTypes, ReqTypes, LinkTypes, HubTypes
  <2>3. \A i \in Links : own[n][i] \in Nat /\ (link[n][i] # "none" => own[n][i] <= client[n])
    BY DEF StateTypes, LifeTypes, ReqTypes, LinkTypes, HubTypes, OwnDials
  <2>4. \A i \in Links : ~(link'[n][i] = "open" /\ own'[n][i] = client'[n])
    BY <2>1, <2>2, <2>3
  <2> QED BY <2>1, <2>2, <2>4 DEF Current
<1>2. ASSUME NEW n \in RelayNodes, StartFails(n) PROVE Marked'
  BY <1>2 DEF StartFails, StateTypes, LifeTypes, ReqTypes, LinkTypes, HubTypes, Current, OwnDials, Fresh
<1>3. ASSUME NEW n \in RelayNodes, StartReturns(n) PROVE Marked'
  BY <1>3 DEF StartReturns, StateTypes, LifeTypes, ReqTypes, LinkTypes, HubTypes, Current, OwnDials, Fresh
<1>4. ASSUME NEW n \in RelayNodes, Close(n) PROVE Marked'
  BY <1>4 DEF Close, StateTypes, LifeTypes, ReqTypes, LinkTypes, HubTypes, Current, OwnDials, Fresh
<1>5. ASSUME NEW n \in RelayNodes, NEW k \in Links, OnConnect(n, k) PROVE Marked'
  <2>1. /\ UNCHANGED <<link, own, client, startedNodes, registered, misled>>
        /\ \A x \in RelayNodes, i \in Links : x # n \/ i # k => loopAt'[x][i] = loopAt[x][i]
        /\ loopAt'[n][k] = IF Cur(n) = NoLink THEN "idle" ELSE "store"
    BY <1>5 DEF OnConnect, StateTypes, LifeTypes, ReqTypes, LinkTypes, HubTypes
  <2>2. Cur(n) = NoLink => ~Current(n, k)
    <3>1. NoLink \notin Links
      BY DEF NoLink, Links
    <3> QED BY <3>1, CurIs
  <2>3. \A x \in RelayNodes, i \in Links : (x = n /\ i = k) \/ loopAt'[x][i] = loopAt[x][i]
    BY <2>1
  <2>4. loopAt'[n][k] = "idle" => ~Current(n, k)
    <3>1. CASE Cur(n) = NoLink
      BY <2>2, <3>1
    <3>2. CASE Cur(n) # NoLink
      <4>1. loopAt'[n][k] = "store"
        BY <2>1, <3>2
      <4> QED BY <4>1
    <3> QED BY <3>1, <3>2
  <2>5. \A x \in RelayNodes, i \in Links : Current(x, i)' = Current(x, i)
    BY <2>1 DEF Current
  <2>6. UNCHANGED <<startedNodes, registered, misled>>
    BY <2>1
  <2> QED BY <2>3, <2>4, <2>5, <2>6
<1>6. ASSUME NEW n \in RelayNodes, NEW k \in Links, OnConnectStores(n, k) PROVE Marked'
  BY <1>6 DEF OnConnectStores, StateTypes, LifeTypes, ReqTypes, LinkTypes, HubTypes, Current, OwnDials, Fresh
<1>7. ASSUME NEW n \in RelayNodes, NEW k \in Links, LinkLost(n, k) PROVE Marked'
  BY <1>7 DEF LinkLost, StateTypes, LifeTypes, ReqTypes, LinkTypes, HubTypes, Current, OwnDials, Fresh
<1>8. ASSUME NEW n \in RelayNodes, NEW k \in Links, OnClose(n, k) PROVE Marked'
  BY <1>8 DEF OnClose, StateTypes, LifeTypes, ReqTypes, LinkTypes, HubTypes, Current, OwnDials, Fresh
<1>9. ASSUME NEW n \in RelayNodes, NEW k \in Links, NodeReads(n, k) PROVE Marked'
  BY <1>9 DEF NodeReads, StateTypes, LifeTypes, ReqTypes, LinkTypes, HubTypes, Current, OwnDials, Fresh
<1>10. ASSUME NEW n \in RelayNodes, NEW k \in Links, dispatch(n, k) PROVE Marked'
  <2>1. UNCHANGED <<link, own, client, loopAt, startedNodes, registered, misled>>
    BY <1>10 DEF dispatch
  <2> QED BY <2>1 DEF Current
<1>11. ASSUME NEW n \in RelayNodes, NEW k \in Links, HubCloses(n, k) PROVE Marked'
  BY <1>11 DEF HubCloses, unregister, StateTypes, LifeTypes, ReqTypes, LinkTypes, HubTypes, Current, OwnDials, Fresh
<1>12. ASSUME NEW n \in RelayNodes, NEW k \in Links, HubKicks(n, k) PROVE Marked'
  BY <1>12 DEF HubKicks, StateTypes, LifeTypes, ReqTypes, LinkTypes, HubTypes, Current, OwnDials, Fresh
<1>13. ASSUME NEW n \in RelayNodes, NEW k \in Links, LinkBreaks(n, k) PROVE Marked'
  BY <1>13 DEF LinkBreaks, StateTypes, LifeTypes, ReqTypes, LinkTypes, HubTypes, Current, OwnDials, Fresh
<1>14. ASSUME NEW n \in RelayNodes, NEW c \in 0..client[n], OnOpen(n, c) PROVE Marked'
  <2>0. PICK k \in Links \ Made(n) :
          /\ <<n, c>> \in dialing /\ dialing' = dialing \ {<<n, c>>} /\ stopped' = stopped \ {<<n, c>>}
          /\ own' = [own EXCEPT ![n][k] = c] /\ link' = [link EXCEPT ![n][k] = "open"]
          /\ loopAt' = [loopAt EXCEPT ![n][k] = "register"] /\ alive' = alive \cup {<<n, k>>}
          /\ UNCHANGED <<lifeVars, registered, reqVars, servVars, wireVars, relayHubVars, breaks, misled>>
          /\ \A j \in Links \ Made(n) : k <= j
    BY <1>14 DEF OnOpen
  <2>1. /\ k \in Links /\ link[n][k] = "none" /\ \A j \in Links : j < k => link[n][j] # "none"
        /\ \A j \in Links : link[n][j] # "none" => j < k
    BY <2>0, NewLink
  <2>2. /\ <<n, c>> \in dialing /\ dialing' = dialing \ {<<n, c>>} /\ stopped' = stopped \ {<<n, c>>}
        /\ own' = [own EXCEPT ![n][k] = c] /\ link' = [link EXCEPT ![n][k] = "open"]
        /\ loopAt' = [loopAt EXCEPT ![n][k] = "register"] /\ alive' = alive \cup {<<n, k>>}
        /\ UNCHANGED <<lifeVars, registered, reqVars, servVars, wireVars, relayHubVars, breaks, misled>>
    BY <2>0
  <2> QED BY <2>1, <2>2 DEF StateTypes, LifeTypes, ReqTypes, LinkTypes, HubTypes, Current, OwnDials, Fresh
<1>15. ASSUME NEW n \in RelayNodes, NEW c \in 0..client[n], DialEnds(n, c) PROVE Marked'
  BY <1>15 DEF DialEnds, StateTypes, LifeTypes, ReqTypes, LinkTypes, HubTypes, Current, OwnDials, Fresh
<1>16. ASSUME NEW r \in RelayReqs, RequestChecks(r) PROVE Marked'
  BY <1>16 DEF RequestChecks, StateTypes, LifeTypes, ReqTypes, LinkTypes, HubTypes, Current, OwnDials, Fresh
<1>17. ASSUME NEW r \in RelayReqs, RequestStores(r) PROVE Marked'
  BY <1>17 DEF RequestStores, StateTypes, LifeTypes, ReqTypes, LinkTypes, HubTypes, Current, OwnDials, Fresh
<1>18. ASSUME NEW r \in RelayReqs, RequestSends(r) PROVE Marked'
  BY <1>18 DEF RequestSends, StateTypes, LifeTypes, ReqTypes, LinkTypes, HubTypes, Current, OwnDials, Fresh
<1>19. ASSUME NEW r \in RelayReqs, RequestReturns(r) PROVE Marked'
  BY <1>19 DEF RequestReturns, StateTypes, LifeTypes, ReqTypes, LinkTypes, HubTypes, Current, OwnDials, Fresh
<1>20. ASSUME NEW r \in RelayReqs, handleInboundRelay(r) PROVE Marked'
  BY <1>20 DEF handleInboundRelay, StateTypes, LifeTypes, ReqTypes, LinkTypes, HubTypes, Current, OwnDials, Fresh
<1> QED
  BY <1>1, <1>2, <1>3, <1>4, <1>5, <1>6, <1>7, <1>8, <1>9, <1>10, <1>11, <1>12, <1>13, <1>14, <1>15, <1>16, <1>17, <1>18, <1>19, <1>20
  DEF RelayNext, OfLink, OfDial, Requester

\* A request is in one place: it is sent once, and forwarded as it is taken.
LEMMA OnceKept ==
  ASSUME StateTypes', WireTypes', StateTypes, WireTypes, Ordered, OwnDials, Fresh, Ended, Dead, Replaced, Known, Marked, Once, Unserved, Early, Replied, Served, Untagged, RelayNext
  PROVE  Once'
<1> USE RelaySizes DEF lifeVars, reqVars, servVars, dialVars, linkVars, wireVars, relayHubVars, Once
<1>1. ASSUME NEW n \in RelayNodes, TransportStart(n) PROVE Once'
  BY <1>1 DEF TransportStart, StateTypes, LifeTypes, ReqTypes, LinkTypes, HubTypes
<1>2. ASSUME NEW n \in RelayNodes, StartFails(n) PROVE Once'
  BY <1>2 DEF StartFails, StateTypes, LifeTypes, ReqTypes, LinkTypes, HubTypes
<1>3. ASSUME NEW n \in RelayNodes, StartReturns(n) PROVE Once'
  BY <1>3 DEF StartReturns, StateTypes, LifeTypes, ReqTypes, LinkTypes, HubTypes
<1>4. ASSUME NEW n \in RelayNodes, Close(n) PROVE Once'
  BY <1>4 DEF Close, StateTypes, LifeTypes, ReqTypes, LinkTypes, HubTypes
<1>5. ASSUME NEW n \in RelayNodes, NEW k \in Links, OnConnect(n, k) PROVE Once'
  <2>1. \A q \in RelayReqs : Within(up, up', Msg("relay", q)) /\ Within(down, down', Msg("relay", q))
    BY <1>5, OnConnectWires, MsgsAre DEF Within
  <2> QED BY <2>1 DEF Within
<1>6. ASSUME NEW n \in RelayNodes, NEW k \in Links, OnConnectStores(n, k) PROVE Once'
  BY <1>6 DEF OnConnectStores, StateTypes, LifeTypes, ReqTypes, LinkTypes, HubTypes
<1>7. ASSUME NEW n \in RelayNodes, NEW k \in Links, LinkLost(n, k) PROVE Once'
  BY <1>7 DEF LinkLost, StateTypes, LifeTypes, ReqTypes, LinkTypes, HubTypes
<1>8. ASSUME NEW n \in RelayNodes, NEW k \in Links, OnClose(n, k) PROVE Once'
  <2>1. \A q \in RelayReqs : Within(up, up', Msg("relay", q)) /\ Within(down, down', Msg("relay", q))
    BY <1>8, OnCloseWires, MsgsAre DEF Within
  <2> QED BY <2>1 DEF Within
<1>9. ASSUME NEW n \in RelayNodes, NEW k \in Links, NodeReads(n, k) PROVE Once'
  <2>1. \A q \in RelayReqs : Within(up, up', Msg("relay", q)) /\ Within(down, down', Msg("relay", q))
    BY <1>9, NodeReadsWires, MsgsAre DEF Within
  <2> QED BY <2>1 DEF Within
<1>10. ASSUME NEW n \in RelayNodes, NEW k \in Links, dispatch(n, k) PROVE Once'
  <2> DEFINE h == Head(up[n][k])
  <2>1. /\ h \in Msgs /\ Holds(up[n][k], h) /\ (Holds(up'[n][k], h) => Twice(up[n][k], h))
        /\ \A q \in RelayReqs : Within(up, up', Msg("relay", q))
    BY <1>10, DispatchWires, MsgsAre
  <2>2. CASE down' = down
    BY <2>1, <2>2 DEF Within
  <2>3. CASE down' # down
    <3>1. PICK a \in RelayNodes, b \in Links, m \in Msgs :
                 /\ m = h \/ m = Msg("err", h.req)
                 /\ \A y \in RelayNodes, j \in Links, w \in Msgs :
                      /\ Holds(down'[y][j], w) => Holds(down[y][j], w) \/ (y = a /\ j = b /\ w = m)
                      /\ Twice(down'[y][j], w) => Twice(down[y][j], w) \/ (y = a /\ j = b /\ w = m /\ Holds(down[a][b], m))
      BY <1>10, <2>3, DispatchDown
    <3> HIDE DEF h
    <3>2. ASSUME NEW q \in RelayReqs
          PROVE  /\ \A x \in RelayNodes, i \in Links : ~Twice(up'[x][i], Msg("relay", q)) /\ ~Twice(down'[x][i], Msg("relay", q))
                 /\ \A x, y \in RelayNodes, i, j \in Links :
                    /\ Holds(up'[x][i], Msg("relay", q)) /\ Holds(up'[y][j], Msg("relay", q)) => x = y /\ i = j
                    /\ Holds(down'[x][i], Msg("relay", q)) /\ Holds(down'[y][j], Msg("relay", q)) => x = y /\ i = j
                    /\ ~(Holds(up'[x][i], Msg("relay", q)) /\ Holds(down'[y][j], Msg("relay", q)))
      <4>1. Msg("relay", q) \in Msgs /\ Msg("relay", q) # Msg("err", h.req) /\ Within(up, up', Msg("relay", q))
        BY <2>1, MsgsAre
      <4>2. CASE m # Msg("relay", q)
        <5>1. Within(down, down', Msg("relay", q))
          BY <3>1, <4>1, <4>2 DEF Within
        <5> QED BY <4>1, <5>1 DEF Within
      <4>3. CASE m = Msg("relay", q)
        <5>1. h = Msg("relay", q)
          BY <3>1, <4>1, <4>3
        <5>2. \A x \in RelayNodes, i \in Links : Holds(up[x][i], Msg("relay", q)) => x = n /\ i = k
          BY <2>1, <5>1
        <5>3. \A x \in RelayNodes, i \in Links : ~Holds(up'[x][i], Msg("relay", q)) /\ ~Twice(up'[x][i], Msg("relay", q))
          BY <2>1, <4>1, <5>1, <5>2 DEF Within
        <5>4. \A x \in RelayNodes, i \in Links : ~Holds(down[x][i], Msg("relay", q)) /\ ~Twice(down[x][i], Msg("relay", q))
          BY <2>1, <5>1
        <5>5. /\ \A x \in RelayNodes, i \in Links :
                /\ Holds(down'[x][i], Msg("relay", q)) => x = a /\ i = b
                /\ ~Twice(down'[x][i], Msg("relay", q))
          BY <3>1, <4>1, <4>3, <5>4
        <5> QED BY <5>3, <5>5
      <4> QED BY <4>2, <4>3
    <3> QED BY <3>2
  <2> QED BY <2>2, <2>3
<1>11. ASSUME NEW n \in RelayNodes, NEW k \in Links, HubCloses(n, k) PROVE Once'
  <2>1. \A q \in RelayReqs : Within(up, up', Msg("relay", q)) /\ Within(down, down', Msg("relay", q))
    BY <1>11, HubClosesWires, MsgsAre DEF Within
  <2> QED BY <2>1 DEF Within
<1>12. ASSUME NEW n \in RelayNodes, NEW k \in Links, HubKicks(n, k) PROVE Once'
  BY <1>12 DEF HubKicks, StateTypes, LifeTypes, ReqTypes, LinkTypes, HubTypes
<1>13. ASSUME NEW n \in RelayNodes, NEW k \in Links, LinkBreaks(n, k) PROVE Once'
  BY <1>13 DEF LinkBreaks, StateTypes, LifeTypes, ReqTypes, LinkTypes, HubTypes
<1>14. ASSUME NEW n \in RelayNodes, NEW c \in 0..client[n], OnOpen(n, c) PROVE Once'
  <2>0. PICK k \in Links \ Made(n) :
          /\ <<n, c>> \in dialing /\ dialing' = dialing \ {<<n, c>>} /\ stopped' = stopped \ {<<n, c>>}
          /\ own' = [own EXCEPT ![n][k] = c] /\ link' = [link EXCEPT ![n][k] = "open"]
          /\ loopAt' = [loopAt EXCEPT ![n][k] = "register"] /\ alive' = alive \cup {<<n, k>>}
          /\ UNCHANGED <<lifeVars, registered, reqVars, servVars, wireVars, relayHubVars, breaks, misled>>
          /\ \A j \in Links \ Made(n) : k <= j
    BY <1>14 DEF OnOpen
  <2>1. /\ k \in Links /\ link[n][k] = "none" /\ \A j \in Links : j < k => link[n][j] # "none"
        /\ \A j \in Links : link[n][j] # "none" => j < k
    BY <2>0, NewLink
  <2>2. /\ <<n, c>> \in dialing /\ dialing' = dialing \ {<<n, c>>} /\ stopped' = stopped \ {<<n, c>>}
        /\ own' = [own EXCEPT ![n][k] = c] /\ link' = [link EXCEPT ![n][k] = "open"]
        /\ loopAt' = [loopAt EXCEPT ![n][k] = "register"] /\ alive' = alive \cup {<<n, k>>}
        /\ UNCHANGED <<lifeVars, registered, reqVars, servVars, wireVars, relayHubVars, breaks, misled>>
    BY <2>0
  <2> QED BY <2>1, <2>2 DEF StateTypes, LifeTypes, ReqTypes, LinkTypes, HubTypes
<1>15. ASSUME NEW n \in RelayNodes, NEW c \in 0..client[n], DialEnds(n, c) PROVE Once'
  BY <1>15 DEF DialEnds, StateTypes, LifeTypes, ReqTypes, LinkTypes, HubTypes
<1>16. ASSUME NEW r \in RelayReqs, RequestChecks(r) PROVE Once'
  BY <1>16 DEF RequestChecks, StateTypes, LifeTypes, ReqTypes, LinkTypes, HubTypes
<1>17. ASSUME NEW r \in RelayReqs, RequestStores(r) PROVE Once'
  BY <1>17 DEF RequestStores, StateTypes, LifeTypes, ReqTypes, LinkTypes, HubTypes
<1>18. ASSUME NEW r \in RelayReqs, RequestSends(r) PROVE Once'
  <2>1. \A q \in RelayReqs : Msg("relay", q) \in Msgs /\ (q # r => Msg("relay", q) # Msg("relay", r))
    BY MsgsAre
  <2>2. \A q \in RelayReqs : q # r => Within(up, up', Msg("relay", q))
    BY <1>18, <2>1, RequestWires
  <2>3. \A x \in RelayNodes, i \in Links : ~Holds(up[x][i], Msg("relay", r)) /\ ~Holds(down[x][i], Msg("relay", r))
    BY <1>18 DEF RequestSends, Unserved
  <2>4. /\ down' = down
        /\ \A x \in RelayNodes, i \in Links : Holds(up'[x][i], Msg("relay", r)) => x = Src[r] /\ i = Cur(Src[r])
        /\ \A x \in RelayNodes, i \in Links : ~Twice(up'[x][i], Msg("relay", r))
    BY <1>18, <2>3, RequestWires
  <2>5. ASSUME NEW q \in RelayReqs, q # r
        PROVE  /\ \A x \in RelayNodes, i \in Links : ~Twice(up'[x][i], Msg("relay", q)) /\ ~Twice(down'[x][i], Msg("relay", q))
               /\ \A x, y \in RelayNodes, i, j \in Links :
                    /\ Holds(up'[x][i], Msg("relay", q)) /\ Holds(up'[y][j], Msg("relay", q)) => x = y /\ i = j
                    /\ Holds(down'[x][i], Msg("relay", q)) /\ Holds(down'[y][j], Msg("relay", q)) => x = y /\ i = j
                    /\ ~(Holds(up'[x][i], Msg("relay", q)) /\ Holds(down'[y][j], Msg("relay", q)))
    BY <2>2, <2>4, <2>5 DEF Within
  <2>6. /\ \A x \in RelayNodes, i \in Links : ~Twice(up'[x][i], Msg("relay", r)) /\ ~Twice(down'[x][i], Msg("relay", r))
        /\ \A x, y \in RelayNodes, i, j \in Links :
                    /\ Holds(up'[x][i], Msg("relay", r)) /\ Holds(up'[y][j], Msg("relay", r)) => x = y /\ i = j
                    /\ Holds(down'[x][i], Msg("relay", r)) /\ Holds(down'[y][j], Msg("relay", r)) => x = y /\ i = j
                    /\ ~(Holds(up'[x][i], Msg("relay", r)) /\ Holds(down'[y][j], Msg("relay", r)))
    BY <2>3, <2>4
  <2> QED BY <2>5, <2>6
<1>19. ASSUME NEW r \in RelayReqs, RequestReturns(r) PROVE Once'
  BY <1>19 DEF RequestReturns, StateTypes, LifeTypes, ReqTypes, LinkTypes, HubTypes
<1>20. ASSUME NEW r \in RelayReqs, handleInboundRelay(r) PROVE Once'
  <2>1. \A q \in RelayReqs : Msg("relay", q) \in Msgs /\ Msg("relay", q) # Msg("reply", r)
    BY MsgsAre
  <2>2. \A q \in RelayReqs : Within(up, up', Msg("relay", q)) /\ Within(down, down', Msg("relay", q))
    BY <1>20, <2>1, RepliesWires DEF Within
  <2> QED BY <2>2 DEF Within
<1> QED
  BY <1>1, <1>2, <1>3, <1>4, <1>5, <1>6, <1>7, <1>8, <1>9, <1>10, <1>11, <1>12, <1>13, <1>14, <1>15, <1>16, <1>17, <1>18, <1>19, <1>20
  DEF RelayNext, OfLink, OfDial, Requester

\* A request on a wire was not served yet.
LEMMA UnservedKept ==
  ASSUME StateTypes', WireTypes', StateTypes, WireTypes, Ordered, OwnDials, Fresh, Ended, Dead, Replaced, Known, Marked, Once, Unserved, Early, Replied, Served, Untagged, RelayNext
  PROVE  Unserved'
<1> USE RelaySizes DEF lifeVars, reqVars, servVars, dialVars, linkVars, wireVars, relayHubVars, Unserved
<1>1. ASSUME NEW n \in RelayNodes, TransportStart(n) PROVE Unserved'
  BY <1>1 DEF TransportStart, StateTypes, LifeTypes, ReqTypes, LinkTypes, HubTypes, Early
<1>2. ASSUME NEW n \in RelayNodes, StartFails(n) PROVE Unserved'
  BY <1>2 DEF StartFails, StateTypes, LifeTypes, ReqTypes, LinkTypes, HubTypes, Early
<1>3. ASSUME NEW n \in RelayNodes, StartReturns(n) PROVE Unserved'
  BY <1>3 DEF StartReturns, StateTypes, LifeTypes, ReqTypes, LinkTypes, HubTypes, Early
<1>4. ASSUME NEW n \in RelayNodes, Close(n) PROVE Unserved'
  BY <1>4 DEF Close, StateTypes, LifeTypes, ReqTypes, LinkTypes, HubTypes, Early
<1>5. ASSUME NEW n \in RelayNodes, NEW k \in Links, OnConnect(n, k) PROVE Unserved'
  <2>1. \A q \in RelayReqs : Within(up, up', Msg("relay", q)) /\ Within(down, down', Msg("relay", q))
    BY <1>5, OnConnectWires, MsgsAre DEF Within
  <2>2. UNCHANGED <<served, reqAt>>
    BY <1>5 DEF OnConnect
  <2> QED BY <2>1, <2>2 DEF Within
<1>6. ASSUME NEW n \in RelayNodes, NEW k \in Links, OnConnectStores(n, k) PROVE Unserved'
  BY <1>6 DEF OnConnectStores, StateTypes, LifeTypes, ReqTypes, LinkTypes, HubTypes, Early
<1>7. ASSUME NEW n \in RelayNodes, NEW k \in Links, LinkLost(n, k) PROVE Unserved'
  BY <1>7 DEF LinkLost, StateTypes, LifeTypes, ReqTypes, LinkTypes, HubTypes, Early
<1>8. ASSUME NEW n \in RelayNodes, NEW k \in Links, OnClose(n, k) PROVE Unserved'
  <2>1. \A q \in RelayReqs : Within(up, up', Msg("relay", q)) /\ Within(down, down', Msg("relay", q))
    BY <1>8, OnCloseWires, MsgsAre DEF Within
  <2>2. UNCHANGED <<served, reqAt>>
    BY <1>8 DEF OnClose
  <2> QED BY <2>1, <2>2 DEF Within
<1>9. ASSUME NEW n \in RelayNodes, NEW k \in Links, NodeReads(n, k) PROVE Unserved'
  <2> DEFINE h == Head(down[n][k])
  <2>1. /\ h \in Msgs /\ Holds(down[n][k], h) /\ (Holds(down'[n][k], h) => Twice(down[n][k], h))
        /\ up' = up /\ \A w \in Msgs : Within(down, down', w)
    BY <1>9, NodeReadsWires
  <2>2. /\ UNCHANGED <<reqAt, result>>
        /\ \/ h.what = "relay" /\ served' = [served EXCEPT ![h.req] = @ + 1] /\ serving' = serving \cup {h.req} /\ UNCHANGED chan
           \/ h.what # "relay" /\ UNCHANGED <<served, serving>> /\ chan' = [q \in RelayReqs |-> IF q \in {h.req} \cap pending THEN h.what ELSE chan[q]]
    BY <1>9 DEF NodeReads, Answered
  <2>3. /\ h = Msg(h.what, h.req) /\ (h.what = "relay" => h.req \in RelayReqs) /\ (h.what = "reply" => h.req \in RelayReqs)
        /\ \A q \in RelayReqs : Msg("relay", q) \in Msgs /\ Msg("reply", q) \in Msgs /\ Msg("relay", q) # Msg("reply", q)
        /\ \A v1, v2, q1, q2 : Msg(v1, q1) = Msg(v2, q2) => v1 = v2 /\ q1 = q2
    BY <2>1, MsgsAre
  <2> HIDE DEF h
  <2>4. h.what = "relay" => served[h.req] = 0 /\ reqAt[h.req] \in {"waits", "done"}
    BY <2>1, <2>3 DEF Unserved
  <2>5. h.what = "reply" => served[h.req] = 1
    BY <2>1, <2>3 DEF Replied
  <2>6. ASSUME h.what = "relay" PROVE Unserved'
    <3>1. \A x \in RelayNodes, i \in Links : ~Holds(up[x][i], h) /\ ~Holds(down'[x][i], h)
      BY <2>1, <2>3, <2>6 DEF Once, Within
    <3>2. \A q \in RelayReqs : q # h.req => served'[q] = served[q]
      BY <2>2, <2>6 DEF StateTypes, ReqTypes
    <3>3. ASSUME NEW q \in RelayReqs, NEW x \in RelayNodes, NEW i \in Links, Holds(up'[x][i], Msg("relay", q)) \/ Holds(down'[x][i], Msg("relay", q))
          PROVE  served'[q] = 0 /\ reqAt'[q] \in {"waits", "done"}
      <4>1. Holds(up[x][i], Msg("relay", q)) \/ Holds(down[x][i], Msg("relay", q))
        BY <2>1, <2>3, <3>3 DEF Within
      <4>2. q # h.req
        BY <2>1, <2>3, <2>6, <3>1, <3>3
      <4> QED BY <2>2, <3>2, <4>1, <4>2
    <3> QED BY <3>3
  <2>7. ASSUME h.what # "relay" PROVE Unserved'
    BY <2>1, <2>2, <2>3, <2>7 DEF Within
  <2> QED BY <2>6, <2>7
<1>10. ASSUME NEW n \in RelayNodes, NEW k \in Links, dispatch(n, k) PROVE Unserved'
  <2>1. UNCHANGED <<served, reqAt>>
    BY <1>10 DEF dispatch
  <2>2. \A q \in RelayReqs, x \in RelayNodes, i \in Links :
          Holds(up'[x][i], Msg("relay", q)) => Holds(up[x][i], Msg("relay", q))
    BY <1>10, DispatchWires, MsgsAre DEF Within
  <2>3. \A q \in RelayReqs, x \in RelayNodes, i \in Links :
          Holds(down'[x][i], Msg("relay", q)) => Holds(down[x][i], Msg("relay", q)) \/ Holds(up[n][k], Msg("relay", q))
    <3>1. CASE down' = down
      BY <3>1
    <3>2. CASE down' # down
      <4> DEFINE h == Head(up[n][k])
      <4>1. PICK a \in RelayNodes, b \in Links, m \in Msgs :
                 /\ m = h \/ m = Msg("err", h.req)
                 /\ \A y \in RelayNodes, j \in Links, v \in Msgs :
                      /\ Holds(down'[y][j], v) => Holds(down[y][j], v) \/ (y = a /\ j = b /\ v = m)
                      /\ Twice(down'[y][j], v) => Twice(down[y][j], v) \/ (y = a /\ j = b /\ v = m /\ Holds(down[a][b], m))
        BY <1>10, <3>2, DispatchDown
      <4>2. Holds(up[n][k], h)
        BY <1>10, DispatchWires
      <4> HIDE DEF h
      <4>3. \A q \in RelayReqs : Msg("relay", q) \in Msgs /\ Msg("relay", q) # Msg("err", h.req)
        BY MsgsAre
      <4> QED BY <4>1, <4>2, <4>3
    <3> QED BY <3>1, <3>2
  <2> QED BY <2>1, <2>2, <2>3
<1>11. ASSUME NEW n \in RelayNodes, NEW k \in Links, HubCloses(n, k) PROVE Unserved'
  <2>1. \A q \in RelayReqs : Within(up, up', Msg("relay", q)) /\ Within(down, down', Msg("relay", q))
    BY <1>11, HubClosesWires, MsgsAre DEF Within
  <2>2. UNCHANGED <<served, reqAt>>
    BY <1>11 DEF HubCloses
  <2> QED BY <2>1, <2>2 DEF Within
<1>12. ASSUME NEW n \in RelayNodes, NEW k \in Links, HubKicks(n, k) PROVE Unserved'
  BY <1>12 DEF HubKicks, StateTypes, LifeTypes, ReqTypes, LinkTypes, HubTypes, Early
<1>13. ASSUME NEW n \in RelayNodes, NEW k \in Links, LinkBreaks(n, k) PROVE Unserved'
  BY <1>13 DEF LinkBreaks, StateTypes, LifeTypes, ReqTypes, LinkTypes, HubTypes, Early
<1>14. ASSUME NEW n \in RelayNodes, NEW c \in 0..client[n], OnOpen(n, c) PROVE Unserved'
  <2>0. PICK k \in Links \ Made(n) :
          /\ <<n, c>> \in dialing /\ dialing' = dialing \ {<<n, c>>} /\ stopped' = stopped \ {<<n, c>>}
          /\ own' = [own EXCEPT ![n][k] = c] /\ link' = [link EXCEPT ![n][k] = "open"]
          /\ loopAt' = [loopAt EXCEPT ![n][k] = "register"] /\ alive' = alive \cup {<<n, k>>}
          /\ UNCHANGED <<lifeVars, registered, reqVars, servVars, wireVars, relayHubVars, breaks, misled>>
          /\ \A j \in Links \ Made(n) : k <= j
    BY <1>14 DEF OnOpen
  <2>1. /\ k \in Links /\ link[n][k] = "none" /\ \A j \in Links : j < k => link[n][j] # "none"
        /\ \A j \in Links : link[n][j] # "none" => j < k
    BY <2>0, NewLink
  <2>2. /\ <<n, c>> \in dialing /\ dialing' = dialing \ {<<n, c>>} /\ stopped' = stopped \ {<<n, c>>}
        /\ own' = [own EXCEPT ![n][k] = c] /\ link' = [link EXCEPT ![n][k] = "open"]
        /\ loopAt' = [loopAt EXCEPT ![n][k] = "register"] /\ alive' = alive \cup {<<n, k>>}
        /\ UNCHANGED <<lifeVars, registered, reqVars, servVars, wireVars, relayHubVars, breaks, misled>>
    BY <2>0
  <2> QED BY <2>1, <2>2 DEF StateTypes, LifeTypes, ReqTypes, LinkTypes, HubTypes, Early
<1>15. ASSUME NEW n \in RelayNodes, NEW c \in 0..client[n], DialEnds(n, c) PROVE Unserved'
  BY <1>15 DEF DialEnds, StateTypes, LifeTypes, ReqTypes, LinkTypes, HubTypes, Early
<1>16. ASSUME NEW r \in RelayReqs, RequestChecks(r) PROVE Unserved'
  <2>1. UNCHANGED <<served, up, down>> /\ \A q \in RelayReqs : reqAt'[q] = reqAt[q] \/ (q = r /\ reqAt[q] = "idle")
    BY <1>16 DEF RequestChecks, StateTypes, LifeTypes, ReqTypes, LinkTypes, HubTypes
  <2> QED BY <2>1
<1>17. ASSUME NEW r \in RelayReqs, RequestStores(r) PROVE Unserved'
  BY <1>17 DEF RequestStores, StateTypes, LifeTypes, ReqTypes, LinkTypes, HubTypes, Early
<1>18. ASSUME NEW r \in RelayReqs, RequestSends(r) PROVE Unserved'
  <2>1. \A q \in RelayReqs : Msg("relay", q) \in Msgs /\ (q # r => Msg("relay", q) # Msg("relay", r))
    BY MsgsAre
  <2>2. \A q \in RelayReqs : q # r => Within(up, up', Msg("relay", q))
    BY <1>18, <2>1, RequestWires
  <2>3. /\ UNCHANGED <<served, down>> /\ served[r] = 0 /\ reqAt'[r] \in {"waits", "done"}
        /\ \A q \in RelayReqs : q # r => reqAt'[q] = reqAt[q]
    BY <1>18 DEF RequestSends, Early, StateTypes, LifeTypes, ReqTypes, LinkTypes, HubTypes
  <2> QED BY <2>2, <2>3 DEF Within
<1>19. ASSUME NEW r \in RelayReqs, RequestReturns(r) PROVE Unserved'
  BY <1>19 DEF RequestReturns, StateTypes, LifeTypes, ReqTypes, LinkTypes, HubTypes, Early
<1>20. ASSUME NEW r \in RelayReqs, handleInboundRelay(r) PROVE Unserved'
  <2>1. \A q \in RelayReqs : Msg("relay", q) \in Msgs /\ Msg("relay", q) # Msg("reply", r)
    BY MsgsAre
  <2>2. \A q \in RelayReqs : Within(up, up', Msg("relay", q)) /\ Within(down, down', Msg("relay", q))
    BY <1>20, <2>1, RepliesWires DEF Within
  <2>3. UNCHANGED <<served, reqAt>>
    BY <1>20 DEF handleInboundRelay
  <2> QED BY <2>2, <2>3 DEF Within
<1> QED
  BY <1>1, <1>2, <1>3, <1>4, <1>5, <1>6, <1>7, <1>8, <1>9, <1>10, <1>11, <1>12, <1>13, <1>14, <1>15, <1>16, <1>17, <1>18, <1>19, <1>20
  DEF RelayNext, OfLink, OfDial, Requester

\* A request that was not sent was not served.
LEMMA EarlyKept ==
  ASSUME StateTypes', WireTypes', StateTypes, WireTypes, Ordered, OwnDials, Fresh, Ended, Dead, Replaced, Known, Marked, Once, Unserved, Early, Replied, Served, Untagged, RelayNext
  PROVE  Early'
<1> USE RelaySizes DEF lifeVars, reqVars, servVars, dialVars, linkVars, wireVars, relayHubVars, Early
<1>1. ASSUME NEW n \in RelayNodes, TransportStart(n) PROVE Early'
  BY <1>1 DEF TransportStart, StateTypes, LifeTypes, ReqTypes, LinkTypes, HubTypes, Unserved
<1>2. ASSUME NEW n \in RelayNodes, StartFails(n) PROVE Early'
  BY <1>2 DEF StartFails, StateTypes, LifeTypes, ReqTypes, LinkTypes, HubTypes, Unserved
<1>3. ASSUME NEW n \in RelayNodes, StartReturns(n) PROVE Early'
  BY <1>3 DEF StartReturns, StateTypes, LifeTypes, ReqTypes, LinkTypes, HubTypes, Unserved
<1>4. ASSUME NEW n \in RelayNodes, Close(n) PROVE Early'
  BY <1>4 DEF Close, StateTypes, LifeTypes, ReqTypes, LinkTypes, HubTypes, Unserved
<1>5. ASSUME NEW n \in RelayNodes, NEW k \in Links, OnConnect(n, k) PROVE Early'
  BY <1>5 DEF OnConnect, StateTypes, LifeTypes, ReqTypes, LinkTypes, HubTypes, Unserved
<1>6. ASSUME NEW n \in RelayNodes, NEW k \in Links, OnConnectStores(n, k) PROVE Early'
  BY <1>6 DEF OnConnectStores, StateTypes, LifeTypes, ReqTypes, LinkTypes, HubTypes, Unserved
<1>7. ASSUME NEW n \in RelayNodes, NEW k \in Links, LinkLost(n, k) PROVE Early'
  BY <1>7 DEF LinkLost, StateTypes, LifeTypes, ReqTypes, LinkTypes, HubTypes, Unserved
<1>8. ASSUME NEW n \in RelayNodes, NEW k \in Links, OnClose(n, k) PROVE Early'
  BY <1>8 DEF OnClose, StateTypes, LifeTypes, ReqTypes, LinkTypes, HubTypes, Unserved
<1>9. ASSUME NEW n \in RelayNodes, NEW k \in Links, NodeReads(n, k) PROVE Early'
  <2> DEFINE h == Head(down[n][k])
  <2>1. /\ h \in Msgs /\ Holds(down[n][k], h) /\ (Holds(down'[n][k], h) => Twice(down[n][k], h))
        /\ up' = up /\ \A w \in Msgs : Within(down, down', w)
    BY <1>9, NodeReadsWires
  <2>2. /\ UNCHANGED <<reqAt, result>>
        /\ \/ h.what = "relay" /\ served' = [served EXCEPT ![h.req] = @ + 1] /\ serving' = serving \cup {h.req} /\ UNCHANGED chan
           \/ h.what # "relay" /\ UNCHANGED <<served, serving>> /\ chan' = [q \in RelayReqs |-> IF q \in {h.req} \cap pending THEN h.what ELSE chan[q]]
    BY <1>9 DEF NodeReads, Answered
  <2>3. /\ h = Msg(h.what, h.req) /\ (h.what = "relay" => h.req \in RelayReqs) /\ (h.what = "reply" => h.req \in RelayReqs)
        /\ \A q \in RelayReqs : Msg("relay", q) \in Msgs /\ Msg("reply", q) \in Msgs /\ Msg("relay", q) # Msg("reply", q)
        /\ \A v1, v2, q1, q2 : Msg(v1, q1) = Msg(v2, q2) => v1 = v2 /\ q1 = q2
    BY <2>1, MsgsAre
  <2> HIDE DEF h
  <2>4. h.what = "relay" => served[h.req] = 0 /\ reqAt[h.req] \in {"waits", "done"}
    BY <2>1, <2>3 DEF Unserved
  <2>5. h.what = "reply" => served[h.req] = 1
    BY <2>1, <2>3 DEF Replied
  <2> QED BY <2>2, <2>4 DEF StateTypes, ReqTypes
<1>10. ASSUME NEW n \in RelayNodes, NEW k \in Links, dispatch(n, k) PROVE Early'
  BY <1>10 DEF dispatch, bind, StateTypes, LifeTypes, ReqTypes, LinkTypes, HubTypes, Unserved
<1>11. ASSUME NEW n \in RelayNodes, NEW k \in Links, HubCloses(n, k) PROVE Early'
  BY <1>11 DEF HubCloses, unregister, StateTypes, LifeTypes, ReqTypes, LinkTypes, HubTypes, Unserved
<1>12. ASSUME NEW n \in RelayNodes, NEW k \in Links, HubKicks(n, k) PROVE Early'
  BY <1>12 DEF HubKicks, StateTypes, LifeTypes, ReqTypes, LinkTypes, HubTypes, Unserved
<1>13. ASSUME NEW n \in RelayNodes, NEW k \in Links, LinkBreaks(n, k) PROVE Early'
  BY <1>13 DEF LinkBreaks, StateTypes, LifeTypes, ReqTypes, LinkTypes, HubTypes, Unserved
<1>14. ASSUME NEW n \in RelayNodes, NEW c \in 0..client[n], OnOpen(n, c) PROVE Early'
  <2>0. PICK k \in Links \ Made(n) :
          /\ <<n, c>> \in dialing /\ dialing' = dialing \ {<<n, c>>} /\ stopped' = stopped \ {<<n, c>>}
          /\ own' = [own EXCEPT ![n][k] = c] /\ link' = [link EXCEPT ![n][k] = "open"]
          /\ loopAt' = [loopAt EXCEPT ![n][k] = "register"] /\ alive' = alive \cup {<<n, k>>}
          /\ UNCHANGED <<lifeVars, registered, reqVars, servVars, wireVars, relayHubVars, breaks, misled>>
          /\ \A j \in Links \ Made(n) : k <= j
    BY <1>14 DEF OnOpen
  <2>1. /\ k \in Links /\ link[n][k] = "none" /\ \A j \in Links : j < k => link[n][j] # "none"
        /\ \A j \in Links : link[n][j] # "none" => j < k
    BY <2>0, NewLink
  <2>2. /\ <<n, c>> \in dialing /\ dialing' = dialing \ {<<n, c>>} /\ stopped' = stopped \ {<<n, c>>}
        /\ own' = [own EXCEPT ![n][k] = c] /\ link' = [link EXCEPT ![n][k] = "open"]
        /\ loopAt' = [loopAt EXCEPT ![n][k] = "register"] /\ alive' = alive \cup {<<n, k>>}
        /\ UNCHANGED <<lifeVars, registered, reqVars, servVars, wireVars, relayHubVars, breaks, misled>>
    BY <2>0
  <2> QED BY <2>1, <2>2 DEF StateTypes, LifeTypes, ReqTypes, LinkTypes, HubTypes, Unserved
<1>15. ASSUME NEW n \in RelayNodes, NEW c \in 0..client[n], DialEnds(n, c) PROVE Early'
  BY <1>15 DEF DialEnds, StateTypes, LifeTypes, ReqTypes, LinkTypes, HubTypes, Unserved
<1>16. ASSUME NEW r \in RelayReqs, RequestChecks(r) PROVE Early'
  BY <1>16 DEF RequestChecks, StateTypes, LifeTypes, ReqTypes, LinkTypes, HubTypes, Unserved
<1>17. ASSUME NEW r \in RelayReqs, RequestStores(r) PROVE Early'
  BY <1>17 DEF RequestStores, StateTypes, LifeTypes, ReqTypes, LinkTypes, HubTypes, Unserved
<1>18. ASSUME NEW r \in RelayReqs, RequestSends(r) PROVE Early'
  BY <1>18 DEF RequestSends, StateTypes, LifeTypes, ReqTypes, LinkTypes, HubTypes, Unserved
<1>19. ASSUME NEW r \in RelayReqs, RequestReturns(r) PROVE Early'
  BY <1>19 DEF RequestReturns, StateTypes, LifeTypes, ReqTypes, LinkTypes, HubTypes, Unserved
<1>20. ASSUME NEW r \in RelayReqs, handleInboundRelay(r) PROVE Early'
  BY <1>20 DEF handleInboundRelay, StateTypes, LifeTypes, ReqTypes, LinkTypes, HubTypes, Unserved
<1> QED
  BY <1>1, <1>2, <1>3, <1>4, <1>5, <1>6, <1>7, <1>8, <1>9, <1>10, <1>11, <1>12, <1>13, <1>14, <1>15, <1>16, <1>17, <1>18, <1>19, <1>20
  DEF RelayNext, OfLink, OfDial, Requester

\* An answer on a wire is of a request that was served.
LEMMA RepliedKept ==
  ASSUME StateTypes', WireTypes', StateTypes, WireTypes, Ordered, OwnDials, Fresh, Ended, Dead, Replaced, Known, Marked, Once, Unserved, Early, Replied, Served, Untagged, RelayNext
  PROVE  Replied'
<1> USE RelaySizes DEF lifeVars, reqVars, servVars, dialVars, linkVars, wireVars, relayHubVars, Replied
<1>1. ASSUME NEW n \in RelayNodes, TransportStart(n) PROVE Replied'
  BY <1>1 DEF TransportStart, StateTypes, LifeTypes, ReqTypes, LinkTypes, HubTypes, Served
<1>2. ASSUME NEW n \in RelayNodes, StartFails(n) PROVE Replied'
  BY <1>2 DEF StartFails, StateTypes, LifeTypes, ReqTypes, LinkTypes, HubTypes, Served
<1>3. ASSUME NEW n \in RelayNodes, StartReturns(n) PROVE Replied'
  BY <1>3 DEF StartReturns, StateTypes, LifeTypes, ReqTypes, LinkTypes, HubTypes, Served
<1>4. ASSUME NEW n \in RelayNodes, Close(n) PROVE Replied'
  BY <1>4 DEF Close, StateTypes, LifeTypes, ReqTypes, LinkTypes, HubTypes, Served
<1>5. ASSUME NEW n \in RelayNodes, NEW k \in Links, OnConnect(n, k) PROVE Replied'
  <2>1. \A q \in RelayReqs : Within(up, up', Msg("reply", q)) /\ Within(down, down', Msg("reply", q))
    BY <1>5, OnConnectWires, MsgsAre DEF Within
  <2>2. UNCHANGED served
    BY <1>5 DEF OnConnect
  <2> QED BY <2>1, <2>2 DEF Within
<1>6. ASSUME NEW n \in RelayNodes, NEW k \in Links, OnConnectStores(n, k) PROVE Replied'
  BY <1>6 DEF OnConnectStores, StateTypes, LifeTypes, ReqTypes, LinkTypes, HubTypes, Served
<1>7. ASSUME NEW n \in RelayNodes, NEW k \in Links, LinkLost(n, k) PROVE Replied'
  BY <1>7 DEF LinkLost, StateTypes, LifeTypes, ReqTypes, LinkTypes, HubTypes, Served
<1>8. ASSUME NEW n \in RelayNodes, NEW k \in Links, OnClose(n, k) PROVE Replied'
  <2>1. \A q \in RelayReqs : Within(up, up', Msg("reply", q)) /\ Within(down, down', Msg("reply", q))
    BY <1>8, OnCloseWires, MsgsAre DEF Within
  <2>2. UNCHANGED served
    BY <1>8 DEF OnClose
  <2> QED BY <2>1, <2>2 DEF Within
<1>9. ASSUME NEW n \in RelayNodes, NEW k \in Links, NodeReads(n, k) PROVE Replied'
  <2> DEFINE h == Head(down[n][k])
  <2>1. /\ h \in Msgs /\ Holds(down[n][k], h) /\ (Holds(down'[n][k], h) => Twice(down[n][k], h))
        /\ up' = up /\ \A w \in Msgs : Within(down, down', w)
    BY <1>9, NodeReadsWires
  <2>2. /\ UNCHANGED <<reqAt, result>>
        /\ \/ h.what = "relay" /\ served' = [served EXCEPT ![h.req] = @ + 1] /\ serving' = serving \cup {h.req} /\ UNCHANGED chan
           \/ h.what # "relay" /\ UNCHANGED <<served, serving>> /\ chan' = [q \in RelayReqs |-> IF q \in {h.req} \cap pending THEN h.what ELSE chan[q]]
    BY <1>9 DEF NodeReads, Answered
  <2>3. /\ h = Msg(h.what, h.req) /\ (h.what = "relay" => h.req \in RelayReqs) /\ (h.what = "reply" => h.req \in RelayReqs)
        /\ \A q \in RelayReqs : Msg("relay", q) \in Msgs /\ Msg("reply", q) \in Msgs /\ Msg("relay", q) # Msg("reply", q)
        /\ \A v1, v2, q1, q2 : Msg(v1, q1) = Msg(v2, q2) => v1 = v2 /\ q1 = q2
    BY <2>1, MsgsAre
  <2> HIDE DEF h
  <2>4. h.what = "relay" => served[h.req] = 0 /\ reqAt[h.req] \in {"waits", "done"}
    BY <2>1, <2>3 DEF Unserved
  <2>5. h.what = "reply" => served[h.req] = 1
    BY <2>1, <2>3 DEF Replied
  <2>6. \A q \in RelayReqs : served[q] = 1 => served'[q] = 1
    BY <2>2, <2>3, <2>4 DEF StateTypes, ReqTypes
  <2> QED BY <2>1, <2>3, <2>6 DEF Within
<1>10. ASSUME NEW n \in RelayNodes, NEW k \in Links, dispatch(n, k) PROVE Replied'
  <2>1. UNCHANGED <<served, reqAt>>
    BY <1>10 DEF dispatch
  <2>2. \A q \in RelayReqs, x \in RelayNodes, i \in Links :
          Holds(up'[x][i], Msg("reply", q)) => Holds(up[x][i], Msg("reply", q))
    BY <1>10, DispatchWires, MsgsAre DEF Within
  <2>3. \A q \in RelayReqs, x \in RelayNodes, i \in Links :
          Holds(down'[x][i], Msg("reply", q)) => Holds(down[x][i], Msg("reply", q)) \/ Holds(up[n][k], Msg("reply", q))
    <3>1. CASE down' = down
      BY <3>1
    <3>2. CASE down' # down
      <4> DEFINE h == Head(up[n][k])
      <4>1. PICK a \in RelayNodes, b \in Links, m \in Msgs :
                 /\ m = h \/ m = Msg("err", h.req)
                 /\ \A y \in RelayNodes, j \in Links, v \in Msgs :
                      /\ Holds(down'[y][j], v) => Holds(down[y][j], v) \/ (y = a /\ j = b /\ v = m)
                      /\ Twice(down'[y][j], v) => Twice(down[y][j], v) \/ (y = a /\ j = b /\ v = m /\ Holds(down[a][b], m))
        BY <1>10, <3>2, DispatchDown
      <4>2. Holds(up[n][k], h)
        BY <1>10, DispatchWires
      <4> HIDE DEF h
      <4>3. \A q \in RelayReqs : Msg("reply", q) \in Msgs /\ Msg("reply", q) # Msg("err", h.req)
        BY MsgsAre
      <4> QED BY <4>1, <4>2, <4>3
    <3> QED BY <3>1, <3>2
  <2> QED BY <2>1, <2>2, <2>3
<1>11. ASSUME NEW n \in RelayNodes, NEW k \in Links, HubCloses(n, k) PROVE Replied'
  <2>1. \A q \in RelayReqs : Within(up, up', Msg("reply", q)) /\ Within(down, down', Msg("reply", q))
    BY <1>11, HubClosesWires, MsgsAre DEF Within
  <2>2. UNCHANGED served
    BY <1>11 DEF HubCloses
  <2> QED BY <2>1, <2>2 DEF Within
<1>12. ASSUME NEW n \in RelayNodes, NEW k \in Links, HubKicks(n, k) PROVE Replied'
  BY <1>12 DEF HubKicks, StateTypes, LifeTypes, ReqTypes, LinkTypes, HubTypes, Served
<1>13. ASSUME NEW n \in RelayNodes, NEW k \in Links, LinkBreaks(n, k) PROVE Replied'
  BY <1>13 DEF LinkBreaks, StateTypes, LifeTypes, ReqTypes, LinkTypes, HubTypes, Served
<1>14. ASSUME NEW n \in RelayNodes, NEW c \in 0..client[n], OnOpen(n, c) PROVE Replied'
  <2>0. PICK k \in Links \ Made(n) :
          /\ <<n, c>> \in dialing /\ dialing' = dialing \ {<<n, c>>} /\ stopped' = stopped \ {<<n, c>>}
          /\ own' = [own EXCEPT ![n][k] = c] /\ link' = [link EXCEPT ![n][k] = "open"]
          /\ loopAt' = [loopAt EXCEPT ![n][k] = "register"] /\ alive' = alive \cup {<<n, k>>}
          /\ UNCHANGED <<lifeVars, registered, reqVars, servVars, wireVars, relayHubVars, breaks, misled>>
          /\ \A j \in Links \ Made(n) : k <= j
    BY <1>14 DEF OnOpen
  <2>1. /\ k \in Links /\ link[n][k] = "none" /\ \A j \in Links : j < k => link[n][j] # "none"
        /\ \A j \in Links : link[n][j] # "none" => j < k
    BY <2>0, NewLink
  <2>2. /\ <<n, c>> \in dialing /\ dialing' = dialing \ {<<n, c>>} /\ stopped' = stopped \ {<<n, c>>}
        /\ own' = [own EXCEPT ![n][k] = c] /\ link' = [link EXCEPT ![n][k] = "open"]
        /\ loopAt' = [loopAt EXCEPT ![n][k] = "register"] /\ alive' = alive \cup {<<n, k>>}
        /\ UNCHANGED <<lifeVars, registered, reqVars, servVars, wireVars, relayHubVars, breaks, misled>>
    BY <2>0
  <2> QED BY <2>1, <2>2 DEF StateTypes, LifeTypes, ReqTypes, LinkTypes, HubTypes, Served
<1>15. ASSUME NEW n \in RelayNodes, NEW c \in 0..client[n], DialEnds(n, c) PROVE Replied'
  BY <1>15 DEF DialEnds, StateTypes, LifeTypes, ReqTypes, LinkTypes, HubTypes, Served
<1>16. ASSUME NEW r \in RelayReqs, RequestChecks(r) PROVE Replied'
  BY <1>16 DEF RequestChecks, StateTypes, LifeTypes, ReqTypes, LinkTypes, HubTypes, Served
<1>17. ASSUME NEW r \in RelayReqs, RequestStores(r) PROVE Replied'
  BY <1>17 DEF RequestStores, StateTypes, LifeTypes, ReqTypes, LinkTypes, HubTypes, Served
<1>18. ASSUME NEW r \in RelayReqs, RequestSends(r) PROVE Replied'
  <2>1. \A q \in RelayReqs : Msg("reply", q) \in Msgs /\ Msg("reply", q) # Msg("relay", r)
    BY MsgsAre
  <2>2. \A q \in RelayReqs : Within(up, up', Msg("reply", q)) /\ Within(down, down', Msg("reply", q))
    BY <1>18, <2>1, RequestWires DEF Within
  <2>3. UNCHANGED served
    BY <1>18 DEF RequestSends
  <2> QED BY <2>2, <2>3 DEF Within
<1>19. ASSUME NEW r \in RelayReqs, RequestReturns(r) PROVE Replied'
  BY <1>19 DEF RequestReturns, StateTypes, LifeTypes, ReqTypes, LinkTypes, HubTypes, Served
<1>20. ASSUME NEW r \in RelayReqs, handleInboundRelay(r) PROVE Replied'
  <2>1. \A q \in RelayReqs : Msg("reply", q) \in Msgs /\ (q # r => Msg("reply", q) # Msg("reply", r))
    BY MsgsAre
  <2>2. \A q \in RelayReqs : q # r => Within(up, up', Msg("reply", q)) /\ Within(down, down', Msg("reply", q))
    BY <1>20, <2>1, RepliesWires DEF Within
  <2>3. UNCHANGED <<served, down>> /\ served[r] = 1
    BY <1>20 DEF handleInboundRelay, Served
  <2> QED BY <2>2, <2>3 DEF Within
<1> QED
  BY <1>1, <1>2, <1>3, <1>4, <1>5, <1>6, <1>7, <1>8, <1>9, <1>10, <1>11, <1>12, <1>13, <1>14, <1>15, <1>16, <1>17, <1>18, <1>19, <1>20
  DEF RelayNext, OfLink, OfDial, Requester

\* A request is served at most once, and has an answer only after that.
LEMMA ServedKept ==
  ASSUME StateTypes', WireTypes', StateTypes, WireTypes, Ordered, OwnDials, Fresh, Ended, Dead, Replaced, Known, Marked, Once, Unserved, Early, Replied, Served, Untagged, RelayNext
  PROVE  Served'
<1> USE RelaySizes DEF lifeVars, reqVars, servVars, dialVars, linkVars, wireVars, relayHubVars, Served
<1>1. ASSUME NEW n \in RelayNodes, TransportStart(n) PROVE Served'
  BY <1>1 DEF TransportStart, StateTypes, LifeTypes, ReqTypes, LinkTypes, HubTypes, Replied, Unserved, Early
<1>2. ASSUME NEW n \in RelayNodes, StartFails(n) PROVE Served'
  BY <1>2 DEF StartFails, StateTypes, LifeTypes, ReqTypes, LinkTypes, HubTypes, Replied, Unserved, Early
<1>3. ASSUME NEW n \in RelayNodes, StartReturns(n) PROVE Served'
  BY <1>3 DEF StartReturns, StateTypes, LifeTypes, ReqTypes, LinkTypes, HubTypes, Replied, Unserved, Early
<1>4. ASSUME NEW n \in RelayNodes, Close(n) PROVE Served'
  <2>1. UNCHANGED <<served, serving, result>> /\ \A q \in RelayReqs : chan'[q] = chan[q] \/ chan'[q] = "err"
    BY <1>4 DEF Close, failAllPending, Answered
  <2> QED BY <2>1
<1>5. ASSUME NEW n \in RelayNodes, NEW k \in Links, OnConnect(n, k) PROVE Served'
  BY <1>5 DEF OnConnect, StateTypes, LifeTypes, ReqTypes, LinkTypes, HubTypes, Replied, Unserved, Early
<1>6. ASSUME NEW n \in RelayNodes, NEW k \in Links, OnConnectStores(n, k) PROVE Served'
  BY <1>6 DEF OnConnectStores, StateTypes, LifeTypes, ReqTypes, LinkTypes, HubTypes, Replied, Unserved, Early
<1>7. ASSUME NEW n \in RelayNodes, NEW k \in Links, LinkLost(n, k) PROVE Served'
  BY <1>7 DEF LinkLost, StateTypes, LifeTypes, ReqTypes, LinkTypes, HubTypes, Replied, Unserved, Early
<1>8. ASSUME NEW n \in RelayNodes, NEW k \in Links, OnClose(n, k) PROVE Served'
  <2>1. UNCHANGED <<served, serving, result>> /\ \A q \in RelayReqs : chan'[q] = chan[q] \/ chan'[q] = "err"
    BY <1>8 DEF OnClose, failAllPending, Answered
  <2> QED BY <2>1
<1>9. ASSUME NEW n \in RelayNodes, NEW k \in Links, NodeReads(n, k) PROVE Served'
  <2> DEFINE h == Head(down[n][k])
  <2>1. /\ h \in Msgs /\ Holds(down[n][k], h) /\ (Holds(down'[n][k], h) => Twice(down[n][k], h))
        /\ up' = up /\ \A w \in Msgs : Within(down, down', w)
    BY <1>9, NodeReadsWires
  <2>2. /\ UNCHANGED <<reqAt, result>>
        /\ \/ h.what = "relay" /\ served' = [served EXCEPT ![h.req] = @ + 1] /\ serving' = serving \cup {h.req} /\ UNCHANGED chan
           \/ h.what # "relay" /\ UNCHANGED <<served, serving>> /\ chan' = [q \in RelayReqs |-> IF q \in {h.req} \cap pending THEN h.what ELSE chan[q]]
    BY <1>9 DEF NodeReads, Answered
  <2>3. /\ h = Msg(h.what, h.req) /\ (h.what = "relay" => h.req \in RelayReqs) /\ (h.what = "reply" => h.req \in RelayReqs)
        /\ \A q \in RelayReqs : Msg("relay", q) \in Msgs /\ Msg("reply", q) \in Msgs /\ Msg("relay", q) # Msg("reply", q)
        /\ \A v1, v2, q1, q2 : Msg(v1, q1) = Msg(v2, q2) => v1 = v2 /\ q1 = q2
    BY <2>1, MsgsAre
  <2> HIDE DEF h
  <2>4. h.what = "relay" => served[h.req] = 0 /\ reqAt[h.req] \in {"waits", "done"}
    BY <2>1, <2>3 DEF Unserved
  <2>5. h.what = "reply" => served[h.req] = 1
    BY <2>1, <2>3 DEF Replied
  <2>6. \A q \in RelayReqs : /\ served[q] = 1 => served'[q] = 1
                             /\ served'[q] \in {0, 1}
                             /\ q \in serving' => served'[q] = 1
    BY <2>2, <2>3, <2>4 DEF StateTypes, ReqTypes, Served
  <2>7. \A q \in RelayReqs : chan'[q] = "reply" => served[q] = 1
    BY <2>2, <2>5 DEF Served
  <2> QED BY <2>2, <2>6, <2>7 DEF Served
<1>10. ASSUME NEW n \in RelayNodes, NEW k \in Links, dispatch(n, k) PROVE Served'
  BY <1>10 DEF dispatch, bind, StateTypes, LifeTypes, ReqTypes, LinkTypes, HubTypes, Replied, Unserved, Early
<1>11. ASSUME NEW n \in RelayNodes, NEW k \in Links, HubCloses(n, k) PROVE Served'
  BY <1>11 DEF HubCloses, unregister, StateTypes, LifeTypes, ReqTypes, LinkTypes, HubTypes, Replied, Unserved, Early
<1>12. ASSUME NEW n \in RelayNodes, NEW k \in Links, HubKicks(n, k) PROVE Served'
  BY <1>12 DEF HubKicks, StateTypes, LifeTypes, ReqTypes, LinkTypes, HubTypes, Replied, Unserved, Early
<1>13. ASSUME NEW n \in RelayNodes, NEW k \in Links, LinkBreaks(n, k) PROVE Served'
  BY <1>13 DEF LinkBreaks, StateTypes, LifeTypes, ReqTypes, LinkTypes, HubTypes, Replied, Unserved, Early
<1>14. ASSUME NEW n \in RelayNodes, NEW c \in 0..client[n], OnOpen(n, c) PROVE Served'
  <2>0. PICK k \in Links \ Made(n) :
          /\ <<n, c>> \in dialing /\ dialing' = dialing \ {<<n, c>>} /\ stopped' = stopped \ {<<n, c>>}
          /\ own' = [own EXCEPT ![n][k] = c] /\ link' = [link EXCEPT ![n][k] = "open"]
          /\ loopAt' = [loopAt EXCEPT ![n][k] = "register"] /\ alive' = alive \cup {<<n, k>>}
          /\ UNCHANGED <<lifeVars, registered, reqVars, servVars, wireVars, relayHubVars, breaks, misled>>
          /\ \A j \in Links \ Made(n) : k <= j
    BY <1>14 DEF OnOpen
  <2>1. /\ k \in Links /\ link[n][k] = "none" /\ \A j \in Links : j < k => link[n][j] # "none"
        /\ \A j \in Links : link[n][j] # "none" => j < k
    BY <2>0, NewLink
  <2>2. /\ <<n, c>> \in dialing /\ dialing' = dialing \ {<<n, c>>} /\ stopped' = stopped \ {<<n, c>>}
        /\ own' = [own EXCEPT ![n][k] = c] /\ link' = [link EXCEPT ![n][k] = "open"]
        /\ loopAt' = [loopAt EXCEPT ![n][k] = "register"] /\ alive' = alive \cup {<<n, k>>}
        /\ UNCHANGED <<lifeVars, registered, reqVars, servVars, wireVars, relayHubVars, breaks, misled>>
    BY <2>0
  <2> QED BY <2>1, <2>2 DEF StateTypes, LifeTypes, ReqTypes, LinkTypes, HubTypes, Replied, Unserved, Early
<1>15. ASSUME NEW n \in RelayNodes, NEW c \in 0..client[n], DialEnds(n, c) PROVE Served'
  BY <1>15 DEF DialEnds, StateTypes, LifeTypes, ReqTypes, LinkTypes, HubTypes, Replied, Unserved, Early
<1>16. ASSUME NEW r \in RelayReqs, RequestChecks(r) PROVE Served'
  BY <1>16 DEF RequestChecks, StateTypes, LifeTypes, ReqTypes, LinkTypes, HubTypes, Replied, Unserved, Early
<1>17. ASSUME NEW r \in RelayReqs, RequestStores(r) PROVE Served'
  BY <1>17 DEF RequestStores, StateTypes, LifeTypes, ReqTypes, LinkTypes, HubTypes, Replied, Unserved, Early
<1>18. ASSUME NEW r \in RelayReqs, RequestSends(r) PROVE Served'
  BY <1>18 DEF RequestSends, StateTypes, LifeTypes, ReqTypes, LinkTypes, HubTypes, Replied, Unserved, Early
<1>19. ASSUME NEW r \in RelayReqs, RequestReturns(r) PROVE Served'
  BY <1>19 DEF RequestReturns, StateTypes, LifeTypes, ReqTypes, LinkTypes, HubTypes, Replied, Unserved, Early
<1>20. ASSUME NEW r \in RelayReqs, handleInboundRelay(r) PROVE Served'
  BY <1>20 DEF handleInboundRelay, StateTypes, LifeTypes, ReqTypes, LinkTypes, HubTypes, Replied, Unserved, Early
<1> QED
  BY <1>1, <1>2, <1>3, <1>4, <1>5, <1>6, <1>7, <1>8, <1>9, <1>10, <1>11, <1>12, <1>13, <1>14, <1>15, <1>16, <1>17, <1>18, <1>19, <1>20
  DEF RelayNext, OfLink, OfDial, Requester

\* A request leaves no tag behind.
LEMMA UntaggedKept ==
  ASSUME StateTypes', WireTypes', StateTypes, WireTypes, Ordered, OwnDials, Fresh, Ended, Dead, Replaced, Known, Marked, Once, Unserved, Early, Replied, Served, Untagged, RelayNext
  PROVE  Untagged'
<1> USE RelaySizes DEF lifeVars, reqVars, servVars, dialVars, linkVars, wireVars, relayHubVars, Untagged
<1>1. ASSUME NEW n \in RelayNodes, TransportStart(n) PROVE Untagged'
  BY <1>1 DEF TransportStart, StateTypes, LifeTypes, ReqTypes, LinkTypes, HubTypes
<1>2. ASSUME NEW n \in RelayNodes, StartFails(n) PROVE Untagged'
  BY <1>2 DEF StartFails, StateTypes, LifeTypes, ReqTypes, LinkTypes, HubTypes
<1>3. ASSUME NEW n \in RelayNodes, StartReturns(n) PROVE Untagged'
  BY <1>3 DEF StartReturns, StateTypes, LifeTypes, ReqTypes, LinkTypes, HubTypes
<1>4. ASSUME NEW n \in RelayNodes, Close(n) PROVE Untagged'
  BY <1>4 DEF Close, failAllPending
<1>5. ASSUME NEW n \in RelayNodes, NEW k \in Links, OnConnect(n, k) PROVE Untagged'
  BY <1>5 DEF OnConnect, StateTypes, LifeTypes, ReqTypes, LinkTypes, HubTypes
<1>6. ASSUME NEW n \in RelayNodes, NEW k \in Links, OnConnectStores(n, k) PROVE Untagged'
  BY <1>6 DEF OnConnectStores, StateTypes, LifeTypes, ReqTypes, LinkTypes, HubTypes
<1>7. ASSUME NEW n \in RelayNodes, NEW k \in Links, LinkLost(n, k) PROVE Untagged'
  BY <1>7 DEF LinkLost, StateTypes, LifeTypes, ReqTypes, LinkTypes, HubTypes
<1>8. ASSUME NEW n \in RelayNodes, NEW k \in Links, OnClose(n, k) PROVE Untagged'
  BY <1>8 DEF OnClose, failAllPending
<1>9. ASSUME NEW n \in RelayNodes, NEW k \in Links, NodeReads(n, k) PROVE Untagged'
  BY <1>9 DEF NodeReads, StateTypes, LifeTypes, ReqTypes, LinkTypes, HubTypes
<1>10. ASSUME NEW n \in RelayNodes, NEW k \in Links, dispatch(n, k) PROVE Untagged'
  BY <1>10 DEF dispatch, bind, StateTypes, LifeTypes, ReqTypes, LinkTypes, HubTypes
<1>11. ASSUME NEW n \in RelayNodes, NEW k \in Links, HubCloses(n, k) PROVE Untagged'
  BY <1>11 DEF HubCloses, unregister, StateTypes, LifeTypes, ReqTypes, LinkTypes, HubTypes
<1>12. ASSUME NEW n \in RelayNodes, NEW k \in Links, HubKicks(n, k) PROVE Untagged'
  BY <1>12 DEF HubKicks, StateTypes, LifeTypes, ReqTypes, LinkTypes, HubTypes
<1>13. ASSUME NEW n \in RelayNodes, NEW k \in Links, LinkBreaks(n, k) PROVE Untagged'
  BY <1>13 DEF LinkBreaks, StateTypes, LifeTypes, ReqTypes, LinkTypes, HubTypes
<1>14. ASSUME NEW n \in RelayNodes, NEW c \in 0..client[n], OnOpen(n, c) PROVE Untagged'
  <2>0. PICK k \in Links \ Made(n) :
          /\ <<n, c>> \in dialing /\ dialing' = dialing \ {<<n, c>>} /\ stopped' = stopped \ {<<n, c>>}
          /\ own' = [own EXCEPT ![n][k] = c] /\ link' = [link EXCEPT ![n][k] = "open"]
          /\ loopAt' = [loopAt EXCEPT ![n][k] = "register"] /\ alive' = alive \cup {<<n, k>>}
          /\ UNCHANGED <<lifeVars, registered, reqVars, servVars, wireVars, relayHubVars, breaks, misled>>
          /\ \A j \in Links \ Made(n) : k <= j
    BY <1>14 DEF OnOpen
  <2>1. /\ k \in Links /\ link[n][k] = "none" /\ \A j \in Links : j < k => link[n][j] # "none"
        /\ \A j \in Links : link[n][j] # "none" => j < k
    BY <2>0, NewLink
  <2>2. /\ <<n, c>> \in dialing /\ dialing' = dialing \ {<<n, c>>} /\ stopped' = stopped \ {<<n, c>>}
        /\ own' = [own EXCEPT ![n][k] = c] /\ link' = [link EXCEPT ![n][k] = "open"]
        /\ loopAt' = [loopAt EXCEPT ![n][k] = "register"] /\ alive' = alive \cup {<<n, k>>}
        /\ UNCHANGED <<lifeVars, registered, reqVars, servVars, wireVars, relayHubVars, breaks, misled>>
    BY <2>0
  <2> QED BY <2>1, <2>2 DEF StateTypes, LifeTypes, ReqTypes, LinkTypes, HubTypes
<1>15. ASSUME NEW n \in RelayNodes, NEW c \in 0..client[n], DialEnds(n, c) PROVE Untagged'
  BY <1>15 DEF DialEnds, StateTypes, LifeTypes, ReqTypes, LinkTypes, HubTypes
<1>16. ASSUME NEW r \in RelayReqs, RequestChecks(r) PROVE Untagged'
  BY <1>16 DEF RequestChecks, StateTypes, LifeTypes, ReqTypes, LinkTypes, HubTypes
<1>17. ASSUME NEW r \in RelayReqs, RequestStores(r) PROVE Untagged'
  BY <1>17 DEF RequestStores, StateTypes, LifeTypes, ReqTypes, LinkTypes, HubTypes
<1>18. ASSUME NEW r \in RelayReqs, RequestSends(r) PROVE Untagged'
  BY <1>18 DEF RequestSends, StateTypes, LifeTypes, ReqTypes, LinkTypes, HubTypes
<1>19. ASSUME NEW r \in RelayReqs, RequestReturns(r) PROVE Untagged'
  BY <1>19 DEF RequestReturns, StateTypes, LifeTypes, ReqTypes, LinkTypes, HubTypes
<1>20. ASSUME NEW r \in RelayReqs, handleInboundRelay(r) PROVE Untagged'
  BY <1>20 DEF handleInboundRelay, StateTypes, LifeTypes, ReqTypes, LinkTypes, HubTypes
<1> QED
  BY <1>1, <1>2, <1>3, <1>4, <1>5, <1>6, <1>7, <1>8, <1>9, <1>10, <1>11, <1>12, <1>13, <1>14, <1>15, <1>16, <1>17, <1>18, <1>19, <1>20
  DEF RelayNext, OfLink, OfDial, Requester

\* The initial states.
LEMMA RelayStarts == RelayInit => RInv
<1> SUFFICES ASSUME NEW on \in {{}, RelayNodes},
    life = [n \in RelayNodes |-> IF n \in on THEN "running" ELSE "none"],
    startedNodes = on, registered = on, regCh = {},
    client = [n \in RelayNodes |-> IF n \in on THEN MaxStarts[n] ELSE 0],
    pending = {}, chan = [r \in RelayReqs |-> "none"], result = chan,
    reqAt = [r \in RelayReqs |-> IF {Src[r], Dst[r]} \subseteq on THEN "idle" ELSE "done"],
    serving = {}, served = [r \in RelayReqs |-> 0],
    dialing = {}, stopped = {},
    own = [n \in RelayNodes |-> [k \in Links |-> IF n \in on /\ k = 1 THEN MaxStarts[n] ELSE 0]],
    link = [n \in RelayNodes |-> [k \in Links |-> IF n \in on /\ k = 1 THEN "open" ELSE "none"]],
    loopAt = [n \in RelayNodes |-> [k \in Links |-> "idle"]],
    alive = on \X {1}, named = on \X {1}, gone = {}, kicked = {},
    up = [n \in RelayNodes |-> [k \in Links |-> <<>>]], down = up,
    nodes = [n \in RelayNodes |-> IF n \in on THEN 1 ELSE NoLink],
    breaks = 0, misled = {}
    PROVE RInv
  BY DEF RelayInit
<1> USE RelaySizes
<1>0. 1 \in Links /\ NoLink \notin Links /\ on \subseteq RelayNodes
  BY DEF Links, NoLink
<1>1. StateTypes
  <2>1. LifeTypes
    BY <1>0 DEF LifeTypes
  <2>2. ReqTypes
    BY DEF ReqTypes
  <2>3. LinkTypes
    BY <1>0 DEF LinkTypes
  <2>4. HubTypes
    BY <1>0 DEF HubTypes
  <2> QED BY <2>1, <2>2, <2>3, <2>4 DEF StateTypes
<1>2. WireTypes
  BY EmptyHolds DEF WireTypes, Wires
<1>3. Ordered
  <2>1. \A x \in RelayNodes, i \in Links : link[x][i] # "none" => i = 1
    OBVIOUS
  <2>2. \A i \in Links : i >= 1 /\ i \in Nat
    BY DEF Links
  <2> QED BY <2>1, <2>2 DEF Ordered
<1>4. OwnDials
  <2>1. \A x \in RelayNodes, i \in Links : link[x][i] # "none" => i = 1 /\ own[x][i] = client[x] /\ client[x] \in Nat
    BY <1>0
  <2>2. \A x \in RelayNodes, i, j \in Links : link[x][i] # "none" /\ link[x][j] # "none" => i = j
    BY <2>1
  <2> QED BY <2>1, <2>2 DEF OwnDials
<1>5. Fresh /\ Ended /\ Dead /\ Replaced
  BY <1>0 DEF Fresh, Ended, Dead, Replaced
<1>6. Known
  <2>1. \A x \in RelayNodes, i \in Links : link[x][i] = "open" => nodes[x] = i
    BY <1>0
  <2> QED BY <2>1 DEF Known, Current
<1>7. Marked
  BY <1>0 DEF Marked, Current
<1>8. Once /\ Unserved /\ Replied
  <2>1. \A x \in RelayNodes, i \in Links : up[x][i] = <<>> /\ down[x][i] = <<>>
    OBVIOUS
  <2> QED BY <2>1, EmptyHolds DEF Once, Unserved, Replied
<1>9. Early /\ Served /\ Untagged
  BY DEF Early, Served, Untagged
<1> QED BY <1>1, <1>2, <1>3, <1>4, <1>5, <1>6, <1>7, <1>8, <1>9 DEF RInv

\* Every step of the relay keeps its invariant.
LEMMA RelayKept == ASSUME RInv, [RelayNext]_relayVars PROVE RInv'
<1> USE DEF RInv
<1>1. CASE RelayNext
  <2>1. StateTypes' /\ WireTypes'
    BY <1>1, StateTypesKept, WireTypesKept
  <2>2. Ordered' /\ OwnDials' /\ Fresh' /\ Ended' /\ Dead'
    BY <1>1, <2>1, OrderedKept, OwnDialsKept, FreshKept, EndedKept, DeadKept
  <2>3. Replaced' /\ Known' /\ Marked' /\ Once'
    BY <1>1, <2>1, ReplacedKept, KnownKept, MarkedKept, OnceKept
  <2>4. Unserved' /\ Early' /\ Replied' /\ Served' /\ Untagged'
    BY <1>1, <2>1, UnservedKept, EarlyKept, RepliedKept, ServedKept, UntaggedKept
  <2> QED BY <2>1, <2>2, <2>3, <2>4
<1>2. CASE UNCHANGED relayVars
  BY <1>2 DEF relayVars, lifeVars, reqVars, servVars, dialVars, linkVars, wireVars, relayHubVars, StateTypes, LifeTypes, ReqTypes,
    LinkTypes, HubTypes, WireTypes, Ordered, OwnDials, Fresh, Ended, Dead, Replaced, Known, Current, Marked, Once, Unserved, Early,
    Replied, Served, Untagged
<1> QED BY <1>1, <1>2

\* The invariant says what is promised of the relay.
LEMMA RelaySays == RInv => RelayHolds
<1> SUFFICES ASSUME RInv PROVE RelayHolds
  OBVIOUS
<1> USE DEF RInv
<1>1. ASSUME NEW n \in RelayNodes
      PROVE  /\ nodes[n] # NoLink => <<n, nodes[n]>> \in named \ gone
             /\ \A k \in Links : <<n, k>> \in named /\ k # nodes[n] => <<n, k>> \notin alive \ kicked
             /\ Settled(n) => nodes[n] = Cur(n) /\ (n \in registered \/ n \in misled)
  <2>1. nodes[n] # NoLink => <<n, nodes[n]>> \in named \ gone
    BY DEF Dead
  <2>2. \A k \in Links : <<n, k>> \in named /\ k # nodes[n] => <<n, k>> \notin alive \ kicked
    BY DEF Replaced
  <2>3. ASSUME Settled(n) PROVE nodes[n] = Cur(n) /\ (n \in registered \/ n \in misled)
    <3>1. PICK k : /\ k = Cur(n) /\ k # NoLink /\ n \in startedNodes /\ <<n, k>> \in alive \ kicked
                   /\ loopAt[n][k] = "idle" /\ up[n][k] = <<>>
      BY <2>3 DEF Settled
    <3>2. k \in Links /\ Current(n, k)
      BY <3>1, CurIs
    <3>3. ~Holds(up[n][k], Msg("reg", "none"))
      BY <3>1, EmptyHolds
    <3>4. nodes[n] = k
      BY <3>1, <3>2, <3>3 DEF Known
    <3>5. n \in registered \/ n \in misled
      BY <3>1, <3>2 DEF Marked
    <3> QED BY <3>1, <3>4, <3>5
  <2> QED BY <2>1, <2>2, <2>3
<1>2. ASSUME NEW r \in RelayReqs
      PROVE  /\ served[r] <= 1 /\ (result[r] = "reply" => served[r] = 1)
             /\ reqAt[r] = "done" => r \notin pending
  BY DEF Served, Untagged
<1> QED BY <1>1, <1>2 DEF RelayHolds

\* However connections break, are replaced and end late: the hub's session of a node is
\* live and its last one, a request is served at most once, and an answer is one of the
\* node it was meant for (transport.go, hub.go).
THEOREM RelayAlways == RelaySpec => []RelayHolds
<1>1. RelayInit => RInv
  BY RelayStarts
<1>2. RInv /\ [RelayNext]_relayVars => RInv'
  BY RelayKept
<1>3. RInv => RelayHolds
  BY RelaySays
<1> QED BY <1>1, <1>2, <1>3, PTL DEF RelaySpec

-----------------------------------------------------------------------------
\* Side by side, the client and the relay keep both promises, for every value of their
\* constants; in the suite one of them moves and the other rests.
THEOREM OwnersHoldAlways == GnetSpec /\ RelaySpec => []OwnersHold
<1>1. GnetInit /\ RelayInit => GInv /\ RInv
  BY GnetStarts, RelayStarts
<1>2. GInv /\ [GnetNext]_gnetVars => GInv'
  BY GnetKept
<1>3. RInv /\ [RelayNext]_relayVars => RInv'
  BY RelayKept
<1>4. GInv /\ RInv => OwnersHold
  BY GnetSays, RelaySays DEF OwnersHold
<1> QED BY <1>1, <1>2, <1>3, <1>4, PTL DEF GnetSpec, RelaySpec
=============================================================================
