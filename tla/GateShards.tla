------------------------------ MODULE GateShards ------------------------------
(***************************************************************************)
(* The sharded transport between a gate and a logic node: the gate's table   *)
(* (kkapp/transport/gatetrans/transshard) and the logic node's NShards         *)
(* connections (kkapp/transport/gametrans/gametransshard), over kktcp.        *)
(*                                                                         *)
(* The logic node dials one connection per shard, and registers it from a     *)
(* goroutine per connection.  At the gate a connection has a reader, which     *)
(* drains what was accepted even after the connection is lost, and then the   *)
(* goroutine that runs OnClose; the steps of different connections interleave  *)
(* freely.  A gate client forwards messages on the shard its connection id    *)
(* falls on.  Each end learns of the loss of a connection in its own time.     *)
(***************************************************************************)
EXTENDS Naturals, Sequences, FiniteSets

CONSTANTS
    NShards,      \* BackendShardCnt
    Clients,      \* connection ids of the gate's clients
    MaxConns,     \* bound on the connections dialled
    MaxMsgs,      \* bound on the messages forwarded for a client
    MaxStops      \* bound on the times the logic node stops

ASSUME ShardsAssumption == NShards \in Nat \ {0}
ASSUME ClientsAssumption == Clients \subseteq Nat
ASSUME BoundsAssumption == {MaxConns, MaxMsgs, MaxStops} \subseteq Nat

Shards == 0..(NShards - 1)
Conns == 1..MaxConns
NoConn == 0
\* LogicServer objects: one, and one more for every RpcUnregister.
Servers == 1..(MaxStops + 1)
NoServer == 0

VARIABLES
    stopped,      \* the logic node's transportorShard.stopped
    stops,        \* times it stopped
    stop,         \* the shard Stop is at, and whether RpcUnregister was sent
    dials,        \* connections dialled
    current,      \* the last connection dialled for a shard
    shard,        \* the shard a connection was dialled for
    regs,         \* register goroutines about to read stopped, per shard
    ready,        \* register goroutines about to send, per shard
    here,         \* the logic node's end of a connection
    down,         \* messages on their way to the logic node
    got,          \* the last message the logic node processed, per client
    there,        \* the gate's end of a connection, up to the end of OnClose
    up,           \* messages on their way to the gate
    reader,       \* what the gate's reader of a connection does next
    obj,          \* the LogicServer its reader, or its OnClose, works on
    known,        \* shardConnMap
    bound,        \* ShardConns whose nodeId and shardIdx are set
    cleared,      \* ShardConns whose conn is nil
    server,       \* the node's entry in logicServerMap
    made,         \* LogicServers made so far
    slots,        \* LogicServer.conns
    active,       \* LogicServer.activeShardConnCount
    fwd,          \* what a client's forwarder does next
    fobj,         \* the LogicServer it found
    fconn,        \* the ShardConn it read
    sent,         \* messages forwarded so far
    crashed       \* the gate dereferenced a nil connection

nodeVars == <<stopped, stops, stop, dials, current, shard, regs, ready>>
wireVars == <<here, down, got, up>>
tableVars == <<known, bound, cleared, server, made, slots, active>>
workVars == <<there, reader, obj>>
fwdVars == <<fwd, fobj, fconn, sent, crashed>>
vars == <<nodeVars, wireVars, tableVars, workVars, fwdVars>>

Init ==
    /\ stopped = FALSE /\ stops = 0 /\ stop = [at |-> 0, told |-> FALSE]
    /\ dials = 0 /\ current = [s \in Shards |-> NoConn]
    /\ shard = [c \in Conns |-> 0]
    /\ regs = [s \in Shards |-> 0] /\ ready = [s \in Shards |-> 0]
    /\ here = [c \in Conns |-> "none"] /\ there = [c \in Conns |-> "none"]
    /\ down = [c \in Conns |-> <<>>] /\ up = [c \in Conns |-> <<>>]
    /\ got = [f \in Clients |-> 0]
    /\ reader = [c \in Conns |-> "idle"] /\ obj = [c \in Conns |-> NoServer]
    /\ known = {} /\ bound = {} /\ cleared = {}
    /\ server = NoServer /\ made = 0
    /\ slots = [o \in Servers |-> [s \in Shards |-> NoConn]]
    /\ active = [o \in Servers |-> 0]
    /\ fwd = [f \in Clients |-> "idle"]
    /\ fobj = [f \in Clients |-> NoServer] /\ fconn = [f \in Clients |-> NoConn]
    /\ sent = [f \in Clients |-> 0]
    /\ crashed = FALSE

------------------------------------------------------------------------------
(* The logic node. *)

CurrentEnd(s) == IF current[s] = NoConn THEN "closed" ELSE here[current[s]]
Open(s) == CurrentEnd(s) = "open"
\* Stop has closed the client of shard s.
Shut(s) == stopped /\ s < stop.at
\* What is written reaches the gate's reader unless the gate has closed its end.
SendUp(c, msg) == up' = IF there[c] = "open" THEN [up EXCEPT ![c] = Append(@, msg)] ELSE up

\* Mutant: the client reconnects before its old reader has drained.
DialEarly(s) ==
    LET c == dials + 1 IN
    /\ ~Shut(s) /\ dials < MaxConns
    /\ ~Open(s)
    /\ dials' = c /\ current' = [current EXCEPT ![s] = c]
    /\ shard' = [shard EXCEPT ![c] = s]
    /\ here' = [here EXCEPT ![c] = "open"]
    /\ there' = [there EXCEPT ![c] = "open"]
    /\ regs' = [regs EXCEPT ![s] = @ + 1]
    /\ known' = known \cup {c}
    /\ UNCHANGED <<stopped, stops, stop, ready, down, got, up, bound, cleared, server,
                   made, slots, active, reader, obj, fwdVars>>

\* connect and reconnectLoop: a new connection, once the reader of the last one
\* has drained its queue; OnConnect at both ends.
Dial(s) ==
    LET c == dials + 1 IN
    /\ ~Shut(s) /\ dials < MaxConns
    /\ CurrentEnd(s) = "closed"
    /\ dials' = c /\ current' = [current EXCEPT ![s] = c]
    /\ shard' = [shard EXCEPT ![c] = s]
    /\ here' = [here EXCEPT ![c] = "open"]
    /\ there' = [there EXCEPT ![c] = "open"]
    /\ regs' = [regs EXCEPT ![s] = @ + 1]
    /\ known' = known \cup {c}
    /\ UNCHANGED <<stopped, stops, stop, ready, down, got, up, bound, cleared, server,
                   made, slots, active, reader, obj, fwdVars>>

\* A register goroutine reads stopped ...
RegisterChecks(s) ==
    /\ regs[s] > 0 /\ ~stopped
    /\ regs' = [regs EXCEPT ![s] = @ - 1]
    /\ ready' = [ready EXCEPT ![s] = @ + 1]
    /\ UNCHANGED <<stopped, stops, stop, dials, current, shard, wireVars, tableVars, workVars, fwdVars>>

\* ... and sends on the connection the client has by now, trying again without one.
RegisterSends(s) ==
    /\ ready[s] > 0 /\ Open(s)
    /\ ready' = [ready EXCEPT ![s] = @ - 1]
    /\ SendUp(current[s], "register")
    /\ UNCHANGED <<stopped, stops, stop, dials, current, shard, regs, here, down, got, tableVars,
                   workVars, fwdVars>>

RegisterQuits(s) ==
    /\ stopped
    /\ \/ regs[s] > 0 /\ regs' = [regs EXCEPT ![s] = @ - 1] /\ UNCHANGED ready
       \/ ready[s] > 0 /\ ~Open(s) /\ ready' = [ready EXCEPT ![s] = @ - 1] /\ UNCHANGED regs
    /\ UNCHANGED <<stopped, stops, stop, dials, current, shard, wireVars, tableVars, workVars, fwdVars>>

StopBegins ==
    /\ ~stopped /\ stops < MaxStops
    /\ stopped' = TRUE /\ stops' = stops + 1 /\ stop' = [at |-> 0, told |-> FALSE]
    /\ UNCHANGED <<dials, current, shard, regs, ready, wireVars, tableVars, workVars, fwdVars>>

\* RpcUnregister is sent once, on the first connection that takes it.
StopTells ==
    /\ stopped /\ stop.at < NShards /\ ~stop.told /\ Open(stop.at)
    /\ SendUp(current[stop.at], "unregister")
    /\ stop' = [stop EXCEPT !.told = TRUE]
    /\ UNCHANGED <<stopped, stops, dials, current, shard, regs, ready, here, down, got, tableVars,
                   workVars, fwdVars>>

\* What the logic node's reader had not accepted of the messages to it is lost.
Ends(c) ==
    \E n \in 0..Len(down[c]) :
        /\ here' = [here EXCEPT ![c] = "draining"]
        /\ down' = [down EXCEPT ![c] = SubSeq(@, 1, n)]

StopCloses ==
    /\ stopped /\ stop.at < NShards
    /\ stop.told \/ ~Open(stop.at)
    /\ IF Open(stop.at) THEN Ends(current[stop.at]) ELSE UNCHANGED <<here, down>>
    /\ stop' = [stop EXCEPT !.at = @ + 1]
    /\ UNCHANGED <<stopped, stops, dials, current, shard, regs, ready, got, up, tableVars, workVars,
                   fwdVars>>

\* The node runs again, as a new process, when the old one has nothing left to do.
Restart ==
    /\ stopped /\ stop.at = NShards
    /\ \A s \in Shards : regs[s] = 0 /\ ready[s] = 0
    /\ \A c \in Conns : here[c] \in {"none", "closed"}
    /\ stopped' = FALSE /\ stop' = [at |-> 0, told |-> FALSE]
    /\ UNCHANGED <<stops, dials, current, shard, regs, ready, wireVars, tableVars, workVars, fwdVars>>

\* kktcp's OnClose of the logic node's end; the reader first drains its queue.
NodeLoses(c) ==
    /\ here[c] = "open"
    /\ Ends(c)
    /\ UNCHANGED <<nodeVars, got, up, tableVars, workVars, fwdVars>>

NodeReads(c) ==
    /\ here[c] \in {"open", "draining"} /\ down[c] # <<>>
    /\ got' = [got EXCEPT ![Head(down[c])[1]] = Head(down[c])[2]]
    /\ down' = [down EXCEPT ![c] = Tail(@)]
    /\ UNCHANGED <<nodeVars, here, up, tableVars, workVars, fwdVars>>

NodeDrained(c) ==
    /\ here[c] = "draining" /\ down[c] = <<>>
    /\ here' = [here EXCEPT ![c] = "closed"]
    /\ UNCHANGED <<nodeVars, down, got, up, tableVars, workVars, fwdVars>>

------------------------------------------------------------------------------
(* The gate: the reader of a connection (OnRaw). *)

ActiveCount(row) == Cardinality({s \in Shards : row[s] # NoConn /\ row[s] \notin cleared})

\* A slot is written and the connections counted under muConns.
SetSlot(o, s, c) ==
    LET row == [slots[o] EXCEPT ![s] = c] IN
    /\ slots' = [slots EXCEPT ![o] = row]
    /\ active' = [active EXCEPT ![o] = ActiveCount(row)]

Reading(c) == there[c] \in {"open", "lost"}

\* RpcMsgRegister: addLogicServer.
ReadRegister(c) ==
    /\ Reading(c) /\ reader[c] = "idle" /\ up[c] # <<>> /\ Head(up[c]) = "register"
    /\ up' = [up EXCEPT ![c] = Tail(@)]
    /\ reader' = [reader EXCEPT ![c] = "find"]
    /\ IF server = NoServer
         THEN made \in 0..MaxStops /\ made' = made + 1 /\ server' = made + 1
         ELSE UNCHANGED <<made, server>>
    /\ UNCHANGED <<nodeVars, here, down, got, known, bound, cleared, slots, active, there,
                   obj, fwdVars>>

\* The ShardConn, and addShardConn's getLogicServer.
FindServer(c) ==
    LET found == c \in known /\ server # NoServer IN
    /\ reader[c] = "find"
    /\ reader' = [reader EXCEPT ![c] = IF found THEN "attach" ELSE "idle"]
    /\ obj' = [obj EXCEPT ![c] = IF found THEN server ELSE @]
    /\ UNCHANGED <<nodeVars, wireVars, tableVars, there, fwdVars>>

Attach(c) ==
    /\ reader[c] = "attach"
    /\ reader' = [reader EXCEPT ![c] = "idle"]
    /\ bound' = bound \cup {c}
    /\ SetSlot(obj[c], shard[c], c)
    /\ obj' = [obj EXCEPT ![c] = NoServer]
    /\ UNCHANGED <<nodeVars, wireVars, known, cleared, server, made, there, fwdVars>>

\* RpcUnregister: removeLogicServer.
ReadUnregister(c) ==
    /\ Reading(c) /\ reader[c] = "idle" /\ up[c] # <<>> /\ Head(up[c]) = "unregister"
    /\ up' = [up EXCEPT ![c] = Tail(@)]
    /\ server' = NoServer
    /\ UNCHANGED <<nodeVars, here, down, got, known, bound, cleared, made, slots, active,
                   workVars, fwdVars>>

------------------------------------------------------------------------------
(* The gate: the loss of a connection (kktcp's OnClose, then the handler's). *)

\* What the gate's reader had not accepted of the messages to it is lost.
GateLoses(c) ==
    /\ there[c] = "open"
    /\ there' = [there EXCEPT ![c] = "lost"]
    /\ \E n \in 0..Len(up[c]) : up' = [up EXCEPT ![c] = SubSeq(@, 1, n)]
    /\ UNCHANGED <<nodeVars, here, down, got, tableVars, reader, obj, fwdVars>>

\* Mutant: onClose does not wait for the reader.
CloseFindsAtOnce(c) ==
    LET found == c \in bound /\ server # NoServer IN
    /\ there[c] = "lost"
    /\ there' = [there EXCEPT ![c] = IF found THEN "detach" ELSE "forget"]
    /\ obj' = [obj EXCEPT ![c] = IF found THEN server ELSE @]
    /\ UNCHANGED <<nodeVars, wireVars, tableVars, reader, fwdVars>>

\* The handler runs when the reader is done; removeShardConn's getLogicServer.
CloseFinds(c) ==
    LET found == c \in bound /\ server # NoServer IN
    /\ there[c] = "lost" /\ reader[c] = "idle" /\ up[c] = <<>>
    /\ there' = [there EXCEPT ![c] = IF found THEN "detach" ELSE "forget"]
    /\ obj' = [obj EXCEPT ![c] = IF found THEN server ELSE @]
    /\ UNCHANGED <<nodeVars, wireVars, tableVars, reader, fwdVars>>

\* Mutant: removeShardConn without the recount.
CloseDetachesUncounted(c) ==
    /\ there[c] = "detach"
    /\ there' = [there EXCEPT ![c] = "forget"]
    /\ slots' = [slots EXCEPT ![obj[c]][shard[c]] = NoConn]
    /\ obj' = [obj EXCEPT ![c] = NoServer]
    /\ UNCHANGED <<nodeVars, wireVars, known, bound, cleared, server, made, active, reader,
                   fwdVars>>

\* The slot is emptied, whichever connection it holds.
CloseDetaches(c) ==
    /\ there[c] = "detach"
    /\ there' = [there EXCEPT ![c] = "forget"]
    /\ SetSlot(obj[c], shard[c], NoConn)
    /\ obj' = [obj EXCEPT ![c] = NoServer]
    /\ UNCHANGED <<nodeVars, wireVars, known, bound, cleared, server, made, reader, fwdVars>>

\* Nobody looks a connection up any more whose reader is done.
CloseForgets(c) ==
    /\ there[c] = "forget"
    /\ there' = [there EXCEPT ![c] = "done"]
    /\ known' = known \ {c}
    /\ cleared' = cleared \cup {c} /\ bound' = bound \ {c}
    /\ UNCHANGED <<nodeVars, wireVars, server, made, slots, active, reader, obj,
                   fwdVars>>

------------------------------------------------------------------------------
(* The gate: ForwardToLogic of a client's message, sent[f] being its number. *)

ShardOf(f) == f % NShards

\* getShardConn's getLogicServer; without one the message is dropped with an error.
ForwardFinds(f) ==
    /\ fwd[f] = "idle" /\ sent[f] < MaxMsgs
    /\ sent' = [sent EXCEPT ![f] = @ + 1]
    /\ IF server = NoServer
         THEN UNCHANGED <<fwd, fobj>>
         ELSE fwd' = [fwd EXCEPT ![f] = "read"] /\ fobj' = [fobj EXCEPT ![f] = server]
    /\ UNCHANGED <<nodeVars, wireVars, tableVars, workVars, fconn, crashed>>

ForwardReads(f) ==
    LET c == slots[fobj[f]][ShardOf(f)] IN
    /\ fwd[f] = "read"
    /\ fwd' = [fwd EXCEPT ![f] = IF c = NoConn THEN "idle" ELSE "send"]
    /\ fconn' = [fconn EXCEPT ![f] = c]
    /\ fobj' = [fobj EXCEPT ![f] = NoServer]
    /\ UNCHANGED <<nodeVars, wireVars, tableVars, workVars, sent, crashed>>

\* sconn.conn is read without the lock.
ForwardSends(f) ==
    LET c == fconn[f]
        arrives == there[c] = "open" /\ here[c] = "open" IN
    /\ fwd[f] = "send"
    /\ fwd' = [fwd EXCEPT ![f] = "idle"] /\ fconn' = [fconn EXCEPT ![f] = NoConn]
    /\ crashed' = (c \in cleared)
    /\ down' = IF arrives THEN [down EXCEPT ![c] = Append(@, <<f, sent[f]>>)] ELSE down
    /\ UNCHANGED <<nodeVars, here, got, up, tableVars, workVars, fobj, sent>>

------------------------------------------------------------------------------
Registrar(s) == RegisterChecks(s) \/ RegisterSends(s) \/ RegisterQuits(s)
NodeEnd(c) == NodeReads(c) \/ NodeDrained(c)
Reader(c) == ReadRegister(c) \/ FindServer(c) \/ Attach(c) \/ ReadUnregister(c)
Closer(c) == CloseFinds(c) \/ CloseDetaches(c) \/ CloseForgets(c)
Forwarder(f) == ForwardFinds(f) \/ ForwardReads(f) \/ ForwardSends(f)

Next ==
    /\ ~crashed
    /\ \/ \E s \in Shards : Dial(s) \/ Registrar(s)
       \/ StopBegins \/ StopTells \/ StopCloses \/ Restart
       \/ \E c \in Conns : NodeLoses(c) \/ NodeEnd(c) \/ GateLoses(c) \/ Reader(c) \/ Closer(c)
       \/ \E f \in Clients : Forwarder(f)

Spec == Init /\ [][Next]_vars

------------------------------------------------------------------------------
Table ==
    /\ known \subseteq Conns /\ bound \subseteq Conns /\ cleared \subseteq Conns
    /\ server \in {NoServer} \cup Servers
    /\ made \in 0..(MaxStops + 1)
    /\ slots \in [Servers -> [Shards -> Conns \cup {NoConn}]]
    /\ active \in [Servers -> 0..NShards]

\* Every variable keeps its type; in particular nobody works on a LogicServer
\* that was never made (logic_mgr.go:115, 134, 148).
TypeOK ==
    /\ Table
    /\ stopped \in BOOLEAN /\ stops \in 0..MaxStops
    /\ stop \in [at : 0..NShards, told : BOOLEAN]
    /\ dials \in 0..MaxConns /\ current \in [Shards -> Conns \cup {NoConn}]
    /\ shard \in [Conns -> Shards]
    /\ regs \in [Shards -> Nat] /\ ready \in [Shards -> Nat]
    /\ here \in [Conns -> {"none", "open", "draining", "closed"}]
    /\ there \in [Conns -> {"none", "open", "lost", "detach", "forget", "done"}]
    /\ down \in [Conns -> Seq(Clients \X (1..MaxMsgs))]
    /\ up \in [Conns -> Seq({"register", "unregister"})]
    /\ got \in [Clients -> 0..MaxMsgs]
    /\ reader \in [Conns -> {"idle", "find", "attach"}]
    /\ obj \in [Conns -> {NoServer} \cup Servers]
    /\ \A c \in Conns : reader[c] = "attach" \/ there[c] = "detach" => obj[c] # NoServer
    /\ fwd \in [Clients -> {"idle", "read", "send"}]
    /\ fobj \in [Clients -> {NoServer} \cup Servers]
    /\ fconn \in [Clients -> Conns \cup {NoConn}]
    /\ \A f \in Clients : /\ fwd[f] = "read" => fobj[f] # NoServer
                          /\ fwd[f] = "send" => fconn[f] # NoConn
    /\ sent \in [Clients -> 0..MaxMsgs]
    /\ crashed \in BOOLEAN

\* The table never offers a connection whose OnClose got past emptying its slot: a
\* register the reader still had to process cannot put it back (logic_mgr.go:115
\* against server.go:243), and a slot holds a connection of its own shard.
AttachedIsLive ==
    \A s \in Shards : server # NoServer /\ slots[server][s] # NoConn =>
        LET c == slots[server][s] IN
        /\ shard[c] = s /\ c \in known /\ c \in bound /\ c \notin cleared
        /\ there[c] \in {"open", "lost", "detach"}

\* The count by which Range (logic_mgr.go:68) decides whether to offer the logic
\* node is the number of its connections, although clear() takes no lock.
ActiveIsCount ==
    server # NoServer =>
        active[server] = Cardinality({s \in Shards : slots[server][s] # NoConn})

\* The logic node processes the messages of one client in the order the gate got
\* them, over losses, reconnects and restarts (doc.go:8): no later message, of the
\* same or of another connection, is processed before an earlier one.
InOrder == [][\A f \in Clients : got'[f] >= got[f]]_vars

\* While a connection that registered is open at both ends, its shard has a
\* connection, as long as the node does not stop: the gate has its BackendShardCnt
\* connections (doc.go:7).
RegisteredShardConnected ==
    stops = 0 => \A c \in Conns :
        c \in bound /\ here[c] = "open" /\ there[c] = "open"
            => slots[server][shard[c]] # NoConn
=============================================================================
