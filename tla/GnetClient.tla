----------------------------- MODULE GnetClient -----------------------------
(***************************************************************************)
(* The TCP client over gnet (kktcp/client.go and client_handler.go): one    *)
(* goroutine calls Connect, another Close; the event loop of the engine     *)
(* opens and closes connections; every closed connection leaves a goroutine *)
(* that may start a reconnect loop.  They meet in four places: the status,  *)
(* conn and openCh under connMu, stopCh, and the engine itself.             *)
(***************************************************************************)
EXTENDS Naturals

CONSTANTS GConns,     \* 1..n: the connections of a run
          LoopSlots,  \* the reconnect loops that may be there at once
          Reconnects, \* IsNeedReconnect: the values of it
          MaxRetries, \* ReconnectMaxRetries
          Connects, Closes, Fails \* bounds: calls, and failures of the network

VARIABLES need, status, stopCh, closedTo, \* stopCh: its generation; those up to closedTo are closed
          engineStarted, engine, engines,       \* c.started, c.client, engines made
          conn, openCh, conns, of,        \* of: the engine of a connection
          caller, closer, loop,           \* the goroutines
          connectCalls, closeCalls, fails,
          crossed, missedOpening                 \* history: see ConnectBegins and CloseTakes

callVars == <<connectCalls, closeCalls, fails>>
netVars == <<engineStarted, engine, engines, conns, of>>
history == <<crossed, missedOpening>>
gnetVars == <<need, status, stopCh, closedTo, netVars, conn, openCh, caller, closer, loop, callVars, history>>

NoConn == 0
NoEngine == 0
Nobody == 0
Caller == 100 \* the channel that Connect waits on; that of a loop is its slot
Gone(st) == st \in {"Closing", "Closed"}
Connected(st) == st \in {"Connected", "Reconnected"}

GnetInit ==
  /\ need \in Reconnects /\ status = "Init"
  /\ stopCh = 1 /\ closedTo = 0
  /\ engineStarted = FALSE /\ engine = NoEngine /\ engines = 0
  /\ conn = NoConn /\ openCh = Nobody
  /\ conns = [c \in GConns |-> "none"] /\ of = [c \in GConns |-> NoEngine]
  /\ caller = [at |-> "no", got |-> "no", gen |-> 0, cli |-> NoEngine]
  /\ closer = [at |-> "no", conn |-> NoConn, cli |-> NoEngine]
  /\ loop = [l \in LoopSlots |-> [at |-> "no", got |-> "no", gen |-> 0, cli |-> NoEngine, n |-> 0]]
  /\ connectCalls = 0 /\ closeCalls = 0 /\ fails = 0 /\ crossed = FALSE /\ missedOpening = FALSE

(***************************************************************************)
(* Waiting for a connection to open: a channel of capacity one that belongs *)
(* to Connect or to a loop, and is taken from openCh by who sends to it.    *)
(***************************************************************************)
Signals(r) ==
  /\ openCh' = Nobody
  /\ caller' = IF openCh = Caller THEN [caller EXCEPT !.got = r] ELSE caller
  /\ loop' = IF openCh \in LoopSlots THEN [loop EXCEPT ![openCh].got = r] ELSE loop

clearOpenWait(w) == openCh' = IF openCh = w THEN Nobody ELSE openCh

(* A dial makes a connection of a running engine, or fails.                *)
Unused == {c \in GConns : conns[c] = "none"}
Running(e) == e # NoEngine /\ e = engines
DialsOut(e) == \E c \in Unused :
  /\ Running(e) /\ \A d \in Unused : c <= d
  /\ conns' = [conns EXCEPT ![c] = "dialing"] /\ of' = [of EXCEPT ![c] = e]

(***************************************************************************)
(* Connect                                                                 *)
(***************************************************************************)
Leftovers == \/ closer.at # "no"
             \/ \E l \in LoopSlots : loop[l].at # "no"
             \/ \E c \in GConns : conns[c] \notin {"none", "gone"}

ConnectBegins ==
  /\ caller.at = "no" /\ connectCalls < Connects /\ connectCalls' = connectCalls + 1
  /\ IF status \in {"Init", "Closed"}
     THEN /\ status' = "Connecting" /\ crossed' = (crossed \/ Leftovers)
          /\ caller' = [caller EXCEPT !.at = "renew"]
     ELSE UNCHANGED <<status, crossed, caller>>
  /\ UNCHANGED <<need, stopCh, closedTo, netVars, conn, openCh, closer, loop, closeCalls, fails, missedOpening>>

ConnectRenews ==
  /\ caller.at = "renew"
  /\ caller' = [caller EXCEPT !.at = "start"]
  /\ stopCh' = IF closedTo = stopCh THEN stopCh + 1 ELSE stopCh
  /\ UNCHANGED <<need, status, closedTo, netVars, conn, openCh, closer, loop, callVars, history>>

(* An engine, unless one is started; ...                                   *)
EngineStarts ==
  /\ caller.at = "start"
  /\ caller' = [caller EXCEPT !.at = "wait"]
  /\ engineStarted' = TRUE
  /\ IF engineStarted THEN UNCHANGED <<engine, engines>>
     ELSE engines' = engines + 1 /\ engine' = engines'
  /\ UNCHANGED <<need, status, stopCh, closedTo, conns, of, conn, openCh, closer, loop, callVars, history>>

(* ... or the engine does not start.                                       *)
EngineFails ==
  /\ caller.at = "start" /\ ~engineStarted /\ fails < Fails
  /\ fails' = fails + 1
  /\ caller' = [caller EXCEPT !.at = "no"] /\ status' = "Closed"
  /\ UNCHANGED <<need, stopCh, closedTo, netVars, conn, openCh, closer, loop, connectCalls, closeCalls, history>>

ConnectWaits ==
  /\ caller.at = "wait"
  /\ openCh' = Caller
  /\ caller' = [caller EXCEPT !.at = "dial", !.got = "no"]
  /\ UNCHANGED <<need, status, stopCh, closedTo, netVars, conn, closer, loop, callVars, history>>

ConnectReads ==
  /\ caller.at = "dial" /\ caller.cli = NoEngine
  /\ IF engine = NoEngine
     THEN /\ clearOpenWait(Caller) /\ status' = "Closed"
          /\ caller' = [caller EXCEPT !.at = "no"]
     ELSE /\ caller' = [caller EXCEPT !.cli = engine]
          /\ UNCHANGED <<openCh, status>>
  /\ UNCHANGED <<need, stopCh, closedTo, netVars, conn, closer, loop, callVars, history>>

ConnectDials ==
  /\ caller.at = "dial" /\ caller.cli # NoEngine
  /\ \/ /\ DialsOut(caller.cli)
        /\ caller' = [caller EXCEPT !.at = "select", !.cli = NoEngine]
        /\ UNCHANGED <<openCh, status, fails>>
     \/ /\ fails' = IF Running(caller.cli) /\ Unused # {} THEN fails + 1 ELSE fails
        /\ fails' <= Fails
        /\ clearOpenWait(Caller) /\ status' = "Closed"
        /\ caller' = [caller EXCEPT !.at = "no", !.cli = NoEngine]
        /\ UNCHANGED <<conns, of>>
  /\ UNCHANGED <<need, stopCh, closedTo, engineStarted, engine, engines, conn, closer, loop, connectCalls, closeCalls, history>>

(* It blocks on the stopCh of now, ...                                     *)
ConnectBlocks ==
  /\ caller.at = "select"
  /\ caller' = [caller EXCEPT !.at = "blocked", !.gen = stopCh]
  /\ UNCHANGED <<need, status, stopCh, closedTo, netVars, conn, openCh, closer, loop, callVars, history>>

(* ... and returns when it is told, or when the client stops.              *)
ConnectReturns ==
  /\ caller.at = "blocked"
  /\ \/ caller.got # "no" /\ status' = IF caller.got = "err" /\ status = "Connecting" THEN "Closed" ELSE status
     \/ caller.gen <= closedTo /\ status' = status
  /\ caller' = [caller EXCEPT !.at = "no", !.got = "no", !.gen = 0]
  /\ UNCHANGED <<need, stopCh, closedTo, netVars, conn, openCh, closer, loop, callVars, history>>

(***************************************************************************)
(* Close                                                                   *)
(***************************************************************************)
CloseBegins ==
  /\ closer.at = "no" /\ closeCalls < Closes /\ closeCalls' = closeCalls + 1
  /\ status' = "Closing" /\ closer' = [closer EXCEPT !.at = "take"]
  /\ UNCHANGED <<need, stopCh, closedTo, netVars, conn, openCh, caller, loop, connectCalls, fails, history>>

(* Without a connection nothing is stopped: neither the engine nor who is  *)
(* waiting for a connection that is on its way.  A handler may be about to *)
(* publish one.                                                            *)
CloseTakes ==
  /\ closer.at = "take"
  /\ conn' = NoConn /\ Signals("err")
  /\ closer' = [closer EXCEPT !.at = IF conn = NoConn THEN "closed" ELSE "stop", !.conn = conn]
  /\ missedOpening' = (missedOpening \/ (conn = NoConn /\ \E c \in GConns : conns[c] = "publishes"))
  /\ UNCHANGED <<need, status, stopCh, closedTo, netVars, callVars, crossed>>

CloseStops ==
  /\ closer.at = "stop"
  /\ closedTo' = stopCh
  /\ closer' = [closer EXCEPT !.at = "engine"]
  /\ UNCHANGED <<need, status, stopCh, netVars, conn, openCh, caller, loop, callVars, history>>

(* conn.Close and the engine taken out of c.client, ...                    *)
CloseTakesEngine ==
  /\ closer.at = "engine"
  /\ engine' = NoEngine
  /\ closer' = [closer EXCEPT !.at = "wait", !.cli = engine]
  /\ UNCHANGED <<need, status, stopCh, closedTo, engineStarted, engines, conns, of, conn, openCh, caller, loop, callVars, history>>

(* ... whose Stop returns when every connection of it has been closed.     *)
EngineStopped ==
  /\ closer.at = "wait"
  /\ \A c \in GConns : of[c] = closer.cli => conns[c] \in {"left", "gone"}
  /\ engines' = IF closer.cli = engines THEN engines + 1 ELSE engines
  /\ engineStarted' = FALSE
  /\ closer' = [closer EXCEPT !.at = "closed"]
  /\ UNCHANGED <<need, status, stopCh, closedTo, engine, conns, of, conn, openCh, caller, loop, callVars, history>>

CloseReturns ==
  /\ closer.at = "closed"
  /\ status' = "Closed"
  /\ closer' = [at |-> "no", conn |-> NoConn, cli |-> NoEngine]
  /\ UNCHANGED <<need, stopCh, closedTo, netVars, conn, openCh, caller, loop, callVars, history>>

(***************************************************************************)
(* The event loop: OnOpen reads the status and stores one, publishes the    *)
(* connection and tells who waits.                                          *)
(***************************************************************************)
Moves(c, st) == conns' = [conns EXCEPT ![c] = st]

(* One handler runs at a time.                                             *)
Handling == \E c \in GConns : conns[c] \in {"opens", "reopens", "publishes", "signals", "refused"}

OpenLoads(c) ==
  /\ conns[c] = "dialing" /\ ~Handling
  /\ Moves(c, IF status = "Reconnecting" THEN "reopens" ELSE "opens")
  /\ UNCHANGED <<need, status, stopCh, closedTo, engineStarted, engine, engines, of, conn, openCh,
                 caller, closer, loop, callVars, history>>

(* Over the Closed of a Close that found no connection yet, too.           *)
OpenStores(c) ==
  /\ conns[c] \in {"opens", "reopens"}
  /\ status' = IF conns[c] = "reopens" THEN "Reconnected" ELSE "Connected"
  /\ Moves(c, "publishes")
  /\ missedOpening' = (missedOpening \/ Gone(status))
  /\ UNCHANGED <<need, stopCh, closedTo, engineStarted, engine, engines, of, conn, openCh, caller,
                 closer, loop, callVars, crossed>>

OpenPublishes(c) ==
  /\ conns[c] = "publishes"
  /\ conn' = c /\ Moves(c, "signals")
  /\ UNCHANGED <<need, status, stopCh, closedTo, engineStarted, engine, engines, of, openCh, caller,
                 closer, loop, callVars, history>>

signalOpenResult(c) ==
  /\ conns[c] = "signals"
  /\ Signals("ok") /\ Moves(c, "open")
  /\ UNCHANGED <<need, status, stopCh, closedTo, engineStarted, engine, engines, of, conn, closer,
                 callVars, history>>

(* A connection is closed: by the network, or by Close and the end of its  *)
(* engine.                                                                 *)
Lost(c) == \/ fails < Fails /\ fails' = fails + 1
           \/ /\ fails' = fails
              /\ closer.at = "wait" /\ (closer.conn = c \/ of[c] = closer.cli)

(* A change: the client keeps the connection that is gone.                  *)
OnCloseOpened(c) ==
  /\ conns[c] = "open" /\ ~Handling /\ Lost(c)
  /\ conn' = NoConn /\ Moves(c, "left")
  /\ UNCHANGED <<need, status, stopCh, closedTo, engineStarted, engine, engines, of, openCh, caller,
                 closer, loop, connectCalls, closeCalls, history>>

(* A change: who waits for a connection that never opened is not told.     *)
OnCloseUnopenedSilent(c) ==
  /\ conns[c] = "dialing" /\ ~Handling /\ Lost(c)
  /\ conn' = NoConn /\ Moves(c, "refused")
  /\ UNCHANGED <<need, status, stopCh, closedTo, engineStarted, engine, engines, of, openCh, caller,
                 closer, loop, connectCalls, closeCalls, history>>

(* One that never opened: who waits is told, and the handler goes on.      *)
OnCloseUnopened(c) ==
  /\ conns[c] = "dialing" /\ ~Handling /\ Lost(c)
  /\ conn' = NoConn /\ Moves(c, "refused") /\ Signals("err")
  /\ UNCHANGED <<need, status, stopCh, closedTo, engineStarted, engine, engines, of, closer, connectCalls,
                 closeCalls, history>>

(* A loop unless there is one, or the client is closed: at the end of the  *)
(* handler, or for a connection that was open once its own handler has     *)
(* been told.                                                              *)
startReconnect(c) ==
  /\ conns[c] \in {"left", "refused"} /\ Moves(c, "gone")
  /\ IF ~need \/ Gone(status) \/ status = "Reconnecting" THEN UNCHANGED <<status, loop>>
     ELSE /\ status' = "Reconnecting"
          /\ \E l \in LoopSlots : /\ loop[l].at = "no" /\ \A k \in LoopSlots : loop[k].at = "no" => l <= k
                                  /\ loop' = [loop EXCEPT ![l].at = "head", ![l].n = 0]
  /\ UNCHANGED <<need, stopCh, closedTo, engineStarted, engine, engines, of, conn, openCh, caller,
                 closer, callVars, history>>

(***************************************************************************)
(* reconnectLoop                                                           *)
(***************************************************************************)
Ends(l) == loop' = [loop EXCEPT ![l] = [at |-> "no", got |-> "no", gen |-> 0, cli |-> NoEngine, n |-> 0]]

LoopHead(l) ==
  /\ loop[l].at = "head"
  /\ IF Gone(status) \/ loop[l].n >= MaxRetries
     THEN /\ Ends(l)
          /\ status' = IF Gone(status) THEN status ELSE "Closed"
     ELSE /\ loop' = [loop EXCEPT ![l].at = "wait", ![l].n = @ + 1]
          /\ status' = status
  /\ UNCHANGED <<need, stopCh, closedTo, netVars, conn, openCh, caller, closer, callVars, history>>

LoopWaits(l) ==
  /\ loop[l].at = "wait"
  /\ openCh' = l
  /\ loop' = [loop EXCEPT ![l].at = "dial", ![l].got = "no"]
  /\ UNCHANGED <<need, status, stopCh, closedTo, netVars, conn, caller, closer, callVars, history>>

LoopReads(l) ==
  /\ loop[l].at = "dial" /\ loop[l].cli = NoEngine
  /\ IF engine = NoEngine
     THEN clearOpenWait(l) /\ status' = "Closed" /\ Ends(l)
     ELSE loop' = [loop EXCEPT ![l].cli = engine] /\ UNCHANGED <<openCh, status>>
  /\ UNCHANGED <<need, stopCh, closedTo, netVars, conn, caller, closer, callVars, history>>

LoopDials(l) ==
  /\ loop[l].at = "dial" /\ loop[l].cli # NoEngine
  /\ \/ /\ DialsOut(loop[l].cli)
        /\ loop' = [loop EXCEPT ![l].at = "select", ![l].cli = NoEngine]
        /\ UNCHANGED <<openCh, fails>>
     \/ /\ fails' = IF Running(loop[l].cli) /\ Unused # {} THEN fails + 1 ELSE fails
        /\ fails' <= Fails
        /\ clearOpenWait(l)
        /\ loop' = [loop EXCEPT ![l].at = "sleep", ![l].cli = NoEngine]
        /\ UNCHANGED <<conns, of>>
  /\ UNCHANGED <<need, status, stopCh, closedTo, engineStarted, engine, engines, conn, caller, closer,
                 connectCalls, closeCalls, history>>

(* Both selects of the loop read stopCh when they begin.                   *)
LoopBlocks(l) ==
  /\ loop[l].at \in {"select", "sleep"}
  /\ loop' = [loop EXCEPT ![l].at = IF @ = "select" THEN "blocked" ELSE "asleep", ![l].gen = stopCh]
  /\ UNCHANGED <<need, status, stopCh, closedTo, netVars, conn, openCh, caller, closer, callVars, history>>

LoopWakes(l) ==
  /\ \/ loop[l].at = "blocked" /\ loop[l].got = "ok" /\ Ends(l)
     \/ loop[l].at = "blocked" /\ loop[l].got = "err" /\ loop' = [loop EXCEPT ![l].at = "sleep", ![l].got = "no"]
     \/ loop[l].at = "asleep" /\ loop' = [loop EXCEPT ![l].at = "head"]
     \/ loop[l].at \in {"blocked", "asleep"} /\ loop[l].gen <= closedTo /\ Ends(l)
  /\ UNCHANGED <<need, status, stopCh, closedTo, netVars, conn, openCh, caller, closer, callVars, history>>

Connecting == \/ ConnectRenews \/ EngineStarts \/ EngineFails \/ ConnectWaits
              \/ ConnectReads \/ ConnectDials \/ ConnectBlocks \/ ConnectReturns
Closing == CloseTakes \/ CloseStops \/ CloseTakesEngine \/ EngineStopped \/ CloseReturns
Looping(l) == LoopHead(l) \/ LoopWaits(l) \/ LoopReads(l) \/ LoopDials(l) \/ LoopBlocks(l) \/ LoopWakes(l)
Opening(c) == OpenLoads(c) \/ OpenStores(c) \/ OpenPublishes(c) \/ signalOpenResult(c)

GnetNext ==
  \/ ConnectBegins \/ Connecting \/ CloseBegins \/ Closing
  \/ \E l \in LoopSlots : Looping(l)
  \/ \E c \in GConns : Opening(c) \/ OnCloseOpened(c) \/ OnCloseUnopened(c) \/ startReconnect(c)

(* Every goroutine goes on; a dial opens, is refused or fails; the event   *)
(* loop closes what an engine that stops still has.                        *)
GnetFairness ==
  /\ WF_gnetVars(Connecting) /\ WF_gnetVars(Closing)
  /\ \A l \in LoopSlots : WF_gnetVars(Looping(l))
  /\ \A c \in GConns : WF_gnetVars(Opening(c) \/ startReconnect(c))
  /\ \A c \in GConns : WF_gnetVars(closer.at = "wait" /\ OnCloseOpened(c))

GnetSpec == GnetInit /\ [][GnetNext]_gnetVars /\ GnetFairness

(***************************************************************************)
(* Properties                                                              *)
(***************************************************************************)
AtRest == /\ caller.at = "no" /\ closer.at = "no"
          /\ \A l \in LoopSlots : loop[l].at = "no"
          /\ \A c \in GConns : conns[c] \in {"none", "open", "gone"}

OneConn == \A c, d \in {e \in GConns : conns[e] \notin {"none", "left", "refused", "gone"}} : c = d

StatusTrue == AtRest =>
  /\ status \in {"Init", "Connected", "Reconnected", "Closed"}
  /\ \A c \in GConns : conns[c] = "open" <=> c = conn
  /\ conn # NoConn => Connected(status)
  /\ need /\ Connected(status) => conn # NoConn

(* Unless a Connect met what was left of an earlier life of the client, or *)
(* a Close met a connection that was opening, the client has one           *)
(* connection at most, and at rest its status is that of the connection:   *)
(* each open connection is the client's own, and a client that reconnects  *)
(* and says it is connected has one.                                       *)
GnetOwns == ~crossed /\ ~missedOpening => OneConn /\ StatusTrue

(* Connect, Close and every reconnect loop return, and every connection     *)
(* opens or goes, unless a Connect met what was left of an earlier life:     *)
(* then it may wait for ever for a channel that another one has taken.       *)
GnetSettled == crossed \/ AtRest
=============================================================================
