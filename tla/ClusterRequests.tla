-------------------------- MODULE ClusterRequests --------------------------
(***************************************************************************)
(* remotes/kkcluster/cnats: the requests of a node over NATS.  A blocking  *)
(* Request waits on a channel of its own, found in requestMap; an          *)
(* RequestAsync leaves its callback in a pooled record, found in reqMap.   *)
(* The goroutine of the response subscription, the timing wheel, Stop and  *)
(* the caller itself all may end a request; which of them finds the entry  *)
(* in the map ends it.  The peer answers with handleRequest; NATS loses    *)
(* messages but does not duplicate them.                                   *)
(***************************************************************************)
EXTENDS Integers, FiniteSets

CONSTANTS
    SyncReqs,       \* requests made with Request
    AsyncReqs,      \* requests made with RequestAsync
    Callers,        \* the sets of requests that are made together (bound)
    Records,        \* the asyncReq records asyncReqPool may create
    Starts,         \* Start is called that often at most (bound)
    LinkLosses      \* the connection to NATS is lost that often at most (bound)

Reqs == SyncReqs \union AsyncReqs

VARIABLES
    state,          \* 0 init, 1 started, 2 stopped
    conn,           \* c.conn: "nil", "down" (NATS reconnects), "up" or "closed"
    responseSub,    \* the response subscription is active
    at,             \* where every caller is
    requestMap,     \* requests whose channel is in requestMap
    chan,           \* what the channel of a request holds
    reqMap,         \* the record of every asynchronous request in reqMap, or NoRecord
    mine,           \* the record RequestAsync got from the pool
    cb,             \* whose callback a record holds, or NoReq
    timer,          \* the request whose timer a record knows, or NoReq
    pool,           \* how often every record is in asyncReqPool
    created,        \* records created so far
    armed,          \* requests whose timer runs
    asked,          \* request messages on the way to the peer
    answers,        \* responses on the way back
    result,         \* what a caller got from Request or RequestAsync
    called,         \* the codes a callback was called with, as often as it was
    stopAt,         \* where Stop is
    startAt,        \* where Start, or the reconnect handler, is
    starts,         \* calls of Start so far
    losses,         \* losses of the connection so far
    late,           \* failing requests that Stop had ended before
    crashed         \* a nil connection was used

clusterVars == <<state, conn, responseSub, at, requestMap, chan, reqMap, mine, cb, timer, pool,
                 created, armed, asked, answers, result, called, stopAt, startAt, starts,
                 losses, late, crashed>>
tables  == <<requestMap, chan, reqMap>>
records == <<mine, cb, timer, pool, created>>
wires   == <<asked, answers>>
link    == <<state, conn, responseSub, stopAt, startAt, starts, losses>>
outcomes == <<result, called>>

NoReq == "none"
NoRecord == 0
Codes == {"ok", "timeout", "closed"}

ClusterInit ==
    /\ state = 0 /\ conn = "nil" /\ responseSub = FALSE
    /\ \E on \in Callers : at = [r \in Reqs |-> IF r \in on THEN "idle" ELSE "done"]
    /\ requestMap = {} /\ chan = [r \in SyncReqs |-> "empty"]
    /\ reqMap = [r \in AsyncReqs |-> NoRecord] /\ mine = reqMap
    /\ cb = [o \in Records |-> NoReq] /\ timer = cb
    /\ pool = [o \in Records |-> 0] /\ created = {} /\ armed = {}
    /\ asked = {} /\ answers = {}
    /\ result = [r \in Reqs |-> "none"]
    /\ called = [r \in AsyncReqs |-> [c \in Codes |-> 0]]
    /\ stopAt = "idle" /\ startAt = "idle" /\ starts = 0 /\ losses = 0
    /\ late = {} /\ crashed = FALSE

---------------------------------------------------------------------------
(* Callers.  IsConnected reads c.conn twice. *)
ReqEnds(r, code) == at' = [at EXCEPT ![r] = "done"] /\ result' = [result EXCEPT ![r] = code]

ReqBegin(r) ==
    /\ at[r] = "idle"
    /\ IF conn = "nil" THEN ReqEnds(r, "error")
       ELSE at' = [at EXCEPT ![r] = "checked"] /\ UNCHANGED result
    /\ UNCHANGED <<tables, records, wires, link, armed, called, late, crashed>>

(* The entry is made: a channel, or a record of the pool or a new one. *)
SyncRegister(r) ==
    /\ at[r] = "checked"
    /\ CASE conn = "nil" -> crashed' = TRUE /\ UNCHANGED <<at, result, requestMap>>
         [] conn = "up" -> /\ at' = [at EXCEPT ![r] = "publish"] /\ UNCHANGED <<result, late, crashed>>
                           /\ requestMap' = requestMap \union {r}
         [] OTHER -> ReqEnds(r, "error") /\ UNCHANGED <<requestMap, late, crashed>>
    /\ UNCHANGED <<chan, reqMap, records, wires, link, armed, called, late>>

AsyncRegister(r) ==
    /\ at[r] = "checked"
    /\ CASE conn = "nil" -> crashed' = TRUE /\ UNCHANGED <<at, result, reqMap, records>>
         [] conn = "up" ->
               /\ \E o \in Records :
                     /\ pool[o] > 0 \/ (o \notin created /\ \A q \in Records \ created : o <= q)
                     /\ pool' = [pool EXCEPT ![o] = IF @ > 0 THEN @ - 1 ELSE 0]
                     /\ created' = created \union {o}
                     /\ mine' = [mine EXCEPT ![r] = o]
                     /\ reqMap' = [reqMap EXCEPT ![r] = o]
                     /\ cb' = [cb EXCEPT ![o] = r] /\ timer' = [timer EXCEPT ![o] = NoReq]
               /\ at' = [at EXCEPT ![r] = "publish"] /\ UNCHANGED <<result, late, crashed>>
         [] OTHER -> ReqEnds(r, "error") /\ UNCHANGED <<reqMap, records, late, crashed>>
    /\ UNCHANGED <<requestMap, chan, wires, link, armed, called, late>>

(* Publish: NATS buffers it while it reconnects, and refuses it when the   *)
(* connection is closed or nil; marshalling may fail as well.              *)
ReqPublish(r) ==
    /\ at[r] = "publish"
    /\ \/ /\ conn \in {"up", "down"}
          /\ asked' = asked \union {r} /\ at' = [at EXCEPT ![r] = "arm"]
       \/ UNCHANGED asked /\ at' = [at EXCEPT ![r] = "undo"]
    /\ UNCHANGED <<tables, records, answers, link, armed, outcomes, late, crashed>>

(* The wheel gets the timer; an asynchronous request looks for its record  *)
(* again to leave the timer there, and returns.                            *)
ReqArm(r) ==
    /\ at[r] = "arm" /\ armed' = armed \union {r}
    /\ at' = [at EXCEPT ![r] = IF r \in SyncReqs THEN "wait" ELSE "attach"]
    /\ UNCHANGED <<tables, records, wires, link, outcomes, late, crashed>>
AsyncAttach(r) ==
    /\ at[r] = "attach"
    /\ timer' = IF reqMap[r] # NoRecord THEN [timer EXCEPT ![reqMap[r]] = r] ELSE timer
    /\ ReqEnds(r, "accepted")
    /\ UNCHANGED <<tables, mine, cb, pool, created, wires, link, armed, called, late, crashed>>

(* Failing: the entry is deleted.  The record goes back to the pool.       *)
SyncUndo(r) ==
    /\ at[r] = "undo" /\ requestMap' = requestMap \ {r} /\ ReqEnds(r, "error")
    /\ UNCHANGED <<chan, reqMap, records, wires, link, armed, called, late, crashed>>
AsyncUndo(r) ==
    /\ at[r] = "undo" /\ reqMap' = [reqMap EXCEPT ![r] = NoRecord]
    /\ late' = IF reqMap[r] = NoRecord THEN late \union {r} ELSE late
    /\ cb' = [cb EXCEPT ![mine[r]] = NoReq] /\ timer' = [timer EXCEPT ![mine[r]] = NoReq]
    /\ pool' = [pool EXCEPT ![mine[r]] = @ + 1]
    /\ ReqEnds(r, "error")
    /\ UNCHANGED <<requestMap, chan, mine, created, wires, link, armed, called, crashed>>

(* Request waits for its channel or for the timer, then deletes the entry  *)
(* and stops the timer.                                                    *)
SyncGets(r) ==
    /\ at[r] = "wait" /\ chan[r] # "empty"
    /\ ReqEnds(r, chan[r])
    /\ requestMap' = requestMap \ {r} /\ armed' = armed \ {r}
    /\ UNCHANGED <<chan, reqMap, records, wires, link, called, late, crashed>>
SyncTimesOut(r) ==
    /\ at[r] = "wait" /\ r \in armed
    /\ ReqEnds(r, "timeout")
    /\ requestMap' = requestMap \ {r} /\ armed' = armed \ {r}
    /\ UNCHANGED <<chan, reqMap, records, wires, link, called, late, crashed>>

---------------------------------------------------------------------------
(* An asynchronous request ends: its record leaves the map, calls the      *)
(* callback it holds and goes back to the pool.  The three places that do  *)
(* it differ in the code and in the timer they stop. *)
Complete(r, o, code) ==
    /\ reqMap' = [reqMap EXCEPT ![r] = NoRecord]
    /\ called' = IF cb[o] = NoReq THEN called ELSE [called EXCEPT ![cb[o]][code] = @ + 1]
    /\ cb' = [cb EXCEPT ![o] = NoReq] /\ timer' = [timer EXCEPT ![o] = NoReq]
    /\ pool' = [pool EXCEPT ![o] = @ + 1]

AsyncTimesOut(r) ==
    /\ r \in AsyncReqs \intersect armed /\ armed' = armed \ {r}
    /\ IF reqMap[r] = NoRecord THEN UNCHANGED <<reqMap, called, cb, timer, pool>>
       ELSE Complete(r, reqMap[r], "timeout")
    /\ UNCHANGED <<requestMap, chan, mine, created, wires, link, at, result, late, crashed>>

HandleResponseMutant(r) ==
    /\ r \in answers /\ answers' = answers \ {r}
    /\ responseSub /\ conn = "up"
    /\ IF r \in SyncReqs \/ reqMap[r] = NoRecord THEN UNCHANGED <<chan, reqMap, called, cb, timer, pool, armed>>
       ELSE /\ called' = IF cb[reqMap[r]] = NoReq THEN called ELSE [called EXCEPT ![cb[reqMap[r]]]["ok"] = @ + 1]
            /\ cb' = [cb EXCEPT ![reqMap[r]] = NoReq] /\ timer' = [timer EXCEPT ![reqMap[r]] = NoReq]
            /\ pool' = [pool EXCEPT ![reqMap[r]] = @ + 1] /\ armed' = armed \ {timer[reqMap[r]]}
            /\ UNCHANGED <<chan, reqMap>>
    /\ UNCHANGED <<requestMap, mine, created, asked, link, at, result, late, crashed>>

(* handleResponse: the channel if the request blocks, else the record. *)
HandleResponse(r) ==
    /\ r \in answers /\ answers' = answers \ {r}
    /\ responseSub /\ conn = "up"
    /\ IF r \in SyncReqs
       THEN /\ chan' = IF r \in requestMap /\ chan[r] = "empty" THEN [chan EXCEPT ![r] = "ok"] ELSE chan
            /\ UNCHANGED <<reqMap, called, cb, timer, pool, armed>>
       ELSE /\ IF reqMap[r] = NoRecord \/ cb[reqMap[r]] = NoReq
               THEN reqMap' = [reqMap EXCEPT ![r] = NoRecord] /\ UNCHANGED <<called, cb, timer, pool, armed>>
               ELSE Complete(r, reqMap[r], "ok") /\ armed' = armed \ {timer[reqMap[r]]}
            /\ UNCHANGED chan
    /\ UNCHANGED <<requestMap, mine, created, asked, link, at, result, late, crashed>>

(* The peer's handleRequest answers, whatever its handler does.  No        *)
(* fairness makes it: a message that is lost is one that never arrives.    *)
HandleRequest(r) ==
    /\ r \in asked /\ asked' = asked \ {r}
    /\ answers' = IF responseSub THEN answers \union {r} ELSE answers
    /\ UNCHANGED <<tables, records, link, armed, at, outcomes, late, crashed>>

---------------------------------------------------------------------------
(* Start and Stop.  Start connects, or gives up; while NATS cannot be      *)
(* reached the connection is made later.  resubscribe is also called after *)
(* every reconnection, and does nothing while the connection is down.      *)
ClusterStart ==
    /\ state \in {0, 2} /\ startAt = "idle" /\ stopAt = "idle" /\ starts < Starts
    /\ state' = 1 /\ startAt' = "connect" /\ starts' = starts + 1
    /\ UNCHANGED <<tables, records, wires, conn, responseSub, stopAt, losses, armed, at, outcomes, late, crashed>>
StartConnects ==
    /\ startAt = "connect"
    /\ \/ conn' \in {"up", "down"} /\ startAt' = "subscribe" /\ UNCHANGED state
       \/ UNCHANGED conn /\ startAt' = "idle" /\ state' = 0
    /\ UNCHANGED <<tables, records, wires, responseSub, stopAt, starts, losses, armed, at, outcomes, late, crashed>>
ResubscribeResponses ==
    /\ startAt \in {"subscribe", "again"} /\ startAt' = "idle"
    /\ responseSub' = (responseSub \/ conn = "up")
    /\ UNCHANGED <<tables, records, wires, state, conn, stopAt, starts, losses, armed, at, outcomes, late, crashed>>
LinkLost ==
    /\ conn = "up" /\ losses < LinkLosses /\ conn' = "down" /\ losses' = losses + 1
    /\ UNCHANGED <<tables, records, wires, state, responseSub, stopAt, startAt, starts, armed, at, outcomes, late, crashed>>
LinkBack ==
    /\ conn = "down" /\ startAt = "idle" /\ conn' = "up" /\ startAt' = "again"
    /\ UNCHANGED <<tables, records, wires, state, responseSub, stopAt, starts, losses, armed, at, outcomes, late, crashed>>

StopBegins ==
    /\ stopAt = "idle" /\ state = 1 /\ state' = 2 /\ stopAt' = "unsubscribe"
    /\ UNCHANGED <<tables, records, wires, conn, responseSub, startAt, starts, losses, armed, at, outcomes, late, crashed>>
StopUnsubscribes ==
    /\ stopAt = "unsubscribe" /\ stopAt' = "sync" /\ responseSub' = FALSE /\ answers' = {}
    /\ UNCHANGED <<tables, records, asked, state, conn, startAt, starts, losses, armed, at, outcomes, late, crashed>>

(* closeAllPendingRequests, one critical section for each map. *)
StopFreesSync ==
    /\ stopAt = "sync" /\ stopAt' = "async"
    /\ chan' = [r \in SyncReqs |-> IF r \in requestMap /\ chan[r] = "empty" THEN "closed" ELSE chan[r]]
    /\ requestMap' = {}
    /\ UNCHANGED <<reqMap, records, wires, state, conn, responseSub, startAt, starts, losses, armed, at, outcomes, late, crashed>>
StopFreesAsyncMutant ==
    /\ stopAt = "async" /\ stopAt' = "conn"
    /\ reqMap' = [r \in AsyncReqs |-> NoRecord]
    /\ UNCHANGED <<requestMap, chan, mine, cb, timer, pool, created, called, armed, wires, state, conn, responseSub, startAt, starts, losses, at, result, late, crashed>>
StopFreesAsync ==
    LET waiting == {r \in AsyncReqs : reqMap[r] # NoRecord}
        owners(c) == {r \in waiting : cb[reqMap[r]] = c}
    IN  /\ stopAt = "async" /\ stopAt' = "conn"
        /\ reqMap' = [r \in AsyncReqs |-> NoRecord]
        /\ called' = [c \in AsyncReqs |-> IF owners(c) # {} THEN [called[c] EXCEPT !["closed"] = @ + 1] ELSE called[c]]
        /\ cb' = [o \in Records |-> IF \E r \in waiting : reqMap[r] = o THEN NoReq ELSE cb[o]]
        /\ timer' = [o \in Records |-> IF \E r \in waiting : reqMap[r] = o THEN NoReq ELSE timer[o]]
        /\ pool' = [o \in Records |-> pool[o] + Cardinality({r \in waiting : reqMap[r] = o})]
        /\ armed' = armed \ {timer[reqMap[r]] : r \in waiting}
        /\ UNCHANGED <<requestMap, chan, mine, created, wires, state, conn, responseSub, startAt, starts, losses, at, result, late, crashed>>
StopCloses ==
    /\ stopAt = "conn" /\ conn # "nil" /\ conn' = "closed" /\ stopAt' = "forget"
    /\ UNCHANGED <<tables, records, wires, state, responseSub, startAt, starts, losses, armed, at, outcomes, late, crashed>>
StopForgets ==
    /\ \/ stopAt = "forget"
       \/ stopAt = "conn" /\ conn = "nil"
    /\ conn' = "nil" /\ stopAt' = "idle"
    /\ UNCHANGED <<tables, records, wires, state, responseSub, startAt, starts, losses, armed, at, outcomes, late, crashed>>

Caller(r) ==
    \/ ReqBegin(r) \/ ReqPublish(r) \/ ReqArm(r)
    \/ r \in SyncReqs /\ (SyncRegister(r) \/ SyncUndo(r) \/ SyncGets(r))
    \/ r \in AsyncReqs /\ (AsyncRegister(r) \/ AsyncAttach(r) \/ AsyncUndo(r))
Expires(r) == (r \in SyncReqs /\ SyncTimesOut(r)) \/ AsyncTimesOut(r)
Stopper == StopUnsubscribes \/ StopFreesSync \/ StopFreesAsync \/ StopCloses \/ StopForgets
Starter == StartConnects \/ ResubscribeResponses

ClusterNext ==
    /\ ~crashed
    /\ \/ \E r \in Reqs : Caller(r) \/ Expires(r) \/ HandleResponse(r) \/ HandleRequest(r)
       \/ ClusterStart \/ Starter \/ LinkLost \/ LinkBack
       \/ StopBegins \/ Stopper

(* Callers run once they have begun, timers fire. *)
ClusterFairness ==
    \A r \in Reqs : /\ WF_clusterVars(~crashed /\ at[r] # "idle" /\ Caller(r))
                    /\ WF_clusterVars(~crashed /\ Expires(r))

ClusterSpec == ClusterInit /\ [][ClusterNext]_clusterVars
---------------------------------------------------------------------------
Calls(r) == called[r]["ok"] + called[r]["timeout"] + called[r]["closed"]

(* Whoever ends a request first ends it: a callback is called once at most *)
(* and never for a request that failed, a record is in the pool or in      *)
(* reqMap but not in both, and what is in reqMap still has a caller or a   *)
(* timer that takes it out.  The exception is a request that finds its     *)
(* publishing refused because Stop closed the connection: Stop has called  *)
(* its callback and given its record back, and it gives it back again, so  *)
(* that two later requests may share a record, and one of them be left in  *)
(* reqMap when the response of the other stops its timer.                  *)
ClusterEndsOnce ==
    /\ late # {} => starts > 0 /\ (state = 2 \/ starts > 1)
    /\ late = {} =>
          /\ \A r \in AsyncReqs :
                /\ Calls(r) <= 1 /\ (result[r] = "error" => Calls(r) = 0)
                /\ reqMap[r] # NoRecord => r \in armed \/ at[r] \in {"publish", "arm", "undo"}
          /\ \A o \in Records : pool[o] + Cardinality({r \in AsyncReqs : reqMap[r] = o}) <= 1
    /\ \A r \in SyncReqs : r \in requestMap => at[r] \in {"publish", "arm", "wait", "undo"}

(* Every request is answered: Request returns, and the callback of an      *)
(* accepted RequestAsync is called, by the response, the timer or Stop,    *)
(* whatever is lost and whenever Stop comes.                               *)
ClusterAnswered ==
    \/ crashed \/ late # {}
    \/ \A r \in Reqs : /\ at[r] \in {"idle", "done"}
                      /\ r \in AsyncReqs /\ result[r] = "accepted" => Calls(r) = 1
ClusterAnswers == <>[]ClusterAnswered
=============================================================================
