----------------------------- MODULE RpcPending -----------------------------
(***************************************************************************)
(* The request table of remotes/kkrpc (pending.go) together with the two    *)
(* invokers that use it (invoker_reqrsp.go) and the Stop of its owner       *)
(* (rpc_client.go / rpc_server.go).                                         *)
(*                                                                          *)
(* A call is its own request id: genReqId never hands out an id twice.      *)
(* Every atomic operation, critical section and channel operation of the    *)
(* code is a step of its own.  Time is abstract: a timer may fire as soon   *)
(* as it is armed.  A Go panic ends the process (the receive path runs the  *)
(* handler without recover), so no step is taken after one.                 *)
(***************************************************************************)
EXTENDS Integers, FiniteSets

CONSTANTS
  SyncCalls,   \* request ids used by Invoke
  AsyncCalls,  \* request ids used by InvokeAsync
  Chans,       \* the channels make() may create for chanFramePool
  Shards,      \* the shards of the table (pendingShardCount of them)
  ShardOf,     \* request id -> shard
  Readers,     \* goroutines that call deliver: one per connection
  MaxPending,  \* RpcOption.MaxPendingCount
  NoChan, NoCall

Calls == SyncCalls \cup AsyncCalls

ASSUME CallsDisjoint == SyncCalls \cap AsyncCalls = {}
ASSUME ShardOfTotal  == ShardOf \in [Calls -> Shards]
ASSUME NoChanOutside == NoChan \notin Chans
ASSUME NoCallOutside == NoCall \notin Calls
ASSUME MaxPendingPositive == MaxPending \in Nat \ {0}

VARIABLES
  closed,   \* pendingMap.closed
  count,    \* pendingMap.curPendingCount
  chMap,    \* the chMaps of all shards: sync call -> channel or NoChan
  cbMap,    \* the cbMaps of all shards: the async calls with an entry
  made,     \* channels created so far by the pool's New
  pool,     \* chanFramePool, a bag: how often each channel is in it
  buf,      \* the one-slot buffer of each channel: the id of the frame in it
  shut,     \* channels that were closed
  pc,       \* where each call stands
  ch,       \* local variable ch of Invoke
  got,      \* id of the frame Invoke received
  outcome,  \* what a call reported last
  counted,  \* calls that executed stats.AddRequestStart
  awaited,  \* requests sent whose response may still arrive
  called,   \* how often the user's callback ran
  doneCh,   \* async calls whose doneCh is closed
  rd,       \* what each deliver is doing
  stop,     \* closeAll: phase, shards swept, callbacks collected
  linkUp,   \* the transport below accepts SendBuffer
  panics    \* panics raised so far

table  == <<chMap, cbMap, count>>
chans  == <<made, pool, buf, shut>>
sync   == <<ch, got>>
async  == <<called, doneCh>>
result == <<outcome, counted>>
vars   == <<closed, table, chans, pc, sync, result, awaited, async, rd, stop,
            linkUp, panics>>

Idle == [at |-> "idle", id |-> NoCall, chan |-> NoChan]

Init ==
  /\ closed = FALSE
  /\ count = 0
  /\ chMap = [c \in SyncCalls |-> NoChan]
  /\ cbMap = {}
  /\ made = {}
  /\ pool = [x \in Chans |-> 0]
  /\ buf = [x \in Chans |-> NoCall]
  /\ shut = {}
  /\ pc = [c \in Calls |-> "idle"]
  /\ ch = [c \in SyncCalls |-> NoChan]
  /\ got = [c \in SyncCalls |-> NoCall]
  /\ outcome = [c \in Calls |-> "none"]
  /\ counted = {}
  /\ awaited = {}
  /\ called = [c \in AsyncCalls |-> 0]
  /\ doneCh = {}
  /\ rd = [r \in Readers |-> Idle]
  /\ stop = [phase |-> "open", swept |-> {}, todo |-> {}]
  /\ linkUp = TRUE
  /\ panics = {}

-----------------------------------------------------------------------------
(* Helpers *)

Goto(c, l) == pc' = [pc EXCEPT ![c] = l]

Report(c, o) == outcome' = [outcome EXCEPT ![c] = o]

\* The user's callback of InvokeAsync runs with outcome o.
CallBack(c, o) ==
  /\ called' = [called EXCEPT ![c] = @ + 1]
  /\ Report(c, o)

\* A call that gets no entry: Invoke returns the error, InvokeAsync runs the
\* callback with it and returns it.
Refuse(c, o) ==
  /\ Goto(c, "done")
  /\ IF c \in AsyncCalls THEN CallBack(c, o)
                         ELSE Report(c, o) /\ UNCHANGED called

\* Mutant: delCallback without `if ok`.
RunClosureDecTwice(c, o) ==
  /\ cbMap' = cbMap \ {c}
  /\ count' = count - 1
  /\ IF c \in doneCh
       THEN panics' = panics \cup {"close of closed doneCh"} /\ UNCHANGED doneCh
       ELSE doneCh' = doneCh \cup {c} /\ UNCHANGED panics
  /\ CallBack(c, o)

\* The closure InvokeAsync registers, run with c's own response or with the
\* frame closeAll makes; its delCallback finds an entry only if the one who
\* runs it left it there.  A second run would close doneCh again.
RunClosure(c, o) ==
  /\ cbMap' = cbMap \ {c}
  /\ count' = IF c \in cbMap THEN count - 1 ELSE count
  /\ IF c \in doneCh
       THEN panics' = panics \cup {"close of closed doneCh"} /\ UNCHANGED doneCh
       ELSE doneCh' = doneCh \cup {c} /\ UNCHANGED panics
  /\ CallBack(c, o)

-----------------------------------------------------------------------------
(* Entering the table: Invoke / InvokeAsync up to addCh / addCallback *)

\* IsClosed; InvokeAsync also encodes the request before it registers.
InvokeStart(c) ==
  /\ pc[c] = "idle"
  /\ \/ closed /\ Goto(c, "done") /\ Report(c, "closed")
     \/ ~closed /\ Goto(c, "check") /\ UNCHANGED outcome
     \/ ~closed /\ c \in AsyncCalls /\ Goto(c, "done") /\ Report(c, "encode")
  /\ UNCHANGED <<closed, table, chans, sync, counted, awaited, async, rd, stop,
                 linkUp, panics>>

\* The first closed.Load of addCh / addCallback.
AddCheck(c) ==
  /\ pc[c] = "check"
  /\ IF closed THEN Refuse(c, "closed")
               ELSE Goto(c, "limit") /\ UNCHANGED <<outcome, called>>
  /\ UNCHANGED <<closed, table, chans, sync, counted, awaited, doneCh, rd, stop,
                 linkUp, panics>>

\* The check of curPendingCount against maxPendingCount.
AddLimit(c) ==
  /\ pc[c] = "limit"
  /\ IF count >= MaxPending
       THEN Refuse(c, "full")
       ELSE Goto(c, "inc") /\ UNCHANGED <<outcome, called>>
  /\ UNCHANGED <<closed, table, chans, sync, counted, awaited, doneCh, rd, stop,
                 linkUp, panics>>

AddInc(c) ==
  /\ pc[c] = "inc"
  /\ count' = count + 1
  /\ Goto(c, "lock")
  /\ UNCHANGED <<closed, chMap, cbMap, chans, sync, result, awaited, async, rd,
                 stop, linkUp, panics>>

\* sync.Pool.Get: a channel that was put back, or a new one.
PoolGet(x) ==
  \/ /\ pool[x] > 0
     /\ pool' = [pool EXCEPT ![x] = @ - 1]
     /\ UNCHANGED made
  \/ /\ x \notin made
     /\ made' = made \cup {x}
     /\ UNCHANGED pool

\* Mutant: closed is not read again under the lock.
AddChNoRecheck(c) ==
  /\ pc[c] = "lock"
  /\ c \in SyncCalls
  /\ Goto(c, "send")
  /\ \E x \in Chans :
       /\ PoolGet(x)
       /\ chMap' = [chMap EXCEPT ![c] = x]
       /\ ch' = [ch EXCEPT ![c] = x]
  /\ UNCHANGED <<closed, cbMap, count, buf, shut, got, result, awaited, async,
                 rd, stop, linkUp, panics>>

\* The critical section of addCh: closed is read again under the shard lock.
AddCh(c) ==
  /\ pc[c] = "lock"
  /\ c \in SyncCalls
  /\ IF closed
       THEN /\ Goto(c, "undo")
            /\ UNCHANGED <<made, pool, chMap, ch>>
       ELSE /\ Goto(c, "send")
            /\ \E x \in Chans :
                 /\ PoolGet(x)
                 /\ chMap' = [chMap EXCEPT ![c] = x]
                 /\ ch' = [ch EXCEPT ![c] = x]
  /\ UNCHANGED <<closed, cbMap, count, buf, shut, got, result, awaited, async,
                 rd, stop, linkUp, panics>>

\* The critical section of addCallback.
AddCallback(c) ==
  /\ pc[c] = "lock"
  /\ c \in AsyncCalls
  /\ IF closed THEN Goto(c, "undo") /\ UNCHANGED cbMap
               ELSE Goto(c, "send") /\ cbMap' = cbMap \cup {c}
  /\ UNCHANGED <<closed, chMap, count, chans, sync, result, awaited, async, rd,
                 stop, linkUp, panics>>

AddUndo(c) ==
  /\ pc[c] = "undo"
  /\ count' = count - 1
  /\ Refuse(c, "closed")
  /\ UNCHANGED <<closed, chMap, cbMap, chans, sync, counted, awaited, doneCh, rd,
                 stop, linkUp, panics>>

-----------------------------------------------------------------------------
(* Invoke after registration *)

\* AddRequestStart, then encode and send; either may fail.
InvokeSend(c) ==
  /\ pc[c] = "send"
  /\ c \in SyncCalls
  /\ counted' = counted \cup {c}
  /\ \/ /\ linkUp
        /\ awaited' = awaited \cup {c}
        /\ Goto(c, "wait")
        /\ UNCHANGED outcome
     \/ /\ Goto(c, "del")
        /\ Report(c, "internal")
        /\ UNCHANGED awaited
  /\ UNCHANGED <<closed, table, chans, sync, async, rd, stop, linkUp, panics>>

\* fr, ok := <-ch.  doReturn looks at the type and the error code of the
\* frame, never at its id.
InvokeReceive(c) ==
  /\ pc[c] = "wait"
  /\ c \in SyncCalls
  /\ Goto(c, "del")
  /\ LET x == ch[c] IN
       \/ /\ buf[x] # NoCall
          /\ buf' = [buf EXCEPT ![x] = NoCall]
          /\ got' = [got EXCEPT ![c] = buf[x]]
          /\ \E o \in {"success", "error", "internal"} : Report(c, o)
       \/ /\ buf[x] = NoCall
          /\ x \in shut
          /\ Report(c, "error")
          /\ UNCHANGED <<buf, got>>
  /\ UNCHANGED <<closed, table, made, pool, shut, ch, counted, awaited, async,
                 rd, stop, linkUp, panics>>

\* Mutant: no timer is armed.
InvokeGiveUpNever(c) == pc[c] = "never" /\ UNCHANGED vars

\* timer.C, or ctx.Done(): fixCallConfig makes every timeout positive.
InvokeGiveUp(c) ==
  /\ pc[c] = "wait"
  /\ c \in SyncCalls
  /\ Goto(c, "del")
  /\ \E o \in {"timeout", "canceled"} : Report(c, o)
  /\ UNCHANGED <<closed, table, chans, sync, counted, awaited, async, rd, stop,
                 linkUp, panics>>

\* The deferred function of Invoke, delCh's critical section: the entry is
\* there, or deliver or closeAll took it.
DeferDelCh(c) ==
  /\ pc[c] = "del"
  /\ chMap' = [chMap EXCEPT ![c] = NoChan]
  /\ Goto(c, IF chMap[c] # NoChan THEN "drain" ELSE "probe")
  /\ UNCHANGED <<closed, cbMap, count, chans, sync, result, awaited, async, rd,
                 stop, linkUp, panics>>

PoolPut(x) == pool' = [pool EXCEPT ![x] = @ + 1]

\* delCh drains the channel and puts it back into the pool.
DeferDrain(c) ==
  /\ pc[c] = "drain"
  /\ buf' = [buf EXCEPT ![ch[c]] = NoCall]
  /\ PoolPut(ch[c])
  /\ Goto(c, "dec")
  /\ UNCHANGED <<closed, table, made, shut, sync, result, awaited, async, rd,
                 stop, linkUp, panics>>

\* Mutant: no return after delCh removed the entry.
DeferDecNoReturn(c) ==
  /\ pc[c] = "dec"
  /\ count' = count - 1
  /\ Goto(c, "probe")
  /\ UNCHANGED <<closed, chMap, cbMap, chans, sync, result, awaited, async, rd,
                 stop, linkUp, panics>>

DeferDec(c) ==
  /\ pc[c] = "dec"
  /\ count' = count - 1
  /\ Goto(c, "done")
  /\ UNCHANGED <<closed, chMap, cbMap, chans, sync, result, awaited, async, rd,
                 stop, linkUp, panics>>

\* The deferred select: a frame is discarded and the channel put back; an
\* empty closed channel is kept out; an empty open one is put back, on the
\* ground that deliver has sent and this call has received.
DeferProbe(c) ==
  /\ pc[c] = "probe"
  /\ LET x == ch[c] IN
       \/ /\ buf[x] # NoCall
          /\ buf' = [buf EXCEPT ![x] = NoCall]
          /\ PoolPut(x)
       \/ /\ buf[x] = NoCall
          /\ x \in shut
          /\ UNCHANGED <<buf, pool>>
       \/ /\ buf[x] = NoCall
          /\ x \notin shut
          /\ PoolPut(x)
          /\ UNCHANGED buf
  /\ Goto(c, "done")
  /\ UNCHANGED <<closed, table, made, shut, sync, result, awaited, async, rd,
                 stop, linkUp, panics>>

-----------------------------------------------------------------------------
(* InvokeAsync after registration *)

\* A failed send runs the user's callback first and removes the entry after.
AsyncSend(c) ==
  /\ pc[c] = "send"
  /\ c \in AsyncCalls
  /\ \/ /\ linkUp
        /\ awaited' = awaited \cup {c}
        /\ Goto(c, "wait")
        /\ UNCHANGED <<outcome, called>>
     \/ /\ Goto(c, "drop")
        /\ CallBack(c, "internal")
        /\ UNCHANGED awaited
  /\ UNCHANGED <<closed, table, chans, sync, counted, doneCh, rd, stop, linkUp,
                 panics>>

\* delCallback after a failed send: critical section, then the counter.
AsyncDrop(c) ==
  /\ pc[c] = "drop"
  /\ cbMap' = cbMap \ {c}
  /\ Goto(c, IF c \in cbMap THEN "dropdec" ELSE "failed")
  /\ UNCHANGED <<closed, chMap, count, chans, sync, result, awaited, async, rd,
                 stop, linkUp, panics>>

AsyncDropDec(c) ==
  /\ pc[c] = "dropdec"
  /\ count' = count - 1
  /\ Goto(c, "failed")
  /\ UNCHANGED <<closed, chMap, cbMap, chans, sync, result, awaited, async, rd,
                 stop, linkUp, panics>>

\* Mutant: the timeout does not ask whether it took the entry.
AsyncTimeoutAlways(c) ==
  /\ pc[c] = "wait"
  /\ c \in AsyncCalls
  /\ cbMap' = cbMap \ {c}
  /\ Goto(c, "fire")
  /\ UNCHANGED <<closed, chMap, count, chans, sync, result, awaited, async, rd,
                 stop, linkUp, panics>>

\* The goroutine that waits for the timer: takeCallback.
AsyncTimeout(c) ==
  /\ pc[c] = "wait"
  /\ c \in AsyncCalls
  /\ cbMap' = cbMap \ {c}
  /\ Goto(c, IF c \in cbMap THEN "fire" ELSE "done")
  /\ UNCHANGED <<closed, chMap, count, chans, sync, result, awaited, async, rd,
                 stop, linkUp, panics>>

AsyncFire(c) ==
  /\ pc[c] = "fire"
  /\ CallBack(c, "timeout")
  /\ Goto(c, "done")
  /\ UNCHANGED <<closed, table, chans, sync, counted, awaited, doneCh, rd, stop,
                 linkUp, panics>>

\* The same goroutine woken by doneCh.
AsyncDone(c) ==
  /\ pc[c] = "wait"
  /\ c \in doneCh
  /\ Goto(c, "done")
  /\ UNCHANGED <<closed, table, chans, sync, result, awaited, async, rd, stop,
                 linkUp, panics>>

-----------------------------------------------------------------------------
(* deliver, called by a reader goroutine for each response frame *)

\* Mutant: the entries of a shard are keyed by id % pendingShardCount.
DeliverTakeByShard(r, c) ==
  /\ rd[r].at = "idle"
  /\ c \in awaited \cap SyncCalls
  /\ awaited' = awaited \ {c}
  /\ \E d \in SyncCalls :
       /\ ShardOf[d] = ShardOf[c] /\ chMap[d] # NoChan
       /\ chMap' = [chMap EXCEPT ![d] = NoChan]
       /\ rd' = [rd EXCEPT ![r] = [at |-> "dec", id |-> c, chan |-> chMap[d]]]
  /\ UNCHANGED <<closed, cbMap, count, chans, pc, sync, result, async, stop,
                 linkUp, panics>>

\* The critical section: the response of c arrives and its entry is taken.
DeliverTake(r, c) ==
  /\ rd[r].at = "idle"
  /\ c \in awaited
  /\ awaited' = awaited \ {c}
  /\ IF c \in SyncCalls
       THEN /\ chMap' = [chMap EXCEPT ![c] = NoChan]
            /\ UNCHANGED cbMap
            /\ rd' = IF chMap[c] = NoChan THEN rd
                     ELSE [rd EXCEPT ![r] =
                             [at |-> "dec", id |-> c, chan |-> chMap[c]]]
       ELSE /\ cbMap' = cbMap \ {c}
            /\ UNCHANGED chMap
            /\ rd' = IF c \notin cbMap THEN rd
                     ELSE [rd EXCEPT ![r] =
                             [at |-> "dec", id |-> c, chan |-> NoChan]]
  /\ UNCHANGED <<closed, count, chans, pc, sync, result, async, stop, linkUp,
                 panics>>

DeliverDec(r) ==
  /\ rd[r].at = "dec"
  /\ count' = count - 1
  /\ rd' = [rd EXCEPT ![r].at = "hand"]
  /\ UNCHANGED <<closed, chMap, cbMap, chans, pc, sync, result, awaited, async,
                 stop, linkUp, panics>>

\* ch <- fr: blocks while the buffer is full, panics on a closed channel.
DeliverSend(r) ==
  /\ rd[r].at = "hand"
  /\ rd[r].chan # NoChan
  /\ LET x == rd[r].chan IN
       \/ /\ x \in shut
          /\ panics' = panics \cup {"send on closed channel"}
          /\ UNCHANGED buf
       \/ /\ x \notin shut
          /\ buf[x] = NoCall
          /\ buf' = [buf EXCEPT ![x] = rd[r].id]
          /\ UNCHANGED panics
  /\ rd' = [rd EXCEPT ![r] = Idle]
  /\ UNCHANGED <<closed, table, made, pool, shut, pc, sync, result, awaited,
                 async, stop, linkUp>>

\* fn(fr).
DeliverCall(r) ==
  /\ rd[r].at = "hand"
  /\ rd[r].chan = NoChan
  /\ \E o \in {"success", "error", "internal"} : RunClosure(rd[r].id, o)
  /\ rd' = [rd EXCEPT ![r] = Idle]
  /\ UNCHANGED <<closed, chMap, chans, pc, sync, counted, awaited, stop, linkUp>>

-----------------------------------------------------------------------------
(* Stop of the client or server: closeAll, then the transport *)

\* closed.Swap(true).  A later Stop finds it set and returns at once.
CloseBegin ==
  /\ stop.phase = "open"
  /\ closed' = TRUE
  /\ stop' = [stop EXCEPT !.phase = "sweep"]
  /\ UNCHANGED <<table, chans, pc, sync, result, awaited, async, rd, linkUp,
                 panics>>

InShard(s) == {c \in Calls : ShardOf[c] = s}

\* One shard under its lock: close the channels, collect the callbacks.
CloseSweep(s) ==
  /\ stop.phase = "sweep"
  /\ s \in Shards \ stop.swept
  /\ shut' = shut \cup {chMap[c] : c \in {d \in SyncCalls \cap InShard(s) :
                                             chMap[d] # NoChan}}
  /\ chMap' = [c \in SyncCalls |-> IF c \in InShard(s) THEN NoChan ELSE chMap[c]]
  /\ cbMap' = cbMap \ InShard(s)
  /\ stop' = [stop EXCEPT !.swept = @ \cup {s},
                          !.todo = @ \cup (cbMap \cap InShard(s))]
  /\ UNCHANGED <<closed, count, made, pool, buf, pc, sync, result, awaited,
                 async, rd, linkUp, panics>>

CloseReset ==
  /\ stop.phase = "sweep"
  /\ stop.swept = Shards
  /\ count' = 0
  /\ stop' = [stop EXCEPT !.phase = "call"]
  /\ UNCHANGED <<closed, chMap, cbMap, chans, pc, sync, result, awaited, async,
                 rd, linkUp, panics>>

\* The collected callbacks run outside the locks, one after the other.
CloseCall(c) ==
  /\ stop.phase = "call"
  /\ c \in stop.todo
  /\ RunClosure(c, "error")
  /\ stop' = [stop EXCEPT !.todo = @ \ {c}]
  /\ UNCHANGED <<closed, chMap, chans, pc, sync, counted, awaited, rd, linkUp>>

\* cli.Close() / tcp.Stop(): nothing is sent or received any more.
CloseLink ==
  /\ stop.phase = "call"
  /\ stop.todo = {}
  /\ stop' = [stop EXCEPT !.phase = "stopped"]
  /\ linkUp' = FALSE
  /\ awaited' = {}
  /\ UNCHANGED <<closed, table, chans, pc, sync, result, async, rd, panics>>

-----------------------------------------------------------------------------
Invoker(c) ==
  \/ InvokeStart(c) \/ AddCheck(c) \/ AddLimit(c) \/ AddInc(c)
  \/ AddCh(c) \/ AddCallback(c) \/ AddUndo(c)
  \/ InvokeSend(c) \/ InvokeReceive(c) \/ InvokeGiveUp(c)
  \/ DeferDelCh(c) \/ DeferDrain(c) \/ DeferDec(c) \/ DeferProbe(c)
  \/ AsyncSend(c) \/ AsyncDrop(c) \/ AsyncDropDec(c)
  \/ AsyncTimeout(c) \/ AsyncFire(c) \/ AsyncDone(c)

Deliverer(r) ==
  \/ \E c \in Calls : DeliverTake(r, c)
  \/ DeliverDec(r) \/ DeliverSend(r) \/ DeliverCall(r)

Stopper ==
  \/ CloseBegin
  \/ \E s \in Shards : CloseSweep(s)
  \/ CloseReset
  \/ \E c \in AsyncCalls : CloseCall(c)
  \/ CloseLink

Running == panics = {}

Next ==
  /\ Running
  /\ \/ \E c \in Calls : Invoker(c)
     \/ \E r \in Readers : Deliverer(r)
     \/ Stopper

Spec == Init /\ [][Next]_vars

\* Go schedules every runnable goroutine: a call past its first step, a
\* deliver that took an entry and a started closeAll make progress.  Nobody
\* is obliged to start a call, to answer a request or to call Stop.
Progress ==
  /\ \A c \in Calls : WF_vars(Running /\ pc[c] # "idle" /\ Invoker(c))
  /\ \A r \in Readers :
        WF_vars(Running /\ (DeliverDec(r) \/ DeliverSend(r) \/ DeliverCall(r)))
  /\ WF_vars(Running /\ closed /\ Stopper)

FairSpec == Spec /\ Progress

-----------------------------------------------------------------------------
(* Type invariant *)

SyncOnly  == {"wait", "del", "drain", "dec", "probe"}
AsyncOnly == {"wait", "drop", "dropdec", "failed", "fire"}
Common    == {"idle", "check", "limit", "inc", "lock", "undo", "send", "done"}
Outcomes  == {"none", "closed", "full", "encode", "internal", "success",
              "error", "timeout", "canceled"}

TableType ==
  /\ closed \in BOOLEAN
  /\ count \in Int
  /\ chMap \in [SyncCalls -> Chans \cup {NoChan}]
  /\ cbMap \subseteq AsyncCalls
  /\ awaited \subseteq Calls

ChansType ==
  /\ made \subseteq Chans
  /\ pool \in [Chans -> Nat]
  /\ buf \in [Chans -> SyncCalls \cup {NoCall}]
  /\ shut \subseteq Chans

PcType ==
  /\ pc \in [Calls -> Common \cup SyncOnly \cup AsyncOnly]
  /\ \A c \in SyncCalls : pc[c] \in Common \cup SyncOnly
  /\ \A c \in AsyncCalls : pc[c] \in Common \cup AsyncOnly

CallsType ==
  /\ ch \in [SyncCalls -> Chans \cup {NoChan}]
  /\ got \in [SyncCalls -> SyncCalls \cup {NoCall}]
  /\ called \in [AsyncCalls -> Nat]
  /\ doneCh \subseteq AsyncCalls

ResultType ==
  /\ outcome \in [Calls -> Outcomes]
  /\ counted \subseteq Calls

ReadersType ==
  rd \in [Readers -> [at : {"idle", "dec", "hand"},
                      id : Calls \cup {NoCall},
                      chan : Chans \cup {NoChan}]]

StopType ==
  /\ stop \in [phase : {"open", "sweep", "call", "stopped"},
               swept : SUBSET Shards, todo : SUBSET AsyncCalls]
  /\ linkUp \in BOOLEAN
  /\ panics \subseteq {"send on closed channel", "close of closed doneCh"}

\* Every variable stays in its type.
TypeOK == /\ TableType /\ ChansType /\ PcType /\ CallsType /\ ResultType
          /\ ReadersType /\ StopType

-----------------------------------------------------------------------------
(* Safety *)

Entries == {c \in SyncCalls : chMap[c] # NoChan} \cup cbMap

\* A sync call holds a channel from addCh's Get until the Put of its defer.
Holds(c) == pc[c] \in {"send", "wait", "del", "drain", "probe"}

\* No channel of the pool is in use twice: two live Invokes never share one,
\* a channel in use is not in the pool, and none is put back twice, whoever
\* removed the entry (the deferred function of Invoke, pending.go:78-100).
ChanExclusive ==
  /\ \A c, d \in SyncCalls : Holds(c) /\ Holds(d) /\ c # d => ch[c] # ch[d]
  /\ \A c \in SyncCalls : Holds(c) => pool[ch[c]] = 0
  /\ \A x \in Chans : pool[x] <= 1

\* closeAll misses nobody: a swept shard stays empty although calls that
\* passed the first closed check may still be on their way into it (the
\* second check of addCh and addCallback, under the shard lock).
NothingLeftBehind ==
  \A c \in Entries : ShardOf[c] \notin stop.swept

\* The closure of an async call is run by one of deliver, closeAll and the
\* timeout, never by two of them: doneCh is never closed twice.
ClosureRunsOnce == "close of closed doneCh" \notin panics

\* The user's callback runs at most once if the request was sent, however
\* response, timeout and Stop race (takeCallback, deliver, closeAll).
CallbackOnceIfSent ==
  \A c \in AsyncCalls :
    called[c] > 1 => pc[c] \in {"drop", "dropdec", "failed"}

\* Response, timeout and Stop race for an async call, and it ends once: one closure,
\* one callback (takeCallback, deliver, closeAll).
AsyncEndsOnce == ClosureRunsOnce /\ CallbackOnceIfSent

\* Until Stop the counter never falls below the number of entries, so that the
\* limit can refuse a call too many but is never left unenforced by drift.
CountCoversEntries ==
  ~closed => Cardinality(Entries) <= count

\* No response reaches a foreign call unless some call timed out or was
\* cancelled: the channel pool alone never mixes up two calls.
CrossTalkNeedsGiveUp ==
  (\E c \in SyncCalls : got[c] \notin {NoCall, c})
    => \E d \in SyncCalls : outcome[d] \in {"timeout", "canceled"}

-----------------------------------------------------------------------------
(* The table implements OnceTable: an id enters at most once, only while the
   table is open, and leaves at most once. *)

Entered(c) == pc[c] \notin {"idle", "check", "limit", "inc", "lock", "undo"}
              /\ ~(pc[c] = "done" /\ outcome[c] \in {"closed", "full", "encode"})

Status == [c \in Calls |-> CASE c \in Entries -> "waiting"
                              [] c \notin Entries /\ Entered(c) -> "settled"
                              [] OTHER -> "new"]

Once == INSTANCE OnceTable WITH Ids <- Calls, status <- Status, open <- ~closed

\* Every step of the table is a step of OnceTable or leaves it unchanged.
ImplementsOnceTable == Once!Spec

-----------------------------------------------------------------------------
(* Liveness *)

\* Every Invoke that began returns (the timer is always armed, and the deferred
\* function never blocks), and whoever takes the entry of an async call, its callback
\* is eventually run.
CallsEnd ==
  <>[](~Running \/ /\ \A c \in SyncCalls : pc[c] \in {"idle", "done"}
                   /\ \A c \in AsyncCalls : Entered(c) => called[c] > 0)

-----------------------------------------------------------------------------
(* What comments say and the code does not do *)

\* pending.go:178: deliver hands a response to the waiter of its own id.
OwnResponse == \A c \in SyncCalls : got[c] \in {NoCall, c}
=============================================================================
