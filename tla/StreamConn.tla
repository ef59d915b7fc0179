----------------------------- MODULE StreamConn -----------------------------
(***************************************************************************)
(* kknet/kktcp gnetConn and kknet/kkgws gwsConn: a connection whose writes *)
(* are handed to the event loop (gnet) or to the socket's write queue      *)
(* (gws) and which has no write processor.  A sender queues its packet     *)
(* and, when nobody is draining, drains itself: it pops a batch and hands  *)
(* it over; the callback of the write drains on.  Close lets the queue     *)
(* empty first, until a deadline, and then stops the read processor.       *)
(*                                                                         *)
(* closeMu's critical sections are one step.  A packet is <<sender, n>>.   *)
(***************************************************************************)
EXTENDS Integers, Sequences, FiniteSets, SequencesExt

CONSTANTS
    Writers,        \* goroutines that send
    Packets,        \* packets of each
    SendQueueSize,  \* SendQueueSize, strict
    BatchPackets,   \* BatchPacketSize
    RetryMax,       \* SendQueueRetryMaxCount
    Deliveries      \* messages the read processor hands over

ASSUME StreamAssumption ==
    /\ Writers \cap {"app", "reader", "loop", "events"} = {}
    /\ BatchPackets \in Nat \ {0}        \* kknet.BatchPacketSize, a positive constant
    /\ {Packets, SendQueueSize, RetryMax, Deliveries} \subseteq Nat

App == "app"            \* a goroutine that closes the connection
Reader == "reader"      \* the goroutine that calls OnRaw, which may close it
Loop == "loop"          \* the event loop, or the write queue of the socket
Events == "events"      \* gnet's OnClose goroutine, gws's read loop
Procs == Writers \union {App, Reader, Loop, Events}

VARIABLES
    kind,           \* "gnet" or "gws"
    needFlush,      \* SendQueueNeedFlushOver
    retry,          \* SendQueueFullAction is Retry
    reading,        \* the read processor: "thread", "worker" or "sync"
    pc,
    sent,           \* packets each writer has offered
    retries,        \* the retries of the packet it offers
    isClosing,
    sendQueue,
    draining,
    flight,         \* drainBatch
    posted,         \* the batch is with the event loop
    late,           \* the deadline of the flush has passed
    sockOpen,
    told,           \* the loss of the connection was told to the handler
    once,           \* stopReadOnce (gnet), closeOnce (gws): "no", "running", "done"
    handed,         \* messages handed to OnRaw
    queued,         \* packets that entered the queue, in order
    written,        \* packets written, in order
    onCloses,       \* calls of the handler's OnClose
    broken,         \* a write failed or the peer closed
    selfClosed      \* OnRaw closed its own connection

streamVars == <<kind, needFlush, retry, reading, pc, sent, retries, isClosing, sendQueue, draining, flight, posted, late,
                sockOpen, told, once, handed, queued, written, onCloses, broken, selfClosed>>
modes == <<kind, needFlush, retry, reading>>

StreamInit ==
    /\ kind \in {"gnet", "gws"} /\ needFlush \in BOOLEAN /\ retry \in BOOLEAN /\ reading \in {"thread", "worker", "sync"}
    /\ pc = [p \in Procs |-> "idle"]
    /\ sent = [w \in Writers |-> 0] /\ retries = [w \in Writers |-> 0]
    /\ isClosing = FALSE /\ sendQueue = <<>> /\ draining = FALSE /\ flight = <<>> /\ posted = FALSE
    /\ late = FALSE /\ sockOpen = TRUE /\ told = FALSE /\ once = "no" /\ handed = 0
    /\ queued = <<>> /\ written = <<>> /\ onCloses = 0 /\ broken = FALSE /\ selfClosed = FALSE

waits == reading # "worker"         \* its Stop waits for the OnRaw in progress
(* Under gnet the synchronous read processor calls OnRaw on the event loop. *)
LoopFree == pc[Loop] = "idle" /\ (kind = "gnet" /\ reading = "sync" => pc[Reader] = "idle")

Goto(p, l) == pc' = [pc EXCEPT ![p] = l]
(* closeCond.Broadcast: p goes to l, the closers that sleep look again. *)
Broadcast(p, l) ==
    pc' = [q \in Procs |-> IF q = p THEN l ELSE IF pc[q] = "asleep" THEN "flush" ELSE pc[q]]
OfConn == <<sockOpen, told, once, handed, onCloses, broken, selfClosed>>

---------------------------------------------------------------------------
(* Sending *)

(* The packet enters the queue; the writer drains if nobody does. *)
QueuedDrains(w) ==      \* every writer drains for itself
    /\ sendQueue' = Append(sendQueue, <<w, sent[w]>>) /\ queued' = Append(queued, <<w, sent[w]>>)
    /\ draining' = TRUE /\ Goto(w, "drain")
Queued(w) ==
    /\ sendQueue' = Append(sendQueue, <<w, sent[w]>>) /\ queued' = Append(queued, <<w, sent[w]>>)
    /\ draining' = TRUE
    /\ Goto(w, IF draining THEN "idle" ELSE "drain")
Offers(w) ==
    /\ pc[w] = "idle" /\ sent[w] < Packets
    /\ sent' = [sent EXCEPT ![w] = @ + 1] /\ retries' = [retries EXCEPT ![w] = 0] /\ Goto(w, "offer")
    /\ UNCHANGED <<isClosing, sendQueue, draining, flight, posted, late, queued, written>> /\ UNCHANGED <<modes, OfConn>>

sendBufferDrop(w) ==
    /\ pc[w] = "offer" /\ ~retry
    /\ \/ (isClosing \/ Len(sendQueue) = SendQueueSize) /\ Goto(w, "idle") /\ UNCHANGED <<sendQueue, draining, queued>>
       \/ ~isClosing /\ Len(sendQueue) < SendQueueSize /\ Queued(w)
    /\ UNCHANGED <<sent, retries, isClosing, flight, posted, late, written>> /\ UNCHANGED <<modes, OfConn>>

sendBufferRetry(w) ==
    /\ pc[w] = "offer" /\ retry
    /\ \/ isClosing /\ Goto(w, "idle") /\ UNCHANGED <<retries, sendQueue, draining, queued>>
       \/ ~isClosing /\ Len(sendQueue) < SendQueueSize /\ Queued(w) /\ UNCHANGED retries
       \/ /\ ~isClosing /\ Len(sendQueue) = SendQueueSize
          /\ retries' = [retries EXCEPT ![w] = @ + 1]
          /\ Goto(w, IF retries[w] + 1 = RetryMax THEN "idle" ELSE "offer")
          /\ UNCHANGED <<sendQueue, draining, queued>>
    /\ UNCHANGED <<sent, isClosing, flight, posted, late, written>> /\ UNCHANGED <<modes, OfConn>>

(* startDrain: the first critical section, then the hand-over.             *)
startDrain(p) ==
    LET n == IF Len(sendQueue) < BatchPackets THEN Len(sendQueue) ELSE BatchPackets
    IN  /\ pc[p] = "drain"
        /\ \/ n = 0 /\ draining' = FALSE /\ Broadcast(p, "idle") /\ UNCHANGED <<sendQueue, flight>>
           \/ /\ n > 0 /\ flight' = SubSeq(sendQueue, 1, n) /\ sendQueue' = SubSeq(sendQueue, n + 1, Len(sendQueue))
              /\ Goto(p, "write") /\ UNCHANGED draining
        /\ UNCHANGED <<sent, retries, isClosing, posted, late, queued, written>> /\ UNCHANGED <<modes, OfConn>>

(* AsyncWritev refuses on a connection gnet has closed. *)
GnetWrites(p) ==
    /\ kind = "gnet" /\ pc[p] = "write"
    /\ \/ posted' = TRUE /\ Goto(p, "idle") /\ UNCHANGED flight
       \/ ~sockOpen /\ flight' = <<>> /\ Goto(p, "failed") /\ UNCHANGED posted
    /\ UNCHANGED <<sent, retries, isClosing, sendQueue, draining, late, queued, written>> /\ UNCHANGED <<modes, OfConn>>
GwsWrites(p) ==
    /\ kind = "gws" /\ pc[p] = "write" /\ posted' = TRUE /\ Goto(p, "idle")
    /\ UNCHANGED <<sent, retries, isClosing, sendQueue, draining, flight, late, queued, written>> /\ UNCHANGED <<modes, OfConn>>

(* The callback of the write, with its error. *)
WriteDone ==
    /\ posted /\ LoopFree /\ posted' = FALSE /\ flight' = <<>>
    /\ \/ ~told /\ written' = written \o flight /\ Goto(Loop, "more") /\ UNCHANGED broken
       \/ Goto(Loop, "failed") /\ broken' = TRUE /\ UNCHANGED written
    /\ UNCHANGED <<sent, retries, isClosing, sendQueue, draining, late, queued, sockOpen, told, once, handed, onCloses, selfClosed>>
    /\ UNCHANGED modes
DrainsOnDrops ==        \* a callback that ends the drain whatever the queue holds
    /\ pc[Loop] = "more" /\ draining' = FALSE /\ Broadcast(Loop, "idle")
    /\ UNCHANGED <<sent, retries, isClosing, sendQueue, flight, posted, late, queued, written>> /\ UNCHANGED <<modes, OfConn>>

DrainsOn ==
    /\ pc[Loop] = "more"
    /\ \/ sendQueue # <<>> /\ Goto(Loop, "drain") /\ UNCHANGED draining
       \/ sendQueue = <<>> /\ draining' = FALSE /\ Broadcast(Loop, "idle")
    /\ UNCHANGED <<sent, retries, isClosing, sendQueue, flight, posted, late, queued, written>> /\ UNCHANGED <<modes, OfConn>>
(* handleWriteError: closing, then the queue, then the connection. *)
WriteFailed(p) ==
    /\ pc[p] = "failed" /\ isClosing' = TRUE /\ broken' = TRUE
    /\ Goto(p, IF kind = "gnet" THEN "failedDrop" ELSE "doClose")
    /\ sockOpen' = (sockOpen /\ kind = "gnet")
    /\ UNCHANGED <<sent, retries, sendQueue, draining, flight, posted, late, queued, written, told, once, handed, onCloses, selfClosed>>
    /\ UNCHANGED modes

dropQueuedBuffers(p, l) == sendQueue' = <<>> /\ draining' = FALSE /\ Broadcast(p, l)
Drops(p) ==
    /\ \/ pc[p] = "failedDrop" /\ dropQueuedBuffers(p, "idle") /\ sockOpen' = FALSE     \* gnet handleWriteError
       \/ pc[p] = "drop" /\ dropQueuedBuffers(p, "shut") /\ UNCHANGED sockOpen          \* Close
       \/ pc[p] = "lostDrop" /\ dropQueuedBuffers(p, "stopAsync") /\ UNCHANGED sockOpen \* handleUnderlyingClose
       \/ pc[p] = "dropOnce" /\ dropQueuedBuffers(p, "stopRead") /\ UNCHANGED sockOpen  \* doClose
    /\ UNCHANGED <<sent, retries, isClosing, flight, posted, late, queued, written, told, once, handed, onCloses, broken, selfClosed>>
    /\ UNCHANGED modes

---------------------------------------------------------------------------
(* Close *)
Close(p) ==
    /\ p \in {App, Reader} /\ pc[p] = (IF p = App THEN "idle" ELSE "onRaw")
    /\ isClosing' = TRUE /\ selfClosed' = (selfClosed \/ (p = Reader /\ ~isClosing /\ waits))
    /\ Goto(p, IF isClosing THEN IF p = App THEN "done" ELSE "idle" ELSE IF needFlush THEN "flush" ELSE "drop")
    /\ UNCHANGED <<sent, retries, sendQueue, draining, flight, posted, late, queued, written, sockOpen, told, once, handed, onCloses, broken>>
    /\ UNCHANGED modes
(* The wait for the queue, to the deadline. *)
Flushes(p) ==
    /\ pc[p] = "flush"
    /\ Goto(p, IF sendQueue = <<>> /\ ~draining THEN "shut" ELSE IF late THEN "drop" ELSE "asleep")
    /\ UNCHANGED <<sent, retries, isClosing, sendQueue, draining, flight, posted, late, queued, written>> /\ UNCHANGED <<modes, OfConn>>
DeadlinePasses ==
    /\ \E p \in Procs : pc[p] = "asleep" /\ Broadcast(p, "flush")
    /\ late' = TRUE
    /\ UNCHANGED <<sent, retries, isClosing, sendQueue, draining, flight, posted, queued, written>> /\ UNCHANGED <<modes, OfConn>>

(* gnetConn: conn.Close, then stopReadAndWait.  gwsConn: WriteClose, doClose. *)
Shuts(p) ==
    /\ pc[p] = "shut" /\ sockOpen' = FALSE /\ Goto(p, IF kind = "gnet" THEN "stopWait" ELSE "doClose")
    /\ UNCHANGED <<sent, retries, isClosing, sendQueue, draining, flight, posted, late, queued, written, told, once, handed, onCloses, broken, selfClosed>>
    /\ UNCHANGED modes

(* Where a caller goes after Close or after the handler of the loss. *)
Returned(p) == IF p = App THEN "done" ELSE "idle"

(* gnet: sync.Once lets one caller run stopRead; the others wait inside Do. *)
stopReadAndWait(p) ==
    /\ kind = "gnet" /\ pc[p] = "stopWait"
    /\ \/ once = "no" /\ once' = "running" /\ Goto(p, "stopRead") /\ UNCHANGED onCloses
       \/ once = "done" /\ UNCHANGED once /\ Goto(p, Returned(p))
          /\ onCloses' = onCloses + (IF p = Events THEN 1 ELSE 0)
    /\ UNCHANGED <<sent, retries, isClosing, sendQueue, draining, flight, posted, late, queued, written, sockOpen, told, handed, broken, selfClosed>>
    /\ UNCHANGED modes
(* stopReadAsync: a goroutine of its own runs stopRead, inside Do or after it. *)
stopReadAsync ==
    /\ kind = "gnet" /\ pc[Loop] = "stopAsync" /\ once # "running"
    /\ once' = IF once = "no" THEN "spawned" ELSE once
    /\ pc' = [pc EXCEPT ![Loop] = "idle", ![Events] = "stopWait"]
    /\ UNCHANGED <<sent, retries, isClosing, sendQueue, draining, flight, posted, late, queued, written, sockOpen, told, handed, onCloses, broken, selfClosed>>
    /\ UNCHANGED modes
Spawned ==
    /\ once = "spawned" /\ (waits => pc[Reader] = "idle") /\ once' = "done"
    /\ UNCHANGED <<pc, sent, retries, isClosing, sendQueue, draining, flight, posted, late, queued, written, sockOpen, told, handed, onCloses, broken, selfClosed>>
    /\ UNCHANGED modes
(* rp.Stop waits for the call of OnRaw in progress. *)
stopRead(p) ==
    /\ pc[p] = "stopRead" /\ (waits => pc[Reader] = "idle") /\ once' = "done"
    /\ onCloses' = onCloses + (IF kind = "gws" THEN 1 ELSE 0)
    /\ Goto(p, Returned(p))
    /\ UNCHANGED <<sent, retries, isClosing, sendQueue, draining, flight, posted, late, queued, written, sockOpen, told, handed, broken, selfClosed>>
    /\ UNCHANGED modes

doClose(p) ==
    /\ kind = "gws" /\ pc[p] = "doClose"
    /\ \/ once = "no" /\ once' = "running" /\ isClosing' = TRUE /\ Goto(p, "dropOnce")
       \/ once = "done" /\ Goto(p, Returned(p)) /\ UNCHANGED <<once, isClosing>>
    /\ UNCHANGED <<sent, retries, sendQueue, draining, flight, posted, late, queued, written, sockOpen, told, handed, onCloses, broken, selfClosed>>
    /\ UNCHANGED modes
---------------------------------------------------------------------------
(* The connection and the reader *)
PeerLeaves ==
    /\ sockOpen /\ sockOpen' = FALSE /\ broken' = TRUE
    /\ UNCHANGED <<pc, sent, retries, isClosing, sendQueue, draining, flight, posted, late, queued, written, told, once, handed, onCloses, selfClosed>>
    /\ UNCHANGED modes
(* gnet's OnClose runs on the event loop, handleUnderlyingClose first.     *)
GnetOnClose ==
    /\ kind = "gnet" /\ ~sockOpen /\ ~told /\ LoopFree /\ told' = TRUE
    /\ isClosing' = TRUE /\ Goto(Loop, "lostDrop")
    /\ UNCHANGED <<sent, retries, sendQueue, draining, flight, posted, late, queued, written, sockOpen, once, handed, onCloses, broken, selfClosed>>
    /\ UNCHANGED modes
GwsOnClose ==
    /\ kind = "gws" /\ ~sockOpen /\ ~told /\ told' = TRUE /\ Goto(Events, "doClose")
    /\ UNCHANGED <<sent, retries, isClosing, sendQueue, draining, flight, posted, late, queued, written, sockOpen, once, handed, onCloses, broken, selfClosed>>
    /\ UNCHANGED modes

(* The read processor calls OnRaw until it is stopped.  (The read loop     *)
(* offers nothing once the connection closes.) *)
HandsOver ==
    /\ pc[Reader] = "idle" /\ handed < Deliveries /\ (once = "done" => ~waits) /\ handed' = handed + 1
    /\ Goto(Reader, "onRaw")
    /\ UNCHANGED <<sent, retries, isClosing, sendQueue, draining, flight, posted, late, queued, written, sockOpen, told, once, onCloses, broken, selfClosed>>
    /\ UNCHANGED modes
OnRawReturns ==
    /\ pc[Reader] = "onRaw" /\ Goto(Reader, "idle")
    /\ UNCHANGED <<sent, retries, isClosing, sendQueue, draining, flight, posted, late, queued, written>> /\ UNCHANGED <<modes, OfConn>>

StreamStep(p) ==
    /\ pc[p] # "idle"
    /\ \/ startDrain(p) \/ GnetWrites(p) \/ GwsWrites(p) \/ WriteFailed(p) \/ Drops(p)
       \/ Flushes(p) \/ Shuts(p) \/ stopReadAndWait(p) \/ stopRead(p) \/ doClose(p)
StreamNext ==
    \/ \E p \in Procs : StreamStep(p) \/ Close(p)
    \/ \E w \in Writers : Offers(w) \/ sendBufferDrop(w) \/ sendBufferRetry(w)
    \/ WriteDone \/ DrainsOn \/ DeadlinePasses \/ stopReadAsync \/ Spawned
    \/ PeerLeaves \/ GnetOnClose \/ GwsOnClose \/ HandsOver \/ OnRawReturns

Callbacks ==
    WriteDone \/ DrainsOn \/ stopReadAsync \/ Spawned \/ GnetOnClose \/ GwsOnClose \/ OnRawReturns

(* Goroutines run, the event loop turns, timers fire and OnRaw returns;    *)
(* nobody has to send, to close or to lose the connection.                 *)
StreamFairness ==
    /\ \A p \in Procs : WF_streamVars(StreamStep(p))
    /\ \A w \in Writers : WF_streamVars(sendBufferDrop(w) \/ sendBufferRetry(w))
    /\ WF_streamVars(Callbacks) /\ WF_streamVars(DeadlinePasses)
StreamSpec == StreamInit /\ [][StreamNext]_streamVars /\ StreamFairness

---------------------------------------------------------------------------
(* What is on the wire, in the batch and in the queue is always a beginning *)
(* of what was accepted, in that order, and all of it until somebody drops  *)
(* the queue; a queued packet always has somebody who drains or is about to *)
(* drop it; two batches are never under way on an open connection.          *)
Draining == {p \in Procs : pc[p] \in {"drain", "write"}}
OneDrain ==
    /\ IsPrefix(written \o flight \o sendQueue, queued) \/ (broken /\ IsPrefix(written, queued))
    /\ Cardinality(Draining) + (IF posted THEN 1 ELSE 0) + (IF pc[Loop] = "more" THEN 1 ELSE 0) <= 1
    /\ sendQueue # <<>> => draining \/ isClosing
(* A Close that waited for the queue and did not time out left nothing     *)
(* behind on a connection that did not break.                              *)
Flushed == needFlush /\ ~broken /\ ~late /\ (\E p \in Procs : pc[p] = "shut") => written = queued
(* OnClose is told once, and OnRaw is not called after it when the read    *)
(* processor's Stop waits.                                                 *)
CloseIsLast == onCloses <= 1 /\ (onCloses = 1 /\ waits => pc[Reader] # "onRaw")
ConnFlushes == OneDrain /\ Flushed /\ CloseIsLast

(* In the end nothing is queued, and whoever closes or sends has returned, *)
(* unless OnRaw closed its own connection and waits for itself.            *)
ConnSettles == <>[](sendQueue = <<>> /\ (selfClosed \/ \A p \in Procs : pc[p] \in {"idle", "done"}))
=============================================================================
