------------------------------ MODULE ReadPath ------------------------------
(***************************************************************************)
(* kknet/kkprocessor: from the bytes a connection reads to its handler.    *)
(* The goroutine that reads cuts the bytes into packets (PacketSpliter, or *)
(* SplitSR where gnet buffers them) and gives the packets to one of three  *)
(* processors: "thread" (ReadProcessor: a queue and a consumer goroutine   *)
(* it wakes), "worker" (WorkerReadProcessor: the jobs of a WorkerQueue) or *)
(* "sync" (SyncReadProcessor: the handler runs where the bytes are read).  *)
(* Another goroutine stops the processor.                                  *)
(***************************************************************************)
EXTENDS Packets

CONSTANTS
    Peer,           \* the bodies of the messages the peer sends, one after the other
    ReadKinds,      \* the processors, a subset of {"thread", "worker", "sync"}
    RecvLimits,     \* values of RecvQueueSize under RecvQueueStrict, 0 for no limit
    DefaultRecvBuf, \* defaultRecvBufSize
    ShrinkCap,      \* RecvBufShrinkCap
    RecvBatch,      \* batchBufSize
    Reused          \* the pool gives the buffer that was put back to the next who asks

\* What the peer sends, Pack accepts; a batch takes something.
ASSUME ReadSizes ==
    /\ Base \in Nat \ {0} /\ LengthBytes \in Nat \ {0} /\ MaxPacketSize \in Nat
    /\ RecvLimits \subseteq Nat /\ RecvBatch \in Nat \ {0}
    /\ Peer \in Seq(Seq(0 .. Base - 1))
    /\ \A i \in DOMAIN Peer : Len(Peer[i]) <= MaxPacketSize - LengthBytes
\* The length field holds the length of every packet: NewLengthFieldStreamPacket refuses a
\* maximum that it does not.
ASSUME LengthsFit ==
    \A n \in 0 .. MaxPacketSize - LengthBytes : Number(Digits(n, LengthBytes)) = n

VARIABLES
    rk, recvLimit, readStarted, entry,  \* processor, limit, Start was called, "bytes" or "packet"
    arrived,    \* bytes of the stream read so far
    recvBuf,    \* PacketSpliter.recvBuf, or what gnet holds back
    recvCap,    \* its capacity, 0 for a nil buffer
    readPc,     \* where the reading goroutine is
    prepared,   \* the packets it has to hand over
    recvQueue, wakeCh, consumerPc, recvd,   \* queue, its wake-up, the consumer and its batch
    readClosing, closeSig, readStopPc,      \* closing, closeCh, the goroutine that stops
    accepted,   \* packets that were accepted, in order
    handled,    \* packets the handler was called with, in order
    fullCalls   \* RecvQueueFullCallback was called

readVars == <<rk, recvLimit, readStarted, entry, arrived, recvBuf, recvCap, readPc, prepared, recvQueue,
              wakeCh, consumerPc, recvd, readClosing, closeSig, readStopPc, accepted, handled, fullCalls>>
setup   == <<rk, recvLimit, readStarted, entry>>
buffer  == <<arrived, recvBuf, recvCap>>
consumer == <<wakeCh, consumerPc, recvd>>
stopping == <<readClosing, closeSig, readStopPc>>

Sent   == [i \in DOMAIN Peer |-> Pack(Peer[i])]
Stream == FlattenSeq(Sent)

ReadInit ==
    /\ rk \in ReadKinds /\ recvLimit \in RecvLimits /\ readStarted \in BOOLEAN /\ entry \in {"bytes", "packet"}
    /\ arrived = 0 /\ recvBuf = <<>> /\ recvCap = 0
    /\ readPc = "read" /\ prepared = <<>>
    /\ recvQueue = <<>> /\ wakeCh = FALSE /\ recvd = <<>>
    /\ consumerPc = IF readStarted THEN "select" ELSE "none"
    /\ readClosing = FALSE /\ closeSig = FALSE /\ readStopPc = "idle"
    /\ accepted = <<>> /\ handled = <<>> /\ fullCalls = FALSE
---------------------------------------------------------------------------
(* PacketSpliter.Split.  The packets and the rest lie in recvBuf when it   *)
(* held a rest before, and in the read buffer otherwise.  A new rest goes  *)
(* to the front of a buffer from the pool, to which recvBuf was put back   *)
(* just before; a buffer grown large is put back when nothing is left.     *)
Splitted(data) ==
    LET bytes == recvBuf \o data
        s == Split(bytes)
        rest == From(bytes, Len(bytes) - s.left + 1)
        grown == IF recvBuf = <<>> THEN recvCap ELSE IF Len(bytes) > recvCap THEN Len(bytes) ELSE recvCap
        overwritten == rest \o From(bytes, Len(rest) + 1)
        shrunk == rest = <<>> /\ grown > ShrinkCap
    IN  [packets |-> IF recvBuf # <<>> /\ rest # <<>> /\ Reused THEN Cut(overwritten, s.packets)
                     ELSE Cut(bytes, s.packets),
         rest |-> IF s.err THEN <<>> ELSE rest, err |-> s.err,
         cap |-> IF s.err THEN grown ELSE IF rest # <<>> THEN DefaultRecvBuf + Len(rest) ELSE IF shrunk THEN 0 ELSE grown]

(* SplitSR in the loop of OnTraffic: gnet keeps the bytes of the rest. *)
Peeled(data) ==
    LET s == SplitSR(recvBuf \o data)
    IN  [packets |-> IF s.ok THEN <<s.packet>> ELSE <<>>, err |-> s.err, cap |-> recvCap,
         rest |-> IF s.ok THEN From(recvBuf \o data, Len(s.packet) + 1) ELSE recvBuf \o data]

(* Some more bytes, n of them, arrive; OnRecvBytes, or OnTraffic, starts. *)
OnRecvBytes(n) ==
    LET data == SubSeq(Stream, arrived + 1, arrived + n)
        r == IF entry = "bytes" THEN Splitted(data) ELSE Peeled(data)
    IN  /\ readPc = "read" /\ readStarted /\ arrived + n <= Len(Stream)
        /\ n > 0 \/ (entry = "packet" /\ SplitSR(recvBuf).ok)
        /\ arrived' = arrived + n
        /\ IF readClosing /\ entry = "bytes" THEN UNCHANGED <<recvBuf, recvCap, prepared, readPc>>
           ELSE /\ recvBuf' = r.rest /\ recvCap' = r.cap
                /\ prepared' = IF r.err \/ readClosing THEN <<>> ELSE r.packets
                /\ readPc' = IF r.err THEN "failed"
                             ELSE IF r.packets = <<>> \/ readClosing THEN "read"
                             ELSE IF rk = "sync" THEN "lock" ELSE "push"
        /\ UNCHANGED <<setup, recvQueue, consumer, stopping, accepted, handled, fullCalls>>

(* What fits into a queue that holds n already. *)
Room(n) == IF recvLimit = 0 THEN Len(prepared)
           ELSE IF n + Len(prepared) <= recvLimit THEN Len(prepared) ELSE recvLimit - n

(* ReadProcessor: one critical section for all the packets, which looks at *)
(* closing again.  The consumer is woken after it. *)
PushAllUnchecked ==
    LET k == Room(Len(recvQueue))
    IN  /\ readPc = "push" /\ rk = "thread" /\ prepared' = <<>>
        /\ recvQueue' = recvQueue \o SubSeq(prepared, 1, k)
        /\ accepted' = accepted \o SubSeq(prepared, 1, k)
        /\ fullCalls' = (fullCalls \/ k < Len(prepared))
        /\ readPc' = IF recvQueue = <<>> /\ k > 0 THEN (IF k < Len(prepared) THEN "wakefail" ELSE "wake")
                     ELSE IF k < Len(prepared) THEN "failed" ELSE "read"
        /\ UNCHANGED <<setup, buffer, consumer, stopping, handled>>
PushAll ==
    LET k == IF readClosing THEN 0 ELSE Room(Len(recvQueue))
        full == ~readClosing /\ k < Len(prepared)
    IN  /\ readPc = "push" /\ rk = "thread" /\ prepared' = <<>>
        /\ recvQueue' = recvQueue \o SubSeq(prepared, 1, k)
        /\ accepted' = accepted \o SubSeq(prepared, 1, k)
        /\ fullCalls' = (fullCalls \/ full)
        /\ readPc' = IF recvQueue = <<>> /\ k > 0 THEN (IF full THEN "wakefail" ELSE "wake")
                     ELSE IF full THEN "failed" ELSE "read"
        /\ UNCHANGED <<setup, buffer, consumer, stopping, handled>>
wakeConsumerWaiting ==
    /\ readPc \in {"wake", "wakefail"} /\ wakeCh' = (consumerPc = "select")
    /\ readPc' = IF readPc = "wake" THEN "read" ELSE "failed"
    /\ UNCHANGED <<setup, buffer, prepared, recvQueue, consumerPc, recvd, stopping, accepted, handled, fullCalls>>
wakeConsumer ==
    /\ readPc \in {"wake", "wakefail"} /\ wakeCh' = TRUE
    /\ readPc' = IF readPc = "wake" THEN "read" ELSE "failed"
    /\ UNCHANGED <<setup, buffer, prepared, recvQueue, consumerPc, recvd, stopping, accepted, handled, fullCalls>>

(* The consumer: it is woken or told to drain what is left, takes batches  *)
(* until the queue is empty and calls the handler with one after another.  *)
ConsumerWakes ==
    /\ consumerPc = "select" /\ rk = "thread"
    /\ \/ wakeCh /\ wakeCh' = FALSE /\ consumerPc' = "drain"
       \/ closeSig /\ consumerPc' = "final" /\ UNCHANGED wakeCh
    /\ UNCHANGED <<setup, buffer, readPc, prepared, recvQueue, recvd, stopping, accepted, handled, fullCalls>>
DrainTakes ==
    LET n == IF Len(recvQueue) < RecvBatch THEN Len(recvQueue) ELSE RecvBatch
    IN  /\ consumerPc \in {"drain", "final"} /\ recvd = <<>>
        /\ recvd' = SubSeq(recvQueue, 1, n) /\ recvQueue' = From(recvQueue, n + 1)
        /\ consumerPc' = IF n > 0 THEN consumerPc ELSE IF consumerPc = "drain" THEN "back" ELSE "done"
        /\ UNCHANGED <<setup, buffer, readPc, prepared, wakeCh, stopping, accepted, handled, fullCalls>>
ConsumerWaits ==
    /\ consumerPc = "back" /\ consumerPc' = "select"
    /\ UNCHANGED <<setup, buffer, readPc, prepared, recvQueue, wakeCh, recvd, stopping, accepted, handled, fullCalls>>
DrainCalls ==
    /\ recvd # <<>> /\ handled' = Append(handled, Head(recvd)) /\ recvd' = Tail(recvd)
    /\ UNCHANGED <<setup, buffer, readPc, prepared, recvQueue, wakeCh, consumerPc, stopping, accepted, fullCalls>>

(* WorkerReadProcessor: every packet asks for room, looks at closing again *)
(* and becomes a job.  One worker takes the jobs.  Nobody waits for it.    *)
submitTask ==
    LET full == recvLimit > 0 /\ Len(recvQueue) >= recvLimit
        next == IF Len(prepared) = 1 THEN "read" ELSE "push"
    IN  /\ readPc = "push" /\ rk = "worker"
        /\ prepared' = IF full THEN <<>> ELSE Tail(prepared)
        /\ readPc' = IF full THEN "failed" ELSE next
        /\ fullCalls' = (fullCalls \/ full)
        /\ IF full \/ readClosing THEN UNCHANGED <<recvQueue, accepted>>
           ELSE recvQueue' = Append(recvQueue, Head(prepared)) /\ accepted' = Append(accepted, Head(prepared))
        /\ UNCHANGED <<setup, buffer, consumer, stopping, handled>>
WorkerRuns ==
    /\ rk = "worker"
    /\ \/ recvd = <<>> /\ recvQueue # <<>> /\ recvd' = <<Head(recvQueue)>> /\ recvQueue' = Tail(recvQueue)
          /\ UNCHANGED handled
       \/ recvd # <<>> /\ recvd' = <<>> /\ handled' = handled \o recvd /\ UNCHANGED recvQueue
    /\ UNCHANGED <<setup, buffer, readPc, prepared, wakeCh, consumerPc, stopping, accepted, fullCalls>>

(* SyncReadProcessor: closing is looked at again under the lock, which is  *)
(* held while the handler is called with one packet after the other. *)
SyncLocks ==
    /\ readPc = "lock" /\ readStopPc # "locked"
    /\ IF readClosing THEN readPc' = "read" /\ prepared' = <<>> /\ UNCHANGED accepted
       ELSE readPc' = "call" /\ accepted' = accepted \o prepared /\ UNCHANGED prepared
    /\ UNCHANGED <<setup, buffer, recvQueue, consumer, stopping, handled, fullCalls>>
SyncCalls ==
    /\ readPc = "call" /\ handled' = Append(handled, Head(prepared)) /\ prepared' = Tail(prepared)
    /\ readPc' = IF Len(prepared) = 1 THEN "read" ELSE "call"
    /\ UNCHANGED <<setup, buffer, recvQueue, consumer, stopping, accepted, fullCalls>>

(* Stop.  A ReadProcessor waits for its consumer, if it ever had one; a    *)
(* SyncReadProcessor takes the lock once; a WorkerReadProcessor returns.   *)
StopMarks ==
    /\ readStopPc = "idle" /\ readClosing' = TRUE
    /\ readStopPc' = IF rk = "worker" THEN "returned" ELSE "marked"
    /\ UNCHANGED <<setup, buffer, readPc, prepared, recvQueue, consumer, closeSig, accepted, handled, fullCalls>>
StopSignals ==
    /\ readStopPc = "marked" /\ rk = "thread" /\ closeSig' = TRUE /\ readStopPc' = "wait"
    /\ UNCHANGED <<setup, buffer, readPc, prepared, recvQueue, consumer, readClosing, accepted, handled, fullCalls>>
ReadStopReturns ==
    /\ \/ readStopPc = "wait" /\ consumerPc \in {"done", "none"}
       \/ readStopPc = "marked" /\ rk = "sync" /\ readPc # "call"
    /\ readStopPc' = "returned"
    /\ UNCHANGED <<setup, buffer, readPc, prepared, recvQueue, consumer, readClosing, closeSig, accepted, handled, fullCalls>>

ReadSteps == PushAll \/ wakeConsumer \/ submitTask \/ SyncLocks \/ SyncCalls
Deliver == ConsumerWakes \/ DrainTakes \/ ConsumerWaits \/ DrainCalls \/ WorkerRuns
ReadStopper == StopSignals \/ ReadStopReturns
ReadNext ==
    \/ \E n \in 0 .. Len(Stream) : OnRecvBytes(n)
    \/ ReadSteps \/ Deliver \/ StopMarks \/ ReadStopper
ReadFairness == WF_readVars(ReadSteps) /\ WF_readVars(Deliver) /\ WF_readVars(ReadStopper)
ReadSpec == ReadInit /\ [][ReadNext]_readVars
---------------------------------------------------------------------------
(* The handler is called with the packets of the peer, whole, in order and *)
(* without a gap, however the bytes are cut up when they are read.         *)
PacketsIntact == IsPrefix(handled, Sent)

(* And when Stop has returned, nothing that was accepted is still to be    *)
(* handled, nor will anything be accepted: the consumer goroutine and the  *)
(* handler that is called in place are through. *)
ReadStops == PacketsIntact /\ (readStopPc = "returned" /\ rk # "worker" => handled = accepted)

(* What a processor accepts reaches the handler in the end, wherever Stop  *)
(* comes in, and Stop returns. *)
ReadSettles == <>[](handled = accepted /\ readStopPc \in {"idle", "returned"})
=============================================================================
