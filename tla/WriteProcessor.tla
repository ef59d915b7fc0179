---------------------------- MODULE WriteProcessor ----------------------------
(***************************************************************************)
(* kknet/kkprocessor/write_thread.go: one goroutine per connection sends    *)
(* what the producers of SendQueue push, and Stop ends it.                  *)
(*                                                                         *)
(* The grain is the code's: a locked section, a channel operation, an       *)
(* atomic store or one call of writeFn is a step.  writeFn is the writeBatch *)
(* of a connection (kktcptls/conn.go, kkws/ws_conn.go): PopMany and writeBatch  *)
(* use the same byte limit, so the whole batch is one write; a failing write   *)
(* may have put the first buffers of the batch on the wire, and releases       *)
(* none.  closeWithError is the caller of Stop: it closes the socket after      *)
(* Stop has returned.                                                       *)
(***************************************************************************)
EXTENDS SendQueue

VARIABLES
    wake,             \* wakeCh, one slot
    closeCh,          \* closed by Stop
    drained,          \* drainedCh is closed
    wpc,              \* where writeLoop is; "done" closes doneCh
    batch,            \* sendBatchBuffer
    attempt,          \* the retry of writeFn
    stopPc,           \* where the caller of Stop is
    connOpen,         \* the socket is open
    wire,             \* history: buffers on the wire
    failed            \* history: a call of writeFn failed

writerVars == <<wake, closeCh, drained, wpc, batch, attempt, wire, failed>>
stopVars == <<stopPc, connOpen>>
vars == <<opt, closing, sendVars, queueVars, writerVars, stopVars>>

Init ==
    /\ SendInit
    /\ wake = FALSE
    /\ closeCh = FALSE
    /\ drained = FALSE
    /\ wpc = "select"
    /\ batch = <<>>
    /\ attempt = 0
    /\ stopPc = "idle"
    /\ connOpen = TRUE
    /\ wire = <<>>
    /\ failed = FALSE

-----------------------------------------------------------------------------
\* Producers

SendPush(s) == Push(s) /\ UNCHANGED <<writerVars, stopVars>>

WakeWriter(s) ==
    /\ spc[s] = "wake"
    /\ wake' = TRUE
    /\ Advance(s)
    /\ UNCHANGED <<opt, closing, queueVars, accepted, closeCh, drained, wpc, batch,
                   attempt, wire, failed, stopVars>>

-----------------------------------------------------------------------------
\* writeLoop

SelectWake ==
    /\ wpc = "select" /\ wake
    /\ wake' = FALSE
    /\ wpc' = "pop"
    /\ UNCHANGED <<opt, closing, sendVars, queueVars, closeCh, drained, batch,
                   attempt, wire, failed, stopVars>>

SelectClose ==
    /\ wpc = "select" /\ closeCh
    /\ wpc' = "release"
    /\ UNCHANGED <<opt, closing, sendVars, queueVars, wake, closeCh, drained, batch,
                   attempt, wire, failed, stopVars>>

\* After closeCh: give back what is left, batch by batch.
Release ==
    /\ wpc = "release"
    /\ LET n == Smaller(BatchSize, Len(queue))
       IN  /\ PutAll(SubSeq(queue, 1, n))
           /\ queue' = SubSeq(queue, n + 1, Len(queue))
           /\ wpc' = IF n = 0 THEN "done" ELSE "release"
    /\ UNCHANGED <<opt, closing, sendVars, wake, closeCh, drained, batch,
                   attempt, wire, failed, stopVars>>

\* A pop that takes the newest buffers.
PopNewest ==
    /\ wpc = "pop"
    /\ \E n \in PopCounts :
          /\ batch' = SubSeq(queue, Len(queue) - n + 1, Len(queue))
          /\ queue' = SubSeq(queue, 1, Len(queue) - n)
    /\ wpc' = "write"
    /\ UNCHANGED <<opt, closing, sendVars, puts, wake, closeCh, drained,
                   attempt, wire, failed, stopVars>>

\* The locked section of the inner loop, on a non-empty queue.
PopBatch ==
    /\ wpc = "pop"
    /\ \E n \in PopCounts :
          /\ batch' = SubSeq(queue, 1, n)
          /\ queue' = SubSeq(queue, n + 1, Len(queue))
    /\ wpc' = "write"
    /\ UNCHANGED <<opt, closing, sendVars, puts, wake, closeCh, drained,
                   attempt, wire, failed, stopVars>>

\* A writer that leaves as soon as it sees closing, whatever is queued.
PopNothingEarly ==
    /\ wpc = "pop" /\ (queue = <<>> \/ closing)
    /\ drained' = (drained \/ closing)
    /\ wpc' = IF closing THEN "done" ELSE "select"
    /\ UNCHANGED <<opt, closing, sendVars, queueVars, wake, closeCh, batch,
                   attempt, wire, failed, stopVars>>

\* ... and on an empty one: leave when Stop was called, else wait for a wake-up.
PopNothing ==
    /\ wpc = "pop" /\ queue = <<>>
    /\ drained' = (drained \/ closing)
    /\ wpc' = IF closing THEN "done" ELSE "select"
    /\ UNCHANGED <<opt, closing, sendVars, queueVars, wake, closeCh, batch,
                   attempt, wire, failed, stopVars>>

Writing == wpc \in {"write", "rewrite"}

\* After a write the inner loop pops again; it waits only on an empty queue.
WriteOk ==
    /\ Writing /\ connOpen
    /\ wire' = wire \o batch
    /\ PutAll(batch)
    /\ batch' = <<>>
    /\ attempt' = 0
    /\ wpc' = "pop"
    /\ UNCHANGED <<opt, closing, sendVars, queue, wake, closeCh, drained, failed, stopVars>>

\* A fatal write error that nobody hears of.
GiveUpSilently ==
    /\ PutAll(batch)
    /\ batch' = <<>>
    /\ wpc' = "done"
    /\ UNCHANGED connOpen

\* The batch is released, the socket closed, and writeLoop returns.
GiveUp ==
    /\ PutAll(batch)
    /\ batch' = <<>>
    /\ connOpen' = FALSE
    /\ wpc' = "done"

\* writeFn fails after the first j buffers of the batch reached the wire.  A
\* closed socket fails at once and is not retried; so does a fatal error.
WriteFails ==
    /\ Writing
    /\ failed' = TRUE
    /\ \E j \in 0..(Len(batch) - 1), fatal \in BOOLEAN :
          /\ ~connOpen => fatal /\ j = 0
          /\ wire' = wire \o SubSeq(batch, 1, j)
          /\ IF fatal \/ opt.writeRetries = 0
             THEN GiveUp /\ UNCHANGED attempt
             ELSE /\ wpc' = "retry"
                  /\ attempt' = attempt + 1
                  /\ UNCHANGED <<puts, batch, connOpen>>
    /\ UNCHANGED <<opt, closing, sendVars, queue, wake, closeCh, drained, stopPc>>

\* retryWriteFn: one more attempt, unless they are used up or Stop was called.
RetryAgain ==
    /\ wpc = "retry"
    /\ attempt <= opt.writeRetries /\ ~closing
    /\ wpc' = "rewrite"
    /\ UNCHANGED <<opt, closing, sendVars, queueVars, wake, closeCh, drained, batch,
                   attempt, wire, failed, stopVars>>

RetryGivesUp ==
    /\ wpc = "retry"
    /\ attempt > opt.writeRetries \/ closing
    /\ GiveUp
    /\ UNCHANGED <<opt, closing, sendVars, queue, wake, closeCh, drained,
                   attempt, wire, failed, stopPc>>

-----------------------------------------------------------------------------
\* closeWithError and Stop

\* closeOnce: Close() passes nil, a failed read passes its error.
StopBegin(err) ==
    /\ stopPc = "idle"
    /\ closing' = TRUE
    /\ stopPc' = IF opt.flushOver /\ ~err THEN "wake" ELSE "close"
    /\ UNCHANGED <<opt, sendVars, queueVars, writerVars, connOpen>>

StopWakes ==
    /\ stopPc = "wake"
    /\ wake' = TRUE
    /\ stopPc' = "flush"
    /\ UNCHANGED <<opt, closing, sendVars, queueVars, closeCh, drained, wpc, batch,
                   attempt, wire, failed, connOpen>>

StopFlushed ==
    /\ stopPc = "flush" /\ (drained \/ wpc = "done")
    /\ stopPc' = "join"
    /\ UNCHANGED <<opt, closing, sendVars, queueVars, writerVars, connOpen>>

\* close(closeCh): at once, or when the flush takes too long.
StopCloses ==
    /\ stopPc \in {"flush", "close"}
    /\ closeCh' = TRUE
    /\ stopPc' = "join"
    /\ UNCHANGED <<opt, closing, sendVars, queueVars, wake, drained, wpc, batch,
                   attempt, wire, failed, connOpen>>

\* <-doneCh; then closeWithError closes the socket.
StopJoins ==
    /\ stopPc = "join" /\ wpc = "done"
    /\ stopPc' = "stopped"
    /\ connOpen' = FALSE
    /\ UNCHANGED <<opt, closing, sendVars, queueVars, writerVars>>

\* The peer, or the network, ends the connection.
PeerCloses ==
    /\ connOpen /\ connOpen' = FALSE
    /\ UNCHANGED <<opt, closing, sendVars, queueVars, writerVars, stopPc>>

-----------------------------------------------------------------------------
Writer ==
    \/ SelectWake \/ SelectClose \/ Release \/ PopBatch \/ PopNothing
    \/ WriteOk \/ WriteFails \/ RetryAgain \/ RetryGivesUp

Stopper ==
    \/ \E err \in BOOLEAN : StopBegin(err)
    \/ StopWakes \/ StopFlushed \/ StopCloses \/ StopJoins

Next ==
    \/ \E s \in Senders : SendPush(s) \/ WakeWriter(s)
    \/ Writer
    \/ Stopper
    \/ PeerCloses

Spec == Init /\ [][Next]_vars

\* Goroutines are scheduled; a call of writeFn ends (WriteTimeout); a producer in
\* the retry loop gets the lock now and then; the read loop notices a closed
\* socket and calls closeWithError with an error.
Fairness ==
    /\ \A s \in Senders : WF_vars(SendPush(s)) /\ WF_vars(WakeWriter(s))
    /\ WF_vars(Writer)
    /\ WF_vars(StopWakes) /\ WF_vars(StopFlushed \/ StopCloses) /\ WF_vars(StopJoins)
    /\ WF_vars(~connOpen /\ StopBegin(TRUE))

FairSpec == Spec /\ Fairness

-----------------------------------------------------------------------------
TypeOK ==
    /\ SendTypeOK
    /\ wake \in BOOLEAN /\ closeCh \in BOOLEAN /\ drained \in BOOLEAN
    /\ wpc \in {"select", "release", "pop", "write", "retry", "rewrite", "done"}
    /\ batch \in Seq(Buffers)
    /\ attempt \in Nat
    /\ stopPc \in {"idle", "wake", "flush", "close", "join", "stopped"}
    /\ connOpen \in BOOLEAN
    /\ wire \in Seq(Buffers)
    /\ failed \in BOOLEAN

\* The writer never sleeps on a non-empty queue: if it waits while buffers are
\* queued, a wake-up is in the channel or a producer is about to send one
\* (sendBufferDrop wakes only for the push that found the queue empty).
NoLostWakeup ==
    wpc = "select" /\ queue # <<>> =>
        wake \/ closeCh \/ \E s \in Senders : spc[s] = "wake"

\* As long as no write failed and nothing was dropped by a stop, what is on the wire,
\* in the writer's hands and in the queue is exactly what was accepted, in order.
NothingLostInOrder ==
    ~failed /\ wpc # "release" /\ ~(wpc = "done" /\ ~drained) =>
        accepted = wire \o batch \o queue

\* A graceful stop keeps its promise: once the writer reported the queue drained and
\* no write had failed, every accepted buffer is on the wire.
DrainedMeansSent == drained /\ ~failed => wire = accepted

\* drainedCh is final: no producer gets a buffer accepted after the writer, which
\* read closing under the lock, declared the queue drained.
DrainedIsFinal == [][drained => accepted' = accepted]_vars

\* In the end nobody is held: every SendBuffer has returned, not even an unlimited retry on
\* a full queue whose writer has died goes on (the closed socket leads to Stop), Stop has
\* returned whatever the writer was doing, and every accepted buffer has been given back,
\* unless the writer died of a failed write.
Settled ==
    /\ \A s \in Senders : spc[s] = "done"
    /\ stopPc \in {"idle", "stopped"}
    /\ failed \/ \A i \in DOMAIN accepted : puts[accepted[i]] = 1
WritesSettle == <>[]Settled

=============================================================================
