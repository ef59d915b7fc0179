------------------------- MODULE WorkerWriteProcessor -------------------------
(***************************************************************************)
(* kknet/kkprocessor/write_worker.go: the write processor that has no        *)
(* goroutine of its own.  The producers of SendQueue push drain jobs on a     *)
(* task queue of one worker (utils/queues/taskqueue), and Stop pushes the      *)
(* job that shuts down.  Grain and writeFn are those of WriteProcessor.        *)
(***************************************************************************)
EXTENDS SendQueue

VARIABLES
    jobs,             \* the jobs waiting in workQueue
    job,              \* the job its worker runs, "none" if there is no worker
    jpc,              \* where that job is
    again,            \* drainJob: buffers remained and Stop was not called
    flush,            \* shutdownJob: still writing, not releasing
    batch,            \* sendBatchBuffer
    attempt,          \* the retry of writeFn
    abortFlush,       \* the atomic set when the flush takes too long
    finished,         \* doneCh is closed
    stopPc,           \* where the caller of Stop is
    stopErr,          \* its argument is an error
    connOpen,         \* the socket is open
    wire,             \* history: buffers on the wire
    failed            \* history: a call of writeFn failed

jobVars == <<jobs, job, jpc, again, flush, batch, attempt, finished, wire, failed>>
stopVars == <<stopPc, stopErr, abortFlush, connOpen>>
vars == <<opt, closing, sendVars, queueVars, jobVars, stopVars>>

Init ==
    /\ SendInit
    /\ jobs = <<>> /\ job = "none" /\ jpc = "idle"
    /\ again = FALSE /\ flush = FALSE
    /\ batch = <<>> /\ attempt = 0
    /\ abortFlush = FALSE /\ finished = FALSE
    /\ stopPc = "idle" /\ stopErr = FALSE
    /\ connOpen = TRUE
    /\ wire = <<>> /\ failed = FALSE

\* The options Stop and shutdownJob look at.
FlushWanted == opt.flushOver /\ ~stopErr

-----------------------------------------------------------------------------
\* taskqueue.WorkerQueue with maxConcurrency 1

\* Push: run the job when no worker is active, else queue it.
PushJob(j) ==
    IF job = "none"
    THEN job' = j /\ jpc' = "start" /\ UNCHANGED jobs
    ELSE jobs' = Append(jobs, j) /\ UNCHANGED <<job, jpc>>

\* The worker takes the next of these jobs, or ends.
NextJob(js) ==
    IF js = <<>>
    THEN job' = "none" /\ jpc' = "idle" /\ jobs' = js
    ELSE job' = Head(js) /\ jpc' = "start" /\ jobs' = Tail(js)

JobStart ==
    /\ jpc = "start"
    /\ jpc' = "pop"
    /\ flush' = (job = "shutdown" /\ FlushWanted)
    /\ UNCHANGED <<opt, closing, sendVars, queueVars, jobs, job, again, batch, attempt,
                   finished, wire, failed, stopVars>>

-----------------------------------------------------------------------------
\* Producers

SendPush(s) == Push(s) /\ UNCHANGED <<jobVars, stopVars>>

WakeWriter(s) ==
    /\ spc[s] = "wake"
    /\ PushJob("drain")
    /\ Advance(s)
    /\ UNCHANGED <<opt, closing, queueVars, accepted, again, flush, batch, attempt,
                   finished, wire, failed, stopVars>>

-----------------------------------------------------------------------------
\* drainJob and shutdownJob

\* PopMany.
TakeBatch(n) ==
    /\ batch' = SubSeq(queue, 1, n)
    /\ queue' = SubSeq(queue, n + 1, Len(queue))

\* drainJob: the locked section.  What remains is looked at now and used after the write.
DrainPop ==
    /\ job = "drain" /\ jpc = "pop"
    /\ IF queue = <<>>
       THEN NextJob(jobs) /\ UNCHANGED <<queue, batch, again>>
       ELSE \E n \in PopCounts :
              /\ TakeBatch(n)
              /\ again' = (n < Len(queue) /\ ~closing)
              /\ jpc' = "write"
              /\ UNCHANGED <<jobs, job>>
    /\ UNCHANGED <<opt, closing, sendVars, puts, flush, attempt, finished, wire, failed, stopVars>>

\* shutdownJob: pop until the queue is empty; write while flushing, else release.
ShutdownPop ==
    /\ job = "shutdown" /\ jpc = "pop"
    /\ IF queue = <<>>
       THEN jpc' = "release" /\ UNCHANGED <<queue, batch, puts, flush>>
       ELSE \E n \in PopCounts :
              /\ flush' = (flush /\ ~abortFlush)
              /\ IF flush'
                 THEN TakeBatch(n) /\ jpc' = "write" /\ UNCHANGED puts
                 ELSE /\ PutAll(SubSeq(queue, 1, n))
                      /\ queue' = SubSeq(queue, n + 1, Len(queue))
                      /\ UNCHANGED <<batch, jpc>>
    /\ UNCHANGED <<opt, closing, sendVars, jobs, job, again, attempt, finished,
                   wire, failed, stopVars>>

\* shutdownJob: give back what is left, then close drainedCh and doneCh.
Release ==
    /\ job = "shutdown" /\ jpc = "release"
    /\ IF queue = <<>>
       THEN finished' = TRUE /\ NextJob(jobs) /\ UNCHANGED <<queue, puts>>
       ELSE LET n == Smaller(BatchSize, Len(queue))
            IN  /\ PutAll(SubSeq(queue, 1, n))
                /\ queue' = SubSeq(queue, n + 1, Len(queue))
                /\ UNCHANGED <<finished, jobs, job, jpc>>
    /\ UNCHANGED <<opt, closing, sendVars, again, flush, batch, attempt, wire, failed, stopVars>>

Writing == jpc \in {"write", "rewrite"}

\* A drainJob that does one batch and leaves the rest to the next producer.
AfterWriteOnce ==
    IF job = "shutdown"
    THEN jpc' = "pop" /\ UNCHANGED <<jobs, job>>
    ELSE NextJob(jobs)

\* After a write drainJob queues itself again if buffers remained; shutdownJob pops on.
AfterWrite ==
    IF job = "shutdown"
    THEN jpc' = "pop" /\ UNCHANGED <<jobs, job>>
    ELSE NextJob(IF again THEN Append(jobs, "drain") ELSE jobs)

WriteOk ==
    /\ Writing /\ connOpen
    /\ wire' = wire \o batch
    /\ PutAll(batch)
    /\ batch' = <<>>
    /\ attempt' = 0
    /\ AfterWrite
    /\ UNCHANGED <<opt, closing, sendVars, queue, again, flush, finished, failed, stopVars>>

\* The batch is released and the socket closed; drainJob ends, shutdownJob releases the rest.
GiveUp ==
    /\ PutAll(batch)
    /\ batch' = <<>>
    /\ connOpen' = FALSE
    /\ IF job = "shutdown"
       THEN jpc' = "release" /\ UNCHANGED <<jobs, job>>
       ELSE NextJob(jobs)

WriteFails ==
    /\ Writing
    /\ failed' = TRUE
    /\ \E j \in 0..(Len(batch) - 1), fatal \in BOOLEAN :
          /\ ~connOpen => fatal /\ j = 0
          /\ wire' = wire \o SubSeq(batch, 1, j)
          /\ IF fatal \/ opt.writeRetries = 0
             THEN GiveUp /\ attempt' = 0
             ELSE /\ jpc' = "retry"
                  /\ attempt' = attempt + 1
                  /\ UNCHANGED <<puts, batch, connOpen, jobs, job>>
    /\ UNCHANGED <<opt, closing, sendVars, queue, again, flush, finished,
                   stopPc, stopErr, abortFlush>>

RetryAgain ==
    /\ jpc = "retry"
    /\ attempt <= opt.writeRetries /\ ~closing /\ ~abortFlush
    /\ jpc' = "rewrite"
    /\ UNCHANGED <<opt, closing, sendVars, queueVars, jobs, job, again, flush, batch,
                   attempt, finished, wire, failed, stopVars>>

RetryGivesUp ==
    /\ jpc = "retry"
    /\ attempt > opt.writeRetries \/ closing \/ abortFlush
    /\ GiveUp
    /\ attempt' = 0
    /\ UNCHANGED <<opt, closing, sendVars, queue, again, flush, finished,
                   wire, failed, stopPc, stopErr, abortFlush>>

-----------------------------------------------------------------------------
\* closeWithError and Stop

StopBegin(err) ==
    /\ stopPc = "idle"
    /\ closing' = TRUE
    /\ stopErr' = err
    /\ stopPc' = "push"
    /\ UNCHANGED <<opt, sendVars, queueVars, jobVars, abortFlush, connOpen>>

StopPushes ==
    /\ stopPc = "push"
    /\ PushJob("shutdown")
    /\ stopPc' = IF FlushWanted THEN "flush" ELSE "join"
    /\ UNCHANGED <<opt, closing, sendVars, queueVars, again, flush, batch, attempt,
                   finished, wire, failed, stopErr, abortFlush, connOpen>>

\* drainedCh and doneCh are closed one after the other by the same job.
StopFlushed ==
    /\ stopPc = "flush" /\ finished
    /\ stopPc' = "join"
    /\ UNCHANGED <<opt, closing, sendVars, queueVars, jobVars, stopErr, abortFlush, connOpen>>

\* The flush takes too long: abort it and close the socket.
StopAborts ==
    /\ stopPc = "flush"
    /\ abortFlush' = TRUE
    /\ connOpen' = FALSE
    /\ stopPc' = "join"
    /\ UNCHANGED <<opt, closing, sendVars, queueVars, jobVars, stopErr>>

StopJoins ==
    /\ stopPc = "join" /\ finished
    /\ stopPc' = "stopped"
    /\ connOpen' = FALSE
    /\ UNCHANGED <<opt, closing, sendVars, queueVars, jobVars, stopErr, abortFlush>>

PeerCloses ==
    /\ connOpen /\ connOpen' = FALSE
    /\ UNCHANGED <<opt, closing, sendVars, queueVars, jobVars, stopPc, stopErr, abortFlush>>

-----------------------------------------------------------------------------
Worker ==
    \/ JobStart \/ DrainPop \/ ShutdownPop \/ Release
    \/ WriteOk \/ WriteFails \/ RetryAgain \/ RetryGivesUp

Stopper ==
    \/ \E err \in BOOLEAN : StopBegin(err)
    \/ StopPushes \/ StopFlushed \/ StopAborts \/ StopJoins

Next ==
    \/ \E s \in Senders : SendPush(s) \/ WakeWriter(s)
    \/ Worker
    \/ Stopper
    \/ PeerCloses

Spec == Init /\ [][Next]_vars

\* As in WriteProcessor: goroutines are scheduled, a call of writeFn ends, and a
\* closed socket makes the read loop call closeWithError.
Fairness ==
    /\ \A s \in Senders : WF_vars(SendPush(s)) /\ WF_vars(WakeWriter(s))
    /\ WF_vars(Worker)
    /\ WF_vars(StopPushes) /\ WF_vars(StopFlushed \/ StopAborts) /\ WF_vars(StopJoins)
    /\ WF_vars(~connOpen /\ StopBegin(TRUE))

FairSpec == Spec /\ Fairness

-----------------------------------------------------------------------------
Jobs == {"drain", "shutdown"}

TypeOK ==
    /\ SendTypeOK
    /\ jobs \in Seq(Jobs)
    /\ job \in Jobs \cup {"none"}
    /\ jpc \in {"idle", "start", "pop", "write", "retry", "rewrite", "release"}
    /\ again \in BOOLEAN /\ flush \in BOOLEAN
    /\ batch \in Seq(Buffers)
    /\ attempt \in Nat
    /\ abortFlush \in BOOLEAN /\ finished \in BOOLEAN
    /\ stopPc \in {"idle", "push", "flush", "join", "stopped"}
    /\ stopErr \in BOOLEAN /\ connOpen \in BOOLEAN
    /\ wire \in Seq(Buffers)
    /\ failed \in BOOLEAN

\* As long as no write failed, queued buffers have a job, running or waiting, that
\* will take them, or a producer or Stop about to push one.
QueuedHasJob ==
    queue # <<>> /\ ~failed =>
        job # "none" \/ stopPc = "push" \/ \E s \in Senders : spc[s] = "wake"

\* The single worker keeps the order: without a failed write or an aborted flush,
\* the wire is a prefix of what was accepted and nothing is missing in between.
NothingLostInOrder ==
    ~failed /\ ~(stopPc # "idle" /\ ~FlushWanted) /\ ~abortFlush =>
        accepted = wire \o batch \o queue

\* Stop leaves nothing behind: when it has returned every buffer whose SendBuffer
\* returned is back in the pool, once, whatever failed.
StoppedAllReleased ==
    stopPc = "stopped" /\ (\A s \in Senders : spc[s] = "done") =>
        queue = <<>> /\ \A b \in Buffers : puts[b] = 1

\* What the processor owes while it works and after Stop.
WorkerKeeps == QueuedHasJob /\ NothingLostInOrder /\ StoppedAllReleased
=============================================================================
