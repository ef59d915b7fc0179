------------------------------ MODULE MCWriters ------------------------------
\* The two write processors over the same producers and the same queue, and the connection that
\* has none and drains its queue itself: every behaviour is of a single unit, what belongs to
\* the others keeps its initial state.
EXTENDS WriteProcessor, StreamConn, TLC

VARIABLES unit,
    \* WorkerWriteProcessor
    jobs, job, jpc, again, flush, abortFlush, finished, stopErr

Worker == INSTANCE WorkerWriteProcessor

threadOnly == <<wake, closeCh, drained, wpc>>
workerOnly == <<jobs, job, jpc, again, flush, abortFlush, finished, stopErr>>
mcVars == <<unit, vars, workerOnly, streamVars>>

workerIdle ==
    /\ jobs = <<>> /\ job = "none" /\ jpc = "idle" /\ again = FALSE /\ flush = FALSE
    /\ abortFlush = FALSE /\ finished = FALSE /\ stopErr = FALSE

\* No producer at either processor: nothing is enabled, nothing to be fair to.
processorsIdle ==
    /\ opt = CHOOSE o \in Options : TRUE
    /\ queue = <<>> /\ closing = FALSE /\ puts = [b \in Buffers |-> 0] /\ accepted = <<>>
    /\ spc = [s \in Senders |-> "done"] /\ index = [s \in Senders |-> 1]
    /\ tries = [s \in Senders |-> 0]
    /\ wake = FALSE /\ closeCh = FALSE /\ drained = FALSE /\ wpc = "select"
    /\ batch = <<>> /\ attempt = 0 /\ stopPc = "idle" /\ connOpen = TRUE
    /\ wire = <<>> /\ failed = FALSE

\* A producer that retries does so without limit in one processor, with one in the other.
MCInit ==
    /\ \/ unit = "thread" /\ Init /\ opt.sendTries = 0 /\ workerIdle
       \/ /\ unit = "worker" /\ Worker!Init /\ opt.sendTries = 2
          /\ wake = FALSE /\ closeCh = FALSE /\ drained = FALSE /\ wpc = "done"
       \/ unit = "stream" /\ processorsIdle /\ workerIdle
    /\ StreamInit
    /\ unit = "stream" \/ (kind = "gnet" /\ ~needFlush /\ ~retry /\ reading = "thread")

\* Every call returned and the connection was closed.
Terminated ==
    /\ IF unit = "stream" THEN selfClosed \/ \A p \in Procs : pc[p] \in {"idle", "done"}
                          ELSE stopPc = "stopped" /\ \A s \in Senders : spc[s] = "done"
    /\ UNCHANGED mcVars

MCNext ==
    \/ Terminated
    \/ unit = "thread" /\ Next /\ UNCHANGED <<unit, workerOnly, streamVars>>
    \/ unit = "worker" /\ Worker!Next /\ UNCHANGED <<unit, threadOnly, streamVars>>
    \/ unit = "stream" /\ StreamNext /\ UNCHANGED <<unit, vars, workerOnly>>

\* That of all.  Where the two processors have a step in common (a producer's, the one that
\* begins Stop, the end of a flush) either one's fairness asks for it; Stop waits for the
\* goroutine only where there is one.
MCFairness ==
    /\ Worker!Fairness
    /\ WF_vars(Writer) /\ WF_vars(StopWakes) /\ WF_vars(StopFlushed \/ StopCloses)
    /\ WF_vars(unit = "thread" /\ StopJoins)
    /\ StreamFairness

MCSpec == MCInit /\ [][MCNext]_mcVars /\ MCFairness

\* A buffer is put back once at most by either, and the one without a goroutine of its own
\* loses none.
BuffersKept == PutOnce /\ (unit = "worker" => Worker!WorkerKeeps)
=============================================================================
