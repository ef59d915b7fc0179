------------------------------ MODULE SendQueue ------------------------------
(***************************************************************************)
(* The accepting side of a write processor (kknet/kkprocessor): producers   *)
(* call SendBuffer, which pushes a pooled buffer on a locked FIFO queue or    *)
(* gives it back to the pool.  WriteProcessor and WorkerWriteProcessor have  *)
(* this part in common and differ in who takes the buffers out.             *)
(*                                                                         *)
(* A buffer is <<s, i>>, the i-th that producer s sends.  The options that    *)
(* change control are fixed when the processor is built: one state variable  *)
(* that never changes, so that a run covers every combination.              *)
(***************************************************************************)
EXTENDS Naturals, Sequences

CONSTANTS
    Senders,          \* producers
    Sends,            \* buffers each of them sends
    QueueSize,        \* SendQueueSize
    BatchSize,        \* BatchPacketSize
    SendTries,        \* values SendQueueRetryMaxCount takes; 0 is "no limit"
    WriteRetries      \* values WriteFnRetryMaxCount takes

ASSUME SendsAssumption == Sends \in Nat \ {0}
ASSUME SizesAssumption == QueueSize \in Nat \ {0} /\ BatchSize \in Nat \ {0}
ASSUME RetriesAssumption == SendTries \subseteq Nat /\ WriteRetries \subseteq Nat

VARIABLES
    opt,              \* the WriteOptions
    queue,            \* sendQueue
    closing,          \* the atomic set by Stop
    spc,              \* where a producer is
    index,            \* the buffer it sends
    tries,            \* the iteration of its retry loop
    puts,             \* how often a buffer was given back to the pool
    accepted          \* history: the buffers pushed, in order

sendVars == <<spc, index, tries, accepted>>
queueVars == <<queue, puts>>

Buffers == Senders \X (1..Sends)

Options ==
    [strict : BOOLEAN, retry : BOOLEAN, sendTries : SendTries,
     flushOver : BOOLEAN, writeRetries : WriteRetries]

SendInit ==
    /\ opt \in Options
    /\ queue = <<>>
    /\ closing = FALSE
    /\ spc = [s \in Senders |-> "push"]
    /\ index = [s \in Senders |-> 1]
    /\ tries = [s \in Senders |-> 0]
    /\ puts = [b \in Buffers |-> 0]
    /\ accepted = <<>>

BufferOf(s) == <<s, index[s]>>

Smaller(a, b) == IF a < b THEN a ELSE b

\* PopMany gives at least one buffer of a non-empty queue, at most a batch; how
\* many fit the byte limit depends on their sizes.
PopCounts == 1..Smaller(BatchSize, Len(queue))

\* kkbuffer.Put of every buffer of a sequence; a second Put would be counted.
PutAll(bs) ==
    puts' = [b \in Buffers |-> puts[b] + IF \E i \in DOMAIN bs : bs[i] = b THEN 1 ELSE 0]

\* SendBuffer returned: go on with the next buffer.
Advance(s) ==
    /\ spc' = [spc EXCEPT ![s] = IF index[s] = Sends THEN "done" ELSE "push"]
    /\ index' = [index EXCEPT ![s] = IF @ = Sends THEN @ ELSE @ + 1]
    /\ tries' = [tries EXCEPT ![s] = 0]

\* A strict queue refuses at its size; the other grows.
HasRoom == opt.strict => Len(queue) < QueueSize

LastTry(s) == ~opt.retry \/ (opt.sendTries > 0 /\ tries[s] + 1 >= opt.sendTries)

\* One pass of the locked section found the processor closing.
PushClosed(s) ==
    /\ spc[s] = "push" /\ closing
    /\ PutAll(<<BufferOf(s)>>)
    /\ Advance(s)
    /\ UNCHANGED <<opt, queue, closing, accepted>>

\* A push that never wakes the writer.
PushAcceptsNoWake(s) ==
    /\ spc[s] = "push" /\ ~closing /\ HasRoom
    /\ queue' = Append(queue, BufferOf(s))
    /\ accepted' = Append(accepted, BufferOf(s))
    /\ Advance(s)
    /\ UNCHANGED <<opt, closing, puts>>

\* The buffer is queued; the producer that found the queue empty wakes the writer.
PushAccepts(s) ==
    /\ spc[s] = "push" /\ ~closing /\ HasRoom
    /\ queue' = Append(queue, BufferOf(s))
    /\ accepted' = Append(accepted, BufferOf(s))
    /\ IF queue = <<>>
       THEN spc' = [spc EXCEPT ![s] = "wake"] /\ UNCHANGED <<index, tries>>
       ELSE Advance(s)
    /\ UNCHANGED <<opt, closing, puts>>

\* The queue is full: drop the buffer (or report it full after the last try).
PushGivesUp(s) ==
    /\ spc[s] = "push" /\ ~closing /\ ~HasRoom /\ LastTry(s)
    /\ PutAll(<<BufferOf(s)>>)
    /\ Advance(s)
    /\ UNCHANGED <<opt, queue, closing, accepted>>

\* The queue is full: sleep and try again.
PushAgain(s) ==
    /\ spc[s] = "push" /\ ~closing /\ ~HasRoom /\ ~LastTry(s)
    /\ tries' = [tries EXCEPT ![s] = IF opt.sendTries = 0 THEN @ ELSE @ + 1]
    /\ UNCHANGED <<opt, queue, closing, spc, index, puts, accepted>>

Push(s) == PushClosed(s) \/ PushAccepts(s) \/ PushGivesUp(s) \/ PushAgain(s)

SendTypeOK ==
    /\ opt \in Options
    /\ queue \in Seq(Buffers)
    /\ closing \in BOOLEAN
    /\ spc \in [Senders -> {"push", "wake", "done"}]
    /\ index \in [Senders -> 1..Sends]
    /\ tries \in [Senders -> Nat]
    /\ puts \in [Buffers -> Nat]
    /\ accepted \in Seq(Buffers)

-----------------------------------------------------------------------------
\* A buffer goes back to the pool at most once: kkbuffer.Put hands it to the
\* next user, and a second Put would hand it to two of them.
PutOnce == \A b \in Buffers : puts[b] <= 1
=============================================================================
