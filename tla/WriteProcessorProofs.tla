------------------------- MODULE WriteProcessorProofs -------------------------
(***************************************************************************)
(* The two ways a connection writes, for every number of producers, buffers, *)
(* queue and batch size.                                                   *)
(*                                                                         *)
(* The thread of WriteProcessor does not sleep on queued buffers, loses and  *)
(* reorders nothing, and its report that the queue is drained is true and    *)
(* final.  The invariant is TypeOK, NoLostWakeup, the shape of writeLoop     *)
(* (WriteLoop) and NothingLostInOrder.  NoLostWakeup is inductive with the   *)
(* type alone: the push that makes the queue non-empty leaves its producer   *)
(* before the wake-up, and the writer waits only after it saw the queue      *)
(* empty.                                                                  *)
(*                                                                         *)
(* A buffer has one place, in the queue, in the batch or back in the pool, for   *)
(* either processor (Places).  The processor without a goroutine keeps what     *)
(* JobsInv, FlushKept and LeftInv say of its jobs: one runs while there is any, *)
(* the last is Stop's, and what a drain leaves in the queue has somebody to     *)
(* push a job for it.                                                      *)
(*                                                                         *)
(* StreamConn drains its queue itself, from whichever goroutine found it     *)
(* idle: who closes and waits for the queue leaves nothing of it unwritten.  *)
(* StreamInv says that one place drains, that who drops or waits has stopped *)
(* the writers, what is kept of the packets in every case, and that the end   *)
(* is told once.                                                            *)
(***************************************************************************)
EXTENDS MCWriters, SequenceTheorems, FiniteSetTheorems, TLAPS

WriteLoop ==
    /\ wpc \in {"write", "rewrite", "retry"} \/ batch = <<>>
    /\ wpc \in {"retry", "rewrite"} => failed
    /\ drained => wpc = "done" /\ closing /\ queue = <<>>

IInv == TypeOK /\ NoLostWakeup /\ WriteLoop /\ NothingLostInOrder

-----------------------------------------------------------------------------
\* Sequences and helpers

\* A sequence split at n: both parts are sequences over S and together the whole.
LEMMA SplitAt ==
    ASSUME NEW S, NEW q \in Seq(S), NEW n \in 0 .. Len(q)
    PROVE  /\ SubSeq(q, 1, n) \in Seq(S) /\ SubSeq(q, n + 1, Len(q)) \in Seq(S)
           /\ SubSeq(q, 1, n) \o SubSeq(q, n + 1, Len(q)) = q
<1>1. Len(q) \in Nat /\ \A i \in 1..Len(q) : q[i] \in S
  BY LenProperties, ElementOfSeq
<1>2. SubSeq(q, 1, n) \in Seq(S)
  <2>1. \A i \in 1..n : q[i] \in S  BY <1>1
  <2> QED  BY <1>1, <2>1, SubSeqProperties
<1>3. SubSeq(q, n + 1, Len(q)) \in Seq(S)
  <2>1. \A i \in (n + 1)..Len(q) : q[i] \in S  BY <1>1
  <2>2. n + 1 \in Int /\ Len(q) \in Int  BY <1>1
  <2> QED  BY <2>1, <2>2, SubSeqProperties
<1>4. SubSeq(q, 1, n) \o SubSeq(q, n + 1, Len(q)) = SubSeq(q, 1, Len(q))
  <2>1. 1 \in 1..(Len(q) + 1) /\ n \in (1 - 1)..Len(q) /\ Len(q) \in n..Len(q)  BY <1>1
  <2> QED  BY <2>1, ConcatAdjacentSubSeq
<1> QED  BY <1>2, <1>3, <1>4, SubSeqFull

\* What PutAll and Advance leave has the right type.
LEMMA PutAllType ==
    ASSUME puts \in [Buffers -> Nat], NEW bs, PutAll(bs)
    PROVE  puts' \in [Buffers -> Nat]
BY DEF PutAll

LEMMA AdvanceType ==
    ASSUME NEW s \in Senders, SendTypeOK, Advance(s)
    PROVE  /\ spc' \in [Senders -> {"push", "wake", "done"}]
           /\ index' \in [Senders -> 1..Sends]
           /\ tries' \in [Senders -> Nat]
BY SendsAssumption DEF SendTypeOK, Advance

\* Counts that PopMany can return.
LEMMA PopCountsInRange ==
    ASSUME queue \in Seq(Buffers), NEW n \in PopCounts
    PROVE  n \in 0..Len(queue)
<1>1. Len(queue) \in Nat /\ BatchSize \in Nat  BY LenProperties, SizesAssumption
<1> QED  BY <1>1 DEF PopCounts, Smaller

LEMMA BufferOfType ==
    ASSUME SendTypeOK, NEW s \in Senders
    PROVE  BufferOf(s) \in Buffers
BY DEF SendTypeOK, BufferOf, Buffers

-----------------------------------------------------------------------------
\* Types

LEMMA InitType == Init => TypeOK
<1> SUFFICES ASSUME Init PROVE TypeOK  OBVIOUS
<1>1. SendInit /\ 1 \in 1..Sends  BY SendsAssumption DEF Init
<1>2. opt \in Options /\ queue \in Seq(Buffers) /\ accepted \in Seq(Buffers)
  BY <1>1 DEF SendInit
<1>5. closing \in BOOLEAN  BY <1>1 DEF SendInit
<1>3. /\ spc \in [Senders -> {"push", "wake", "done"}]
      /\ index \in [Senders -> 1..Sends] /\ tries \in [Senders -> Nat]
      /\ puts \in [Buffers -> Nat]
  BY <1>1 DEF SendInit
<1>4. SendTypeOK  BY <1>2, <1>3, <1>5, Zenon DEF SendTypeOK
<1>6. /\ wake \in BOOLEAN /\ closeCh \in BOOLEAN /\ drained \in BOOLEAN
      /\ connOpen \in BOOLEAN /\ failed \in BOOLEAN
  BY DEF Init
<1> QED  BY <1>4, <1>6 DEF Init, TypeOK

LEMMA PushType ==
    ASSUME TypeOK, NEW s \in Senders, SendPush(s)
    PROVE  TypeOK'
<1> USE DEF TypeOK
<1>0. SendTypeOK /\ BufferOf(s) \in Buffers  BY BufferOfType
<1>1. UNCHANGED <<writerVars, stopVars>>  BY DEF SendPush
<1>2. CASE PushClosed(s)
  <2>1. puts' \in [Buffers -> Nat]  BY <1>0, <1>2, PutAllType DEF PushClosed, SendTypeOK
  <2>2. SendTypeOK'
    BY <1>0, <1>2, <2>1, AdvanceType DEF PushClosed, SendTypeOK
  <2> QED  BY <1>1, <2>2 DEF writerVars, stopVars
<1>3. CASE PushAccepts(s)
  <2>1. queue' \in Seq(Buffers) /\ accepted' \in Seq(Buffers)
    BY <1>0, <1>3 DEF PushAccepts, SendTypeOK
  <2>2. /\ spc' \in [Senders -> {"push", "wake", "done"}]
        /\ index' \in [Senders -> 1..Sends] /\ tries' \in [Senders -> Nat]
    BY <1>0, <1>3, AdvanceType DEF PushAccepts, SendTypeOK
  <2>3. SendTypeOK'
    BY <1>0, <1>3, <2>1, <2>2 DEF PushAccepts, SendTypeOK
  <2> QED  BY <1>1, <2>3 DEF writerVars, stopVars
<1>4. CASE PushGivesUp(s)
  <2>1. puts' \in [Buffers -> Nat]  BY <1>0, <1>4, PutAllType DEF PushGivesUp, SendTypeOK
  <2>2. SendTypeOK'
    BY <1>0, <1>4, <2>1, AdvanceType DEF PushGivesUp, SendTypeOK
  <2> QED  BY <1>1, <2>2 DEF writerVars, stopVars
<1>5. CASE PushAgain(s)
  <2>1. SendTypeOK'  BY <1>0, <1>5 DEF PushAgain, SendTypeOK
  <2> QED  BY <1>1, <2>1 DEF writerVars, stopVars
<1> QED  BY <1>2, <1>3, <1>4, <1>5 DEF SendPush, Push

LEMMA WakeType ==
    ASSUME TypeOK, NEW s \in Senders, WakeWriter(s)
    PROVE  TypeOK'
<1>1. SendTypeOK  BY DEF TypeOK
<1>2. SendTypeOK'
  BY <1>1, AdvanceType DEF WakeWriter, SendTypeOK, queueVars
<1> QED  BY <1>2 DEF TypeOK, WakeWriter, stopVars

\* The batch is released and writeLoop returns.
LEMMA GiveUpType ==
    ASSUME TypeOK, GiveUp
    PROVE  /\ puts' \in [Buffers -> Nat]
           /\ batch' \in Seq(Buffers)
           /\ connOpen' \in BOOLEAN
           /\ wpc' = "done"
<1>1. puts \in [Buffers -> Nat] /\ PutAll(batch)  BY DEF GiveUp, TypeOK, SendTypeOK
<1>2. puts' \in [Buffers -> Nat]  BY <1>1 DEF PutAll
<1>3. connOpen' \in BOOLEAN  BY DEF GiveUp
<1> QED  BY <1>2, <1>3 DEF GiveUp

LEMMA WriterType ==
    ASSUME TypeOK, Writer
    PROVE  TypeOK'
<1> USE DEF TypeOK
<1>0. SendTypeOK /\ queue \in Seq(Buffers) /\ puts \in [Buffers -> Nat] /\ batch \in Seq(Buffers)
  BY DEF SendTypeOK
<1>1. CASE SelectWake
  BY <1>0, <1>1 DEF SelectWake, SendTypeOK, sendVars, queueVars, stopVars
<1>2. CASE SelectClose
  BY <1>0, <1>2 DEF SelectClose, SendTypeOK, sendVars, queueVars, stopVars
<1>3. CASE Release
  <2>1. Smaller(BatchSize, Len(queue)) \in 0..Len(queue)
    BY <1>0, LenProperties, SizesAssumption DEF Smaller
  <2>2. puts' \in [Buffers -> Nat]  BY <1>0, <1>3, PutAllType DEF Release
  <2>3. queue' \in Seq(Buffers)  BY <1>0, <1>3, <2>1, SplitAt DEF Release
  <2>4. SendTypeOK'  BY <1>0, <1>3, <2>2, <2>3 DEF Release, SendTypeOK, sendVars
  <2> QED  BY <1>3, <2>4 DEF Release, stopVars
<1>4. CASE PopBatch
  <2>1. PICK n \in PopCounts : /\ batch' = SubSeq(queue, 1, n)
                               /\ queue' = SubSeq(queue, n + 1, Len(queue))
    BY <1>4 DEF PopBatch
  <2>2. batch' \in Seq(Buffers) /\ queue' \in Seq(Buffers)
    BY <1>0, <2>1, PopCountsInRange, SplitAt
  <2>3. SendTypeOK'  BY <1>0, <1>4, <2>2 DEF PopBatch, SendTypeOK, sendVars
  <2> QED  BY <1>4, <2>2, <2>3 DEF PopBatch, stopVars
<1>5. CASE PopNothing
  BY <1>0, <1>5 DEF PopNothing, SendTypeOK, sendVars, queueVars, stopVars
<1>6. CASE WriteOk
  <2>1. puts' \in [Buffers -> Nat]  BY <1>0, <1>6, PutAllType DEF WriteOk
  <2>2. wire' \in Seq(Buffers)  BY <1>0, <1>6, ConcatProperties DEF WriteOk
  <2>3. SendTypeOK'  BY <1>0, <1>6, <2>1 DEF WriteOk, SendTypeOK, sendVars
  <2> QED  BY <1>6, <2>2, <2>3 DEF WriteOk, stopVars
<1>7. CASE WriteFails
  <2>1. PICK j \in 0..(Len(batch) - 1), fatal \in BOOLEAN :
          /\ wire' = wire \o SubSeq(batch, 1, j)
          /\ IF fatal \/ opt.writeRetries = 0
             THEN GiveUp /\ UNCHANGED attempt
             ELSE /\ wpc' = "retry"
                  /\ attempt' = attempt + 1
                  /\ UNCHANGED <<puts, batch, connOpen>>
    BY <1>7 DEF WriteFails
  <2>2. j \in 0..Len(batch)  BY <1>0, LenProperties
  <2>3. wire' \in Seq(Buffers)  BY <1>0, <2>1, <2>2, SplitAt, ConcatProperties
  <2>4. /\ puts' \in [Buffers -> Nat] /\ batch' \in Seq(Buffers) /\ connOpen' \in BOOLEAN
        /\ attempt' \in Nat /\ wpc' \in {"done", "retry"}
    BY <1>0, <2>1, GiveUpType
  <2>5. SendTypeOK'  BY <1>0, <1>7, <2>4 DEF WriteFails, SendTypeOK, sendVars
  <2> QED  BY <1>7, <2>3, <2>4, <2>5 DEF WriteFails
<1>8. CASE RetryAgain
  BY <1>0, <1>8 DEF RetryAgain, SendTypeOK, sendVars, queueVars, stopVars
<1>9. CASE RetryGivesUp
  <2>1. /\ puts' \in [Buffers -> Nat] /\ batch' \in Seq(Buffers) /\ connOpen' \in BOOLEAN
        /\ wpc' = "done"
    BY <1>9, GiveUpType DEF RetryGivesUp
  <2>2. SendTypeOK'  BY <1>0, <1>9, <2>1 DEF RetryGivesUp, SendTypeOK, sendVars
  <2> QED  BY <1>9, <2>1, <2>2 DEF RetryGivesUp
<1> QED
  BY <1>1, <1>2, <1>3, <1>4, <1>5, <1>6, <1>7, <1>8, <1>9 DEF Writer

LEMMA StopperType ==
    ASSUME TypeOK, Stopper \/ PeerCloses
    PROVE  TypeOK'
<1> USE DEF TypeOK, SendTypeOK, sendVars, queueVars, writerVars
<1>1. ASSUME NEW err \in BOOLEAN, StopBegin(err) PROVE TypeOK'
  <2>1. closing' \in BOOLEAN /\ stopPc' \in {"wake", "close"}  BY <1>1 DEF StopBegin
  <2> QED  BY <1>1, <2>1 DEF StopBegin
<1>2. CASE StopWakes  BY <1>2 DEF StopWakes
<1>3. CASE StopFlushed  BY <1>3 DEF StopFlushed
<1>4. CASE StopCloses  BY <1>4 DEF StopCloses
<1>5. CASE StopJoins  BY <1>5 DEF StopJoins
<1>6. CASE PeerCloses  BY <1>6, ZenonT(60) DEF PeerCloses
<1> QED  BY <1>1, <1>2, <1>3, <1>4, <1>5, <1>6 DEF Stopper

LEMMA NextType == TypeOK /\ [Next]_vars => TypeOK'
<1> SUFFICES ASSUME TypeOK, [Next]_vars PROVE TypeOK'  OBVIOUS
<1>1. CASE UNCHANGED vars
  BY <1>1 DEF vars, TypeOK, SendTypeOK, sendVars, queueVars, writerVars, stopVars
<1>2. CASE Next
  BY <1>2, PushType, WakeType, WriterType, StopperType DEF Next
<1> QED  BY <1>1, <1>2

\* THEOREM: every variable keeps its type.
THEOREM TypeCorrect == Spec => []TypeOK
BY InitType, NextType, PTL DEF Spec
-----------------------------------------------------------------------------
\* The writer does not sleep on queued buffers

LEMMA WakeStep ==
    ASSUME TypeOK, NoLostWakeup, [Next]_vars
    PROVE  NoLostWakeup'
<1> SUFFICES ASSUME wpc' = "select", queue' # <<>>, wake' = FALSE, closeCh' = FALSE
             PROVE  \E s \in Senders : spc'[s] = "wake"
  BY NextType DEF NoLostWakeup, TypeOK
<1> USE DEF NoLostWakeup
<1>0. spc \in [Senders -> {"push", "wake", "done"}]  BY DEF TypeOK, SendTypeOK
<1>1. ASSUME NEW s \in Senders, SendPush(s)
      PROVE  \E t \in Senders : spc'[t] = "wake"
  <2>1. wpc = "select" /\ wake = FALSE /\ closeCh = FALSE
    BY <1>1 DEF SendPush, writerVars
  <2>2. CASE queue = <<>>
    BY <1>0, <1>1, <2>2 DEF SendPush, Push, PushClosed, PushAccepts, PushGivesUp, PushAgain
  <2>3. CASE queue # <<>>
    <3>1. PICK t \in Senders : spc[t] = "wake"  BY <2>1, <2>3
    <3>2. t # s
      BY <1>1, <3>1 DEF SendPush, Push, PushClosed, PushAccepts, PushGivesUp, PushAgain
    <3>3. spc'[t] = spc[t]
      BY <1>0, <1>1, <3>2
      DEF SendPush, Push, PushClosed, PushAccepts, PushGivesUp, PushAgain, Advance
    <3> QED  BY <3>1, <3>3
  <2> QED  BY <2>2, <2>3
<1>2. ASSUME NEW s \in Senders, WakeWriter(s) PROVE FALSE
  BY <1>2 DEF WakeWriter
<1>3. ASSUME Writer PROVE FALSE
  <2>1. wpc' = "select" => PopNothing
    BY <1>3
    DEF Writer, SelectWake, SelectClose, Release, PopBatch, PopNothing, WriteOk, WriteFails,
        GiveUp, RetryAgain, RetryGivesUp
  <2>2. ~PopNothing  BY DEF PopNothing, queueVars
  <2> QED  BY <2>1, <2>2
<1>4. CASE Stopper \/ PeerCloses
  BY <1>4
  DEF Stopper, StopBegin, StopWakes, StopFlushed, StopCloses, StopJoins, PeerCloses,
      sendVars, queueVars, writerVars
<1>5. CASE UNCHANGED vars
  BY <1>5 DEF vars, sendVars, queueVars, writerVars
<1> QED  BY <1>1, <1>2, <1>3, <1>4, <1>5 DEF Next

\* THEOREM: if the writer waits while buffers are queued, a wake-up is on its way.
THEOREM NoLostWakeupHolds == Spec => []NoLostWakeup
<1>1. Init => NoLostWakeup  BY DEF Init, SendInit, NoLostWakeup
<1>2. TypeOK /\ NoLostWakeup /\ [Next]_vars => NoLostWakeup'  BY WakeStep
<1> QED  BY <1>1, <1>2, TypeCorrect, PTL DEF Spec

-----------------------------------------------------------------------------
\* Nothing is lost or reordered

LEMMA LoopStep ==
    ASSUME TypeOK, WriteLoop, [Next]_vars
    PROVE  WriteLoop'
<1> USE DEF WriteLoop
<1>1. ASSUME NEW s \in Senders, SendPush(s) PROVE WriteLoop'
  <2>1. UNCHANGED <<wpc, batch, failed, drained>>  BY <1>1 DEF SendPush, writerVars
  <2>2. closing' = closing /\ (closing => queue' = queue)
    BY <1>1 DEF SendPush, Push, PushClosed, PushAccepts, PushGivesUp, PushAgain
  <2> QED  BY <2>1, <2>2
<1>2. ASSUME NEW s \in Senders, WakeWriter(s) PROVE WriteLoop'
  BY <1>2 DEF WakeWriter, queueVars
<1>3. CASE Writer
  <2>1. CASE SelectWake \/ SelectClose \/ RetryAgain
    BY <1>3, <2>1 DEF SelectWake, SelectClose, RetryAgain, queueVars
  <2>4. CASE PopBatch
    BY <2>4 DEF PopBatch
  <2>5. CASE PopNothing
    <3>1. UNCHANGED <<queue, batch, closing, failed>>  BY <2>5 DEF PopNothing, queueVars
    <3>2. (drained' => drained \/ closing) /\ queue = <<>> /\ batch = <<>>
      BY <2>5 DEF PopNothing
    <3>3. closing => wpc' = "done"  BY <2>5 DEF PopNothing
    <3>4. ~drained /\ wpc' \in {"done", "select"}  BY <2>5 DEF PopNothing
    <3> QED  BY <3>1, <3>2, <3>3, <3>4
  <2>2. CASE Release
    BY <1>3, <2>2 DEF Release
  <2>3. CASE WriteOk \/ WriteFails \/ RetryGivesUp
    BY <1>3, <2>3 DEF WriteOk, WriteFails, RetryGivesUp, GiveUp, Writing
  <2> QED  BY <1>3, <2>1, <2>2, <2>3, <2>4, <2>5 DEF Writer
<1>4. CASE Stopper \/ PeerCloses
  BY <1>4
  DEF Stopper, StopBegin, StopWakes, StopFlushed, StopCloses, StopJoins, PeerCloses,
      sendVars, queueVars, writerVars
<1>5. CASE UNCHANGED vars
  BY <1>5 DEF vars, sendVars, queueVars, writerVars
<1> QED  BY <1>1, <1>2, <1>3, <1>4, <1>5 DEF Next

\* The three sequences seen as one.
LEMMA Regroup ==
    ASSUME NEW a \in Seq(Buffers), NEW b \in Seq(Buffers), NEW c \in Seq(Buffers)
    PROVE  (a \o b) \o c = a \o (b \o c)
BY ConcatAssociative

LEMMA OrderStep ==
    ASSUME TypeOK, WriteLoop, NothingLostInOrder, [Next]_vars
    PROVE  NothingLostInOrder'
<1> SUFFICES ASSUME failed' = FALSE, wpc' # "release", ~(wpc' = "done" /\ ~drained')
             PROVE  accepted' = wire' \o batch' \o queue'
  BY NextType DEF NothingLostInOrder, TypeOK
<1>0. /\ queue \in Seq(Buffers) /\ batch \in Seq(Buffers)
      /\ wire \in Seq(Buffers) /\ accepted \in Seq(Buffers) /\ SendTypeOK
  BY DEF TypeOK, SendTypeOK
<1>1. CASE UNCHANGED <<wpc, drained, failed, accepted, wire, batch, queue>>
  BY <1>1 DEF NothingLostInOrder
<1>2. ASSUME NEW s \in Senders, SendPush(s), PushAccepts(s)
      PROVE  accepted' = wire' \o batch' \o queue'
  <2>1. accepted = wire \o batch \o queue
    BY <1>2 DEF SendPush, writerVars, NothingLostInOrder
  <2>2. UNCHANGED <<wire, batch>>  BY <1>2 DEF SendPush, writerVars
  <2>3. BufferOf(s) \in Buffers  BY <1>0, BufferOfType
  <2>4. /\ accepted' = accepted \o <<BufferOf(s)>>
        /\ queue' = queue \o <<BufferOf(s)>>
    BY <1>0, <1>2, <2>3 DEF PushAccepts
  <2>5. wire \o batch \in Seq(Buffers) /\ <<BufferOf(s)>> \in Seq(Buffers)
    BY <1>0, <2>3, ConcatProperties
  <2>6. ((wire \o batch) \o queue) \o <<BufferOf(s)>> = (wire \o batch) \o (queue \o <<BufferOf(s)>>)
    BY <1>0, <2>5, Regroup, ZenonT(60)
  <2> QED  BY <2>1, <2>2, <2>4, <2>6, Zenon
<1>3. CASE PopBatch
  <2>1. PICK n \in PopCounts : /\ batch' = SubSeq(queue, 1, n)
                               /\ queue' = SubSeq(queue, n + 1, Len(queue))
    BY <1>3 DEF PopBatch
  <2>2. /\ batch' \in Seq(Buffers) /\ queue' \in Seq(Buffers)
        /\ batch' \o queue' = queue
    BY <1>0, <2>1, PopCountsInRange, SplitAt
  <2>3. batch = <<>> /\ accepted = wire \o batch \o queue
    BY <1>3 DEF PopBatch, WriteLoop, NothingLostInOrder
  <2>8. wire \o <<>> = wire  BY <1>0, ConcatEmptySeq, Zenon
  <2>4. accepted = wire \o queue  BY <2>3, <2>8, Zenon
  <2>5. accepted' = accepted /\ wire' = wire  BY <1>3 DEF PopBatch, sendVars
  <2>6. (wire \o batch') \o queue' = wire \o (batch' \o queue')  BY <1>0, <2>2, Regroup, ZenonT(60)
  <2> QED  BY <2>2, <2>4, <2>5, <2>6, Zenon
<1>4. CASE WriteOk
  <2>1. accepted = wire \o batch \o queue
    BY <1>4 DEF WriteOk, Writing, NothingLostInOrder
  <2>2. /\ wire' = wire \o batch /\ batch' = <<>>
        /\ queue' = queue /\ accepted' = accepted
    BY <1>4 DEF WriteOk, sendVars
  <2>3. wire' \in Seq(Buffers)  BY <1>0, <2>2, ConcatProperties
  <2>4. wire' \o batch' = wire'  BY <2>2, <2>3, ConcatEmptySeq
  <2> QED  BY <2>1, <2>2, <2>4, Zenon
<1>5. CASE PopNothing \/ SelectWake
  <2>1. UNCHANGED <<failed, accepted, wire, batch, queue>>
    BY <1>5 DEF PopNothing, SelectWake, sendVars, queueVars
  <2>2. wpc \in {"pop", "select"}  BY <1>5 DEF PopNothing, SelectWake
  <2> QED  BY <2>1, <2>2 DEF NothingLostInOrder
<1>6. CASE SelectClose \/ Release \/ WriteFails \/ RetryAgain \/ RetryGivesUp
  BY <1>6 DEF SelectClose, Release, WriteFails, RetryAgain, RetryGivesUp, GiveUp, WriteLoop
<1>7. ASSUME NEW s \in Senders, SendPush(s), ~PushAccepts(s)
      PROVE  UNCHANGED <<wpc, drained, failed, accepted, wire, batch, queue>>
  BY <1>7 DEF SendPush, Push, PushClosed, PushGivesUp, PushAgain, writerVars
<1>8. ASSUME NEW s \in Senders, WakeWriter(s)
      PROVE  UNCHANGED <<wpc, drained, failed, accepted, wire, batch, queue>>
  BY <1>8 DEF WakeWriter, queueVars
<1>9. ASSUME Stopper \/ PeerCloses \/ UNCHANGED vars
      PROVE  UNCHANGED <<wpc, drained, failed, accepted, wire, batch, queue>>
  BY <1>9
  DEF Stopper, StopBegin, StopWakes, StopFlushed, StopCloses, StopJoins, PeerCloses,
      vars, sendVars, queueVars, writerVars
<1> QED
  BY <1>1, <1>2, <1>3, <1>4, <1>5, <1>6, <1>7, <1>8, <1>9 DEF Next, Writer

LEMMA Invariance == Spec => [](TypeOK /\ WriteLoop /\ NothingLostInOrder)
<1>1. Init => TypeOK /\ WriteLoop /\ NothingLostInOrder
  <2> SUFFICES ASSUME Init PROVE WriteLoop /\ NothingLostInOrder  BY InitType
  <2>1. <<>> \in Seq(Buffers)  OBVIOUS
  <2>2. <<>> \o <<>> \o <<>> = <<>>  BY <2>1, ConcatEmptySeq
  <2> QED  BY <2>2 DEF Init, SendInit, WriteLoop, NothingLostInOrder
<1>2. TypeOK /\ WriteLoop /\ NothingLostInOrder /\ [Next]_vars
        => (TypeOK /\ WriteLoop /\ NothingLostInOrder)'
  BY NextType, LoopStep, OrderStep
<1> QED  BY <1>1, <1>2, PTL DEF Spec

\* THEOREM: without a failed write or a dropping stop, the wire, the batch and the queue
\* are what was accepted, in order.
THEOREM NothingLostInOrderHolds == Spec => []NothingLostInOrder
BY Invariance, PTL

\* THEOREM: when drainedCh is closed and no write failed, every accepted buffer was sent.
THEOREM DrainedMeansSentHolds == Spec => []DrainedMeansSent
<1>1. TypeOK /\ WriteLoop /\ NothingLostInOrder => DrainedMeansSent
  <2> SUFFICES ASSUME TypeOK, WriteLoop, NothingLostInOrder, drained, ~failed
               PROVE  wire = accepted
    BY DEF DrainedMeansSent
  <2>1. batch = <<>> /\ queue = <<>> /\ accepted = wire \o batch \o queue
    BY DEF WriteLoop, NothingLostInOrder
  <2>2. wire \in Seq(Buffers)  BY DEF TypeOK
  <2> QED  BY <2>1, <2>2, ConcatEmptySeq
<1> QED  BY <1>1, Invariance, PTL

\* THEOREM: no producer gets a buffer accepted after drainedCh was closed.
THEOREM DrainedIsFinalHolds == Spec => DrainedIsFinal
<1>1. WriteLoop /\ [Next]_vars => [drained => accepted' = accepted]_vars
  <2> SUFFICES ASSUME WriteLoop, Next, drained PROVE accepted' = accepted  OBVIOUS
  <2>1. closing  BY DEF WriteLoop
  <2> QED
    BY <2>1
    DEF Next, SendPush, Push, PushClosed, PushAccepts, PushGivesUp, PushAgain, WakeWriter,
        Writer, SelectWake, SelectClose, Release, PopBatch, PopNothing, WriteOk, WriteFails,
        RetryAgain, RetryGivesUp, Stopper, StopBegin, StopWakes, StopFlushed, StopCloses,
        StopJoins, PeerCloses, sendVars
<1> QED  BY <1>1, Invariance, PTL DEF Spec, DrainedIsFinal

-----------------------------------------------------------------------------
\* A buffer has one place

\* What a producer has offered, and where it may be.
Offered(b) == b[2] < index[b[1]] \/ (b[2] = index[b[1]] /\ spc[b[1]] # "push")
InQueue(b) == \E i \in DOMAIN queue : queue[i] = b
InBatch(b) == \E i \in DOMAIN batch : batch[i] = b

\* A buffer waits once, or is being written, or was put back once.
PlaceOf(b) ==
    /\ InQueue(b) => ~InBatch(b)
    /\ InQueue(b) \/ InBatch(b) => Offered(b) /\ puts[b] = 0
    /\ ~Offered(b) => puts[b] = 0
    /\ Offered(b) /\ ~InQueue(b) /\ ~InBatch(b) => puts[b] = 1
Places ==
    /\ \A i, j \in DOMAIN queue : queue[i] = queue[j] => i = j
    /\ \A b \in Buffers : PlaceOf(b)

QueueTypes == SendTypeOK /\ batch \in Seq(Buffers)

\* What a step of either processor does to the queue, the batch and the pool.
Takes ==
    /\ batch = <<>>
    /\ \E n \in PopCounts : batch' = SubSeq(queue, 1, n) /\ queue' = SubSeq(queue, n + 1, Len(queue))
    /\ UNCHANGED <<puts, spc, index>>
GivesBack ==
    /\ \E n \in 0..Len(queue) : PutAll(SubSeq(queue, 1, n)) /\ queue' = SubSeq(queue, n + 1, Len(queue))
    /\ UNCHANGED <<batch, spc, index>>
GivesBatch == PutAll(batch) /\ batch' = <<>> /\ UNCHANGED <<queue, spc, index>>
Offering(s) ==
    \/ Push(s)
    \/ spc[s] = "wake" /\ Advance(s) /\ UNCHANGED <<queue, puts>>

LEMMA OfferedNext ==
    ASSUME SendTypeOK, NEW s \in Senders, Advance(s), spc[s] \in {"push", "wake"}
    PROVE  /\ \A b \in Buffers : Offered(b)' <=> Offered(b) \/ b = BufferOf(s)
           /\ spc[s] = "push" => ~Offered(BufferOf(s))
           /\ spc[s] = "wake" => Offered(BufferOf(s))
<1>1. /\ spc' = [spc EXCEPT ![s] = IF index[s] = Sends THEN "done" ELSE "push"]
      /\ index' = [index EXCEPT ![s] = IF @ = Sends THEN @ ELSE @ + 1]
  BY DEF Advance
<1>2. spc \in [Senders -> {"push", "wake", "done"}] /\ index \in [Senders -> 1..Sends]
  BY DEF SendTypeOK
<1>3. ASSUME NEW b \in Buffers PROVE Offered(b)' <=> Offered(b) \/ b = BufferOf(s)
  <2>1. b[1] \in Senders /\ b[2] \in 1..Sends /\ b = <<b[1], b[2]>>
    BY DEF Buffers
  <2>2. CASE b[1] # s
    <3>1. spc'[b[1]] = spc[b[1]] /\ index'[b[1]] = index[b[1]] /\ b # BufferOf(s)
      BY <1>1, <1>2, <2>1, <2>2 DEF BufferOf
    <3> QED BY <3>1 DEF Offered
  <2>3. CASE b[1] = s
    <3>1. b = BufferOf(s) <=> b[2] = index[s]
      BY <2>1, <2>3 DEF BufferOf
    <3>2. index[s] \in 1..Sends /\ Sends \in Nat /\ spc[s] \in {"push", "wake"}
      BY <1>2, SendsAssumption
    <3>3. Offered(b) <=> b[2] < index[s] \/ (b[2] = index[s] /\ spc[s] # "push")
      BY <2>3 DEF Offered
    <3>4. CASE index[s] = Sends
      <4>1. spc'[s] = "done" /\ index'[s] = index[s]
        BY <1>1, <1>2, <3>4
      <4>2. Offered(b)' <=> b[2] <= index[s]
        BY <2>1, <2>3, <3>2, <4>1 DEF Offered
      <4> QED BY <2>1, <3>1, <3>2, <3>3, <4>2
    <3>5. CASE index[s] # Sends
      <4>1. spc'[s] = "push" /\ index'[s] = index[s] + 1
        BY <1>1, <1>2, <3>5
      <4>2. Offered(b)' <=> b[2] <= index[s]
        BY <2>1, <2>3, <3>2, <4>1 DEF Offered
      <4> QED BY <2>1, <3>1, <3>2, <3>3, <4>2
    <3> QED BY <3>4, <3>5
  <2> QED BY <2>2, <2>3
<1>4. BufferOf(s)[1] = s /\ BufferOf(s)[2] = index[s] /\ index[s] \in Nat
  BY <1>2, SendsAssumption DEF BufferOf
<1> QED BY <1>3, <1>4 DEF Offered

LEMMA PlacesOffered ==
    ASSUME QueueTypes, Places, NEW s \in Senders, Offering(s), UNCHANGED batch
    PROVE  Places'
<1>0. /\ BufferOf(s) \in Buffers /\ SendTypeOK /\ queue \in Seq(Buffers) /\ puts \in [Buffers -> Nat]
      /\ spc \in [Senders -> {"push", "wake", "done"}]
  BY BufferOfType DEF QueueTypes, SendTypeOK
<1>1. \A b \in Buffers : InBatch(b)' <=> InBatch(b)
  BY DEF InBatch
<1>2. CASE spc[s] = "push" /\ Advance(s) /\ PutAll(<<BufferOf(s)>>) /\ UNCHANGED queue
  <2>1. \A b \in Buffers : puts'[b] = IF b = BufferOf(s) THEN puts[b] + 1 ELSE puts[b]
    <3>1. \A b \in Buffers : (\E i \in DOMAIN <<BufferOf(s)>> : <<BufferOf(s)>>[i] = b) <=> b = BufferOf(s)
      OBVIOUS
    <3> QED BY <1>0, <1>2, <3>1 DEF PutAll
  <2>2. /\ \A b \in Buffers : Offered(b)' <=> Offered(b) \/ b = BufferOf(s)
        /\ ~Offered(BufferOf(s))
    BY <1>0, <1>2, OfferedNext
  <2>3. \A b \in Buffers : InQueue(b)' <=> InQueue(b)
    BY <1>2 DEF InQueue
  <2>4. ~InQueue(BufferOf(s)) /\ ~InBatch(BufferOf(s)) /\ puts[BufferOf(s)] = 0
    BY <1>0, <2>2 DEF Places, PlaceOf
  <2>5. ASSUME NEW b \in Buffers PROVE PlaceOf(b)'
    <3>1. PlaceOf(b)
      BY DEF Places
    <3>2. CASE b = BufferOf(s)
      BY <1>1, <2>1, <2>2, <2>3, <2>4, <3>2 DEF PlaceOf
    <3>3. CASE b # BufferOf(s)
      BY <1>1, <2>1, <2>2, <2>3, <3>1, <3>3 DEF PlaceOf
    <3> QED BY <3>2, <3>3
  <2> QED BY <1>2, <2>5 DEF Places
<1>3. CASE PushAccepts(s)
  <2>1. queue' = Append(queue, BufferOf(s)) /\ UNCHANGED puts /\ spc[s] = "push"
    BY <1>3 DEF PushAccepts
  <2>2. /\ \A b \in Buffers : Offered(b)' <=> Offered(b) \/ b = BufferOf(s)
        /\ ~Offered(BufferOf(s))
    <3>1. CASE Advance(s)
      BY <1>0, <2>1, <3>1, OfferedNext
    <3>2. CASE spc' = [spc EXCEPT ![s] = "wake"] /\ UNCHANGED index
      <4>1. index \in [Senders -> 1..Sends] /\ Sends \in Nat
        BY <1>0, SendsAssumption DEF SendTypeOK
      <4>2. ASSUME NEW b \in Buffers PROVE Offered(b)' <=> Offered(b) \/ b = BufferOf(s)
        <5>1. b[1] \in Senders /\ b[2] \in 1..Sends /\ b = <<b[1], b[2]>>
          BY DEF Buffers
        <5>2. CASE b[1] = s
          BY <1>0, <2>1, <3>2, <4>1, <5>1, <5>2 DEF Offered, BufferOf
        <5>3. CASE b[1] # s
          BY <1>0, <2>1, <3>2, <4>1, <5>1, <5>3 DEF Offered, BufferOf
        <5> QED BY <5>2, <5>3
      <4>3. ~Offered(BufferOf(s))
        BY <2>1, <4>1 DEF Offered, BufferOf
      <4> QED BY <4>2, <4>3
    <3> QED BY <1>3, <3>1, <3>2 DEF PushAccepts
  <2>3. /\ DOMAIN queue' = 1..(Len(queue) + 1) /\ Len(queue) \in Nat /\ DOMAIN queue = 1..Len(queue)
        /\ \A i \in 1..Len(queue) : queue'[i] = queue[i]
        /\ queue'[Len(queue) + 1] = BufferOf(s)
    BY <1>0, <2>1, AppendProperties, LenProperties
  <2>4. \A b \in Buffers : InQueue(b)' <=> InQueue(b) \/ b = BufferOf(s)
    BY <2>3 DEF InQueue
  <2>5. ~InQueue(BufferOf(s)) /\ ~InBatch(BufferOf(s)) /\ puts[BufferOf(s)] = 0
    BY <1>0, <2>2 DEF Places, PlaceOf
  <2>6. \A i, j \in DOMAIN queue' : queue'[i] = queue'[j] => i = j
    BY <2>3, <2>5 DEF InQueue, Places
  <2>7. ASSUME NEW b \in Buffers PROVE PlaceOf(b)'
    BY <1>1, <2>1, <2>2, <2>4, <2>5 DEF Places, PlaceOf
  <2> QED BY <2>6, <2>7 DEF Places
<1>4. CASE UNCHANGED <<queue, puts, spc, index>>
  BY <1>1, <1>4 DEF Places, PlaceOf, InQueue, Offered, InBatch
<1>5. CASE spc[s] = "wake" /\ Advance(s) /\ UNCHANGED <<queue, puts>>
  <2>1. \A b \in Buffers : Offered(b)' <=> Offered(b)
    BY <1>0, <1>5, OfferedNext
  <2>2. \A b \in Buffers : InQueue(b)' <=> InQueue(b)
    BY <1>5 DEF InQueue
  <2> QED BY <1>1, <1>5, <2>1, <2>2 DEF Places, PlaceOf
<1> QED BY <1>2, <1>3, <1>4, <1>5 DEF Offering, Push, PushClosed, PushGivesUp, PushAgain

\* Splitting the queue splits what is in it.
LEMMA SplitPlaces ==
    ASSUME NEW q \in Seq(Buffers), NEW n \in 0..Len(q),
           \A i, j \in DOMAIN q : q[i] = q[j] => i = j
    PROVE  LET f == SubSeq(q, 1, n)
               r == SubSeq(q, n + 1, Len(q))
           IN  /\ \A i, j \in DOMAIN r : r[i] = r[j] => i = j
               /\ \A b \in Buffers : (\E i \in DOMAIN q : q[i] = b)
                         <=> (\E i \in DOMAIN f : f[i] = b) \/ (\E i \in DOMAIN r : r[i] = b)
               /\ \A b \in Buffers : ~((\E i \in DOMAIN f : f[i] = b) /\ (\E i \in DOMAIN r : r[i] = b))
<1> DEFINE f == SubSeq(q, 1, n)
           r == SubSeq(q, n + 1, Len(q))
<1>1. Len(q) \in Nat /\ DOMAIN q = 1..Len(q) /\ \A i \in 1..Len(q) : q[i] \in Buffers
  BY LenProperties, ElementOfSeq
<1>2. f \in Seq(Buffers) /\ r \in Seq(Buffers)
  BY SplitAt
<1>3. Len(f) = n /\ \A i \in 1..n : f[i] = q[i]
  <2>1. \A i \in 1..n : q[i] \in Buffers
    BY <1>1
  <2> QED BY <1>1, <2>1, SubSeqProperties
<1>4. Len(r) = Len(q) - n /\ \A i \in 1..(Len(q) - n) : r[i] = q[i + n]
  <2>1. \A i \in (n + 1)..Len(q) : q[i] \in Buffers
    BY <1>1
  <2>2. n + 1 \in Int /\ Len(q) \in Int
    BY <1>1
  <2>3. Len(r) = IF n + 1 <= Len(q) THEN Len(q) - (n + 1) + 1 ELSE 0
    BY <2>1, <2>2, SubSeqProperties
  <2>4. \A i \in 1..(Len(q) - (n + 1) + 1) : r[i] = q[(n + 1) + i - 1]
    BY <2>1, <2>2, SubSeqProperties
  <2> HIDE DEF r
  <2>5. Len(r) = Len(q) - n
    <3>1. n \in Nat /\ Len(q) \in Nat /\ n <= Len(q)
      BY <1>1
    <3>2. (n + 1 <= Len(q) => Len(r) = Len(q) - (n + 1) + 1) /\ (~(n + 1 <= Len(q)) => Len(r) = 0)
      BY <2>3
    <3>3. CASE n + 1 <= Len(q)
      BY <3>1, <3>2, <3>3
    <3>4. CASE ~(n + 1 <= Len(q))
      BY <3>1, <3>2, <3>4
    <3> QED BY <3>3, <3>4
  <2>6. ASSUME NEW i \in 1..(Len(q) - n) PROVE r[i] = q[i + n]
    <3>1. i \in 1..(Len(q) - (n + 1) + 1) /\ (n + 1) + i - 1 = i + n
      BY <1>1
    <3> QED BY <2>4, <3>1
  <2> QED BY <2>5, <2>6
<1>5. DOMAIN f = 1..n /\ DOMAIN r = 1..(Len(q) - n)
  BY <1>2, <1>3, <1>4, LenProperties
<1> HIDE DEF f, r
<1>6. ASSUME NEW i \in DOMAIN r, NEW j \in DOMAIN r, r[i] = r[j] PROVE i = j
  <2>1. i + n \in DOMAIN q /\ j + n \in DOMAIN q /\ q[i + n] = q[j + n] /\ i \in Int /\ j \in Int
    BY <1>1, <1>4, <1>5, <1>6
  <2>2. i + n = j + n
    BY <2>1
  <2> QED BY <2>1, <2>2
<1>7. ASSUME NEW b \in Buffers
      PROVE  /\ (\E i \in DOMAIN q : q[i] = b)
                  <=> (\E i \in DOMAIN f : f[i] = b) \/ (\E i \in DOMAIN r : r[i] = b)
             /\ ~((\E i \in DOMAIN f : f[i] = b) /\ (\E i \in DOMAIN r : r[i] = b))
  <2>1. ASSUME NEW i \in DOMAIN q
          PROVE (\E k \in DOMAIN f : f[k] = q[i]) \/ (\E k \in DOMAIN r : r[k] = q[i])
    <3>1. CASE i <= n
      BY <1>1, <1>3, <1>5, <3>1
    <3>2. CASE i > n
      <4>1. i - n \in 1..(Len(q) - n) /\ r[i - n] = q[(i - n) + n] /\ (i - n) + n = i
        BY <1>1, <1>4, <3>2
      <4> QED BY <1>5, <4>1
    <3> QED BY <1>1, <3>1, <3>2
  <2>2. ASSUME NEW i \in DOMAIN f PROVE i \in DOMAIN q /\ f[i] = q[i]
    BY <1>1, <1>3, <1>5
  <2>3. ASSUME NEW i \in DOMAIN r PROVE i + n \in DOMAIN q /\ r[i] = q[i + n]
    BY <1>1, <1>4, <1>5
  <2>4. ASSUME NEW i \in DOMAIN f, NEW j \in DOMAIN r PROVE f[i] # r[j]
    BY <1>1, <1>5, <2>2, <2>3
  <2> QED BY <2>1, <2>2, <2>3, <2>4
<1> QED BY <1>6, <1>7 DEF f, r

LEMMA PlacesMoved ==
    ASSUME QueueTypes, Places, Takes \/ GivesBack \/ GivesBatch
    PROVE  Places'
<1>0. SendTypeOK /\ queue \in Seq(Buffers) /\ batch \in Seq(Buffers) /\ puts \in [Buffers -> Nat]
  BY DEF QueueTypes, SendTypeOK
<1>00. \A i, j \in DOMAIN queue : queue[i] = queue[j] => i = j
  BY DEF Places
<1>1. UNCHANGED <<spc, index>>
  BY DEF Takes, GivesBack, GivesBatch
<1>2. \A b \in Buffers : Offered(b)' <=> Offered(b)
  BY <1>1 DEF Offered
<1>3. CASE Takes
  <2>1. PICK n \in PopCounts : batch' = SubSeq(queue, 1, n) /\ queue' = SubSeq(queue, n + 1, Len(queue))
    BY <1>3 DEF Takes
  <2>2. n \in 0..Len(queue) /\ puts' = puts /\ batch = <<>>
    BY <1>0, <1>3, PopCountsInRange DEF Takes
  <2>3. /\ \A i, j \in DOMAIN queue' : queue'[i] = queue'[j] => i = j
        /\ \A b \in Buffers : InQueue(b) <=> InBatch(b)' \/ InQueue(b)'
        /\ \A b \in Buffers : ~(InBatch(b)' /\ InQueue(b)')
    <3>1. LET f == SubSeq(queue, 1, n)
              r == SubSeq(queue, n + 1, Len(queue))
          IN  /\ \A i, j \in DOMAIN r : r[i] = r[j] => i = j
              /\ \A b \in Buffers : (\E i \in DOMAIN queue : queue[i] = b)
                        <=> (\E i \in DOMAIN f : f[i] = b) \/ (\E i \in DOMAIN r : r[i] = b)
              /\ \A b \in Buffers : ~((\E i \in DOMAIN f : f[i] = b) /\ (\E i \in DOMAIN r : r[i] = b))
      BY <1>0, <1>00, <2>2, SplitPlaces
    <3> QED BY <2>1, <3>1, Zenon DEF InQueue, InBatch
  <2>4. \A b \in Buffers : ~InBatch(b)
    BY <2>2 DEF InBatch
  <2>5. ASSUME NEW b \in Buffers PROVE PlaceOf(b)'
    BY <1>2, <2>2, <2>3, <2>4 DEF Places, PlaceOf
  <2> QED BY <2>3, <2>5 DEF Places
<1>4. CASE GivesBack
  <2>1. PICK n \in 0..Len(queue) : PutAll(SubSeq(queue, 1, n)) /\ queue' = SubSeq(queue, n + 1, Len(queue))
    BY <1>4 DEF GivesBack
  <2> DEFINE f == SubSeq(queue, 1, n)
             given(b) == \E i \in DOMAIN f : f[i] = b
  <2>3. /\ \A i, j \in DOMAIN queue' : queue'[i] = queue'[j] => i = j
        /\ \A b \in Buffers : InQueue(b) <=> given(b) \/ InQueue(b)'
        /\ \A b \in Buffers : ~(given(b) /\ InQueue(b)')
    <3>1. LET r == SubSeq(queue, n + 1, Len(queue))
          IN  /\ \A i, j \in DOMAIN r : r[i] = r[j] => i = j
              /\ \A b \in Buffers : (\E i \in DOMAIN queue : queue[i] = b)
                        <=> (\E i \in DOMAIN f : f[i] = b) \/ (\E i \in DOMAIN r : r[i] = b)
              /\ \A b \in Buffers : ~((\E i \in DOMAIN f : f[i] = b) /\ (\E i \in DOMAIN r : r[i] = b))
      BY <1>0, <1>00, <2>1, SplitPlaces
    <3> QED BY <2>1, <3>1, Zenon DEF InQueue
  <2>4. \A b \in Buffers : puts'[b] = puts[b] + IF given(b) THEN 1 ELSE 0
    BY <2>1 DEF PutAll
  <2>5. \A b \in Buffers : InBatch(b)' <=> InBatch(b)
    BY <1>4 DEF GivesBack, InBatch
  <2> HIDE DEF given
  <2>6. ASSUME NEW b \in Buffers PROVE PlaceOf(b)'
    BY <1>0, <1>2, <2>3, <2>4, <2>5 DEF Places, PlaceOf
  <2> QED BY <2>3, <2>6 DEF Places
<1>5. CASE GivesBatch
  <2>1. \A b \in Buffers : puts'[b] = puts[b] + IF InBatch(b) THEN 1 ELSE 0
    BY <1>5 DEF GivesBatch, PutAll, InBatch
  <2>2. (\A b \in Buffers : InQueue(b)' <=> InQueue(b)) /\ queue' = queue
    BY <1>5 DEF GivesBatch, InQueue
  <2>3. \A b \in Buffers : ~InBatch(b)'
    BY <1>5 DEF GivesBatch, InBatch
  <2>4. ASSUME NEW b \in Buffers PROVE PlaceOf(b)'
    BY <1>0, <1>2, <2>1, <2>2, <2>3 DEF Places, PlaceOf
  <2> QED BY <2>2, <2>4 DEF Places
<1> QED BY <1>3, <1>4, <1>5

LEMMA PlacesStay ==
    ASSUME Places, UNCHANGED <<queue, batch, puts, spc, index>>
    PROVE  Places'
BY DEF Places, PlaceOf, Offered, InQueue, InBatch

LEMMA PlacesBegin == SendInit /\ batch = <<>> => Places
<1> SUFFICES ASSUME SendInit, batch = <<>> PROVE Places
  OBVIOUS
<1>1. /\ queue = <<>> /\ DOMAIN queue = {} /\ DOMAIN batch = {} /\ puts = [b \in Buffers |-> 0]
      /\ spc = [s \in Senders |-> "push"] /\ index = [s \in Senders |-> 1]
  BY DEF SendInit
<1>2. \A b \in Buffers : b[1] \in Senders /\ b[2] \in 1..Sends /\ Sends \in Nat
  BY SendsAssumption DEF Buffers
<1>3. \A b \in Buffers : ~Offered(b)
  BY <1>1, <1>2 DEF Offered
<1> QED BY <1>1, <1>3 DEF Places, PlaceOf, InQueue, InBatch

LEMMA PlacesPutOnce ==
    ASSUME Places
    PROVE  PutOnce
<1>1. \A b \in Buffers : puts[b] \in {0, 1}
  BY DEF Places, PlaceOf
<1> QED BY <1>1 DEF PutOnce

LEMMA ThreadPlaces ==
    ASSUME TypeOK, WriteLoop, Places, [Next]_vars
    PROVE  Places'
<1>0. QueueTypes
  BY DEF TypeOK, QueueTypes
<1>1. ASSUME NEW s \in Senders, SendPush(s) \/ WakeWriter(s) PROVE Places'
  <2>1. Offering(s) /\ UNCHANGED batch
    BY <1>1 DEF SendPush, WakeWriter, Offering, writerVars, queueVars
  <2> QED BY <1>0, <2>1, PlacesOffered
<1>2. CASE Writer
  <2>1. CASE SelectWake \/ SelectClose \/ PopNothing \/ RetryAgain
    <3>1. UNCHANGED <<queue, batch, puts, spc, index>>
      BY <2>1 DEF SelectWake, SelectClose, PopNothing, RetryAgain, sendVars, queueVars
    <3> QED BY <3>1, PlacesStay
  <2>2. CASE Release
    <3>1. Smaller(BatchSize, Len(queue)) \in 0..Len(queue)
      BY <1>0, LenProperties, SizesAssumption DEF Smaller, QueueTypes, SendTypeOK
    <3>2. GivesBack
      BY <2>2, <3>1 DEF Release, GivesBack, sendVars
    <3> QED BY <1>0, <3>2, PlacesMoved
  <2>3. CASE PopBatch
    <3>1. Takes
      BY <2>3 DEF PopBatch, Takes, WriteLoop, sendVars
    <3> QED BY <1>0, <3>1, PlacesMoved
  <2>4. CASE WriteOk
    <3>1. GivesBatch
      BY <2>4 DEF WriteOk, GivesBatch, sendVars
    <3> QED BY <1>0, <3>1, PlacesMoved
  <2>5. CASE WriteFails
    <3>1. GivesBatch \/ UNCHANGED <<queue, batch, puts, spc, index>>
      BY <2>5 DEF WriteFails, GiveUp, GivesBatch, sendVars
    <3> QED BY <1>0, <3>1, PlacesMoved, PlacesStay
  <2>6. CASE RetryGivesUp
    <3>1. GivesBatch
      BY <2>6 DEF RetryGivesUp, GiveUp, GivesBatch, sendVars
    <3> QED BY <1>0, <3>1, PlacesMoved
  <2> QED BY <1>2, <2>1, <2>2, <2>3, <2>4, <2>5, <2>6 DEF Writer
<1>3. CASE Stopper \/ PeerCloses \/ UNCHANGED vars
  <2>1. UNCHANGED <<queue, batch, puts, spc, index>>
    BY <1>3
    DEF Stopper, StopBegin, StopWakes, StopFlushed, StopCloses, StopJoins, PeerCloses,
        vars, sendVars, queueVars, writerVars
  <2> QED BY <2>1, PlacesStay
<1> QED BY <1>1, <1>2, <1>3 DEF Next

-----------------------------------------------------------------------------
\* The processor without a goroutine

WTypes == Worker!TypeOK

\* What Stop pushed, in the queue of jobs or running.
HasShutdown(js) == \E i \in DOMAIN js : js[i] = "shutdown"
Shutting == job = "shutdown" \/ HasShutdown(jobs)
Writes == jpc \in {"write", "retry", "rewrite"}

\* One job runs while there is any; the last one is Stop's, or finds nothing.
JobsInv ==
    /\ job = "none" <=> jpc = "idle"
    /\ job = "none" => jobs = <<>>
    /\ Writes \/ batch = <<>>
    /\ jpc \in {"retry", "rewrite"} => failed
    /\ jpc = "release" => job = "shutdown" /\ (failed \/ queue = <<>>)
    /\ closing <=> stopPc # "idle"
    /\ Shutting => stopPc \notin {"idle", "push"}
    /\ stopPc \in {"flush", "join", "stopped"} => finished \/ Shutting
    /\ finished => closing /\ queue = <<>> /\ ~Writes /\ stopPc \notin {"idle", "push"}
    /\ stopPc = "stopped" => finished

\* A flush that was asked for and not aborted drops nothing.
FlushKept ==
    job = "shutdown" /\ jpc # "start" /\ Worker!FlushWanted /\ ~abortFlush => flush

\* What is left in the queue by the job that is writing has somebody to push a job.
LeftInv ==
    job = "drain" /\ Writes /\ ~again /\ ~failed /\ queue # <<>> =>
        jobs # <<>> \/ closing \/ \E s \in Senders : spc[s] = "wake"

WorkerInv ==
    /\ WTypes /\ Places /\ JobsInv /\ FlushKept /\ LeftInv
    /\ Worker!QueuedHasJob /\ Worker!NothingLostInOrder

\* The instance's names for what both processors have.
LEMMA SameQueue ==
    /\ Worker!Buffers = Buffers /\ Worker!Options = Options /\ Worker!SendInit = SendInit
    /\ Worker!SendTypeOK = SendTypeOK /\ Worker!PopCounts = PopCounts
    /\ Worker!sendVars = sendVars /\ Worker!queueVars = queueVars
    /\ \A s \in Senders : /\ Worker!Push(s) = Push(s) /\ Worker!Advance(s) = Advance(s)
                          /\ Worker!BufferOf(s) = BufferOf(s)
    /\ \A bs : Worker!PutAll(bs) = PutAll(bs)
    /\ \A a, b : Worker!Smaller(a, b) = Smaller(a, b)
<1>1. Worker!Buffers = Buffers /\ Worker!Options = Options
  BY DEF Worker!Buffers, Buffers, Worker!Options, Options
<1>2. Worker!SendTypeOK = SendTypeOK
  BY <1>1 DEF Worker!SendTypeOK, SendTypeOK
<1>3. Worker!PopCounts = PopCounts /\ \A a, b : Worker!Smaller(a, b) = Smaller(a, b)
  BY DEF Worker!PopCounts, PopCounts, Worker!Smaller, Smaller
<1>4. Worker!sendVars = sendVars /\ Worker!queueVars = queueVars
  BY DEF Worker!sendVars, sendVars, Worker!queueVars, queueVars
<1>5. \A bs : Worker!PutAll(bs) = PutAll(bs)
  BY <1>1 DEF Worker!PutAll, PutAll
<1>6. \A s \in Senders : Worker!Advance(s) = Advance(s) /\ Worker!BufferOf(s) = BufferOf(s)
  BY DEF Worker!Advance, Advance, Worker!BufferOf, BufferOf
<1>7. \A s \in Senders : Worker!Push(s) = Push(s)
  BY <1>5, <1>6
  DEF Push, Worker!Push, PushClosed, Worker!PushClosed, PushAccepts, Worker!PushAccepts, PushGivesUp,
      Worker!PushGivesUp, PushAgain, Worker!PushAgain, Worker!HasRoom, HasRoom, Worker!LastTry, LastTry
<1>8. Worker!SendInit = SendInit
  BY <1>1 DEF Worker!SendInit, SendInit
<1> QED BY <1>1, <1>2, <1>3, <1>4, <1>5, <1>6, <1>7, <1>8

JobTypes == jobs \in Seq({"drain", "shutdown"}) /\ job \in {"drain", "shutdown", "none"}
Running == (job = "none" <=> jpc = "idle") /\ (job = "none" => jobs = <<>>)

LEMMA NextJobFacts ==
    ASSUME NEW js \in Seq({"drain", "shutdown"}), Worker!NextJob(js)
    PROVE  /\ JobTypes' /\ Running' /\ jpc' \in {"idle", "start"}
           /\ js = <<>> <=> job' = "none"
           /\ Shutting' <=> HasShutdown(js)
<1>1. CASE js = <<>>
  <2>1. job' = "none" /\ jpc' = "idle" /\ jobs' = <<>> /\ jobs' \in Seq({"drain", "shutdown"})
          /\ DOMAIN js = {}
    BY <1>1 DEF Worker!NextJob
  <2> QED BY <1>1, <2>1 DEF JobTypes, Running, Shutting, HasShutdown
<1>2. CASE js # <<>>
  <2>1. job' = Head(js) /\ jpc' = "start" /\ jobs' = Tail(js)
    BY <1>2 DEF Worker!NextJob
  <2>2. /\ Head(js) \in {"drain", "shutdown"} /\ Tail(js) \in Seq({"drain", "shutdown"})
        /\ Len(js) \in Nat \ {0} /\ Len(Tail(js)) = Len(js) - 1 /\ Head(js) = js[1]
        /\ \A i \in 1..Len(Tail(js)) : Tail(js)[i] = js[i + 1]
        /\ DOMAIN js = 1..Len(js) /\ DOMAIN Tail(js) = 1..Len(Tail(js))
    BY <1>2, HeadTailProperties, LenProperties, EmptySeq
  <2>3. Shutting' <=> HasShutdown(js)
    <3>1. ASSUME NEW i \in DOMAIN js, js[i] = "shutdown"
            PROVE Head(js) = "shutdown" \/ HasShutdown(Tail(js))
      <4>1. CASE i = 1
        BY <2>2, <3>1, <4>1
      <4>2. CASE i # 1
        <5>1. i - 1 \in 1..Len(Tail(js)) /\ (i - 1) + 1 = i
          BY <2>2, <4>2
        <5>2. Tail(js)[i - 1] = "shutdown" /\ i - 1 \in DOMAIN Tail(js)
          BY <2>2, <3>1, <5>1
        <5> QED BY <5>2 DEF HasShutdown
      <4> QED BY <4>1, <4>2
    <3>2. Head(js) = "shutdown" => HasShutdown(js)
      <4>1. 1 \in DOMAIN js
        BY <2>2
      <4> QED BY <2>2, <4>1 DEF HasShutdown
    <3>3. ASSUME NEW i \in DOMAIN Tail(js), Tail(js)[i] = "shutdown" PROVE HasShutdown(js)
      <4>1. i + 1 \in DOMAIN js /\ js[i + 1] = "shutdown"
        BY <2>2, <3>3
      <4> QED BY <4>1 DEF HasShutdown
    <3> QED BY <2>1, <3>1, <3>2, <3>3 DEF Shutting, HasShutdown
  <2> QED BY <1>2, <2>1, <2>2, <2>3 DEF JobTypes, Running
<1> QED BY <1>1, <1>2

LEMMA PushJobFacts ==
    ASSUME JobTypes, Running, NEW j \in {"drain", "shutdown"}, Worker!PushJob(j)
    PROVE  /\ JobTypes' /\ Running' /\ job' # "none"
           /\ job # "none" => job' = job /\ jpc' = jpc /\ jobs' # <<>>
           /\ job = "none" => job' = j /\ jpc' = "start"
           /\ Shutting' <=> Shutting \/ j = "shutdown"
<1>1. CASE job = "none"
  <2>1. job' = j /\ jpc' = "start" /\ jobs' = jobs /\ jobs = <<>>
    BY <1>1 DEF Worker!PushJob, Running
  <2>2. ~HasShutdown(jobs) /\ ~HasShutdown(jobs')
    BY <2>1 DEF HasShutdown
  <2> QED BY <1>1, <2>1, <2>2 DEF JobTypes, Running, Shutting, HasShutdown
<1>2. CASE job # "none"
  <2>1. job' = job /\ jpc' = jpc /\ jobs' = Append(jobs, j) /\ jobs \in Seq({"drain", "shutdown"})
    BY <1>2 DEF Worker!PushJob, JobTypes
  <2>2. /\ jobs' \in Seq({"drain", "shutdown"}) /\ Len(jobs) \in Nat
        /\ DOMAIN jobs' = 1..(Len(jobs) + 1) /\ DOMAIN jobs = 1..Len(jobs) /\ jobs' # <<>>
        /\ \A i \in 1..Len(jobs) : jobs'[i] = jobs[i]
        /\ jobs'[Len(jobs) + 1] = j
    BY <2>1, AppendProperties, LenProperties
  <2>3. HasShutdown(jobs') <=> HasShutdown(jobs) \/ j = "shutdown"
    BY <2>2 DEF HasShutdown
  <2> QED BY <1>2, <2>1, <2>2, <2>3 DEF JobTypes, Running, Shutting, HasShutdown
<1> QED BY <1>1, <1>2

WorkerTypes ==
    /\ JobTypes /\ jpc \in {"idle", "start", "pop", "write", "retry", "rewrite", "release"}
    /\ again \in BOOLEAN /\ flush \in BOOLEAN /\ attempt \in Nat
    /\ abortFlush \in BOOLEAN /\ finished \in BOOLEAN
    /\ stopPc \in {"idle", "push", "flush", "join", "stopped"}
    /\ stopErr \in BOOLEAN /\ connOpen \in BOOLEAN /\ failed \in BOOLEAN

LEMMA TypesAre ==
    /\ WTypes <=> QueueTypes /\ WorkerTypes /\ wire \in Seq(Buffers)
    /\ WTypes' <=> QueueTypes' /\ WorkerTypes' /\ wire' \in Seq(Buffers)
<1>1. Worker!Buffers = Buffers /\ Worker!Options = Options
  BY SameQueue
<1> QED
  BY <1>1
  DEF WTypes, Worker!TypeOK, Worker!SendTypeOK, SendTypeOK, QueueTypes, WorkerTypes, JobTypes, Worker!Jobs

\* Types after what a step of either processor does to the queue.
LEMMA MovedTypes ==
    ASSUME QueueTypes, Takes \/ GivesBack \/ GivesBatch, UNCHANGED <<opt, closing, tries, accepted>>
    PROVE  QueueTypes'
<1>0. SendTypeOK /\ queue \in Seq(Buffers) /\ batch \in Seq(Buffers) /\ puts \in [Buffers -> Nat]
  BY DEF QueueTypes, SendTypeOK
<1>1. UNCHANGED <<spc, index>>
  BY DEF Takes, GivesBack, GivesBatch
<1>2. queue' \in Seq(Buffers) /\ batch' \in Seq(Buffers) /\ puts' \in [Buffers -> Nat]
  <2>1. CASE Takes
    BY <1>0, <2>1, PopCountsInRange, SplitAt DEF Takes
  <2>2. CASE GivesBack
    BY <1>0, <2>2, PutAllType, SplitAt DEF GivesBack
  <2>3. CASE GivesBatch
    BY <1>0, <2>3, PutAllType, EmptySeq DEF GivesBatch
  <2> QED BY <2>1, <2>2, <2>3
<1> QED BY <1>0, <1>1, <1>2 DEF QueueTypes, SendTypeOK

LEMMA OfferedTypes ==
    ASSUME QueueTypes, NEW s \in Senders, Offering(s), UNCHANGED batch,
           Push(s) \/ UNCHANGED <<opt, closing, accepted>>
    PROVE  QueueTypes'
<1>0. SendTypeOK /\ BufferOf(s) \in Buffers
  BY BufferOfType DEF QueueTypes
<1>1. CASE spc[s] = "wake" /\ Advance(s) /\ UNCHANGED <<queue, puts, opt, closing, accepted>>
  BY <1>0, <1>1, AdvanceType DEF QueueTypes, SendTypeOK
<1>2. CASE PushClosed(s)
  BY <1>0, <1>2, AdvanceType, PutAllType DEF PushClosed, QueueTypes, SendTypeOK
<1>3. CASE PushAccepts(s)
  <2>1. queue' \in Seq(Buffers) /\ accepted' \in Seq(Buffers)
    BY <1>0, <1>3 DEF PushAccepts, SendTypeOK
  <2>2. /\ spc' \in [Senders -> {"push", "wake", "done"}]
        /\ index' \in [Senders -> 1..Sends] /\ tries' \in [Senders -> Nat]
    BY <1>0, <1>3, AdvanceType DEF PushAccepts, SendTypeOK
  <2> QED BY <1>0, <1>3, <2>1, <2>2 DEF PushAccepts, QueueTypes, SendTypeOK
<1>4. CASE PushGivesUp(s)
  BY <1>0, <1>4, AdvanceType, PutAllType DEF PushGivesUp, QueueTypes, SendTypeOK
<1>5. CASE PushAgain(s)
  BY <1>0, <1>5 DEF PushAgain, QueueTypes, SendTypeOK
<1>6. Push(s) \/ (spc[s] = "wake" /\ Advance(s) /\ UNCHANGED <<queue, puts>>)
  BY DEF Offering
<1>7. Push(s) <=> PushClosed(s) \/ PushAccepts(s) \/ PushGivesUp(s) \/ PushAgain(s)
  BY DEF Push
<1> QED BY <1>1, <1>2, <1>3, <1>4, <1>5, <1>6, <1>7

\* What excuses a loss: a failed write, a stop that does not flush, or an aborted flush.
Excused == failed \/ (stopPc # "idle" /\ ~Worker!FlushWanted) \/ abortFlush

LEMMA OrderIs ==
    /\ Worker!NothingLostInOrder <=> Excused \/ accepted = wire \o batch \o queue
    /\ (Worker!NothingLostInOrder)' <=> Excused' \/ accepted' = wire' \o batch' \o queue'
BY DEF Worker!NothingLostInOrder, Excused

LEMMA InvParts ==
    ASSUME WorkerInv
    PROVE  /\ QueueTypes /\ WorkerTypes /\ JobTypes /\ Running /\ wire \in Seq(Buffers) /\ SendTypeOK
           /\ queue \in Seq(Buffers) /\ batch \in Seq(Buffers) /\ accepted \in Seq(Buffers)
           /\ spc \in [Senders -> {"push", "wake", "done"}]
BY TypesAre DEF WorkerInv, WorkerTypes, QueueTypes, SendTypeOK, JobsInv, Running

LEMMA WorkerPushes ==
    ASSUME WorkerInv, NEW s \in Senders, Worker!SendPush(s)
    PROVE  WorkerInv'
<1>0. /\ QueueTypes /\ WorkerTypes /\ JobTypes /\ Running /\ wire \in Seq(Buffers) /\ SendTypeOK
      /\ queue \in Seq(Buffers) /\ batch \in Seq(Buffers) /\ accepted \in Seq(Buffers)
      /\ spc \in [Senders -> {"push", "wake", "done"}]
  BY InvParts
<1>1. /\ Push(s) /\ Offering(s)
      /\ UNCHANGED <<jobs, job, jpc, again, flush, batch, attempt, finished, wire, failed>>
      /\ UNCHANGED <<stopPc, stopErr, abortFlush, connOpen>>
  BY SameQueue DEF Worker!SendPush, Worker!jobVars, Worker!stopVars, Offering
<1>2. QueueTypes' /\ Places'
  BY <1>0, <1>1, OfferedTypes, PlacesOffered DEF WorkerInv
<1>3. opt' = opt /\ closing' = closing /\ spc[s] = "push"
  BY <1>1 DEF Push, PushClosed, PushAccepts, PushGivesUp, PushAgain
<1>4. \/ queue' = queue /\ accepted' = accepted
      \/ /\ ~closing /\ queue' = Append(queue, BufferOf(s)) /\ accepted' = Append(accepted, BufferOf(s))
         /\ queue = <<>> => spc'[s] = "wake"
  BY <1>0, <1>1 DEF Push, PushClosed, PushAccepts, PushGivesUp, PushAgain
<1>5. \A t \in Senders : spc[t] = "wake" => spc'[t] = "wake"
  BY <1>0, <1>1, <1>3 DEF Push, PushClosed, PushAccepts, PushGivesUp, PushAgain, Advance
<1>6. (Worker!FlushWanted)' = Worker!FlushWanted /\ (Shutting' <=> Shutting)
  BY <1>1, <1>3 DEF Worker!FlushWanted, Shutting, HasShutdown
<1>7. WTypes'
  BY <1>0, <1>1, <1>2, TypesAre DEF WorkerTypes, JobTypes
<1>8. JobsInv' /\ FlushKept'
  <2>1. closing => queue' = queue
    BY <1>4
  <2>2. jpc = "release" => closing
    BY <1>0 DEF WorkerInv, JobsInv, Shutting
  <2>3. JobsInv'
    BY <1>1, <1>3, <1>6, <2>1, <2>2 DEF WorkerInv, JobsInv, Writes
  <2>4. FlushKept'
    BY <1>1, <1>6 DEF WorkerInv, FlushKept
  <2> QED BY <2>3, <2>4
<1>9. LeftInv' /\ (Worker!QueuedHasJob)'
  BY <1>1, <1>3, <1>4, <1>5 DEF WorkerInv, LeftInv, Worker!QueuedHasJob, Writes
<1>10. (Worker!NothingLostInOrder)'
  <2>1. Excused' <=> Excused
    BY <1>1, <1>6 DEF Excused
  <2>2. CASE queue' = queue /\ accepted' = accepted
    BY <1>1, <2>1, <2>2, OrderIs DEF WorkerInv
  <2>3. CASE queue' = Append(queue, BufferOf(s)) /\ accepted' = Append(accepted, BufferOf(s)) /\ ~Excused
    <3>1. accepted = wire \o batch \o queue
      BY <2>3, OrderIs DEF WorkerInv
    <3>2. BufferOf(s) \in Buffers
      BY <1>0, BufferOfType
    <3>3. /\ accepted' = accepted \o <<BufferOf(s)>>
          /\ queue' = queue \o <<BufferOf(s)>>
      BY <1>0, <2>3, <3>2
    <3>4. wire \o batch \in Seq(Buffers) /\ <<BufferOf(s)>> \in Seq(Buffers)
      BY <1>0, <3>2, ConcatProperties
    <3>5. ((wire \o batch) \o queue) \o <<BufferOf(s)>> = (wire \o batch) \o (queue \o <<BufferOf(s)>>)
      BY <1>0, <3>4, Regroup, ZenonT(60)
    <3>6. UNCHANGED <<wire, batch>>
      BY <1>1
    <3>7. accepted' = wire' \o batch' \o queue'
      BY <3>1, <3>3, <3>5, <3>6, Zenon
    <3> QED BY <3>7, OrderIs
  <2> QED BY <1>4, <2>1, <2>2, <2>3, OrderIs
<1> QED BY <1>2, <1>7, <1>8, <1>9, <1>10 DEF WorkerInv

LEMMA WorkerWakes ==
    ASSUME WorkerInv, NEW s \in Senders, Worker!WakeWriter(s)
    PROVE  WorkerInv'
<1>0. /\ QueueTypes /\ WorkerTypes /\ JobTypes /\ Running /\ wire \in Seq(Buffers) /\ SendTypeOK
      /\ spc \in [Senders -> {"push", "wake", "done"}]
  BY InvParts
<1>1. /\ Worker!PushJob("drain") /\ Offering(s)
      /\ UNCHANGED <<opt, closing, queue, puts, accepted, again, flush, batch, attempt, finished, wire,
           failed>>
      /\ UNCHANGED <<stopPc, stopErr, abortFlush, connOpen>>
  BY SameQueue DEF Worker!WakeWriter, Worker!queueVars, Worker!stopVars, Offering
<1>2. QueueTypes' /\ Places'
  BY <1>0, <1>1, OfferedTypes, PlacesOffered DEF WorkerInv
<1>3. /\ JobTypes' /\ Running' /\ job' # "none"
      /\ job # "none" => job' = job /\ jpc' = jpc /\ jobs' # <<>>
      /\ job = "none" => job' = "drain" /\ jpc' = "start"
      /\ Shutting' <=> Shutting
  BY <1>0, <1>1, PushJobFacts
<1>4. (Worker!FlushWanted)' = Worker!FlushWanted
  BY <1>1 DEF Worker!FlushWanted
<1>5. job = "none" <=> jpc = "idle"
  BY <1>0 DEF Running
<1>7. WTypes'
  <2>1. jpc' \in {"idle", "start", "pop", "write", "retry", "rewrite", "release"}
    BY <1>0, <1>3 DEF WorkerTypes
  <2> QED BY <1>0, <1>1, <1>2, <1>3, <2>1, TypesAre DEF WorkerTypes
<1>8. JobsInv'
  BY <1>1, <1>3, <1>5 DEF WorkerInv, JobsInv, Writes, Running
<1>9. FlushKept' /\ LeftInv' /\ (Worker!QueuedHasJob)'
  BY <1>1, <1>3, <1>4, <1>5 DEF WorkerInv, FlushKept, LeftInv, Worker!QueuedHasJob, Writes
<1>10. (Worker!NothingLostInOrder)'
  BY <1>1, <1>4, OrderIs DEF WorkerInv, Excused
<1> QED BY <1>2, <1>7, <1>8, <1>9, <1>10 DEF WorkerInv

LEMMA WorkerStarts ==
    ASSUME WorkerInv, Worker!JobStart
    PROVE  WorkerInv'
<1>0. /\ QueueTypes /\ WorkerTypes /\ JobTypes /\ Running /\ wire \in Seq(Buffers) /\ SendTypeOK
  BY InvParts
<1>1. /\ jpc = "start" /\ jpc' = "pop" /\ flush' = (job = "shutdown" /\ Worker!FlushWanted)
      /\ UNCHANGED <<opt, closing, queue, puts, spc, index, tries, accepted, jobs, job, again, batch>>
      /\ UNCHANGED <<attempt, finished, wire, failed, stopPc, stopErr, abortFlush, connOpen>>
  BY DEF Worker!JobStart, Worker!sendVars, Worker!queueVars, Worker!stopVars
<1>2. QueueTypes' /\ Places'
  BY <1>0, <1>1, PlacesStay DEF WorkerInv, QueueTypes, SendTypeOK
<1>4. (Worker!FlushWanted)' = Worker!FlushWanted /\ (Shutting' <=> Shutting)
  BY <1>1 DEF Worker!FlushWanted, Shutting, HasShutdown
<1>7. WTypes'
  BY <1>0, <1>1, <1>2, TypesAre DEF WorkerTypes, JobTypes
<1>8. JobsInv'
  BY <1>1, <1>4 DEF WorkerInv, JobsInv, Writes
<1>9. FlushKept' /\ LeftInv' /\ (Worker!QueuedHasJob)'
  BY <1>1, <1>4 DEF WorkerInv, FlushKept, LeftInv, Worker!QueuedHasJob, Writes
<1>10. (Worker!NothingLostInOrder)'
  BY <1>1, <1>4, OrderIs DEF WorkerInv, Excused
<1> QED BY <1>2, <1>7, <1>8, <1>9, <1>10 DEF WorkerInv

LEMMA TakeOrder ==
    ASSUME wire \in Seq(Buffers), queue \in Seq(Buffers), batch = <<>>, NEW n \in PopCounts,
           batch' = SubSeq(queue, 1, n), queue' = SubSeq(queue, n + 1, Len(queue)), wire' = wire
    PROVE  wire' \o batch' \o queue' = wire \o batch \o queue
<1>1. /\ batch' \in Seq(Buffers) /\ queue' \in Seq(Buffers)
      /\ batch' \o queue' = queue
  BY PopCountsInRange, SplitAt
<1>2. wire \o <<>> = wire
  BY ConcatEmptySeq, Zenon
<1>3. (wire \o batch') \o queue' = wire \o (batch' \o queue')
  BY <1>1, Regroup, ZenonT(60)
<1> QED BY <1>1, <1>2, <1>3, Zenon

LEMMA DrainPops ==
    ASSUME WorkerInv, Worker!DrainPop
    PROVE  WorkerInv'
<1>0. /\ QueueTypes /\ WorkerTypes /\ JobTypes /\ Running /\ wire \in Seq(Buffers) /\ SendTypeOK
      /\ queue \in Seq(Buffers)
  BY InvParts
<1>1. /\ job = "drain" /\ jpc = "pop"
      /\ UNCHANGED <<opt, closing, spc, index, tries, accepted, puts, flush, attempt, finished, wire,
           failed>>
      /\ UNCHANGED <<stopPc, stopErr, abortFlush, connOpen>>
  BY DEF Worker!DrainPop, Worker!sendVars, Worker!stopVars
<1>2. batch = <<>> /\ (Shutting <=> HasShutdown(jobs)) /\ jobs \in Seq({"drain", "shutdown"})
  BY <1>0, <1>1 DEF WorkerInv, JobsInv, Writes, Shutting, JobTypes
<1>3. (Worker!FlushWanted)' = Worker!FlushWanted /\ (Excused' <=> Excused)
  BY <1>1 DEF Worker!FlushWanted, Excused
<1>4. CASE queue = <<>>
  <2>1. Worker!NextJob(jobs) /\ UNCHANGED <<queue, batch, again>>
    BY <1>4 DEF Worker!DrainPop
  <2>2. /\ JobTypes' /\ Running' /\ jpc' \in {"idle", "start"} /\ (Shutting' <=> Shutting)
    BY <1>2, <2>1, NextJobFacts
  <2>3. QueueTypes' /\ Places'
    BY <1>0, <1>1, <2>1, PlacesStay DEF WorkerInv, QueueTypes, SendTypeOK
  <2>4. WTypes'
    BY <1>0, <1>1, <2>1, <2>2, <2>3, TypesAre DEF WorkerTypes
  <2>5. JobsInv' /\ FlushKept'
    BY <1>1, <1>2, <2>1, <2>2 DEF WorkerInv, JobsInv, Running, Writes, FlushKept
  <2>6. LeftInv' /\ (Worker!QueuedHasJob)'
    BY <1>4, <2>1 DEF LeftInv, Worker!QueuedHasJob
  <2>7. (Worker!NothingLostInOrder)'
    BY <1>1, <1>3, <2>1, OrderIs DEF WorkerInv
  <2> QED BY <2>3, <2>4, <2>5, <2>6, <2>7 DEF WorkerInv
<1>5. CASE queue # <<>>
  <2>1. PICK n \in PopCounts :
            /\ batch' = SubSeq(queue, 1, n) /\ queue' = SubSeq(queue, n + 1, Len(queue))
            /\ again' = (n < Len(queue) /\ ~closing) /\ jpc' = "write" /\ UNCHANGED <<jobs, job>>
    BY <1>5, SameQueue DEF Worker!DrainPop, Worker!TakeBatch
  <2>2. Takes
    BY <1>1, <1>2, <2>1 DEF Takes
  <2>3. QueueTypes' /\ Places'
    BY <1>0, <1>1, <2>2, MovedTypes, PlacesMoved DEF WorkerInv
  <2>4. WTypes'
    BY <1>0, <1>1, <2>1, <2>3, TypesAre DEF WorkerTypes, JobTypes
  <2>5. queue' # <<>> => n < Len(queue)
    <3>1. n \in 0..Len(queue) /\ Len(queue) \in Nat
      BY <1>0, PopCountsInRange, LenProperties
    <3>2. n = Len(queue) => SubSeq(queue, n + 1, Len(queue)) = <<>>
      BY <3>1, SubSeqEmpty
    <3> QED BY <2>1, <3>1, <3>2
  <2>6. (Shutting' <=> Shutting) /\ ~finished
    BY <1>5, <2>1 DEF Shutting, HasShutdown, WorkerInv, JobsInv
  <2>7. JobsInv' /\ FlushKept'
    BY <1>1, <2>1, <2>6 DEF WorkerInv, JobsInv, Writes, FlushKept
  <2>8. LeftInv' /\ (Worker!QueuedHasJob)'
    BY <1>1, <2>1, <2>5 DEF LeftInv, Worker!QueuedHasJob
  <2>9. (Worker!NothingLostInOrder)'
    BY <1>0, <1>1, <1>2, <1>3, <2>1, TakeOrder, OrderIs DEF WorkerInv
  <2> QED BY <2>3, <2>4, <2>7, <2>8, <2>9 DEF WorkerInv
<1> QED BY <1>4, <1>5

LEMMA ShutdownPops ==
    ASSUME WorkerInv, Worker!ShutdownPop
    PROVE  WorkerInv'
<1>0. /\ QueueTypes /\ WorkerTypes /\ JobTypes /\ Running /\ wire \in Seq(Buffers) /\ SendTypeOK
      /\ queue \in Seq(Buffers)
  BY InvParts
<1>1. /\ job = "shutdown" /\ jpc = "pop"
      /\ UNCHANGED <<opt, closing, spc, index, tries, accepted, jobs, job, again, attempt, finished,
           wire, failed>>
      /\ UNCHANGED <<stopPc, stopErr, abortFlush, connOpen>>
  BY DEF Worker!ShutdownPop, Worker!sendVars, Worker!stopVars
<1>2. batch = <<>> /\ Shutting /\ Shutting' /\ closing /\ stopPc # "idle"
  BY <1>0, <1>1 DEF WorkerInv, JobsInv, Writes, Shutting
<1>3. (Worker!FlushWanted)' = Worker!FlushWanted /\ (Excused' <=> Excused)
  BY <1>1 DEF Worker!FlushWanted, Excused
<1>4. CASE queue = <<>>
  <2>1. jpc' = "release" /\ UNCHANGED <<queue, batch, puts, flush>>
    BY <1>4 DEF Worker!ShutdownPop
  <2>3. QueueTypes' /\ Places'
    BY <1>0, <1>1, <2>1, PlacesStay DEF WorkerInv, QueueTypes, SendTypeOK
  <2>4. WTypes'
    BY <1>0, <1>1, <2>1, <2>3, TypesAre DEF WorkerTypes, JobTypes
  <2>5. JobsInv' /\ FlushKept'
    BY <1>1, <1>2, <1>3, <1>4, <2>1 DEF WorkerInv, JobsInv, Writes, FlushKept
  <2>6. LeftInv' /\ (Worker!QueuedHasJob)'
    BY <1>4, <2>1 DEF LeftInv, Worker!QueuedHasJob
  <2>7. (Worker!NothingLostInOrder)'
    BY <1>1, <1>3, <2>1, OrderIs DEF WorkerInv
  <2> QED BY <2>3, <2>4, <2>5, <2>6, <2>7 DEF WorkerInv
<1>5. CASE queue # <<>>
  <2>1. PICK n \in PopCounts :
            /\ flush' = (flush /\ ~abortFlush)
            /\ IF flush'
               THEN /\ batch' = SubSeq(queue, 1, n) /\ queue' = SubSeq(queue, n + 1, Len(queue))
                    /\ jpc' = "write" /\ UNCHANGED puts
               ELSE /\ PutAll(SubSeq(queue, 1, n)) /\ queue' = SubSeq(queue, n + 1, Len(queue))
                    /\ UNCHANGED <<batch, jpc>>
    BY <1>5, SameQueue DEF Worker!ShutdownPop, Worker!TakeBatch
  <2>2. Takes \/ GivesBack
    <3>1. n \in 0..Len(queue)
      BY <1>0, PopCountsInRange
    <3> QED BY <1>1, <1>2, <2>1, <3>1 DEF Takes, GivesBack
  <2>3. QueueTypes' /\ Places'
    BY <1>0, <1>1, <2>2, MovedTypes, PlacesMoved DEF WorkerInv
  <2>4. WTypes'
    BY <1>0, <1>1, <2>1, <2>3, TypesAre DEF WorkerTypes, JobTypes
  <2>6. ~finished
    BY <1>5 DEF WorkerInv, JobsInv
  <2>7. JobsInv' /\ FlushKept'
    BY <1>1, <1>2, <1>3, <2>1, <2>6 DEF WorkerInv, JobsInv, Writes, FlushKept
  <2>8. LeftInv' /\ (Worker!QueuedHasJob)'
    BY <1>1 DEF LeftInv, Worker!QueuedHasJob
  <2>9. CASE flush'
    <3>1. (Worker!NothingLostInOrder)'
      BY <1>0, <1>1, <1>2, <1>3, <2>1, <2>9, TakeOrder, OrderIs DEF WorkerInv
    <3> QED BY <2>3, <2>4, <2>7, <2>8, <3>1 DEF WorkerInv
  <2>10. CASE ~flush'
    <3>1. ~Worker!FlushWanted \/ abortFlush
      BY <1>1, <2>1, <2>10 DEF WorkerInv, FlushKept
    <3> QED BY <1>1, <1>2, <1>3, <2>3, <2>4, <2>7, <2>8, <3>1, OrderIs DEF WorkerInv, Excused
  <2> QED BY <2>3, <2>4, <2>7, <2>8, <2>9, <2>10 DEF WorkerInv
<1> QED BY <1>4, <1>5

LEMMA WorkerReleases ==
    ASSUME WorkerInv, Worker!Release
    PROVE  WorkerInv'
<1>0. /\ QueueTypes /\ WorkerTypes /\ JobTypes /\ Running /\ wire \in Seq(Buffers) /\ SendTypeOK
      /\ queue \in Seq(Buffers)
  BY InvParts
<1>1. /\ job = "shutdown" /\ jpc = "release"
      /\ UNCHANGED <<opt, closing, spc, index, tries, accepted, again, flush, batch, attempt, wire, failed>>
      /\ UNCHANGED <<stopPc, stopErr, abortFlush, connOpen>>
  BY DEF Worker!Release, Worker!sendVars, Worker!stopVars
<1>2. batch = <<>> /\ Shutting /\ closing /\ stopPc \notin {"idle", "push"} /\ jobs \in Seq({"drain",
        "shutdown"})
  BY <1>0, <1>1 DEF WorkerInv, JobsInv, Writes, Shutting, JobTypes
<1>3. (Worker!FlushWanted)' = Worker!FlushWanted /\ (Excused' <=> Excused)
  BY <1>1 DEF Worker!FlushWanted, Excused
<1>4. CASE queue = <<>>
  <2>1. finished' = TRUE /\ Worker!NextJob(jobs) /\ UNCHANGED <<queue, puts>>
    BY <1>4 DEF Worker!Release
  <2>2. /\ JobTypes' /\ Running' /\ jpc' \in {"idle", "start"}
    BY <1>2, <2>1, NextJobFacts
  <2>3. QueueTypes' /\ Places'
    BY <1>0, <1>1, <2>1, PlacesStay DEF WorkerInv, QueueTypes, SendTypeOK
  <2>4. WTypes'
    BY <1>0, <1>1, <2>1, <2>2, <2>3, TypesAre DEF WorkerTypes
  <2>5. JobsInv' /\ FlushKept'
    BY <1>1, <1>2, <1>4, <2>1, <2>2 DEF WorkerInv, JobsInv, Running, Writes, FlushKept
  <2>6. LeftInv' /\ (Worker!QueuedHasJob)'
    BY <1>4, <2>1 DEF LeftInv, Worker!QueuedHasJob
  <2>7. (Worker!NothingLostInOrder)'
    BY <1>1, <1>3, <2>1, OrderIs DEF WorkerInv
  <2> QED BY <2>3, <2>4, <2>5, <2>6, <2>7 DEF WorkerInv
<1>5. CASE queue # <<>>
  <2>1. /\ PutAll(SubSeq(queue, 1, Smaller(BatchSize, Len(queue))))
        /\ queue' = SubSeq(queue, Smaller(BatchSize, Len(queue)) + 1, Len(queue))
        /\ UNCHANGED <<finished, jobs, job, jpc>>
    BY <1>5, SameQueue DEF Worker!Release
  <2>2. GivesBack
    <3>1. Smaller(BatchSize, Len(queue)) \in 0..Len(queue)
      BY <1>0, LenProperties, SizesAssumption DEF Smaller
    <3> QED BY <1>1, <2>1, <3>1 DEF GivesBack
  <2>3. QueueTypes' /\ Places'
    BY <1>0, <1>1, <2>2, MovedTypes, PlacesMoved DEF WorkerInv
  <2>4. WTypes'
    BY <1>0, <1>1, <2>1, <2>3, TypesAre DEF WorkerTypes, JobTypes
  <2>6. ~finished /\ failed /\ Shutting'
    BY <1>1, <1>5, <2>1 DEF WorkerInv, JobsInv, Shutting
  <2>7. JobsInv' /\ FlushKept'
    BY <1>1, <1>2, <1>3, <2>1, <2>6 DEF WorkerInv, JobsInv, Writes, FlushKept
  <2>8. LeftInv' /\ (Worker!QueuedHasJob)' /\ (Worker!NothingLostInOrder)'
    BY <1>1, <2>6 DEF LeftInv, Worker!QueuedHasJob, Worker!NothingLostInOrder
  <2> QED BY <2>3, <2>4, <2>7, <2>8 DEF WorkerInv
<1> QED BY <1>4, <1>5

\* The job that wrote is over: drainJob queues itself again if it left buffers.
LEMMA WrittenOff ==
    ASSUME WorkerInv, Writes, GivesBatch,
           UNCHANGED <<opt, closing, tries, accepted, again, flush, finished, stopPc, stopErr, abortFlush>>,
           failed \in BOOLEAN, failed => failed', failed' \in BOOLEAN, attempt' \in Nat,
             connOpen' \in BOOLEAN,
           wire' \in Seq(Buffers),
           \/ job = "shutdown" /\ jpc' = "pop" /\ UNCHANGED <<jobs, job>>
           \/ job = "shutdown" /\ jpc' = "release" /\ UNCHANGED <<jobs, job>> /\ failed'
           \/ job = "drain" /\ Worker!NextJob(jobs) /\ (failed' \/ ~again)
           \/ job = "drain" /\ Worker!NextJob(Append(jobs, "drain"))
    PROVE  /\ WTypes' /\ Places' /\ JobsInv' /\ FlushKept' /\ LeftInv' /\ (Worker!QueuedHasJob)'
           /\ Excused => Excused'
<1>0. /\ QueueTypes /\ WorkerTypes /\ JobTypes /\ Running /\ SendTypeOK
      /\ spc \in [Senders -> {"push", "wake", "done"}]
  BY InvParts
<1>1. QueueTypes' /\ Places'
  BY <1>0, MovedTypes, PlacesMoved DEF WorkerInv
<1>2. batch' = <<>> /\ queue' = queue /\ spc' = spc /\ ~finished
  BY DEF GivesBatch, WorkerInv, JobsInv
<1>3. /\ jpc \in {"write", "retry", "rewrite"} /\ jobs \in Seq({"drain", "shutdown"})
      /\ HasShutdown(Append(jobs, "drain")) <=> HasShutdown(jobs)
      /\ Append(jobs, "drain") \in Seq({"drain", "shutdown"}) /\ Append(jobs, "drain") # <<>>
  <2>1. jobs \in Seq({"drain", "shutdown"})
    BY <1>0 DEF JobTypes
  <2>2. /\ Append(jobs, "drain") \in Seq({"drain", "shutdown"}) /\ Len(jobs) \in Nat
        /\ DOMAIN Append(jobs, "drain") = 1..(Len(jobs) + 1) /\ DOMAIN jobs = 1..Len(jobs)
        /\ Append(jobs, "drain") # <<>>
        /\ \A i \in 1..Len(jobs) : Append(jobs, "drain")[i] = jobs[i]
        /\ Append(jobs, "drain")[Len(jobs) + 1] = "drain"
    BY <2>1, AppendProperties, LenProperties
  <2>3. HasShutdown(Append(jobs, "drain")) <=> HasShutdown(jobs)
    BY <2>2 DEF HasShutdown
  <2> QED BY <2>1, <2>2, <2>3 DEF Writes
<1>4. /\ JobTypes' /\ Running' /\ jpc' \in {"idle", "start", "pop", "release"}
      /\ Shutting' <=> Shutting
      /\ jpc' = "release" => job' = "shutdown" /\ failed'
      /\ job' = "shutdown" /\ jpc' # "start" => job = "shutdown"
      /\ job' = "none" => jobs = <<>> /\ job = "drain" /\ (failed' \/ ~again)
  <2>1. CASE UNCHANGED <<jobs, job>> /\ job = "shutdown"
    BY <1>0, <2>1 DEF JobTypes, Running, Shutting, HasShutdown
  <2>2. CASE job = "drain" /\ Worker!NextJob(jobs) /\ (failed' \/ ~again)
    <3>1. /\ JobTypes' /\ Running' /\ jpc' \in {"idle", "start"} /\ (jobs = <<>> <=> job' = "none")
          /\ Shutting' <=> HasShutdown(jobs)
      BY <1>3, <2>2, NextJobFacts
    <3> QED BY <2>2, <3>1 DEF Shutting, Running
  <2>3. CASE job = "drain" /\ Worker!NextJob(Append(jobs, "drain"))
    <3>1. /\ JobTypes' /\ Running' /\ jpc' \in {"idle", "start"} /\ (Append(jobs, "drain") = <<>>
               <=> job' = "none")
          /\ Shutting' <=> HasShutdown(Append(jobs, "drain"))
      BY <1>3, <2>3, NextJobFacts
    <3> QED BY <1>3, <2>3, <3>1 DEF Shutting, Running
  <2> QED BY <2>1, <2>2, <2>3
<1>5. (Worker!FlushWanted)' = Worker!FlushWanted /\ (Excused => Excused')
  BY DEF Worker!FlushWanted, Excused
<1>6. WTypes'
  BY <1>0, <1>1, <1>4, TypesAre DEF WorkerTypes
<1>7. JobsInv'
  BY <1>2, <1>4 DEF WorkerInv, JobsInv, Writes, Running
<1>8. FlushKept'
  BY <1>3, <1>4, <1>5 DEF WorkerInv, FlushKept
<1>9. LeftInv'
  BY <1>4 DEF LeftInv, Writes
<1>10. (Worker!QueuedHasJob)'
  <2> SUFFICES ASSUME queue # <<>>, ~failed', job' = "none"
               PROVE  stopPc = "push" \/ \E s \in Senders : spc[s] = "wake"
    BY <1>2 DEF Worker!QueuedHasJob
  <2>1. jobs = <<>> /\ job = "drain" /\ ~again /\ ~failed
    BY <1>4
  <2>2. CASE closing
    <3>1. ~Shutting
      BY <2>1 DEF Shutting, HasShutdown
    <3> QED BY <1>0, <1>2, <2>2, <3>1 DEF WorkerInv, JobsInv, WorkerTypes
  <2>3. CASE ~closing
    BY <2>1, <2>3 DEF WorkerInv, LeftInv
  <2> QED BY <2>2, <2>3
<1> QED BY <1>1, <1>5, <1>6, <1>7, <1>8, <1>9, <1>10

LEMMA WorkerWrites ==
    ASSUME WorkerInv, Worker!WriteOk
    PROVE  WorkerInv'
<1>0. /\ QueueTypes /\ WorkerTypes /\ JobTypes /\ Running /\ wire \in Seq(Buffers) /\ SendTypeOK
      /\ queue \in Seq(Buffers) /\ batch \in Seq(Buffers)
  BY InvParts
<1>1. /\ Writes /\ wire' = wire \o batch /\ PutAll(batch) /\ batch' = <<>> /\ attempt' = 0
           /\ Worker!AfterWrite
      /\ UNCHANGED <<opt, closing, spc, index, tries, accepted, queue, again, flush, finished, failed>>
      /\ UNCHANGED <<stopPc, stopErr, abortFlush, connOpen>>
  BY SameQueue DEF Worker!WriteOk, Worker!Writing, Writes, Worker!sendVars, Worker!stopVars
<1>2. GivesBatch /\ wire' \in Seq(Buffers)
  BY <1>0, <1>1, ConcatProperties DEF GivesBatch
<1>3. job \in {"drain", "shutdown"}
  BY <1>0, <1>1 DEF JobTypes, Running, Writes
<1>4. \/ job = "shutdown" /\ jpc' = "pop" /\ UNCHANGED <<jobs, job>>
      \/ job = "drain" /\ Worker!NextJob(jobs) /\ ~again
      \/ job = "drain" /\ Worker!NextJob(Append(jobs, "drain"))
  BY <1>1, <1>3 DEF Worker!AfterWrite
<1>5. /\ WTypes' /\ Places' /\ JobsInv' /\ FlushKept' /\ LeftInv' /\ (Worker!QueuedHasJob)'
      /\ Excused => Excused'
  BY <1>0, <1>1, <1>2, <1>4, WrittenOff DEF WorkerTypes
<1>6. (Worker!NothingLostInOrder)'
  <2>1. wire' \o batch' = wire'
    BY <1>1, <1>2, ConcatEmptySeq
  <2>2. accepted = wire \o batch \o queue => accepted' = wire' \o batch' \o queue'
    BY <1>1, <2>1, Zenon
  <2> QED BY <1>5, <2>2, OrderIs DEF WorkerInv
<1> QED BY <1>5, <1>6 DEF WorkerInv

LEMMA WorkerFails ==
    ASSUME WorkerInv, Worker!WriteFails \/ Worker!RetryGivesUp \/ Worker!RetryAgain
    PROVE  WorkerInv'
<1>0. /\ QueueTypes /\ WorkerTypes /\ JobTypes /\ Running /\ wire \in Seq(Buffers) /\ SendTypeOK
      /\ queue \in Seq(Buffers) /\ batch \in Seq(Buffers)
  BY InvParts
<1>1. /\ Writes
      /\ UNCHANGED <<opt, closing, spc, index, tries, accepted, queue, again, flush, finished>>
      /\ UNCHANGED <<stopPc, stopErr, abortFlush>>
  BY DEF Worker!WriteFails, Worker!RetryGivesUp, Worker!RetryAgain, Worker!Writing, Writes, Worker!sendVars,
         Worker!queueVars, Worker!stopVars
<1>2. failed' = TRUE
  BY <1>0 DEF Worker!WriteFails, Worker!RetryGivesUp, Worker!RetryAgain, WorkerInv, JobsInv, WorkerTypes
<1>3. wire' \in Seq(Buffers)
  <2>1. CASE Worker!WriteFails
    <3>1. PICK j \in 0..(Len(batch) - 1) : wire' = wire \o SubSeq(batch, 1, j)
      BY <2>1 DEF Worker!WriteFails
    <3>2. j \in 0..Len(batch)
      BY <1>0, LenProperties
    <3> QED BY <1>0, <3>1, <3>2, SplitAt, ConcatProperties
  <2>2. CASE Worker!RetryGivesUp \/ Worker!RetryAgain
    BY <1>0, <2>2 DEF Worker!RetryGivesUp, Worker!RetryAgain
  <2> QED BY <2>1, <2>2
<1>4. CASE Worker!GiveUp /\ attempt' = 0
  <2>1. GivesBatch /\ connOpen' = FALSE
    BY <1>1, <1>4, SameQueue DEF Worker!GiveUp, GivesBatch
  <2>2. job \in {"drain", "shutdown"}
    BY <1>0, <1>1 DEF JobTypes, Running, Writes
  <2>3. \/ job = "shutdown" /\ jpc' = "release" /\ UNCHANGED <<jobs, job>>
        \/ job = "drain" /\ Worker!NextJob(jobs)
    BY <1>4, <2>2 DEF Worker!GiveUp
  <2>4. WTypes' /\ Places' /\ JobsInv' /\ FlushKept' /\ LeftInv' /\ (Worker!QueuedHasJob)'
    BY <1>0, <1>1, <1>2, <1>3, <1>4, <2>1, <2>3, WrittenOff DEF WorkerTypes
  <2> QED BY <1>2, <2>4 DEF WorkerInv, Worker!NothingLostInOrder
<1>5. CASE /\ jpc' \in {"retry", "rewrite"} /\ attempt' \in Nat
           /\ UNCHANGED <<puts, batch, connOpen, jobs, job>>
  <2>1. QueueTypes' /\ Places'
    BY <1>0, <1>1, <1>5, PlacesStay DEF WorkerInv, QueueTypes, SendTypeOK
  <2>2. WTypes'
    BY <1>0, <1>1, <1>2, <1>3, <1>5, <2>1, TypesAre DEF WorkerTypes, JobTypes
  <2>3. (Shutting' <=> Shutting) /\ (Worker!FlushWanted)' = Worker!FlushWanted
    BY <1>1, <1>5 DEF Shutting, HasShutdown, Worker!FlushWanted
  <2>4. JobsInv'
    BY <1>1, <1>2, <1>5, <2>3 DEF WorkerInv, JobsInv, Writes
  <2>5. FlushKept'
    BY <1>1, <1>5, <2>3 DEF WorkerInv, FlushKept, Writes
  <2> QED
    BY <1>2, <2>1, <2>2, <2>4, <2>5
    DEF WorkerInv, LeftInv, Worker!QueuedHasJob, Worker!NothingLostInOrder
<1>6. (Worker!GiveUp /\ attempt' = 0) \/ (/\ jpc' \in {"retry", "rewrite"} /\ attempt' \in Nat
                                        /\ UNCHANGED <<puts, batch, connOpen, jobs, job>>)
  <2>1. CASE Worker!WriteFails
    BY <1>0, <2>1 DEF Worker!WriteFails, WorkerTypes
  <2>2. CASE Worker!RetryGivesUp
    BY <2>2 DEF Worker!RetryGivesUp
  <2>3. CASE Worker!RetryAgain
    BY <1>0, <2>3 DEF Worker!RetryAgain, WorkerTypes, Worker!queueVars, Worker!stopVars
  <2> QED BY <2>1, <2>2, <2>3
<1> QED BY <1>4, <1>5, <1>6

LEMMA WorkerStops ==
    ASSUME WorkerInv, Worker!Stopper \/ Worker!PeerCloses \/ UNCHANGED Worker!vars
    PROVE  WorkerInv'
<1>0. /\ QueueTypes /\ WorkerTypes /\ JobTypes /\ Running /\ wire \in Seq(Buffers) /\ SendTypeOK
      /\ spc \in [Senders -> {"push", "wake", "done"}]
  BY InvParts
<1>1. UNCHANGED <<opt, queue, spc, index, tries, accepted, puts, again, flush, batch, attempt, finished,
        wire, failed>>
  BY DEF Worker!Stopper, Worker!StopBegin, Worker!StopPushes, Worker!StopFlushed, Worker!StopAborts,
         Worker!StopJoins, Worker!PeerCloses, Worker!vars, Worker!sendVars, Worker!queueVars,
           Worker!jobVars,
         Worker!stopVars
<1>2. /\ closing' \in BOOLEAN /\ stopErr' \in BOOLEAN /\ abortFlush' \in BOOLEAN /\ connOpen' \in BOOLEAN
      /\ stopPc' \in {"idle", "push", "flush", "join", "stopped"} /\ (abortFlush => abortFlush')
  BY <1>0 DEF Worker!Stopper, Worker!StopBegin, Worker!StopPushes, Worker!StopFlushed, Worker!StopAborts,
              Worker!StopJoins, Worker!PeerCloses, Worker!vars, Worker!jobVars,
              Worker!stopVars, WorkerTypes, QueueTypes, SendTypeOK
<1>3. QueueTypes' /\ Places'
  BY <1>0, <1>1, <1>2, PlacesStay DEF WorkerInv, QueueTypes, SendTypeOK
<1>4. CASE Worker!StopPushes
  <2>1. /\ stopPc = "push" /\ Worker!PushJob("shutdown") /\ stopPc' \in {"flush", "join"}
        /\ UNCHANGED <<closing, stopErr, abortFlush, connOpen>>
    BY <1>4 DEF Worker!StopPushes
  <2>2. /\ JobTypes' /\ Running' /\ job' # "none" /\ Shutting'
        /\ job # "none" => job' = job /\ jpc' = jpc /\ jobs' # <<>>
        /\ job = "none" => job' = "shutdown" /\ jpc' = "start"
    BY <1>0, <2>1, PushJobFacts
  <2>3. (Worker!FlushWanted)' = Worker!FlushWanted
    BY <1>1, <2>1 DEF Worker!FlushWanted
  <2>4. WTypes'
    BY <1>0, <1>1, <1>2, <1>3, <2>2, TypesAre DEF WorkerTypes
  <2>5. JobsInv'
    BY <1>0, <1>1, <2>1, <2>2 DEF WorkerInv, JobsInv, Writes, Running
  <2>6. FlushKept' /\ LeftInv' /\ (Worker!QueuedHasJob)'
    BY <1>0, <1>1, <2>1, <2>2, <2>3 DEF WorkerInv, FlushKept, LeftInv, Worker!QueuedHasJob, Writes, Running
  <2>7. (Worker!NothingLostInOrder)'
    BY <1>1, <2>1, <2>3, OrderIs DEF WorkerInv, Excused
  <2> QED BY <1>3, <2>4, <2>5, <2>6, <2>7 DEF WorkerInv
<1>5. ASSUME ~Worker!StopPushes PROVE WorkerInv'
  <2>1. UNCHANGED <<jobs, job, jpc>>
    BY <1>5 DEF Worker!Stopper, Worker!StopBegin, Worker!StopFlushed, Worker!StopAborts,
                Worker!StopJoins, Worker!PeerCloses, Worker!vars, Worker!jobVars
  <2>2. \/ stopPc = "idle" /\ stopPc' = "push" /\ closing' = TRUE
        \/ /\ stopPc # "idle" /\ stopPc' \in {"join", "stopped"} /\ closing' = closing /\ stopErr' = stopErr
           /\ stopPc' = "stopped" => finished
           /\ stopPc \notin {"idle", "push"}
        \/ stopPc' = stopPc /\ closing' = closing /\ stopErr' = stopErr
    BY <1>5 DEF Worker!Stopper, Worker!StopBegin, Worker!StopFlushed, Worker!StopAborts,
                Worker!StopJoins, Worker!PeerCloses, Worker!vars, Worker!stopVars
  <2>3. WTypes'
    BY <1>0, <1>1, <1>2, <1>3, <2>1, TypesAre DEF WorkerTypes, JobTypes
  <2>4. Shutting' <=> Shutting
    BY <2>1 DEF Shutting, HasShutdown
  <2>5. JobsInv'
    BY <1>0, <1>1, <2>1, <2>2, <2>4 DEF WorkerInv, JobsInv, Writes, WorkerTypes
  <2>6. LeftInv' /\ (Worker!QueuedHasJob)'
    BY <1>0, <1>1, <2>1, <2>2 DEF WorkerInv, LeftInv, Worker!QueuedHasJob, Writes, WorkerTypes
  <2>7. stopErr' # stopErr => stopPc = "idle"
    BY <2>2
  <2>8. FlushKept'
    BY <1>1, <1>2, <2>1, <2>7 DEF WorkerInv, FlushKept, JobsInv, Shutting, Worker!FlushWanted
  <2>9. Excused => Excused'
    BY <1>1, <1>2, <2>2 DEF Excused, Worker!FlushWanted
  <2>10. (Worker!NothingLostInOrder)'
    BY <1>1, <2>9, OrderIs DEF WorkerInv
  <2> QED BY <1>3, <2>3, <2>5, <2>6, <2>8, <2>10 DEF WorkerInv
<1> QED BY <1>4, <1>5

\* A producer that is done offered its last buffer.
AllOffered == \A s \in Senders : spc[s] = "done" => index[s] = Sends

LEMMA AllOfferedKept ==
    ASSUME SendTypeOK, AllOffered,
           \/ UNCHANGED <<spc, index>>
           \/ \E s \in Senders : Push(s) \/ (spc[s] = "wake" /\ Advance(s))
    PROVE  AllOffered'
<1>1. CASE UNCHANGED <<spc, index>>
  BY <1>1 DEF AllOffered
<1>2. ASSUME NEW s \in Senders, Advance(s) PROVE AllOffered'
  BY <1>2, SendsAssumption DEF Advance, AllOffered, SendTypeOK
<1>3. ASSUME NEW s \in Senders, spc' = [spc EXCEPT ![s] = "wake"], UNCHANGED index PROVE AllOffered'
  BY <1>3 DEF AllOffered, SendTypeOK
<1>4. ASSUME NEW s \in Senders, Push(s) PROVE AllOffered'
  <2>1. Advance(s) \/ (spc' = [spc EXCEPT ![s] = "wake"] /\ UNCHANGED index) \/ UNCHANGED <<spc, index>>
    BY <1>4 DEF Push, PushClosed, PushAccepts, PushGivesUp, PushAgain
  <2> QED BY <1>1, <1>2, <1>3, <2>1
<1> QED BY <1>1, <1>2, <1>4

LEMMA WorkerReturns ==
    ASSUME SendTypeOK, AllOffered, [Worker!Next]_Worker!vars
    PROVE  AllOffered'
<1>1. ASSUME NEW s \in Senders, Worker!SendPush(s) \/ Worker!WakeWriter(s) PROVE AllOffered'
  <2>1. Push(s) \/ (spc[s] = "wake" /\ Advance(s))
    BY <1>1, SameQueue DEF Worker!SendPush, Worker!WakeWriter
  <2> QED BY <2>1, AllOfferedKept
<1>2. CASE Worker!Worker
  <2>1. UNCHANGED <<spc, index>>
    BY <1>2
    DEF Worker!Worker, Worker!JobStart, Worker!DrainPop, Worker!ShutdownPop, Worker!Release, Worker!WriteOk,
        Worker!WriteFails, Worker!RetryAgain, Worker!RetryGivesUp, Worker!sendVars
  <2> QED BY <2>1, AllOfferedKept
<1>3. CASE Worker!Stopper \/ Worker!PeerCloses \/ UNCHANGED Worker!vars
  <2>1. UNCHANGED <<spc, index>>
    BY <1>3
    DEF Worker!Stopper, Worker!StopBegin, Worker!StopPushes, Worker!StopFlushed, Worker!StopAborts,
        Worker!StopJoins, Worker!PeerCloses, Worker!vars, Worker!sendVars
  <2> QED BY <2>1, AllOfferedKept
<1> QED BY <1>1, <1>2, <1>3 DEF Worker!Next

LEMMA WorkerStep ==
    ASSUME WorkerInv, [Worker!Next]_Worker!vars
    PROVE  WorkerInv'
BY WorkerPushes, WorkerWakes, WorkerStarts, DrainPops, ShutdownPops, WorkerReleases, WorkerWrites,
   WorkerFails, WorkerStops
DEF Worker!Next, Worker!Worker

LEMMA WorkerInitInv ==
    ASSUME Worker!Init
    PROVE  WorkerInv /\ AllOffered
<1>1. /\ SendInit /\ jobs = <<>> /\ job = "none" /\ jpc = "idle" /\ again = FALSE /\ flush = FALSE
      /\ batch = <<>> /\ attempt = 0 /\ abortFlush = FALSE /\ finished = FALSE /\ stopPc = "idle"
      /\ stopErr = FALSE /\ connOpen = TRUE /\ wire = <<>> /\ failed = FALSE
  BY SameQueue DEF Worker!Init
<1>2. /\ opt \in Options /\ queue = <<>> /\ closing = FALSE /\ spc = [s \in Senders |-> "push"]
      /\ index = [s \in Senders |-> 1] /\ tries = [s \in Senders |-> 0] /\ puts = [b \in Buffers |-> 0]
      /\ accepted = <<>>
  BY <1>1 DEF SendInit
<1>3. SendTypeOK
  <2>1. queue \in Seq(Buffers) /\ accepted \in Seq(Buffers)
    BY <1>2
  <2>2. /\ spc \in [Senders -> {"push", "wake", "done"}] /\ tries \in [Senders -> Nat]
        /\ puts \in [Buffers -> Nat] /\ closing \in BOOLEAN
    BY <1>2
  <2>3. index \in [Senders -> 1..Sends]
    <3>1. 1 \in 1..Sends
      BY SendsAssumption
    <3> QED BY <1>2, <3>1
  <2> QED BY <1>2, <2>1, <2>2, <2>3 DEF SendTypeOK
<1>4. WTypes
  <2>1. batch \in Seq(Buffers) /\ wire \in Seq(Buffers) /\ jobs \in Seq({"drain", "shutdown"})
    BY <1>1
  <2>2. QueueTypes /\ WorkerTypes
    BY <1>1, <1>3, <2>1 DEF QueueTypes, WorkerTypes, JobTypes
  <2> QED BY <2>1, <2>2, TypesAre
<1>5. ~HasShutdown(jobs)
  BY <1>1 DEF HasShutdown
<1>6. JobsInv /\ FlushKept /\ LeftInv
  BY <1>1, <1>2, <1>5 DEF JobsInv, FlushKept, LeftInv, Shutting, Writes
<1>7. Worker!QueuedHasJob /\ Worker!NothingLostInOrder
  <2>1. <<>> \o <<>> \o <<>> = <<>>
    OBVIOUS
  <2> QED BY <1>1, <1>2, <2>1 DEF Worker!QueuedHasJob, Worker!NothingLostInOrder
<1>8. AllOffered
  BY <1>2 DEF AllOffered
<1> QED BY <1>1, <1>4, <1>6, <1>7, <1>8, PlacesBegin DEF WorkerInv

\* Stop returned: no job holds a buffer, so every buffer offered was put back.
LEMMA WorkerOwes ==
    ASSUME WorkerInv, AllOffered
    PROVE  PutOnce /\ Worker!WorkerKeeps
<1>1. ASSUME stopPc = "stopped", \A s \in Senders : spc[s] = "done"
      PROVE  queue = <<>> /\ \A b \in Buffers : puts[b] = 1
  <2>1. queue = <<>> /\ batch = <<>>
    BY <1>1 DEF WorkerInv, JobsInv
  <2>2. \A b \in Buffers : ~InQueue(b) /\ ~InBatch(b)
    BY <2>1 DEF InQueue, InBatch
  <2>3. ASSUME NEW b \in Buffers PROVE Offered(b)
    <3>1. b[1] \in Senders /\ b[2] \in 1..Sends /\ Sends \in Nat
      BY SendsAssumption DEF Buffers
    <3>2. spc[b[1]] = "done" /\ index[b[1]] = Sends
      BY <1>1, <3>1 DEF AllOffered
    <3> QED BY <3>1, <3>2 DEF Offered
  <2> QED BY <2>1, <2>2, <2>3 DEF WorkerInv, Places, PlaceOf
<1>2. Worker!StoppedAllReleased
  BY <1>1, SameQueue DEF Worker!StoppedAllReleased
<1> QED BY <1>2, PlacesPutOnce DEF Worker!WorkerKeeps, WorkerInv

-----------------------------------------------------------------------------
\* Either processor, and both in one suite

\* THEOREM: the thread of WriteProcessor puts a buffer back once at most.
THEOREM PutOnceHolds == Spec => []PutOnce
<1>1. Init => Places
  BY PlacesBegin DEF Init
<1>2. TypeOK /\ WriteLoop /\ Places /\ [Next]_vars => Places'
  BY ThreadPlaces
<1>3. Places => PutOnce
  BY PlacesPutOnce
<1> QED BY Invariance, <1>1, <1>2, <1>3, PTL DEF Spec

\* THEOREM: in the processor without a goroutine queued buffers have a job, nothing is lost or reordered
\* without an excuse, and after Stop every buffer is back in the pool, once.
THEOREM WorkerKeepsHolds == Worker!Spec => [](PutOnce /\ Worker!WorkerKeeps)
<1>1. Worker!Init => WorkerInv /\ AllOffered
  BY WorkerInitInv
<1>2. WorkerInv /\ AllOffered /\ [Worker!Next]_Worker!vars => (WorkerInv /\ AllOffered)'
  BY WorkerStep, WorkerReturns, InvParts
<1>3. WorkerInv /\ AllOffered => PutOnce /\ Worker!WorkerKeeps
  BY WorkerOwes
<1> QED BY <1>1, <1>2, <1>3, PTL DEF Worker!Spec

\* What the unit that runs keeps; the connection that drains itself uses neither queue.
UnitInv ==
    /\ unit \in {"thread", "worker", "stream"}
    /\ unit = "thread" => TypeOK /\ WriteLoop /\ NothingLostInOrder /\ Places
    /\ unit = "worker" => WorkerInv /\ AllOffered
    /\ unit = "stream" => PutOnce

\* THEOREM: of the units that write, none puts a buffer back twice, and the one without a
\* goroutine keeps its promises.
THEOREM BuffersKeptHolds == MCSpec => []BuffersKept
<1>1. MCInit => UnitInv
  <2> SUFFICES ASSUME MCInit PROVE UnitInv
    OBVIOUS
  <2>1. CASE unit = "thread" /\ Init
    <3>1. TypeOK
      BY <2>1, InitType
    <3>2. WriteLoop /\ NothingLostInOrder
      <4>1. <<>> \o <<>> \o <<>> = <<>>
        OBVIOUS
      <4> QED BY <2>1, <4>1 DEF Init, SendInit, WriteLoop, NothingLostInOrder
    <3>3. Places
      BY <2>1, PlacesBegin DEF Init
    <3> QED BY <2>1, <3>1, <3>2, <3>3 DEF UnitInv
  <2>2. CASE unit = "worker" /\ Worker!Init
    BY <2>2, WorkerInitInv DEF UnitInv
  <2>3. CASE unit = "stream" /\ processorsIdle
    <3>1. puts = [b \in Buffers |-> 0]
      BY <2>3 DEF processorsIdle
    <3> QED BY <2>3, <3>1 DEF UnitInv, PutOnce
  <2> QED BY <2>1, <2>2, <2>3 DEF MCInit
<1>2. UnitInv /\ [MCNext]_mcVars => UnitInv'
  <2> SUFFICES ASSUME UnitInv, [MCNext]_mcVars PROVE UnitInv'
    OBVIOUS
  <2>1. CASE unit = "thread" /\ Next /\ UNCHANGED <<unit, workerOnly, streamVars>>
    <3>1. TypeOK /\ WriteLoop /\ NothingLostInOrder /\ Places
      BY <2>1 DEF UnitInv
    <3>2. (TypeOK /\ WriteLoop /\ NothingLostInOrder)'
      BY <2>1, <3>1, NextType, LoopStep, OrderStep
    <3>3. Places'
      BY <2>1, <3>1, ThreadPlaces
    <3> QED BY <2>1, <3>2, <3>3 DEF UnitInv
  <2>2. CASE unit = "worker" /\ Worker!Next /\ UNCHANGED <<unit, threadOnly, streamVars>>
    <3>1. WorkerInv /\ AllOffered
      BY <2>2 DEF UnitInv
    <3>2. (WorkerInv /\ AllOffered)'
      BY <2>2, <3>1, WorkerStep, WorkerReturns, InvParts
    <3> QED BY <2>2, <3>2 DEF UnitInv
  <2>3. CASE unit = "stream" /\ StreamNext /\ UNCHANGED <<unit, vars, workerOnly>>
    <3>1. puts' = puts /\ unit' = unit
      BY <2>3 DEF vars, queueVars
    <3> QED BY <2>3, <3>1 DEF UnitInv, PutOnce
  <2>4. CASE UNCHANGED mcVars
    <3>1. UNCHANGED vars /\ unit' = unit
      BY <2>4 DEF mcVars
    <3>2. UNCHANGED Worker!vars
      <4>1. /\ UNCHANGED <<opt, closing, spc, index, tries, accepted, queue, puts>>
            /\ UNCHANGED <<batch, attempt, wire, failed, stopPc, connOpen>>
        BY <3>1 DEF vars, sendVars, queueVars, writerVars, stopVars
      <4>2. UNCHANGED <<jobs, job, jpc, again, flush, abortFlush, finished, stopErr>>
        BY <2>4 DEF mcVars, workerOnly
      <4>3. UNCHANGED Worker!sendVars /\ UNCHANGED Worker!queueVars
        BY <4>1 DEF Worker!sendVars, Worker!queueVars
      <4>4. UNCHANGED Worker!jobVars /\ UNCHANGED Worker!stopVars
        BY <4>1, <4>2 DEF Worker!jobVars, Worker!stopVars
      <4> QED BY <4>1, <4>3, <4>4 DEF Worker!vars
    <3>3. unit = "thread" => (TypeOK /\ WriteLoop /\ NothingLostInOrder /\ Places)'
      BY <3>1, NextType, LoopStep, OrderStep, ThreadPlaces DEF UnitInv
    <3>4. unit = "worker" => (WorkerInv /\ AllOffered)'
      BY <3>2, WorkerStep, WorkerReturns, InvParts DEF UnitInv
    <3>5. unit = "stream" => PutOnce'
      BY <3>1 DEF UnitInv, PutOnce, vars, queueVars
    <3> QED BY <3>1, <3>3, <3>4, <3>5 DEF UnitInv
  <2> QED BY <2>1, <2>2, <2>3, <2>4 DEF MCNext, Terminated
<1>3. UnitInv => BuffersKept
  BY PlacesPutOnce, WorkerOwes DEF UnitInv, BuffersKept
<1> QED BY <1>1, <1>2, <1>3, PTL DEF MCSpec

-----------------------------------------------------------------------------
\* StreamConn: a connection that drains its queue itself

Pcs == {"idle", "offer", "drain", "write", "more", "failed", "failedDrop", "lostDrop", "dropOnce",
  "drop",
        "onRaw", "flush", "asleep", "shut", "doClose", "stopWait", "stopRead", "stopAsync", "done"}
PacketIds == Writers \X Nat

PlaceTypes ==
    /\ kind \in {"gnet", "gws"} /\ reading \in {"thread", "worker", "sync"}
    /\ pc \in [Procs -> Pcs] /\ sent \in [Writers -> Nat]
    /\ once \in {"no", "spawned", "running", "done"} /\ onCloses \in {0, 1}
FlagTypes ==
    /\ needFlush \in BOOLEAN /\ retry \in BOOLEAN /\ isClosing \in BOOLEAN /\ draining \in BOOLEAN
    /\ posted \in BOOLEAN /\ late \in BOOLEAN
    /\ sockOpen \in BOOLEAN /\ told \in BOOLEAN /\ broken \in BOOLEAN
PacketTypes ==
    /\ sendQueue \in Seq(PacketIds) /\ flight \in Seq(PacketIds)
    /\ queued \in Seq(PacketIds) /\ written \in Seq(PacketIds)
StreamTypes == PlaceTypes /\ FlagTypes /\ PacketTypes

\* One goroutine, the posted batch or the callback drains.
Drains(p) == pc[p] \in {"drain", "write"}
Underway == posted \/ pc[Loop] = "more" \/ \E p \in Procs : Drains(p)
DrainInv ==
    /\ \A p, q \in Procs : Drains(p) /\ Drains(q) => p = q
    /\ \A p \in Procs : Drains(p) => ~posted /\ pc[Loop] # "more"
    /\ posted => pc[Loop] # "more"
    /\ Underway => draining \/ isClosing
    /\ sendQueue # <<>> => draining \/ isClosing
    /\ flight = <<>> \/ posted \/ \E p \in Procs : pc[p] = "write"

\* Who drops the queue, and who waits for it, has stopped the writers; one goroutine closes.
Closer(p) == pc[p] \in {"flush", "asleep", "drop", "shut"}
Dropper(p) == pc[p] \in {"failedDrop", "lostDrop", "dropOnce"}
ClosersInv ==
    /\ \A p \in Procs : Closer(p) \/ Dropper(p) => isClosing
    /\ \A p, q \in Procs : Closer(p) /\ Closer(q) => p = q
    /\ \A p \in Procs : Closer(p) => sockOpen \/ broken
    /\ \A p \in Procs : pc[p] = "shut" => sendQueue = <<>>
    /\ \A p \in Procs : pc[p] = "failedDrop" => broken
    /\ sockOpen \/ broken \/ (isClosing /\ sendQueue = <<>>)
    /\ told => ~sockOpen

\* Nothing was dropped; the queue was; or a batch was lost and nobody drains any more.
Kept == written \o flight \o sendQueue = queued
Dropped == isClosing /\ sendQueue = <<>> /\ IsPrefix(written \o flight, queued)
Lost == broken /\ flight = <<>> /\ ~Underway /\ (draining \/ isClosing) /\ IsPrefix(written, queued)
OrderInv == Kept \/ Dropped \/ Lost

\* A Close that waits, on a connection that nothing has happened to.
Calm == needFlush /\ ~broken /\ ~late /\ sockOpen
FlushInv ==
    Calm =>
        /\ Kept
        /\ Underway => draining
        /\ \A p \in Procs : pc[p] \notin {"drop", "failed", "doClose"} /\ ~Dropper(p)
        /\ \A p \in Procs : pc[p] = "shut" => ~Underway

\* One goroutine stops the read processor, and one tells the handler.
Stops(p) == pc[p] \in {"dropOnce", "stopRead"}
OnceInv ==
    /\ \A p \in Procs : Stops(p) => once = "running"
    /\ \A p, q \in Procs : Stops(p) /\ Stops(q) => p = q
    /\ once = "done" /\ waits => pc[Reader] # "onRaw"
    /\ onCloses = 1 => once = "done"
    /\ ~told => pc[Events] = "idle"
    /\ kind = "gnet" =>
          /\ pc[Events] \in {"idle", "stopWait"}
          /\ ~told => onCloses = 0
          /\ pc[Loop] \in {"lostDrop", "stopAsync"} => told /\ pc[Events] = "idle" /\ onCloses = 0
          /\ pc[Events] = "stopWait" => onCloses = 0 /\ once \in {"spawned", "done"}

StreamInv == StreamTypes /\ DrainInv /\ ClosersInv /\ OrderInv /\ FlushInv /\ OnceInv

---------------------------------------------------------------------------
(* Moves of one goroutine. *)

\* p goes to l, the others stay, or wake.
Moves(p, l) ==
    /\ pc' \in [Procs -> Pcs] /\ pc'[p] = l
    /\ \A q \in Procs : q # p => pc'[q] = pc[q] \/ (pc[q] = "asleep" /\ pc'[q] = "flush")

LEMMA NamesOfProcs ==
    /\ {App, Reader, Loop, Events} \subseteq Procs /\ Writers \subseteq Procs
    /\ App # Reader /\ App # Loop /\ App # Events /\ Reader # Loop /\ Reader # Events /\ Loop # Events
    /\ \A w \in Writers : w \notin {App, Reader, Loop, Events}
BY StreamAssumption DEF Procs, App, Reader, Loop, Events

LEMMA GotoMoves ==
    ASSUME pc \in [Procs -> Pcs], NEW p \in Procs, NEW l \in Pcs, Goto(p, l)
    PROVE  Moves(p, l) /\ \A q \in Procs : q # p => pc'[q] = pc[q]
BY DEF Goto, Moves

LEMMA BroadcastMoves ==
    ASSUME pc \in [Procs -> Pcs], NEW p \in Procs, NEW l \in Pcs, Broadcast(p, l)
    PROVE  Moves(p, l)
BY DEF Broadcast, Moves, Pcs

---------------------------------------------------------------------------
(* What each step does to the places of the goroutines. *)

LEMMA StreamInitInv == StreamInit => StreamInv
<1> SUFFICES ASSUME StreamInit PROVE StreamInv
  OBVIOUS
<1>1. StreamTypes
  <2>1. /\ sendQueue = <<>> /\ flight = <<>> /\ queued = <<>> /\ written = <<>>
        /\ <<>> \in Seq(PacketIds)
    BY EmptySeq DEF StreamInit
  <2>2. PlaceTypes /\ FlagTypes
    BY DEF StreamInit, PlaceTypes, FlagTypes, Pcs
  <2> QED BY <2>1, <2>2 DEF StreamTypes, PacketTypes
<1>2. \A p \in Procs : pc[p] = "idle"
  BY DEF StreamInit
<1>3. DrainInv /\ ClosersInv
  BY <1>2, NamesOfProcs DEF StreamInit, DrainInv, ClosersInv, Drains, Underway, Closer, Dropper
<1>4. Kept
  BY DEF StreamInit, Kept
<1>5. FlushInv
  BY <1>2, <1>4, NamesOfProcs DEF StreamInit, FlushInv, Calm, Dropper, Underway, Drains
<1>6. OnceInv
  BY <1>2, NamesOfProcs DEF StreamInit, OnceInv, Stops
<1> QED BY <1>1, <1>3, <1>4, <1>5, <1>6 DEF StreamInv, OrderInv

\* A queue split at n.
LEMMA PrefixPointwise ==
    ASSUME NEW S, NEW s \in Seq(S), NEW t \in Seq(S)
    PROVE  IsPrefix(s, t) <=> Len(s) <= Len(t) /\ \A i \in 1 .. Len(s) : s[i] = t[i]
<1>1. Len(s) \in Nat /\ Len(t) \in Nat
  BY LenProperties
<1>2. CASE Len(s) <= Len(t)
  <2>1. /\ Len(SubSeq(s, 1, Len(s))) = Len(s) /\ Len(SubSeq(t, 1, Len(s))) = Len(s)
        /\ \A i \in 1 .. Len(s) : SubSeq(s, 1, Len(s))[i] = s[i] /\ SubSeq(t, 1, Len(s))[i] = t[i]
        /\ SubSeq(s, 1, Len(s)) \in Seq(S) /\ SubSeq(t, 1, Len(s)) \in Seq(S)
    BY <1>1, <1>2, SplitAt
  <2>2. SubSeq(s, 1, Len(s)) = SubSeq(t, 1, Len(s)) <=> \A i \in 1 .. Len(s) : s[i] = t[i]
    <3>1. ASSUME \A i \in 1 .. Len(s) : s[i] = t[i] PROVE SubSeq(s, 1, Len(s)) = SubSeq(t, 1, Len(s))
      BY <2>1, <3>1, SeqEqual
    <3>2. ASSUME SubSeq(s, 1, Len(s)) = SubSeq(t, 1, Len(s)) PROVE \A i \in 1 .. Len(s) : s[i] = t[i]
      BY <2>1, <3>2
    <3> QED BY <3>1, <3>2
  <2> QED BY <1>2, <2>2 DEF IsPrefix
<1>3. CASE ~(Len(s) <= Len(t))
  BY <1>3 DEF IsPrefix
<1> QED BY <1>2, <1>3

LEMMA PrefixOfConcat ==
    ASSUME NEW S, NEW s \in Seq(S), NEW t \in Seq(S)
    PROVE  IsPrefix(s, s \o t)
<1>1. /\ s \o t \in Seq(S) /\ Len(s \o t) = Len(s) + Len(t) /\ Len(s) \in Nat /\ Len(t) \in Nat
      /\ \A i \in 1 .. Len(s) : (s \o t)[i] = s[i]
  BY ConcatProperties, LenProperties
<1>2. Len(s) <= Len(s \o t) /\ \A i \in 1 .. Len(s) : s[i] = (s \o t)[i]
  BY <1>1
<1>3. s \o t \in Seq(S)
  BY <1>1
<1> QED BY <1>2, <1>3, PrefixPointwise

LEMMA PrefixOfPrefix ==
    ASSUME NEW S, NEW s \in Seq(S), NEW t \in Seq(S), NEW u \in Seq(S), IsPrefix(s \o t, u)
    PROVE  IsPrefix(s, u)
<1>1. /\ s \o t \in Seq(S) /\ Len(s \o t) = Len(s) + Len(t) /\ Len(s) \in Nat /\ Len(t) \in Nat
           /\ Len(u) \in Nat
      /\ \A i \in 1 .. Len(s) : (s \o t)[i] = s[i]
  BY ConcatProperties, LenProperties
<1>2. Len(s \o t) <= Len(u) /\ \A i \in 1 .. Len(s \o t) : (s \o t)[i] = u[i]
  BY <1>1, PrefixPointwise
<1> QED BY <1>1, <1>2, PrefixPointwise

LEMMA PrefixOfAppend ==
    ASSUME NEW S, NEW s \in Seq(S), NEW t \in Seq(S), NEW x \in S, IsPrefix(s, t)
    PROVE  IsPrefix(s, Append(t, x))
<1>1. /\ Append(t, x) \in Seq(S) /\ Len(Append(t, x)) = Len(t) + 1 /\ Len(t) \in Nat /\ Len(s) \in Nat
      /\ \A i \in 1 .. Len(t) : Append(t, x)[i] = t[i]
  BY AppendProperties, LenProperties
<1>2. Len(s) <= Len(t) /\ \A i \in 1 .. Len(s) : s[i] = t[i]
  BY PrefixPointwise
<1>3. Len(s) <= Len(Append(t, x)) /\ \A i \in 1 .. Len(s) : s[i] = Append(t, x)[i]
  BY <1>1, <1>2
<1>4. Append(t, x) \in Seq(S)
  BY <1>1
<1> QED BY <1>3, <1>4, PrefixPointwise

\* What startDrain takes is a beginning of the queue, and not nothing.
LEMMA BatchFacts ==
    ASSUME StreamTypes, NEW p \in Procs, startDrain(p)
    PROVE  /\ pc[p] = "drain" /\ UNCHANGED <<queued, written>>
           /\ \/ sendQueue = <<>> /\ ~draining' /\ Moves(p, "idle") /\ UNCHANGED <<sendQueue, flight>>
              \/ /\ flight' \in Seq(PacketIds) /\ sendQueue' \in Seq(PacketIds)
                 /\ flight' \o sendQueue' = sendQueue /\ sendQueue # <<>>
                 /\ Moves(p, "write") /\ UNCHANGED draining
<1> DEFINE n == IF Len(sendQueue) < BatchPackets THEN Len(sendQueue) ELSE BatchPackets
<1>1. sendQueue \in Seq(PacketIds) /\ Len(sendQueue) \in Nat /\ BatchPackets \in Nat \ {0}
  BY LenProperties, StreamAssumption DEF StreamTypes, PacketTypes
<1>2. n \in 0 .. Len(sendQueue) /\ (n = 0 <=> Len(sendQueue) = 0)
  BY <1>1
<1>3. /\ pc[p] = "drain"
      /\ \/ n = 0 /\ draining' = FALSE /\ Broadcast(p, "idle") /\ UNCHANGED <<sendQueue, flight>>
         \/ /\ n > 0 /\ flight' = SubSeq(sendQueue, 1, n) /\ sendQueue' = SubSeq(sendQueue, n + 1,
              Len(sendQueue))
            /\ Goto(p, "write") /\ UNCHANGED draining
      /\ UNCHANGED <<queued, written>>
  BY DEF startDrain
<1>4. /\ SubSeq(sendQueue, 1, n) \in Seq(PacketIds) /\ SubSeq(sendQueue, n + 1,
           Len(sendQueue)) \in Seq(PacketIds)
      /\ SubSeq(sendQueue, 1, n) \o SubSeq(sendQueue, n + 1, Len(sendQueue)) = sendQueue
  BY <1>1, <1>2, SplitAt
<1>5. pc \in [Procs -> Pcs] /\ "idle" \in Pcs /\ "write" \in Pcs
  BY DEF StreamTypes, PlaceTypes, Pcs
<1>6. CASE n = 0
  <2>1. sendQueue = <<>>
    BY <1>1, <1>2, <1>6, EmptySeq
  <2> QED BY <1>2, <1>3, <1>5, <1>6, <2>1, BroadcastMoves
<1>7. CASE n # 0
  <2>1. sendQueue # <<>>
    BY <1>1, <1>2, <1>7
  <2>2. flight' = SubSeq(sendQueue, 1, n) /\ sendQueue' = SubSeq(sendQueue, n + 1, Len(sendQueue))
          /\ Goto(p, "write") /\ UNCHANGED draining
    BY <1>3, <1>7
  <2>3. Moves(p, "write")
    BY <1>5, <2>2, GotoMoves
  <2> QED BY <1>3, <1>4, <2>1, <2>2, <2>3
<1> QED BY <1>6, <1>7

LEMMA StepPcs == ASSUME StreamTypes, StreamNext PROVE pc' \in [Procs -> Pcs]
<1> USE DEF StreamTypes, PlaceTypes
<1>1. CASE \E p \in Procs : StreamStep(p) \/ Close(p)
  <2> PICK p \in Procs : StreamStep(p) \/ Close(p)
    BY <1>1
  <2>1. CASE startDrain(p)
    BY <2>1 DEF startDrain, Goto, Broadcast, Pcs
  <2>2. CASE GnetWrites(p) \/ GwsWrites(p) \/ WriteFailed(p)
    BY <2>2 DEF GnetWrites, GwsWrites, WriteFailed, Goto, Pcs
  <2>3. CASE Drops(p)
    BY <2>3 DEF Drops, dropQueuedBuffers, Broadcast, Pcs
  <2>4. CASE Flushes(p) \/ Shuts(p)
    BY <2>4 DEF Flushes, Shuts, Goto, Pcs
  <2>5. CASE stopReadAndWait(p) \/ stopRead(p) \/ doClose(p)
    BY <2>5 DEF stopReadAndWait, stopRead, doClose, Goto, Pcs, Returned
  <2>6. CASE Close(p)
    BY <2>6 DEF Close, Goto, Pcs
  <2> QED BY <2>1, <2>2, <2>3, <2>4, <2>5, <2>6 DEF StreamStep
<1>2. CASE \E w \in Writers : Offers(w) \/ sendBufferDrop(w) \/ sendBufferRetry(w)
  BY <1>2, NamesOfProcs DEF Offers, sendBufferDrop, sendBufferRetry, Queued, Goto, Pcs
<1>3. CASE WriteDone \/ DrainsOn \/ DeadlinePasses \/ stopReadAsync \/ Spawned
  BY <1>3, NamesOfProcs DEF WriteDone, DrainsOn, DeadlinePasses, stopReadAsync, Spawned, Goto,
     Broadcast, Pcs
<1>4. CASE PeerLeaves \/ GnetOnClose \/ GwsOnClose \/ HandsOver \/ OnRawReturns
  BY <1>4, NamesOfProcs DEF PeerLeaves, GnetOnClose, GwsOnClose, HandsOver, OnRawReturns, Goto, Pcs
<1> QED BY <1>1, <1>2, <1>3, <1>4 DEF StreamNext

\* A packet enters the queue while nobody closes; who finds nobody draining drains.
LEMMA PushFacts ==
    ASSUME StreamTypes, NEW w \in Writers, Queued(w)
    PROVE  /\ <<w, sent[w]>> \in PacketIds
           /\ sendQueue' = Append(sendQueue, <<w, sent[w]>>) /\ queued' = Append(queued, <<w, sent[w]>>)
           /\ sendQueue' \in Seq(PacketIds) /\ queued' \in Seq(PacketIds)
           /\ draining' = TRUE
           /\ \/ draining /\ Moves(w, "idle")
              \/ ~draining /\ Moves(w, "drain")
<1>1. <<w, sent[w]>> \in PacketIds
  BY DEF StreamTypes, PlaceTypes, PacketIds
<1>2. w \in Procs /\ "idle" \in Pcs /\ "drain" \in Pcs /\ pc \in [Procs -> Pcs] /\ draining \in BOOLEAN
  BY NamesOfProcs DEF Pcs, StreamTypes, PlaceTypes, FlagTypes
<1>3. (draining => Goto(w, "idle")) /\ (~draining => Goto(w, "drain"))
  BY <1>2 DEF Queued
<1>4. draining => Moves(w, "idle")
  BY <1>2, <1>3, GotoMoves
<1>5. ~draining => Moves(w, "drain")
  BY <1>2, <1>3, GotoMoves
<1> QED BY <1>1, <1>4, <1>5, AppendProperties DEF Queued, StreamTypes, PacketTypes

LEMMA NextPlaces == ASSUME StreamTypes, OnceInv, StreamNext PROVE PlaceTypes'
<1> USE StepPcs DEF StreamTypes
<1>1. CASE \E p \in Procs : StreamStep(p) \/ Close(p)
  <2> PICK p \in Procs : StreamStep(p) \/ Close(p)
    BY <1>1
  <2>1. CASE startDrain(p)
    BY <2>1 DEF startDrain, PlaceTypes, modes, OfConn
  <2>2. CASE GnetWrites(p)
    BY <2>2 DEF GnetWrites, PlaceTypes, modes, OfConn
  <2>3. CASE GwsWrites(p)
    BY <2>3 DEF GwsWrites, PlaceTypes, modes, OfConn
  <2>4. CASE WriteFailed(p)
    BY <2>4 DEF WriteFailed, PlaceTypes, modes, OfConn
  <2>5. CASE Drops(p)
    BY <2>5 DEF Drops, PlaceTypes, modes, OfConn
  <2>6. CASE Flushes(p)
    BY <2>6 DEF Flushes, PlaceTypes, modes, OfConn
  <2>7. CASE Shuts(p)
    BY <2>7 DEF Shuts, PlaceTypes, modes, OfConn
  <2>8. CASE stopReadAndWait(p)
    <3>1. pc[p] = "stopWait" /\ p = Events => onCloses = 0
      BY <2>8 DEF OnceInv, stopReadAndWait
    <3>2. onCloses' \in {0, 1} /\ once' \in {"no", "spawned", "running", "done"}
      BY <2>8, <3>1 DEF PlaceTypes, stopReadAndWait
    <3> QED BY <2>8, <3>2 DEF PlaceTypes, stopReadAndWait, modes
  <2>9. CASE stopRead(p)
    <3>1. onCloses = 0
      BY <2>9 DEF PlaceTypes, OnceInv, stopRead, Stops
    <3>2. onCloses' \in {0, 1}
      BY <2>9, <3>1 DEF stopRead
    <3> QED BY <2>9, <3>2 DEF PlaceTypes, stopRead, modes
  <2>10. CASE doClose(p)
    BY <2>10 DEF doClose, PlaceTypes, modes, OfConn
  <2>11. CASE Close(p)
    BY <2>11 DEF Close, PlaceTypes, modes, OfConn
  <2> QED BY <2>1, <2>2, <2>3, <2>4, <2>5, <2>6, <2>7, <2>8, <2>9, <2>10, <2>11 DEF StreamStep
<1>2. CASE \E w \in Writers : Offers(w)
  BY <1>2 DEF Offers, PlaceTypes, modes, OfConn
<1>3. CASE \E w \in Writers : sendBufferDrop(w) \/ sendBufferRetry(w)
  <2> PICK w \in Writers : sendBufferDrop(w) \/ sendBufferRetry(w)
    BY <1>3
  <2>1. /\ UNCHANGED <<sent, isClosing, flight, posted, late, written, modes, OfConn>>
        /\ Queued(w) \/ UNCHANGED <<sendQueue, draining, queued>>
    BY DEF sendBufferDrop, sendBufferRetry
  <2> QED BY <2>1 DEF PlaceTypes, modes, OfConn
<1>4. CASE WriteDone
  BY <1>4 DEF WriteDone, PlaceTypes, modes, OfConn
<1>5. CASE DrainsOn
  BY <1>5 DEF DrainsOn, PlaceTypes, modes, OfConn
<1>6. CASE DeadlinePasses
  BY <1>6 DEF DeadlinePasses, PlaceTypes, modes, OfConn
<1>7. CASE stopReadAsync
  BY <1>7 DEF stopReadAsync, PlaceTypes, modes, OfConn
<1>8. CASE Spawned
  BY <1>8 DEF Spawned, PlaceTypes, modes, OfConn
<1>9. CASE PeerLeaves
  BY <1>9 DEF PeerLeaves, PlaceTypes, modes, OfConn
<1>10. CASE GnetOnClose
  BY <1>10 DEF GnetOnClose, PlaceTypes, modes, OfConn
<1>11. CASE GwsOnClose
  BY <1>11 DEF GwsOnClose, PlaceTypes, modes, OfConn
<1>12. CASE HandsOver
  BY <1>12 DEF HandsOver, PlaceTypes, modes, OfConn
<1>13. CASE OnRawReturns
  BY <1>13 DEF OnRawReturns, PlaceTypes, modes, OfConn
<1> QED BY <1>1, <1>2, <1>3, <1>4, <1>5, <1>6, <1>7, <1>8, <1>9, <1>10, <1>11, <1>12,
           <1>13 DEF StreamNext

LEMMA NextFlags == ASSUME StreamTypes, StreamNext PROVE FlagTypes'
<1> USE DEF StreamTypes
<1>1. CASE \E p \in Procs : StreamStep(p) \/ Close(p)
  <2> PICK p \in Procs : StreamStep(p) \/ Close(p)
    BY <1>1
  <2>1. CASE startDrain(p)
    BY <2>1 DEF startDrain, FlagTypes, modes, OfConn
  <2>2. CASE GnetWrites(p)
    BY <2>2 DEF GnetWrites, FlagTypes, modes, OfConn
  <2>3. CASE GwsWrites(p)
    BY <2>3 DEF GwsWrites, FlagTypes, modes, OfConn
  <2>4. CASE WriteFailed(p)
    BY <2>4 DEF WriteFailed, FlagTypes, modes, OfConn
  <2>5. CASE Drops(p)
    BY <2>5 DEF Drops, dropQueuedBuffers, FlagTypes, modes, OfConn
  <2>6. CASE Flushes(p)
    BY <2>6 DEF Flushes, FlagTypes, modes, OfConn
  <2>7. CASE Shuts(p)
    BY <2>7 DEF Shuts, FlagTypes, modes, OfConn
  <2>8. CASE stopReadAndWait(p)
    BY <2>8 DEF stopReadAndWait, FlagTypes, modes, OfConn
  <2>9. CASE stopRead(p)
    BY <2>9 DEF stopRead, FlagTypes, modes, OfConn
  <2>10. CASE doClose(p)
    BY <2>10 DEF doClose, FlagTypes, modes, OfConn
  <2>11. CASE Close(p)
    BY <2>11 DEF Close, FlagTypes, modes, OfConn
  <2> QED BY <2>1, <2>2, <2>3, <2>4, <2>5, <2>6, <2>7, <2>8, <2>9, <2>10, <2>11 DEF StreamStep
<1>2. CASE \E w \in Writers : Offers(w)
  BY <1>2 DEF Offers, FlagTypes, modes, OfConn, Queued
<1>3. CASE \E w \in Writers : sendBufferDrop(w) \/ sendBufferRetry(w)
  <2> PICK w \in Writers : sendBufferDrop(w) \/ sendBufferRetry(w)
    BY <1>3
  <2>1. /\ UNCHANGED <<sent, isClosing, flight, posted, late, written, modes, OfConn>>
        /\ Queued(w) \/ UNCHANGED <<sendQueue, draining, queued>>
    BY DEF sendBufferDrop, sendBufferRetry
  <2> QED BY <2>1 DEF FlagTypes, modes, OfConn, Queued
<1>4. CASE WriteDone
  BY <1>4 DEF WriteDone, FlagTypes, modes, OfConn
<1>5. CASE DrainsOn
  BY <1>5 DEF DrainsOn, FlagTypes, modes, OfConn
<1>6. CASE DeadlinePasses
  BY <1>6 DEF DeadlinePasses, FlagTypes, modes, OfConn
<1>7. CASE stopReadAsync
  BY <1>7 DEF stopReadAsync, FlagTypes, modes, OfConn
<1>8. CASE Spawned
  BY <1>8 DEF Spawned, FlagTypes, modes, OfConn
<1>9. CASE PeerLeaves
  BY <1>9 DEF PeerLeaves, FlagTypes, modes, OfConn
<1>10. CASE GnetOnClose
  BY <1>10 DEF GnetOnClose, FlagTypes, modes, OfConn
<1>11. CASE GwsOnClose
  BY <1>11 DEF GwsOnClose, FlagTypes, modes, OfConn
<1>12. CASE HandsOver
  BY <1>12 DEF HandsOver, FlagTypes, modes, OfConn
<1>13. CASE OnRawReturns
  BY <1>13 DEF OnRawReturns, FlagTypes, modes, OfConn
<1> QED BY <1>1, <1>2, <1>3, <1>4, <1>5, <1>6, <1>7, <1>8, <1>9, <1>10, <1>11, <1>12,
           <1>13 DEF StreamNext

LEMMA NextPackets == ASSUME StreamTypes, StreamNext PROVE PacketTypes'
<1> USE DEF StreamTypes
<1>1. CASE \E p \in Procs : StreamStep(p) \/ Close(p)
  <2> PICK p \in Procs : StreamStep(p) \/ Close(p)
    BY <1>1
  <2>1. CASE startDrain(p)
    BY <2>1, BatchFacts DEF PacketTypes
  <2>2. CASE GnetWrites(p)
    BY <2>2, EmptySeq DEF GnetWrites, PacketTypes
  <2>3. CASE GwsWrites(p)
    BY <2>3 DEF GwsWrites, PacketTypes
  <2>4. CASE WriteFailed(p)
    BY <2>4 DEF WriteFailed, PacketTypes
  <2>5. CASE Drops(p)
    BY <2>5, EmptySeq DEF Drops, dropQueuedBuffers, PacketTypes
  <2>6. CASE Flushes(p)
    BY <2>6 DEF Flushes, PacketTypes
  <2>7. CASE Shuts(p)
    BY <2>7 DEF Shuts, PacketTypes
  <2>8. CASE stopReadAndWait(p)
    BY <2>8 DEF stopReadAndWait, PacketTypes
  <2>9. CASE stopRead(p)
    BY <2>9 DEF stopRead, PacketTypes
  <2>10. CASE doClose(p)
    BY <2>10 DEF doClose, PacketTypes
  <2>11. CASE Close(p)
    BY <2>11 DEF Close, PacketTypes
  <2> QED BY <2>1, <2>2, <2>3, <2>4, <2>5, <2>6, <2>7, <2>8, <2>9, <2>10, <2>11 DEF StreamStep
<1>2. CASE \E w \in Writers : Offers(w)
  BY <1>2 DEF Offers, PacketTypes
<1>3. CASE \E w \in Writers : sendBufferDrop(w) \/ sendBufferRetry(w)
  <2> PICK w \in Writers : sendBufferDrop(w) \/ sendBufferRetry(w)
    BY <1>3
  <2>1. /\ UNCHANGED <<sent, isClosing, flight, posted, late, written, modes, OfConn>>
        /\ Queued(w) \/ UNCHANGED <<sendQueue, draining, queued>>
    BY DEF sendBufferDrop, sendBufferRetry
  <2> QED BY <2>1, PushFacts DEF PacketTypes
<1>4. CASE WriteDone
  <2>1. /\ sendQueue' = sendQueue /\ queued' = queued /\ flight' = <<>>
        /\ written' = written \/ written' = written \o flight
    BY <1>4 DEF WriteDone
  <2>2. written \o flight \in Seq(PacketIds)
    BY ConcatProperties DEF PacketTypes
  <2>3. <<>> \in Seq(PacketIds)
    BY EmptySeq
  <2> QED BY <2>1, <2>2, <2>3 DEF PacketTypes
<1>5. CASE DrainsOn
  BY <1>5 DEF DrainsOn, PacketTypes
<1>6. CASE DeadlinePasses
  BY <1>6 DEF DeadlinePasses, PacketTypes
<1>7. CASE stopReadAsync
  BY <1>7 DEF stopReadAsync, PacketTypes
<1>8. CASE Spawned
  BY <1>8 DEF Spawned, PacketTypes
<1>9. CASE PeerLeaves
  BY <1>9 DEF PeerLeaves, PacketTypes
<1>10. CASE GnetOnClose
  BY <1>10 DEF GnetOnClose, PacketTypes
<1>11. CASE GwsOnClose
  BY <1>11 DEF GwsOnClose, PacketTypes
<1>12. CASE HandsOver
  BY <1>12 DEF HandsOver, PacketTypes
<1>13. CASE OnRawReturns
  BY <1>13 DEF OnRawReturns, PacketTypes
<1> QED BY <1>1, <1>2, <1>3, <1>4, <1>5, <1>6, <1>7, <1>8, <1>9, <1>10, <1>11, <1>12,
           <1>13 DEF StreamNext

LEMMA NextTypes == ASSUME StreamTypes, OnceInv, StreamNext PROVE StreamTypes'
BY NextPlaces, NextFlags, NextPackets DEF StreamTypes

---------------------------------------------------------------------------
(* Steps of goroutines that do not drain. *)

\* p, which did not drain, goes to l, where it does not; the batch stays where it is, and the
\* queue too unless somebody who closes drops it.
Aside(p, l) ==
    /\ Moves(p, l) /\ {pc[p], l} \cap {"drain", "write", "more"} = {}
    /\ UNCHANGED <<posted, flight, written, queued>>
    /\ (isClosing => isClosing') /\ (broken => broken')
    /\ \/ UNCHANGED <<sendQueue, draining>>
       \/ isClosing /\ sendQueue' = <<>> /\ ~draining' /\ (Dropper(p) \/ pc[p] = "drop")

LEMMA AsideSteps ==
    ASSUME StreamTypes, ClosersInv, NEW p \in Procs,
           \/ WriteFailed(p) \/ Drops(p) \/ Flushes(p) \/ Shuts(p)
           \/ stopReadAndWait(p) \/ stopRead(p) \/ doClose(p) \/ Close(p)
    PROVE  \E l \in Pcs : Aside(p, l)
<1> USE DEF StreamTypes, PlaceTypes
<1>1. CASE WriteFailed(p)
  <2>1. PICK l \in {"failedDrop", "doClose"} : Goto(p, l)
    BY <1>1 DEF WriteFailed
  <2>2. l \in Pcs /\ l \notin {"drain", "write", "more"}
    BY DEF Pcs
  <2>3. Moves(p, l)
    BY <2>1, <2>2, GotoMoves
  <2>4. pc[p] \notin {"drain", "write", "more"}
    BY <1>1 DEF WriteFailed
  <2>5. /\ UNCHANGED <<posted, flight, written, queued, sendQueue, draining>>
        /\ (isClosing => isClosing') /\ (broken => broken')
    BY <1>1 DEF WriteFailed
  <2> QED BY <2>2, <2>3, <2>4, <2>5 DEF Aside
<1>2. CASE Drops(p)
  <2>1. PICK l \in {"idle", "shut", "stopAsync", "stopRead"} : Broadcast(p, l)
    BY <1>2 DEF Drops, dropQueuedBuffers
  <2>2. l \in Pcs /\ l \notin {"drain", "write", "more"}
    BY DEF Pcs
  <2>3. Moves(p, l)
    BY <2>1, <2>2, BroadcastMoves
  <2>4. pc[p] \notin {"drain", "write", "more"}
    BY <1>2 DEF Drops
  <2>5. isClosing
    BY <1>2 DEF Drops, ClosersInv, Closer, Dropper
  <2>6. UNCHANGED <<posted, flight, written, queued, isClosing, broken>> /\ sendQueue' = <<>>
          /\ draining' = FALSE
    BY <1>2 DEF Drops, dropQueuedBuffers
  <2>7. Dropper(p) \/ pc[p] = "drop"
    BY <1>2 DEF Drops, Dropper
  <2> QED BY <2>2, <2>3, <2>4, <2>5, <2>6, <2>7 DEF Aside
<1>3. CASE Flushes(p)
  <2>1. PICK l \in {"shut", "drop", "asleep"} : Goto(p, l)
    BY <1>3 DEF Flushes
  <2>2. l \in Pcs /\ l \notin {"drain", "write", "more"}
    BY DEF Pcs
  <2>3. Moves(p, l)
    BY <2>1, <2>2, GotoMoves
  <2>4. pc[p] \notin {"drain", "write", "more"}
    BY <1>3 DEF Flushes
  <2>5. /\ UNCHANGED <<posted, flight, written, queued, sendQueue, draining>>
        /\ (isClosing => isClosing') /\ (broken => broken')
    BY <1>3 DEF Flushes, OfConn
  <2> QED BY <2>2, <2>3, <2>4, <2>5 DEF Aside
<1>4. CASE Shuts(p)
  <2>1. PICK l \in {"stopWait", "doClose"} : Goto(p, l)
    BY <1>4 DEF Shuts
  <2>2. l \in Pcs /\ l \notin {"drain", "write", "more"}
    BY DEF Pcs
  <2>3. Moves(p, l)
    BY <2>1, <2>2, GotoMoves
  <2>4. pc[p] \notin {"drain", "write", "more"}
    BY <1>4 DEF Shuts
  <2>5. /\ UNCHANGED <<posted, flight, written, queued, sendQueue, draining>>
        /\ (isClosing => isClosing') /\ (broken => broken')
    BY <1>4 DEF Shuts
  <2> QED BY <2>2, <2>3, <2>4, <2>5 DEF Aside
<1>5. CASE stopReadAndWait(p)
  <2>1. PICK l \in {"stopRead", "done", "idle"} : Goto(p, l)
    BY <1>5 DEF stopReadAndWait, Returned
  <2>2. l \in Pcs /\ l \notin {"drain", "write", "more"}
    BY DEF Pcs
  <2>3. Moves(p, l)
    BY <2>1, <2>2, GotoMoves
  <2>4. pc[p] \notin {"drain", "write", "more"}
    BY <1>5 DEF stopReadAndWait
  <2>5. /\ UNCHANGED <<posted, flight, written, queued, sendQueue, draining>>
        /\ (isClosing => isClosing') /\ (broken => broken')
    BY <1>5 DEF stopReadAndWait
  <2> QED BY <2>2, <2>3, <2>4, <2>5 DEF Aside
<1>6. CASE stopRead(p)
  <2>1. PICK l \in {"done", "idle"} : Goto(p, l)
    BY <1>6 DEF stopRead, Returned
  <2>2. l \in Pcs /\ l \notin {"drain", "write", "more"}
    BY DEF Pcs
  <2>3. Moves(p, l)
    BY <2>1, <2>2, GotoMoves
  <2>4. pc[p] \notin {"drain", "write", "more"}
    BY <1>6 DEF stopRead
  <2>5. /\ UNCHANGED <<posted, flight, written, queued, sendQueue, draining>>
        /\ (isClosing => isClosing') /\ (broken => broken')
    BY <1>6 DEF stopRead
  <2> QED BY <2>2, <2>3, <2>4, <2>5 DEF Aside
<1>7. CASE doClose(p)
  <2>1. PICK l \in {"dropOnce", "done", "idle"} : Goto(p, l)
    BY <1>7 DEF doClose, Returned
  <2>2. l \in Pcs /\ l \notin {"drain", "write", "more"}
    BY DEF Pcs
  <2>3. Moves(p, l)
    BY <2>1, <2>2, GotoMoves
  <2>4. pc[p] \notin {"drain", "write", "more"}
    BY <1>7 DEF doClose
  <2>5. /\ UNCHANGED <<posted, flight, written, queued, sendQueue, draining>>
        /\ (isClosing => isClosing') /\ (broken => broken')
    BY <1>7 DEF doClose
  <2> QED BY <2>2, <2>3, <2>4, <2>5 DEF Aside
<1>8. CASE Close(p)
  <2>1. PICK l \in {"done", "idle", "flush", "drop"} : Goto(p, l)
    BY <1>8 DEF Close
  <2>2. l \in Pcs /\ l \notin {"drain", "write", "more"}
    BY DEF Pcs
  <2>3. Moves(p, l)
    BY <2>1, <2>2, GotoMoves
  <2>4. pc[p] \notin {"drain", "write", "more"}
    BY <1>8 DEF Close
  <2>5. /\ UNCHANGED <<posted, flight, written, queued, sendQueue, draining>>
        /\ (isClosing => isClosing') /\ (broken => broken')
    BY <1>8 DEF Close
  <2> QED BY <2>2, <2>3, <2>4, <2>5 DEF Aside
<1> QED BY <1>1, <1>2, <1>3, <1>4, <1>5, <1>6, <1>7, <1>8

LEMMA AsideWriters ==
    ASSUME StreamTypes, NEW w \in Writers, Offers(w) \/ sendBufferDrop(w) \/ sendBufferRetry(w)
    PROVE  \/ \E l \in Pcs : Aside(w, l) /\ l # "shut"
           \/ pc[w] = "offer" /\ ~isClosing /\ Queued(w) /\ UNCHANGED <<isClosing, flight, posted,
                late, written, modes, OfConn>>
<1>1. pc \in [Procs -> Pcs] /\ w \in Procs /\ {"offer", "idle"} \subseteq Pcs
  BY NamesOfProcs DEF StreamTypes, PlaceTypes, Pcs
<1>2. CASE Offers(w)
  <2>1. Goto(w, "offer") /\ pc[w] = "idle" /\ UNCHANGED <<posted, flight, written, queued, sendQueue,
          draining, isClosing, broken>>
    BY <1>2 DEF Offers, OfConn
  <2>2. Moves(w, "offer")
    BY <1>1, <2>1, GotoMoves
  <2> QED BY <1>1, <2>1, <2>2 DEF Aside
<1>3. CASE sendBufferDrop(w) \/ sendBufferRetry(w)
  <2>1. /\ pc[w] = "offer" /\ UNCHANGED <<isClosing, flight, posted, late, written, modes, OfConn>>
        /\ \/ ~isClosing /\ Queued(w)
           \/ UNCHANGED <<queued, sendQueue, draining>> /\ \E l \in {"idle", "offer"} : Goto(w, l)
    BY <1>3 DEF sendBufferDrop, sendBufferRetry
  <2>2. ASSUME UNCHANGED <<queued, sendQueue, draining>>, NEW l \in {"idle", "offer"}, Goto(w,
          l) PROVE Aside(w, l)
    <3>1. Moves(w, l)
      BY <1>1, <2>2, GotoMoves
    <3> QED BY <2>1, <2>2, <3>1 DEF Aside, OfConn
  <2> QED BY <1>1, <2>1, <2>2
<1> QED BY <1>2, <1>3

LEMMA AsideOthers ==
    ASSUME StreamTypes, OnceInv,
           DeadlinePasses \/ GnetOnClose \/ GwsOnClose \/ HandsOver \/ OnRawReturns
    PROVE  \E p \in Procs, l \in Pcs : Aside(p, l)
<1> USE NamesOfProcs DEF StreamTypes, PlaceTypes
<1>0. pc \in [Procs -> Pcs] /\ {"flush", "lostDrop", "doClose", "onRaw", "idle"} \subseteq Pcs
  BY DEF Pcs
<1>1. CASE DeadlinePasses
  <2>1. PICK p \in Procs : pc[p] = "asleep" /\ Broadcast(p, "flush")
    BY <1>1 DEF DeadlinePasses
  <2>2. Moves(p, "flush")
    BY <1>0, <2>1, BroadcastMoves
  <2> QED BY <1>0, <1>1, <2>1, <2>2 DEF DeadlinePasses, Aside, OfConn
<1>2. CASE GnetOnClose
  <2>1. Goto(Loop, "lostDrop") /\ pc[Loop] \in {"idle", "onRaw"}
    BY <1>2 DEF GnetOnClose, LoopFree
  <2>2. Moves(Loop, "lostDrop")
    BY <1>0, <2>1, GotoMoves
  <2>3. UNCHANGED <<posted, flight, written, queued, sendQueue, draining>>
          /\ (isClosing => isClosing') /\ (broken => broken')
    BY <1>2 DEF GnetOnClose
  <2> QED BY <1>0, <2>1, <2>2, <2>3 DEF Aside
<1>3. CASE GwsOnClose
  <2>1. Goto(Events, "doClose") /\ pc[Events] \in {"idle", "onRaw"}
    BY <1>3 DEF GwsOnClose, OnceInv
  <2>2. Moves(Events, "doClose")
    BY <1>0, <2>1, GotoMoves
  <2>3. UNCHANGED <<posted, flight, written, queued, sendQueue, draining>>
          /\ (isClosing => isClosing') /\ (broken => broken')
    BY <1>3 DEF GwsOnClose
  <2> QED BY <1>0, <2>1, <2>2, <2>3 DEF Aside
<1>4. CASE HandsOver
  <2>1. Goto(Reader, "onRaw") /\ pc[Reader] \in {"idle", "onRaw"}
    BY <1>4 DEF HandsOver
  <2>2. Moves(Reader, "onRaw")
    BY <1>0, <2>1, GotoMoves
  <2>3. UNCHANGED <<posted, flight, written, queued, sendQueue, draining>>
          /\ (isClosing => isClosing') /\ (broken => broken')
    BY <1>4 DEF HandsOver
  <2> QED BY <1>0, <2>1, <2>2, <2>3 DEF Aside
<1>5. CASE OnRawReturns
  <2>1. Goto(Reader, "idle") /\ pc[Reader] \in {"idle", "onRaw"}
    BY <1>5 DEF OnRawReturns
  <2>2. Moves(Reader, "idle")
    BY <1>0, <2>1, GotoMoves
  <2>3. UNCHANGED <<posted, flight, written, queued, sendQueue, draining>>
          /\ (isClosing => isClosing') /\ (broken => broken')
    BY <1>5 DEF OnRawReturns, OfConn
  <2> QED BY <1>0, <2>1, <2>2, <2>3 DEF Aside
<1> QED BY <1>1, <1>2, <1>3, <1>4, <1>5

---------------------------------------------------------------------------
(* Who drains. *)

LEMMA OthersDrain ==
    ASSUME StreamTypes, NEW p \in Procs, NEW l \in Pcs, Aside(p, l)
    PROVE  /\ \A q \in Procs : Drains(q)' <=> Drains(q)
           /\ pc'[Loop] = "more" <=> pc[Loop] = "more"
           /\ Underway' <=> Underway
           /\ \A q \in Procs : pc'[q] = "write" <=> pc[q] = "write"
<1>1. /\ \A q \in Procs : q # p => pc'[q] = pc[q] \/ (pc[q] = "asleep" /\ pc'[q] = "flush")
      /\ pc'[p] = l /\ l \notin {"drain", "write", "more"} /\ pc[p] \notin {"drain", "write", "more"}
      /\ posted' = posted
  BY DEF Moves, Aside
<1>2. \A q \in Procs : /\ pc'[q] = "drain" <=> pc[q] = "drain"
                       /\ pc'[q] = "write" <=> pc[q] = "write"
                       /\ pc'[q] = "more" <=> pc[q] = "more"
  BY <1>1
<1> QED BY <1>1, <1>2, NamesOfProcs DEF Drains, Underway

LEMMA AsideDrain ==
    ASSUME StreamTypes, DrainInv, NEW p \in Procs, NEW l \in Pcs, Aside(p, l)
    PROVE  DrainInv'
<1>1. /\ \A q \in Procs : Drains(q)' <=> Drains(q)
      /\ pc'[Loop] = "more" <=> pc[Loop] = "more"
      /\ Underway' <=> Underway
      /\ \A q \in Procs : pc'[q] = "write" <=> pc[q] = "write"
  BY OthersDrain
<1>0. /\ UNCHANGED <<posted, flight>> /\ (isClosing => isClosing')
      /\ sendQueue' = sendQueue \/ (sendQueue' = <<>> /\ isClosing')
      /\ draining' = draining \/ (isClosing /\ ~draining')
  BY DEF Aside
<1>2. \A q, r \in Procs : Drains(q)' /\ Drains(r)' => q = r
  BY <1>1 DEF DrainInv
<1>3. \A q \in Procs : Drains(q)' => ~posted' /\ pc'[Loop] # "more"
  BY <1>0, <1>1 DEF DrainInv
<1>4. posted' => pc'[Loop] # "more"
  BY <1>0, <1>1 DEF DrainInv
<1>5. (Underway' => draining' \/ isClosing') /\ (sendQueue' # <<>> => draining' \/ isClosing')
  BY <1>0, <1>1 DEF DrainInv
<1>6. flight' = <<>> \/ posted' \/ \E q \in Procs : pc'[q] = "write"
  BY <1>0, <1>1 DEF DrainInv
<1> QED BY <1>2, <1>3, <1>4, <1>5, <1>6 DEF DrainInv

\* Only the batch's holder moves: from draining to writing, to the socket, or out.
LEMMA HolderDrain ==
    ASSUME StreamTypes, DrainInv, NEW p \in Procs,
           startDrain(p) \/ GnetWrites(p) \/ GwsWrites(p)
    PROVE  DrainInv'
<1>1. /\ Drains(p) /\ ~posted /\ pc[Loop] # "more" /\ \A q \in Procs : Drains(q) => q = p
      /\ draining \/ isClosing
  BY DEF startDrain, GnetWrites, GwsWrites, DrainInv, Drains, Underway
<1>2. CASE startDrain(p)
  <2>1. UNCHANGED <<posted, isClosing>>
    BY <1>2 DEF startDrain
  <2>2. CASE sendQueue = <<>>
    <3>1. Moves(p, "idle") /\ UNCHANGED <<sendQueue, flight>>
      BY <1>2, <2>2, BatchFacts
    <3>4. flight = <<>>
      BY <1>1, <1>2 DEF DrainInv, startDrain, Drains
    <3>2. \A q \in Procs : (~Drains(q)' /\ pc'[q] # "more") \/ (q # p /\ q # Loop /\ ~Drains(q)')
      BY <1>1, <3>1, NamesOfProcs DEF Moves, Drains
    <3>3. pc'[Loop] # "more" /\ \A q \in Procs : ~Drains(q)'
      BY <3>2, NamesOfProcs
    <3> QED BY <1>1, <2>1, <2>2, <3>1, <3>3, <3>4 DEF DrainInv, Underway
  <2>3. CASE sendQueue # <<>>
    <3>1. Moves(p, "write") /\ UNCHANGED draining
      BY <1>2, <2>3, BatchFacts
    <3>2. pc'[p] = "write" /\ pc'[Loop] # "more" /\ \A q \in Procs : Drains(q)' => q = p
      BY <1>1, <3>1, NamesOfProcs DEF Moves, Drains
    <3> QED BY <1>1, <2>1, <3>1, <3>2 DEF DrainInv, Underway
  <2> QED BY <2>2, <2>3
<1>3. CASE GnetWrites(p) \/ GwsWrites(p)
  <2>1. PICK l \in {"idle", "failed"} : Goto(p, l)
    BY <1>3 DEF GnetWrites, GwsWrites
  <2>2. Moves(p, l)
    BY <2>1, GotoMoves DEF StreamTypes, PlaceTypes, Pcs
  <2>3. pc'[Loop] # "more" /\ \A q \in Procs : ~Drains(q)' /\ pc'[q] # "write"
    BY <1>1, <2>2, NamesOfProcs DEF Moves, Drains
  <2>4. UNCHANGED <<isClosing, draining, sendQueue>> /\ (posted' = TRUE \/ flight' = <<>>)
    BY <1>3 DEF GnetWrites, GwsWrites
  <2> QED BY <1>1, <2>3, <2>4 DEF DrainInv, Underway
<1> QED BY <1>2, <1>3

\* The callback of the write, and what follows it.
LEMMA CallbackDrain ==
    ASSUME StreamTypes, DrainInv, WriteDone \/ DrainsOn
    PROVE  DrainInv'
<1>1. Loop \in Procs /\ pc \in [Procs -> Pcs] /\ {"more", "failed", "drain", "idle"} \subseteq Pcs
  BY NamesOfProcs DEF StreamTypes, PlaceTypes, Pcs
<1>2. CASE WriteDone
  <2>1. /\ posted /\ ~posted' /\ flight' = <<>> /\ UNCHANGED <<isClosing, draining, sendQueue>>
        /\ \A q \in Procs : ~Drains(q)
    BY <1>2 DEF WriteDone, DrainInv
  <2>2. PICK l \in {"more", "failed"} : Goto(Loop, l)
    BY <1>2 DEF WriteDone
  <2>3. \A q \in Procs : ~Drains(q)'
    BY <1>1, <2>1, <2>2, GotoMoves DEF Moves, Drains
  <2>4. draining \/ isClosing
    BY <2>1 DEF DrainInv, Underway
  <2> QED BY <2>1, <2>3, <2>4 DEF DrainInv, Underway
<1>3. CASE DrainsOn
  <2>1. /\ pc[Loop] = "more" /\ ~posted /\ \A q \in Procs : ~Drains(q)
        /\ UNCHANGED <<isClosing, sendQueue, flight, posted>> /\ (draining \/ isClosing) /\ flight = <<>>
    BY <1>1, <1>3 DEF DrainsOn, DrainInv, Underway, Drains
  <2>2. CASE sendQueue # <<>>
    <3>1. Goto(Loop, "drain") /\ UNCHANGED draining
      BY <1>3, <2>2 DEF DrainsOn
    <3>2. pc'[Loop] = "drain" /\ \A q \in Procs : Drains(q)' => q = Loop
      BY <1>1, <2>1, <3>1, GotoMoves DEF Moves, Drains
    <3> QED BY <2>1, <3>1, <3>2 DEF DrainInv, Underway
  <2>3. CASE sendQueue = <<>>
    <3>1. Broadcast(Loop, "idle")
      BY <1>3, <2>3 DEF DrainsOn
    <3>2. Moves(Loop, "idle")
      BY <1>1, <3>1, BroadcastMoves
    <3>3. pc'[Loop] = "idle" /\ \A q \in Procs : ~Drains(q)'
      BY <2>1, <3>2 DEF Moves, Drains
    <3> QED BY <2>1, <2>3, <3>3 DEF DrainInv, Underway
  <2> QED BY <2>2, <2>3
<1> QED BY <1>2, <1>3

LEMMA PushDrain ==
    ASSUME StreamTypes, DrainInv, NEW w \in Writers, pc[w] = "offer", ~isClosing, Queued(w),
           UNCHANGED <<isClosing, flight, posted>>
    PROVE  DrainInv'
<1>1. w \in Procs /\ Loop \in Procs /\ w # Loop
  BY NamesOfProcs
<1>2. draining' = TRUE
  BY DEF Queued
<1>3. CASE draining
  <2>1. Moves(w, "idle")
    BY <1>3, PushFacts
  <2>2. \A q \in Procs : /\ pc'[q] = "write" <=> pc[q] = "write"
                         /\ pc'[q] = "drain" <=> pc[q] = "drain"
                         /\ pc'[q] = "more" <=> pc[q] = "more"
    BY <1>1, <2>1 DEF Moves
  <2> QED BY <1>1, <1>2, <1>3, <2>2 DEF DrainInv, Underway, Drains
<1>4. CASE ~draining
  <2>1. Moves(w, "drain")
    BY <1>4, PushFacts
  <2>2. ~Underway /\ flight = <<>>
    BY <1>4 DEF DrainInv, Underway, Drains
  <2>3. pc'[Loop] # "more" /\ ~posted' /\ \A q \in Procs : Drains(q)' => q = w
    BY <1>1, <2>1, <2>2 DEF Moves, Drains, Underway
  <2> QED BY <1>1, <1>2, <2>2, <2>3 DEF DrainInv
<1> QED BY <1>3, <1>4

LEMMA AsyncDrain ==
    ASSUME StreamTypes, DrainInv, OnceInv, stopReadAsync
    PROVE  DrainInv'
<1>1. /\ pc' = [pc EXCEPT ![Loop] = "idle", ![Events] = "stopWait"] /\ pc[Loop] = "stopAsync"
      /\ pc[Events] = "idle" /\ UNCHANGED <<posted, flight, sendQueue, draining, isClosing>>
  BY DEF stopReadAsync, OnceInv
<1>2. \A q \in Procs : /\ pc'[q] = "write" <=> pc[q] = "write"
                       /\ pc'[q] = "drain" <=> pc[q] = "drain"
                       /\ pc'[q] = "more" <=> pc[q] = "more"
  BY <1>1, NamesOfProcs DEF StreamTypes, PlaceTypes
<1> QED BY <1>1, <1>2, NamesOfProcs DEF DrainInv, Underway, Drains

\* Each step is one of these.
LEMMA StepKinds ==
    ASSUME StreamTypes, ClosersInv, OnceInv, StreamNext
    PROVE  \/ \E p \in Procs, l \in Pcs : Aside(p, l)
           \/ \E p \in Procs : startDrain(p) \/ GnetWrites(p) \/ GwsWrites(p)
           \/ \E w \in Writers : pc[w] = "offer" /\ ~isClosing /\ Queued(w) /\ UNCHANGED <<isClosing,
                flight, posted, late, written, modes, OfConn>>
           \/ WriteDone \/ DrainsOn \/ stopReadAsync
           \/ (Spawned \/ PeerLeaves)
<1>1. CASE \E p \in Procs : StreamStep(p) \/ Close(p)
  BY <1>1, AsideSteps DEF StreamStep
<1>2. CASE \E w \in Writers : Offers(w) \/ sendBufferDrop(w) \/ sendBufferRetry(w)
  BY <1>2, AsideWriters, NamesOfProcs
<1> QED BY <1>1, <1>2, AsideOthers DEF StreamNext

LEMMA NextDrain ==
    ASSUME StreamTypes, ClosersInv, OnceInv, DrainInv, StreamNext
    PROVE  DrainInv'
<1>1. CASE Spawned \/ PeerLeaves
  BY <1>1 DEF Spawned, PeerLeaves, DrainInv, Underway, Drains
<1>2. CASE \E w \in Writers : pc[w] = "offer" /\ ~isClosing /\ Queued(w) /\ UNCHANGED <<isClosing,
        flight, posted, late, written, modes, OfConn>>
  BY <1>2, PushDrain
<1> QED BY <1>1, <1>2, StepKinds, AsideDrain, HolderDrain, CallbackDrain, AsyncDrain

---------------------------------------------------------------------------
(* What was kept. *)

\* Whatever the case, what is on the wire is a beginning of what was queued.
LEMMA WrittenIsPrefix ==
    ASSUME StreamTypes, OrderInv
    PROVE  /\ IsPrefix(written, queued)
           /\ Kept => IsPrefix(written \o flight, queued)
           /\ written \o flight \in Seq(PacketIds) /\ written \o <<>> = written
<1> USE DEF StreamTypes, PacketTypes
<1>1. written \o flight \in Seq(PacketIds) /\ written \o <<>> = written
  BY ConcatProperties, ConcatEmptySeq
<1>2. Kept => IsPrefix(written \o flight, queued)
  BY <1>1, PrefixOfConcat DEF Kept
<1>3. ASSUME IsPrefix(written \o flight, queued) PROVE IsPrefix(written, queued)
  BY <1>3, PrefixOfPrefix
<1> QED BY <1>1, <1>2, <1>3 DEF OrderInv, Dropped, Lost

LEMMA AsideOrder ==
    ASSUME StreamTypes, DrainInv, OrderInv, NEW p \in Procs, NEW l \in Pcs, Aside(p, l)
    PROVE  OrderInv' /\ (sendQueue' = sendQueue /\ Kept => Kept')
<1>1. /\ UNCHANGED <<flight, written, queued>>
      /\ sendQueue' = sendQueue \/ (sendQueue' = <<>> /\ isClosing')
      /\ (isClosing => isClosing') /\ (broken => broken')
      /\ draining' = draining \/ (isClosing /\ ~draining')
  BY DEF Aside
<1>2. Underway' <=> Underway
  BY OthersDrain
<1>3. CASE Kept
  <2>1. IsPrefix(written \o flight, queued)
    BY <1>3, WrittenIsPrefix
  <2>2. sendQueue' = sendQueue => Kept'
    BY <1>1, <1>3 DEF Kept
  <2>3. sendQueue' = <<>> /\ isClosing' => Dropped'
    BY <1>1, <2>1 DEF Dropped
  <2> QED BY <1>1, <2>2, <2>3 DEF OrderInv
<1>4. CASE Dropped
  BY <1>1, <1>4 DEF OrderInv, Dropped, Kept
<1>5. CASE Lost
  <2>1. Lost'
    BY <1>1, <1>2, <1>5 DEF Lost
  <2> QED BY <1>1, <2>1 DEF OrderInv, Kept
<1> QED BY <1>3, <1>4, <1>5 DEF OrderInv

LEMMA HolderOrder ==
    ASSUME StreamTypes, DrainInv, ClosersInv, OrderInv, NEW p \in Procs,
           startDrain(p) \/ GnetWrites(p) \/ GwsWrites(p)
    PROVE  OrderInv' /\ (Kept /\ sockOpen => Kept')
<1> USE DEF StreamTypes, PacketTypes
<1>1. Underway
  BY DEF startDrain, GnetWrites, GwsWrites, Drains, Underway
<1>2. Kept \/ Dropped
  BY <1>1 DEF OrderInv, Lost
<1>3. UNCHANGED <<isClosing, queued, written>>
  BY DEF startDrain, GnetWrites, GwsWrites
<1>4. CASE startDrain(p)
  <2>1. flight = <<>>
    BY <1>4 DEF startDrain, DrainInv, Drains
  <2>2. CASE sendQueue = <<>>
    <3>1. UNCHANGED <<sendQueue, flight>>
      BY <1>4, <2>2, BatchFacts
    <3> QED BY <1>2, <1>3, <3>1 DEF OrderInv, Kept, Dropped
  <2>3. CASE sendQueue # <<>>
    <3>1. /\ flight' \in Seq(PacketIds) /\ sendQueue' \in Seq(PacketIds)
               /\ flight' \o sendQueue' = sendQueue
      BY <1>4, <2>3, BatchFacts
    <3>2. Kept
      BY <1>2, <2>3 DEF Dropped
    <3>3. (written \o flight') \o sendQueue' = written \o (flight' \o sendQueue')
      <4>1. ASSUME NEW f \in Seq(PacketIds), NEW q \in Seq(PacketIds)
            PROVE  (written \o f) \o q = written \o (f \o q)
        BY ConcatAssociative
      <4> QED BY <3>1, <4>1
    <3>4. written \o flight = written
      BY <2>1, ConcatEmptySeq
    <3>5. Kept'
      BY <1>3, <3>1, <3>2, <3>3, <3>4 DEF Kept
    <3> QED BY <3>5 DEF OrderInv
  <2> QED BY <2>2, <2>3
<1>5. CASE (GnetWrites(p) \/ GwsWrites(p)) /\ flight' = flight
  BY <1>2, <1>3, <1>5 DEF GnetWrites, GwsWrites, OrderInv, Kept, Dropped
<1>6. CASE GnetWrites(p) /\ flight' # flight
  <2>1. /\ ~sockOpen /\ flight' = <<>> /\ UNCHANGED <<sendQueue, draining, posted, broken>> /\ Goto(p,
             "failed")
    BY <1>6 DEF GnetWrites, OfConn
  <2>2. IsPrefix(written, queued) /\ written \o flight' = written
    BY <2>1, WrittenIsPrefix
  <2>3. CASE isClosing /\ sendQueue = <<>>
    <3>1. Dropped'
      BY <1>3, <2>1, <2>2, <2>3 DEF Dropped
    <3> QED BY <2>1, <3>1 DEF OrderInv
  <2>4. CASE ~(isClosing /\ sendQueue = <<>>)
    <3>1. broken
      BY <2>1, <2>4 DEF ClosersInv
    <3>2. Moves(p, "failed")
      BY <2>1, GotoMoves DEF PlaceTypes, Pcs
    <3>3. /\ ~posted /\ pc[Loop] # "more" /\ \A q \in Procs : Drains(q) => q = p
          /\ draining \/ isClosing
      BY <1>1, <1>6 DEF GnetWrites, DrainInv, Drains
    <3>4. ~Underway'
      BY <2>1, <3>2, <3>3, NamesOfProcs DEF Moves, Underway, Drains
    <3>5. Lost'
      BY <1>3, <2>1, <2>2, <3>1, <3>3, <3>4 DEF Lost
    <3> QED BY <2>1, <3>5 DEF OrderInv
  <2> QED BY <2>3, <2>4
<1>7. GwsWrites(p) => flight' = flight
  BY DEF GwsWrites
<1> QED BY <1>4, <1>5, <1>6, <1>7

LEMMA CallbackOrder ==
    ASSUME StreamTypes, DrainInv, OrderInv, WriteDone \/ DrainsOn
    PROVE  OrderInv' /\ (Kept /\ ~broken' => Kept')
<1> USE DEF StreamTypes, PacketTypes
<1>1. Underway
  BY DEF WriteDone, DrainsOn, Underway
<1>2. Kept \/ Dropped
  BY <1>1 DEF OrderInv, Lost
<1>3. CASE DrainsOn
  BY <1>2, <1>3 DEF DrainsOn, OrderInv, Kept, Dropped
<1>4. CASE WriteDone
  <2>1. /\ flight' = <<>> /\ ~posted' /\ posted /\ UNCHANGED <<isClosing, sendQueue, draining, queued>>
        /\ \/ written' = written \o flight
           \/ broken' = TRUE /\ written' = written /\ Goto(Loop, "failed")
    BY <1>4 DEF WriteDone
  <2>2. CASE written' = written \o flight
    <3>1. written' \o flight' = written'
      BY <2>1, <2>2, ConcatProperties, ConcatEmptySeq
    <3> QED BY <1>2, <2>1, <2>2, <3>1 DEF OrderInv, Kept, Dropped
  <2>3. CASE broken' = TRUE /\ written' = written /\ Goto(Loop, "failed")
    <3>1. IsPrefix(written', queued')
      BY <2>1, <2>3, WrittenIsPrefix
    <3>2. (draining \/ isClosing) /\ \A q \in Procs : ~Drains(q)
      BY <1>1, <2>1 DEF DrainInv
    <3>3. Moves(Loop, "failed")
      BY <2>3, NamesOfProcs, GotoMoves DEF PlaceTypes, Pcs
    <3>4. ~Underway'
      BY <2>1, <3>2, <3>3, NamesOfProcs DEF Moves, Underway, Drains
    <3>5. Lost'
      BY <2>1, <2>3, <3>1, <3>2, <3>4 DEF Lost
    <3> QED BY <2>3, <3>5 DEF OrderInv
  <2> QED BY <2>1, <2>2, <2>3
<1> QED BY <1>3, <1>4

LEMMA PushOrder ==
    ASSUME StreamTypes, DrainInv, OrderInv, NEW w \in Writers, ~isClosing, Queued(w), pc[w] = "offer",
           UNCHANGED <<isClosing, flight, posted, written, OfConn>>
    PROVE  OrderInv' /\ (Kept => Kept')
<1> USE DEF StreamTypes, PacketTypes
<1> DEFINE x == <<w, sent[w]>>
<1>1. /\ x \in PacketIds /\ sendQueue' = Append(sendQueue, x) /\ queued' = Append(queued, x)
      /\ draining' = TRUE
  BY PushFacts
<1> HIDE DEF x
<1>2. ASSUME Kept PROVE Kept'
  <2>1. written \o flight \in Seq(PacketIds)
    BY ConcatProperties
  <2>2. (written \o flight) \o Append(sendQueue, x) = Append((written \o flight) \o sendQueue, x)
    <3>1. <<x>> \in Seq(PacketIds) /\ (written \o flight) \o sendQueue \in Seq(PacketIds)
      BY <1>1, <2>1, ConcatProperties
    <3>2. Append(sendQueue, x) = sendQueue \o <<x>>
          /\ Append((written \o flight) \o sendQueue, x) = ((written \o flight) \o sendQueue) \o <<x>>
      BY <1>1, <3>1, AppendIsConcat
    <3> QED BY <2>1, <3>1, <3>2, ConcatAssociative
  <2> QED BY <1>1, <1>2, <2>2 DEF Kept
<1>3. ASSUME Lost PROVE Lost'
  <2>1. IsPrefix(written', queued')
    BY <1>1, <1>3, PrefixOfAppend DEF Lost
  <2>2. draining
    BY <1>3 DEF Lost
  <2>3. Moves(w, "idle")
    BY <2>2, PushFacts
  <2>4. ~Underway'
    BY <1>3, <2>3, NamesOfProcs DEF Lost, Moves, Underway, Drains
  <2> QED BY <1>1, <1>3, <2>1, <2>4 DEF Lost, OfConn
<1> QED BY <1>2, <1>3 DEF OrderInv, Dropped

LEMMA NextOrder ==
    ASSUME StreamTypes, ClosersInv, OnceInv, DrainInv, OrderInv, StreamNext
    PROVE  OrderInv'
<1>1. CASE Spawned \/ PeerLeaves
  BY <1>1 DEF Spawned, PeerLeaves, OrderInv, Kept, Dropped, Lost, Underway, Drains
<1>2. CASE \E w \in Writers : pc[w] = "offer" /\ ~isClosing /\ Queued(w) /\ UNCHANGED <<isClosing,
        flight, posted, late, written, modes, OfConn>>
  BY <1>2, PushOrder
<1>3. CASE stopReadAsync
  <2>1. /\ pc' = [pc EXCEPT ![Loop] = "idle", ![Events] = "stopWait"] /\ pc[Loop] = "stopAsync"
        /\ pc[Events] = "idle" /\ UNCHANGED <<posted, flight, sendQueue, draining, isClosing, queued,
             written, broken>>
    BY <1>3 DEF stopReadAsync, OnceInv
  <2>2. \A q \in Procs : /\ pc'[q] = "write" <=> pc[q] = "write"
                         /\ pc'[q] = "drain" <=> pc[q] = "drain"
                         /\ pc'[q] = "more" <=> pc[q] = "more"
    BY <2>1, NamesOfProcs DEF StreamTypes, PlaceTypes
  <2>3. Underway' <=> Underway
    BY <2>1, <2>2, NamesOfProcs DEF Underway, Drains
  <2> QED BY <2>1, <2>3 DEF OrderInv, Kept, Dropped, Lost
<1> QED BY <1>1, <1>2, <1>3, StepKinds, AsideOrder, HolderOrder, CallbackOrder

---------------------------------------------------------------------------
(* Who closes. *)

CloserPcs == {"flush", "asleep", "drop", "shut"}
DropperPcs == {"failedDrop", "lostDrop", "dropOnce"}

\* p goes to l; it closes now only if it did, or if nobody had begun to.
LEMMA ClosersKept ==
    ASSUME StreamTypes, ClosersInv, NEW p \in Procs, NEW l \in Pcs, Moves(p, l),
           isClosing => isClosing', broken => broken', sendQueue' = sendQueue \/ sendQueue' = <<>>,
           l \in CloserPcs \union DropperPcs => isClosing',
           l \in CloserPcs => (Closer(p) /\ pc[p] # "shut") \/ ~isClosing,
           l = "shut" => sendQueue' = <<>>, l = "failedDrop" => broken',
           sockOpen' = sockOpen \/ broken' \/ (pc[p] = "shut" /\ ~sockOpen'),
           told' => ~sockOpen'
    PROVE  ClosersInv'
<1>1. /\ \A q \in Procs : q # p => (Closer(q)' <=> Closer(q)) /\ (Dropper(q)' <=> Dropper(q))
           /\ (pc'[q] = "shut" <=> pc[q] = "shut")
      /\ Closer(p)' => l \in CloserPcs
      /\ Dropper(p)' => l \in DropperPcs
      /\ pc'[p] = "shut" => l = "shut"
  BY DEF Moves, Closer, Dropper, CloserPcs, DropperPcs
<1>2. ASSUME NEW q \in Procs, Closer(q)' \/ Dropper(q)' PROVE isClosing'
  BY <1>1, <1>2 DEF ClosersInv
<1>3. ASSUME NEW q \in Procs, NEW r \in Procs, Closer(q)', Closer(r)' PROVE q = r
  <2>1. ASSUME NEW s \in Procs, s # p, Closer(s), l \in CloserPcs PROVE FALSE
    BY <2>1 DEF ClosersInv
  <2> QED BY <1>1, <1>3, <2>1 DEF ClosersInv
<1>4. ASSUME NEW q \in Procs, Closer(q)' PROVE sockOpen' \/ broken'
  <2>1. CASE q = p
    <3>1. l \in CloserPcs /\ (sockOpen \/ broken)
      BY <1>1, <1>4, <2>1 DEF ClosersInv
    <3>2. pc[p] # "shut"
      BY <3>1 DEF ClosersInv, Closer
    <3> QED BY <3>1, <3>2
  <2>2. CASE q # p
    <3>1. Closer(q) /\ (sockOpen \/ broken)
      BY <1>1, <1>4, <2>2 DEF ClosersInv
    <3>2. pc[p] # "shut"
      BY <2>2, <3>1 DEF ClosersInv, Closer
    <3> QED BY <3>1, <3>2
  <2> QED BY <2>1, <2>2
<1>5. ASSUME NEW q \in Procs, pc'[q] = "shut" PROVE sendQueue' = <<>>
  BY <1>1, <1>5 DEF ClosersInv
<1>6. sockOpen' \/ broken' \/ (isClosing' /\ sendQueue' = <<>>)
  <2>1. pc[p] = "shut" => isClosing /\ sendQueue = <<>>
    BY DEF ClosersInv, Closer
  <2> QED BY <2>1 DEF ClosersInv
<1>7. ASSUME NEW q \in Procs, pc'[q] = "failedDrop" PROVE broken'
  BY <1>7 DEF Moves, ClosersInv
<1> QED BY <1>2, <1>3, <1>4, <1>5, <1>6, <1>7 DEF ClosersInv

LEMMA StepClosers ==
    ASSUME StreamTypes, ClosersInv, NEW p \in Procs, StreamStep(p) \/ Close(p)
    PROVE  ClosersInv'
<1>0. pc \in [Procs -> Pcs] /\ (told => ~sockOpen)
  BY DEF StreamTypes, PlaceTypes, ClosersInv
<1>1. CASE WriteFailed(p)
  <2>1. PICK l \in {"failedDrop", "doClose"} : Goto(p, l)
    BY <1>1 DEF WriteFailed
  <2>2. l \in Pcs
    BY DEF Pcs
  <2>3. Moves(p, l)
    BY <1>0, <2>1, <2>2, GotoMoves
  <2>4. pc'[p] = l
    BY <2>3 DEF Moves
  <2>5. /\ (isClosing => isClosing') /\ (broken => broken') /\ sendQueue' = sendQueue
        /\ sockOpen' = sockOpen \/ broken' \/ (pc[p] = "shut" /\ ~sockOpen')
        /\ told' = told /\ (sockOpen' => sockOpen)
    BY <1>1 DEF WriteFailed
  <2>6. l \in CloserPcs \union DropperPcs => isClosing'
    BY <1>1, <2>1, <2>4 DEF WriteFailed, CloserPcs, DropperPcs, ClosersInv, Closer, Goto
  <2>7. l \in CloserPcs => (Closer(p) /\ pc[p] # "shut") \/ ~isClosing
    BY <1>1, <1>0, <2>1, <2>4 DEF WriteFailed, CloserPcs, Closer, Goto
  <2>8. l = "shut" => sendQueue' = <<>>
    BY <1>1, <1>0, <2>1, <2>4 DEF WriteFailed, Goto
  <2>9. l = "failedDrop" => broken'
    BY <1>1, <1>0, <2>1, <2>4 DEF WriteFailed, Goto
  <2> QED BY <1>0, <2>2, <2>3, <2>5, <2>6, <2>7, <2>8, <2>9, ClosersKept
<1>2. CASE Flushes(p)
  <2>1. PICK l \in {"shut", "drop", "asleep"} : Goto(p, l)
    BY <1>2 DEF Flushes
  <2>2. l \in Pcs
    BY DEF Pcs
  <2>3. Moves(p, l)
    BY <1>0, <2>1, <2>2, GotoMoves
  <2>4. pc'[p] = l
    BY <2>3 DEF Moves
  <2>5. /\ (isClosing => isClosing') /\ (broken => broken') /\ sendQueue' = sendQueue
        /\ sockOpen' = sockOpen \/ broken' \/ (pc[p] = "shut" /\ ~sockOpen')
        /\ told' = told /\ (sockOpen' => sockOpen)
    BY <1>2 DEF Flushes, OfConn
  <2>6. l \in CloserPcs \union DropperPcs => isClosing'
    BY <1>2, <2>1, <2>4 DEF Flushes, CloserPcs, DropperPcs, ClosersInv, Closer, Goto
  <2>7. l \in CloserPcs => (Closer(p) /\ pc[p] # "shut") \/ ~isClosing
    BY <1>2, <1>0, <2>1, <2>4 DEF Flushes, CloserPcs, Closer, Goto
  <2>8. l = "shut" => sendQueue' = <<>>
    BY <1>2, <1>0, <2>1, <2>4 DEF Flushes, Goto
  <2>9. l = "failedDrop" => broken'
    BY <1>2, <1>0, <2>1, <2>4 DEF Flushes, Goto
  <2> QED BY <1>0, <2>2, <2>3, <2>5, <2>6, <2>7, <2>8, <2>9, ClosersKept
<1>3. CASE Shuts(p)
  <2>1. PICK l \in {"stopWait", "doClose"} : Goto(p, l)
    BY <1>3 DEF Shuts
  <2>2. l \in Pcs
    BY DEF Pcs
  <2>3. Moves(p, l)
    BY <1>0, <2>1, <2>2, GotoMoves
  <2>4. pc'[p] = l
    BY <2>3 DEF Moves
  <2>5. /\ (isClosing => isClosing') /\ (broken => broken') /\ sendQueue' = sendQueue
        /\ sockOpen' = sockOpen \/ broken' \/ (pc[p] = "shut" /\ ~sockOpen')
        /\ told' = told /\ (sockOpen' => sockOpen)
    BY <1>3 DEF Shuts
  <2>6. l \in CloserPcs \union DropperPcs => isClosing'
    BY <1>3, <2>1, <2>4 DEF Shuts, CloserPcs, DropperPcs, ClosersInv, Closer, Goto
  <2>7. l \in CloserPcs => (Closer(p) /\ pc[p] # "shut") \/ ~isClosing
    BY <1>3, <1>0, <2>1, <2>4 DEF Shuts, CloserPcs, Closer, Goto
  <2>8. l = "shut" => sendQueue' = <<>>
    BY <1>3, <1>0, <2>1, <2>4 DEF Shuts, Goto
  <2>9. l = "failedDrop" => broken'
    BY <1>3, <1>0, <2>1, <2>4 DEF Shuts, Goto
  <2> QED BY <1>0, <2>2, <2>3, <2>5, <2>6, <2>7, <2>8, <2>9, ClosersKept
<1>4. CASE stopReadAndWait(p)
  <2>1. PICK l \in {"stopRead", "done", "idle"} : Goto(p, l)
    BY <1>4 DEF stopReadAndWait, Returned
  <2>2. l \in Pcs
    BY DEF Pcs
  <2>3. Moves(p, l)
    BY <1>0, <2>1, <2>2, GotoMoves
  <2>4. pc'[p] = l
    BY <2>3 DEF Moves
  <2>5. /\ (isClosing => isClosing') /\ (broken => broken') /\ sendQueue' = sendQueue
        /\ sockOpen' = sockOpen \/ broken' \/ (pc[p] = "shut" /\ ~sockOpen')
        /\ told' = told /\ (sockOpen' => sockOpen)
    BY <1>4 DEF stopReadAndWait
  <2>6. l \in CloserPcs \union DropperPcs => isClosing'
    BY <1>4, <2>1, <2>4 DEF stopReadAndWait, CloserPcs, DropperPcs, ClosersInv, Closer, Goto, Returned
  <2>7. l \in CloserPcs => (Closer(p) /\ pc[p] # "shut") \/ ~isClosing
    BY <1>4, <1>0, <2>1, <2>4 DEF stopReadAndWait, CloserPcs, Closer, Goto
  <2>8. l = "shut" => sendQueue' = <<>>
    BY <1>4, <1>0, <2>1, <2>4 DEF stopReadAndWait, Goto
  <2>9. l = "failedDrop" => broken'
    BY <1>4, <1>0, <2>1, <2>4 DEF stopReadAndWait, Goto, Returned
  <2> QED BY <1>0, <2>2, <2>3, <2>5, <2>6, <2>7, <2>8, <2>9, ClosersKept
<1>5. CASE stopRead(p)
  <2>1. PICK l \in {"done", "idle"} : Goto(p, l)
    BY <1>5 DEF stopRead, Returned
  <2>2. l \in Pcs
    BY DEF Pcs
  <2>3. Moves(p, l)
    BY <1>0, <2>1, <2>2, GotoMoves
  <2>4. pc'[p] = l
    BY <2>3 DEF Moves
  <2>5. /\ (isClosing => isClosing') /\ (broken => broken') /\ sendQueue' = sendQueue
        /\ sockOpen' = sockOpen \/ broken' \/ (pc[p] = "shut" /\ ~sockOpen')
        /\ told' = told /\ (sockOpen' => sockOpen)
    BY <1>5 DEF stopRead
  <2>6. l \in CloserPcs \union DropperPcs => isClosing'
    BY <1>5, <2>1, <2>4 DEF stopRead, CloserPcs, DropperPcs, ClosersInv, Closer, Goto, Returned
  <2>7. l \in CloserPcs => (Closer(p) /\ pc[p] # "shut") \/ ~isClosing
    BY <1>5, <1>0, <2>1, <2>4 DEF stopRead, CloserPcs, Closer, Goto
  <2>8. l = "shut" => sendQueue' = <<>>
    BY <1>5, <1>0, <2>1, <2>4 DEF stopRead, Goto
  <2>9. l = "failedDrop" => broken'
    BY <1>5, <1>0, <2>1, <2>4 DEF stopRead, Goto, Returned
  <2> QED BY <1>0, <2>2, <2>3, <2>5, <2>6, <2>7, <2>8, <2>9, ClosersKept
<1>6. CASE doClose(p)
  <2>1. PICK l \in {"dropOnce", "done", "idle"} : Goto(p, l)
    BY <1>6 DEF doClose, Returned
  <2>2. l \in Pcs
    BY DEF Pcs
  <2>3. Moves(p, l)
    BY <1>0, <2>1, <2>2, GotoMoves
  <2>4. pc'[p] = l
    BY <2>3 DEF Moves
  <2>5. /\ (isClosing => isClosing') /\ (broken => broken') /\ sendQueue' = sendQueue
        /\ sockOpen' = sockOpen \/ broken' \/ (pc[p] = "shut" /\ ~sockOpen')
        /\ told' = told /\ (sockOpen' => sockOpen)
    BY <1>6 DEF doClose
  <2>6. l \in CloserPcs \union DropperPcs => isClosing'
    BY <1>6, <2>1, <2>4 DEF doClose, CloserPcs, DropperPcs, ClosersInv, Closer, Goto, Returned
  <2>7. l \in CloserPcs => (Closer(p) /\ pc[p] # "shut") \/ ~isClosing
    BY <1>6, <1>0, <2>1, <2>4 DEF doClose, CloserPcs, Closer, Goto
  <2>8. l = "shut" => sendQueue' = <<>>
    BY <1>6, <1>0, <2>1, <2>4 DEF doClose, Goto
  <2>9. l = "failedDrop" => broken'
    BY <1>6, <1>0, <2>1, <2>4 DEF doClose, Goto, Returned
  <2> QED BY <1>0, <2>2, <2>3, <2>5, <2>6, <2>7, <2>8, <2>9, ClosersKept
<1>7. CASE Close(p)
  <2>1. PICK l \in {"done", "idle", "flush", "drop"} : Goto(p, l)
    BY <1>7 DEF Close
  <2>2. l \in Pcs
    BY DEF Pcs
  <2>3. Moves(p, l)
    BY <1>0, <2>1, <2>2, GotoMoves
  <2>4. pc'[p] = l
    BY <2>3 DEF Moves
  <2>5. /\ (isClosing => isClosing') /\ (broken => broken') /\ sendQueue' = sendQueue
        /\ sockOpen' = sockOpen \/ broken' \/ (pc[p] = "shut" /\ ~sockOpen')
        /\ told' = told /\ (sockOpen' => sockOpen)
    BY <1>7 DEF Close
  <2>6. l \in CloserPcs \union DropperPcs => isClosing'
    BY <1>7, <2>1, <2>4 DEF Close, CloserPcs, DropperPcs, ClosersInv, Closer, Goto
  <2>7. l \in CloserPcs => (Closer(p) /\ pc[p] # "shut") \/ ~isClosing
    BY <1>7, <1>0, <2>1, <2>4 DEF Close, CloserPcs, Closer, Goto
  <2>8. l = "shut" => sendQueue' = <<>>
    BY <1>7, <1>0, <2>1, <2>4 DEF Close, Goto
  <2>9. l = "failedDrop" => broken'
    BY <1>7, <1>0, <2>1, <2>4 DEF Close, Goto
  <2> QED BY <1>0, <2>2, <2>3, <2>5, <2>6, <2>7, <2>8, <2>9, ClosersKept
<1>8. CASE Drops(p)
  <2>1. PICK l \in {"idle", "shut", "stopAsync", "stopRead"} : Broadcast(p, l)
          /\ (l = "shut" => pc[p] = "drop")
    BY <1>8 DEF Drops, dropQueuedBuffers
  <2>2. l \in Pcs
    BY DEF Pcs
  <2>3. Moves(p, l)
    BY <1>0, <2>1, <2>2, BroadcastMoves
  <2>4. Closer(p) \/ Dropper(p)
    BY <1>8 DEF Drops, Closer, Dropper
  <2>5. isClosing
    BY <2>4 DEF ClosersInv
  <2>6. /\ UNCHANGED <<isClosing, broken, told>> /\ sendQueue' = <<>>
        /\ sockOpen' = sockOpen \/ (pc[p] = "failedDrop" /\ ~sockOpen')
    BY <1>8 DEF Drops, dropQueuedBuffers
  <2>7. l \in CloserPcs => Closer(p) /\ pc[p] # "shut"
    BY <2>1 DEF CloserPcs, Closer
  <2>8. pc[p] = "failedDrop" => broken
    BY DEF ClosersInv
  <2> QED BY <1>0, <2>2, <2>3, <2>5, <2>6, <2>7, <2>8, ClosersKept
<1>9. CASE startDrain(p) \/ GnetWrites(p) \/ GwsWrites(p)
  <2>1. PICK l \in {"idle", "write", "failed"} : Goto(p, l) \/ Broadcast(p, l)
    BY <1>9 DEF startDrain, GnetWrites, GwsWrites
  <2>2. l \in Pcs /\ l \notin CloserPcs \union DropperPcs
    BY DEF Pcs, CloserPcs, DropperPcs
  <2>3. Moves(p, l)
    BY <1>0, <2>1, <2>2, GotoMoves, BroadcastMoves
  <2>4. UNCHANGED <<isClosing, broken, told, sockOpen>>
    BY <1>9 DEF startDrain, GnetWrites, GwsWrites, OfConn
  <2>5. ASSUME sendQueue = <<>> PROVE sendQueue' = <<>>
    BY <1>9, <2>5, BatchFacts DEF GnetWrites, GwsWrites
  <2>6. \A q \in Procs : (Closer(q)' => Closer(q)) /\ (Dropper(q)' => Dropper(q))
          /\ (pc'[q] = "shut" => pc[q] = "shut") /\ (pc'[q] = "failedDrop" => pc[q] = "failedDrop")
    BY <2>2, <2>3 DEF Moves, Closer, Dropper, CloserPcs, DropperPcs
  <2> QED BY <2>4, <2>5, <2>6 DEF ClosersInv
<1> QED BY <1>1, <1>2, <1>3, <1>4, <1>5, <1>6, <1>7, <1>8, <1>9 DEF StreamStep

LEMMA NextClosers ==
    ASSUME StreamTypes, ClosersInv, OnceInv, StreamNext
    PROVE  ClosersInv'
<1>0. pc \in [Procs -> Pcs] /\ (told => ~sockOpen) /\ {App, Reader, Loop, Events} \subseteq Procs
  BY NamesOfProcs DEF StreamTypes, PlaceTypes, ClosersInv
<1>1. CASE \E p \in Procs : StreamStep(p) \/ Close(p)
  BY <1>1, StepClosers
<1>2. CASE \E w \in Writers : Offers(w) \/ sendBufferDrop(w) \/ sendBufferRetry(w)
  <2> PICK w \in Writers : Offers(w) \/ sendBufferDrop(w) \/ sendBufferRetry(w)
    BY <1>2
  <2>1. PICK l \in {"offer", "idle", "drain"} : Goto(w, l)
    BY DEF Offers, sendBufferDrop, sendBufferRetry, Queued
  <2>2. l \in Pcs /\ w \in Procs
    BY NamesOfProcs DEF Pcs
  <2>3. Moves(w, l)
    BY <1>0, <2>1, <2>2, GotoMoves
  <2>4. UNCHANGED <<isClosing, broken, told, sockOpen>> /\ (isClosing => sendQueue' = sendQueue)
    BY DEF Offers, sendBufferDrop, sendBufferRetry, OfConn
  <2>5. /\ \A q \in Procs : (Closer(q)' => Closer(q)) /\ (Dropper(q)' => Dropper(q))
             /\ (pc'[q] = "shut" => pc[q] = "shut") /\ (pc'[q] = "failedDrop" => pc[q] = "failedDrop")
    BY <2>3 DEF Moves, Closer, Dropper
  <2>6. ASSUME NEW q \in Procs, pc'[q] = "shut" PROVE sendQueue' = <<>>
    BY <2>4, <2>5, <2>6 DEF ClosersInv, Closer
  <2> QED BY <2>4, <2>5, <2>6 DEF ClosersInv
<1>3. CASE WriteDone \/ DrainsOn
  <2>1. PICK l \in {"idle", "drain", "more", "failed"} : Goto(Loop, l) \/ Broadcast(Loop, l)
    BY <1>3 DEF WriteDone, DrainsOn
  <2>2. l \in Pcs
    BY DEF Pcs
  <2>3. Moves(Loop, l)
    BY <1>0, <2>1, <2>2, GotoMoves, BroadcastMoves
  <2>4. /\ UNCHANGED <<isClosing, told, sockOpen, sendQueue>> /\ (broken => broken')
    BY <1>3 DEF WriteDone, DrainsOn, OfConn
  <2>5. l \notin CloserPcs \union DropperPcs
    BY DEF CloserPcs, DropperPcs
  <2> QED BY <1>0, <2>2, <2>3, <2>4, <2>5, ClosersKept DEF CloserPcs, DropperPcs
<1>4. CASE DeadlinePasses
  <2>1. PICK p \in Procs : pc[p] = "asleep" /\ Broadcast(p, "flush")
    BY <1>4 DEF DeadlinePasses
  <2>2. "flush" \in Pcs
    BY DEF Pcs
  <2>3. Moves(p, "flush")
    BY <1>0, <2>1, <2>2, BroadcastMoves
  <2>4. UNCHANGED <<isClosing, told, sockOpen, sendQueue, broken>>
    BY <1>4 DEF DeadlinePasses, OfConn
  <2>5. Closer(p) /\ isClosing
    BY <2>1 DEF Closer, ClosersInv
  <2> QED BY <1>0, <2>1, <2>2, <2>3, <2>4, <2>5, ClosersKept
<1>5. CASE stopReadAsync
  <2>1. /\ pc' = [pc EXCEPT ![Loop] = "idle", ![Events] = "stopWait"]
        /\ UNCHANGED <<isClosing, told, sockOpen, sendQueue, broken>>
    BY <1>5 DEF stopReadAsync
  <2>2. \A q \in Procs : (Closer(q)' => Closer(q)) /\ (Dropper(q)' => Dropper(q))
          /\ (pc'[q] = "shut" => pc[q] = "shut") /\ (pc'[q] = "failedDrop" => pc[q] = "failedDrop")
    BY <1>0, <2>1 DEF Closer, Dropper
  <2> QED BY <2>1, <2>2 DEF ClosersInv
<1>6. CASE Spawned \/ PeerLeaves
  BY <1>6 DEF Spawned, PeerLeaves, ClosersInv, Closer, Dropper
<1>7. CASE GnetOnClose
  <2>1. Goto(Loop, "lostDrop") /\ "lostDrop" \in Pcs
    BY <1>7 DEF GnetOnClose, Pcs
  <2>2. Moves(Loop, "lostDrop")
    BY <1>0, <2>1, GotoMoves
  <2>3. /\ UNCHANGED <<sockOpen, sendQueue, broken>> /\ (isClosing => isClosing')
        /\ (told' => ~sockOpen')
    BY <1>7, <1>0 DEF GnetOnClose
  <2>4. isClosing'
    BY <1>7 DEF GnetOnClose
  <2> QED BY <1>0, <2>1, <2>2, <2>3, <2>4, ClosersKept DEF CloserPcs, DropperPcs
<1>8. CASE GwsOnClose
  <2>1. Goto(Events, "doClose") /\ "doClose" \in Pcs
    BY <1>8 DEF GwsOnClose, Pcs
  <2>2. Moves(Events, "doClose")
    BY <1>0, <2>1, GotoMoves
  <2>3. /\ UNCHANGED <<sockOpen, sendQueue, broken>> /\ (isClosing => isClosing')
        /\ (told' => ~sockOpen')
    BY <1>8, <1>0 DEF GwsOnClose
  <2> QED BY <1>0, <2>1, <2>2, <2>3, ClosersKept DEF CloserPcs, DropperPcs
<1>9. CASE HandsOver
  <2>1. Goto(Reader, "onRaw") /\ "onRaw" \in Pcs
    BY <1>9 DEF HandsOver, Pcs
  <2>2. Moves(Reader, "onRaw")
    BY <1>0, <2>1, GotoMoves
  <2>3. /\ UNCHANGED <<sockOpen, sendQueue, broken>> /\ (isClosing => isClosing')
        /\ (told' => ~sockOpen')
    BY <1>9, <1>0 DEF HandsOver
  <2> QED BY <1>0, <2>1, <2>2, <2>3, ClosersKept DEF CloserPcs, DropperPcs
<1>10. CASE OnRawReturns
  <2>1. Goto(Reader, "idle") /\ "idle" \in Pcs
    BY <1>10 DEF OnRawReturns, Pcs
  <2>2. Moves(Reader, "idle")
    BY <1>0, <2>1, GotoMoves
  <2>3. /\ UNCHANGED <<sockOpen, sendQueue, broken>> /\ (isClosing => isClosing')
        /\ (told' => ~sockOpen')
    BY <1>10, <1>0 DEF OnRawReturns, OfConn
  <2> QED BY <1>0, <2>1, <2>2, <2>3, ClosersKept DEF CloserPcs, DropperPcs
<1> QED BY <1>1, <1>2, <1>3, <1>4, <1>5, <1>6, <1>7, <1>8, <1>9, <1>10 DEF StreamNext

---------------------------------------------------------------------------
(* What a Close that waits can rely on. *)

LEMMA AsideFlush ==
    ASSUME StreamTypes, DrainInv, OrderInv, FlushInv, NEW p \in Procs, NEW l \in Pcs, Aside(p, l),
           Calm' => Calm /\ l \notin {"drop", "failed", "doClose"} \union DropperPcs
             /\ (l = "shut" => ~Underway)
    PROVE  FlushInv'
<1> SUFFICES ASSUME Calm' PROVE FlushInv'
  BY DEF FlushInv
<1>1. /\ Kept /\ (Underway => draining)
      /\ \A q \in Procs : pc[q] \notin {"drop", "failed", "doClose"} /\ ~Dropper(q)
      /\ \A q \in Procs : pc[q] = "shut" => ~Underway
      /\ l \notin {"drop", "failed", "doClose"} \union DropperPcs /\ (l = "shut" => ~Underway)
  BY DEF FlushInv
<1>2. UNCHANGED <<sendQueue, draining>>
  BY <1>1 DEF Aside
<1>3. Kept'
  BY <1>1, <1>2, AsideOrder
<1>4. Underway' <=> Underway
  BY OthersDrain
<1>5. /\ pc'[p] = l
      /\ \A q \in Procs : q # p => pc'[q] = pc[q] \/ (pc[q] = "asleep" /\ pc'[q] = "flush")
  BY DEF Aside, Moves
<1>6. ASSUME NEW q \in Procs PROVE pc'[q] \notin {"drop", "failed", "doClose"} /\ ~Dropper(q)'
  BY <1>1, <1>5 DEF Dropper, DropperPcs
<1>7. ASSUME NEW q \in Procs, pc'[q] = "shut" PROVE ~Underway'
  BY <1>1, <1>4, <1>5, <1>7
<1> QED BY <1>1, <1>2, <1>3, <1>4, <1>6, <1>7 DEF FlushInv

LEMMA StepFlush ==
    ASSUME StreamTypes, ClosersInv, DrainInv, OrderInv, FlushInv, NEW p \in Procs,
           \/ WriteFailed(p) \/ Drops(p) \/ Flushes(p) \/ Shuts(p)
           \/ stopReadAndWait(p) \/ stopRead(p) \/ doClose(p) \/ Close(p)
    PROVE  FlushInv'
<1>1. PICK l \in Pcs : Aside(p, l)
  BY AsideSteps
<1>2. pc'[p] = l /\ pc \in [Procs -> Pcs]
  BY <1>1 DEF Aside, Moves, StreamTypes, PlaceTypes
<1>3. CASE WriteFailed(p) \/ Shuts(p)
  BY <1>3 DEF WriteFailed, Shuts, FlushInv, Calm
<1>4. CASE Drops(p)
  <2>1. Calm' => Calm
    BY <1>4 DEF Drops, Calm, modes
  <2>2. pc[p] = "drop" \/ Dropper(p)
    BY <1>4 DEF Drops, Dropper
  <2>3. ~Calm
    BY <2>2 DEF FlushInv
  <2> QED BY <2>1, <2>3 DEF FlushInv
<1>5. CASE Flushes(p)
  <2>1. UNCHANGED <<needFlush, broken, late, sockOpen>>
    BY <1>5 DEF Flushes, modes, OfConn
  <2>2. Calm' <=> Calm
    BY <2>1 DEF Calm
  <2>3. l \in {"shut", "drop", "asleep"} /\ (l = "shut" => ~draining) /\ (l = "drop" => late)
    BY <1>2, <1>5 DEF Flushes, Goto
  <2>4. Calm => l # "drop"
    BY <2>3 DEF Calm
  <2>5. Calm /\ l = "shut" => ~Underway
    BY <2>3 DEF FlushInv
  <2> QED BY <1>1, <2>2, <2>3, <2>4, <2>5, AsideFlush DEF DropperPcs
<1>6. CASE stopReadAndWait(p) \/ stopRead(p)
  <2>1. UNCHANGED <<needFlush, broken, late, sockOpen>>
    BY <1>6 DEF stopReadAndWait, stopRead, modes
  <2>2. Calm' <=> Calm
    BY <2>1 DEF Calm
  <2>3. l \in {"stopRead", "done", "idle"}
    BY <1>2, <1>6 DEF stopReadAndWait, stopRead, Goto, Returned
  <2> QED BY <1>1, <2>2, <2>3, AsideFlush DEF DropperPcs
<1>7. CASE doClose(p)
  <2>1. UNCHANGED <<needFlush, broken, late, sockOpen>>
    BY <1>7 DEF doClose, modes
  <2>2. Calm' <=> Calm
    BY <2>1 DEF Calm
  <2>3. ~Calm
    BY <1>7 DEF doClose, FlushInv
  <2> QED BY <2>2, <2>3 DEF FlushInv
<1>8. CASE Close(p)
  <2>1. UNCHANGED <<needFlush, broken, late, sockOpen>>
    BY <1>8 DEF Close, modes
  <2>2. Calm' <=> Calm
    BY <2>1 DEF Calm
  <2>3. l \in {"done", "idle", "flush", "drop"} /\ (l = "drop" => ~needFlush)
    BY <1>2, <1>8 DEF Close, Goto
  <2>4. Calm => l # "drop"
    BY <2>3 DEF Calm
  <2> QED BY <1>1, <2>2, <2>3, <2>4, AsideFlush DEF DropperPcs
<1> QED BY <1>3, <1>4, <1>5, <1>6, <1>7, <1>8

LEMMA NextFlush ==
    ASSUME StreamTypes, ClosersInv, DrainInv, OrderInv, FlushInv, OnceInv, StreamNext
    PROVE  FlushInv'
<1>0. pc \in [Procs -> Pcs] /\ {App, Reader, Loop, Events} \subseteq Procs
  BY NamesOfProcs DEF StreamTypes, PlaceTypes
<1>1. CASE \E p \in Procs : startDrain(p) \/ GnetWrites(p) \/ GwsWrites(p)
  <2> PICK p \in Procs : startDrain(p) \/ GnetWrites(p) \/ GwsWrites(p)
    BY <1>1
  <2>1. UNCHANGED <<needFlush, broken, late, sockOpen>>
    BY DEF startDrain, GnetWrites, GwsWrites, modes, OfConn
  <2>2. Calm' <=> Calm
    BY <2>1 DEF Calm
  <2> SUFFICES ASSUME Calm PROVE FlushInv'
    BY <2>2 DEF FlushInv
  <2>3. /\ Kept /\ draining /\ Underway /\ sockOpen
        /\ \A q \in Procs : pc[q] \notin {"drop", "failed", "doClose", "shut"} /\ ~Dropper(q)
    BY DEF FlushInv, Calm, startDrain, GnetWrites, GwsWrites, Underway, Drains
  <2>4. PICK l \in {"idle", "write"} : Goto(p, l) \/ Broadcast(p, l)
    BY <2>3 DEF startDrain, GnetWrites, GwsWrites
  <2>5. Moves(p, l)
    BY <1>0, <2>4, GotoMoves, BroadcastMoves DEF Pcs
  <2>6. \A q \in Procs : pc'[q] \notin {"drop", "failed", "doClose", "shut"} /\ ~Dropper(q)'
    BY <2>3, <2>5 DEF Moves, Dropper
  <2>7. Kept'
    BY <2>3, HolderOrder
  <2>8. Underway' => draining'
    <3>1. CASE draining' = draining
      BY <2>3, <3>1
    <3>2. CASE draining' # draining
      <4>1. startDrain(p) /\ sendQueue = <<>>
        BY <3>2, BatchFacts DEF GnetWrites, GwsWrites
      <4>2. Moves(p, "idle") /\ posted' = posted
        BY <3>2, <4>1, BatchFacts DEF startDrain
      <4>3. ~posted /\ pc[Loop] # "more" /\ \A q \in Procs : Drains(q) => q = p
        BY <4>1 DEF DrainInv, startDrain, Drains
      <4> QED BY <1>0, <4>2, <4>3 DEF Moves, Underway, Drains
    <3> QED BY <3>1, <3>2
  <2> QED BY <2>6, <2>7, <2>8 DEF FlushInv
<1>2. CASE \E w \in Writers : pc[w] = "offer" /\ ~isClosing /\ Queued(w) /\ UNCHANGED <<isClosing,
        flight, posted, late, written, modes, OfConn>>
  <2> PICK w \in Writers : pc[w] = "offer" /\ ~isClosing /\ Queued(w) /\ UNCHANGED <<isClosing,
        flight, posted, late, written, modes, OfConn>>
    BY <1>2
  <2>1. Calm' <=> Calm
    BY DEF Calm, modes, OfConn
  <2> SUFFICES ASSUME Calm PROVE FlushInv'
    BY <2>1 DEF FlushInv
  <2>2. Kept /\ \A q \in Procs : pc[q] \notin {"drop", "failed", "doClose", "shut"} /\ ~Dropper(q)
    BY DEF FlushInv, ClosersInv, Closer
  <2>3. draining' /\ w \in Procs /\ \E l \in {"idle", "drain"} : Moves(w, l)
    BY PushFacts, NamesOfProcs
  <2>4. \A q \in Procs : pc'[q] \notin {"drop", "failed", "doClose", "shut"} /\ ~Dropper(q)'
    BY <2>2, <2>3 DEF Moves, Dropper
  <2>5. Kept'
    BY <2>2, PushOrder
  <2> QED BY <2>3, <2>4, <2>5 DEF FlushInv
<1>3. CASE WriteDone \/ DrainsOn
  <2>1. (Calm' => Calm) /\ (Calm' => ~broken')
    BY <1>3 DEF WriteDone, DrainsOn, Calm, modes, OfConn
  <2> SUFFICES ASSUME Calm' PROVE FlushInv'
    BY DEF FlushInv
  <2>2. /\ Kept /\ draining /\ Underway
        /\ \A q \in Procs : pc[q] \notin {"drop", "failed", "doClose", "shut"} /\ ~Dropper(q)
    BY <1>3, <2>1 DEF FlushInv, WriteDone, DrainsOn, Underway, Drains
  <2>3. PICK l \in {"idle", "drain", "more"} : Goto(Loop, l) \/ Broadcast(Loop, l)
    BY <1>3, <2>1 DEF WriteDone, DrainsOn
  <2>4. Moves(Loop, l)
    BY <1>0, <2>3, GotoMoves, BroadcastMoves DEF Pcs
  <2>5. \A q \in Procs : pc'[q] \notin {"drop", "failed", "doClose", "shut"} /\ ~Dropper(q)'
    BY <2>2, <2>4 DEF Moves, Dropper
  <2>6. Kept'
    BY <1>3, <2>1, <2>2, CallbackOrder
  <2>7. Underway' => draining'
    <3>1. CASE draining' = draining
      BY <2>2, <3>1
    <3>2. CASE draining' # draining
      <4>1. DrainsOn /\ Broadcast(Loop, "idle") /\ posted' = posted
        BY <1>3, <3>2 DEF WriteDone, DrainsOn
      <4>2. Moves(Loop, "idle")
        BY <1>0, <4>1, BroadcastMoves DEF Pcs
      <4>3. ~posted /\ \A q \in Procs : ~Drains(q)
        BY <1>0, <4>1 DEF DrainInv, DrainsOn, Drains
      <4> QED BY <1>0, <4>1, <4>2, <4>3 DEF Moves, Underway, Drains
    <3> QED BY <3>1, <3>2
  <2> QED BY <2>5, <2>6, <2>7 DEF FlushInv
<1>4. CASE \E w \in Writers : \E l \in Pcs : Aside(w, l) /\ l # "shut"
        /\ (Offers(w) \/ sendBufferDrop(w) \/ sendBufferRetry(w))
  <2> PICK w \in Writers : \E l \in Pcs : Aside(w, l) /\ l # "shut"
        /\ (Offers(w) \/ sendBufferDrop(w) \/ sendBufferRetry(w))
    BY <1>4
  <2>1. PICK l \in Pcs : Aside(w, l) /\ l # "shut"
    OBVIOUS
  <2>2. w \in Procs /\ Calm' = Calm
    BY NamesOfProcs DEF Offers, sendBufferDrop, sendBufferRetry, Calm, modes, OfConn
  <2>3. PICK k \in {"offer", "idle", "drain"} : Goto(w, k)
    BY DEF Offers, sendBufferDrop, sendBufferRetry, Queued
  <2>4. l = k
    BY <1>0, <2>1, <2>2, <2>3 DEF Aside, Moves, Goto
  <2> QED BY <2>1, <2>2, <2>4, AsideFlush DEF DropperPcs
<1>5. CASE DeadlinePasses \/ GnetOnClose \/ GwsOnClose \/ PeerLeaves
  BY <1>5 DEF DeadlinePasses, GnetOnClose, GwsOnClose, PeerLeaves, FlushInv, Calm, modes
<1>6. CASE HandsOver \/ OnRawReturns
  <2>1. UNCHANGED <<needFlush, broken, late, sockOpen>>
    BY <1>6 DEF HandsOver, OnRawReturns, modes, OfConn
  <2>2. Calm' <=> Calm
    BY <2>1 DEF Calm
  <2>3. PICK l \in {"onRaw", "idle"} : Goto(Reader, l)
    BY <1>6 DEF HandsOver, OnRawReturns
  <2>4. Moves(Reader, l) /\ l \in Pcs
    BY <1>0, <2>3, GotoMoves DEF Pcs
  <2>5. Aside(Reader, l)
    BY <1>6, <2>4 DEF Aside, HandsOver, OnRawReturns, OfConn
  <2> QED BY <1>0, <2>2, <2>4, <2>5, AsideFlush DEF DropperPcs
<1>7. CASE stopReadAsync
  <2>1. /\ pc' = [pc EXCEPT ![Loop] = "idle", ![Events] = "stopWait"] /\ pc[Loop] = "stopAsync"
        /\ pc[Events] = "idle" /\ UNCHANGED <<posted, flight, sendQueue, draining, queued, written,
             broken, late, sockOpen, needFlush>>
    BY <1>7 DEF stopReadAsync, OnceInv, modes
  <2>2. Calm' <=> Calm
    BY <2>1 DEF Calm
  <2>3. \A q \in Procs : /\ pc'[q] = "write" <=> pc[q] = "write"
                         /\ pc'[q] = "drain" <=> pc[q] = "drain"
                         /\ pc'[q] = "more" <=> pc[q] = "more"
                         /\ pc'[q] = "shut" <=> pc[q] = "shut"
                         /\ pc'[q] \in {"drop", "failed", "doClose"} <=> pc[q] \in {"drop", "failed",
                              "doClose"}
                         /\ Dropper(q)' <=> Dropper(q)
    BY <1>0, <2>1 DEF Dropper
  <2>4. Underway' <=> Underway
    BY <1>0, <2>1, <2>3 DEF Underway, Drains
  <2>5. Kept' <=> Kept
    BY <2>1 DEF Kept
  <2> QED BY <2>1, <2>2, <2>3, <2>4, <2>5 DEF FlushInv
<1>8. CASE Spawned
  BY <1>8 DEF Spawned, FlushInv, Calm, Kept, Underway, Drains, Dropper, modes
<1>9. CASE \E p \in Procs : StreamStep(p) \/ Close(p)
  BY <1>1, <1>9, StepFlush DEF StreamStep
<1>10. CASE \E w \in Writers : Offers(w) \/ sendBufferDrop(w) \/ sendBufferRetry(w)
  BY <1>2, <1>4, <1>10, AsideWriters
<1> QED BY <1>3, <1>5, <1>6, <1>7, <1>8, <1>9, <1>10 DEF StreamNext

---------------------------------------------------------------------------
(* Who stops the read processor, and who tells the handler. *)

LEMMA OnceKept ==
    ASSUME StreamTypes, OnceInv, NEW p \in Procs, NEW l \in Pcs, Moves(p, l),
           UNCHANGED <<once, onCloses, told, kind, reading>>,
           l \in {"dropOnce", "stopRead"} => Stops(p),
           l = "onRaw" => ~(once = "done" /\ waits),
           l \in {"lostDrop", "stopAsync"} => pc[p] \in {"lostDrop", "stopAsync"},
           p = Events => told /\ kind # "gnet"
    PROVE  OnceInv'
<1>1. /\ \A q \in Procs : Stops(q)' => Stops(q)
      /\ pc'[Reader] = "onRaw" => pc[Reader] = "onRaw" \/ l = "onRaw"
      /\ pc'[Loop] \in {"lostDrop", "stopAsync"} => pc[Loop] \in {"lostDrop", "stopAsync"}
  BY NamesOfProcs DEF Moves, Stops
<1>2. p # Events => pc'[Events] = pc[Events] \/ (pc[Events] = "asleep" /\ pc'[Events] = "flush")
  BY NamesOfProcs DEF Moves
<1>3. waits' <=> waits
  BY DEF waits
<1>4. /\ \A q \in Procs : Stops(q)' => once' = "running"
      /\ \A q, r \in Procs : Stops(q)' /\ Stops(r)' => q = r
  BY <1>1 DEF OnceInv
<1>5. once' = "done" /\ waits' => pc'[Reader] # "onRaw"
  BY <1>1, <1>3 DEF OnceInv
<1>6. onCloses' = 1 => once' = "done"
  BY DEF OnceInv
<1>7. ~told' => pc'[Events] = "idle"
  BY <1>2 DEF OnceInv
<1>8. ASSUME kind' = "gnet"
      PROVE  /\ pc'[Events] \in {"idle", "stopWait"}
             /\ ~told' => onCloses' = 0
             /\ pc'[Loop] \in {"lostDrop", "stopAsync"} => told' /\ pc'[Events] = "idle" /\ onCloses' = 0
             /\ pc'[Events] = "stopWait" => onCloses' = 0 /\ once' \in {"spawned", "done"}
  <2>1. kind = "gnet" /\ pc'[Events] = pc[Events]
    BY <1>2, <1>8 DEF OnceInv
  <2> QED BY <1>1, <2>1 DEF OnceInv
<1> QED BY <1>4, <1>5, <1>6, <1>7, <1>8 DEF OnceInv

LEMMA StopOnce ==
    ASSUME StreamTypes, OnceInv, NEW p \in Procs, stopReadAndWait(p) \/ stopRead(p) \/ doClose(p)
    PROVE  OnceInv'
<1>0. pc \in [Procs -> Pcs] /\ {App, Reader, Loop, Events} \subseteq Procs /\ onCloses \in {0, 1}
        /\ kind \in {"gnet", "gws"}
      /\ App # Reader /\ App # Loop /\ App # Events /\ Reader # Loop /\ Reader # Events /\ Loop # Events
  BY NamesOfProcs DEF StreamTypes, PlaceTypes
<1>1. UNCHANGED <<told, kind, reading>> /\ (waits' <=> waits)
  BY DEF stopReadAndWait, stopRead, doClose, modes, waits
<1>2. CASE once = "no"
  <2>1. /\ once' = "running" /\ onCloses' = onCloses /\ pc[p] \in {"stopWait", "doClose"}
        /\ pc[p] = "stopWait" => kind = "gnet"
        /\ pc[p] = "doClose" => kind = "gws"
        /\ \E l \in {"stopRead", "dropOnce"} : Goto(p, l)
    BY <1>2 DEF stopReadAndWait, stopRead, doClose, OnceInv, Stops
  <2>2. PICK l \in {"stopRead", "dropOnce"} : Goto(p, l)
    BY <2>1
  <2>3. l \in Pcs
    BY DEF Pcs
  <2>4. Moves(p, l) /\ \A q \in Procs : q # p => pc'[q] = pc[q]
    BY <1>0, <2>2, <2>3, GotoMoves
  <2>5. \A q \in Procs : ~Stops(q)
    BY <1>2 DEF OnceInv
  <2>6. \A q \in Procs : Stops(q)' => q = p
    BY <2>4, <2>5 DEF Stops
  <2>7. pc[p] = "stopWait" => p # Events
    BY <1>2, <2>1 DEF OnceInv
  <2>8. onCloses = 0
    BY <1>0, <1>2 DEF OnceInv
  <2>9. kind = "gnet" => p # Events
    BY <2>1, <2>7
  <2>10. ~told => pc'[Events] = "idle"
    <3>1. ~told => p # Events
      BY <2>1 DEF OnceInv
    <3> QED BY <1>0, <2>4, <3>1 DEF OnceInv
  <2>11. kind = "gnet" => /\ pc'[Events] = pc[Events] /\ pc[Events] # "stopWait"
                          /\ (pc'[Loop] \in {"lostDrop", "stopAsync"} => pc[Loop] \in {"lostDrop",
                               "stopAsync"})
    BY <1>0, <1>2, <2>4, <2>9 DEF OnceInv, Moves
  <2> QED BY <1>1, <2>1, <2>6, <2>8, <2>10, <2>11 DEF OnceInv
<1>3. CASE stopReadAndWait(p) /\ once # "no"
  <2>1. /\ once = "done" /\ once' = once /\ Goto(p, Returned(p)) /\ pc[p] = "stopWait" /\ kind = "gnet"
        /\ onCloses' = onCloses + (IF p = Events THEN 1 ELSE 0)
    BY <1>3 DEF stopReadAndWait
  <2>2. PICK l \in {"done", "idle"} : Goto(p, l) /\ (p # App => l = "idle")
    BY <2>1 DEF Returned
  <2>3. Moves(p, l) /\ (\A q \in Procs : q # p => pc'[q] = pc[q]) /\ pc'[p] = l
    BY <1>0, <2>2, GotoMoves DEF Pcs, Moves
  <2>4. \A q \in Procs : Stops(q)' => Stops(q)
    BY <2>3 DEF Stops
  <2>5. pc'[Reader] # "onRaw" \/ pc'[Reader] = pc[Reader]
    BY <1>0, <2>3
  <2>6. CASE p = Events
    <3>1. onCloses = 0 /\ onCloses' = 1 /\ pc'[Events] = "idle" /\ pc'[Loop] = pc[Loop]
            /\ pc[Events] = "stopWait"
      BY <1>0, <2>1, <2>2, <2>3, <2>6 DEF OnceInv
    <3>2. told /\ pc[Loop] \notin {"lostDrop", "stopAsync"}
      BY <2>1, <3>1 DEF OnceInv
    <3> QED BY <1>1, <2>1, <2>4, <2>5, <3>1, <3>2 DEF OnceInv
  <2>7. CASE p # Events
    <3>1. onCloses' = onCloses /\ pc'[Events] = pc[Events]
      BY <1>0, <2>1, <2>3, <2>7
    <3>2. pc'[Loop] \in {"lostDrop", "stopAsync"} => pc[Loop] \in {"lostDrop", "stopAsync"}
      BY <1>0, <2>3
    <3> QED BY <1>1, <2>1, <2>4, <2>5, <3>1, <3>2 DEF OnceInv
  <2> QED BY <2>6, <2>7
<1>4. CASE stopRead(p)
  <2>1. /\ pc[p] = "stopRead" /\ (waits => pc[Reader] = "idle") /\ once' = "done"
        /\ onCloses' = onCloses + (IF kind = "gws" THEN 1 ELSE 0)
        /\ once = "running" /\ \A q \in Procs : Stops(q) => q = p
    BY <1>4 DEF stopRead, OnceInv, Stops
  <2>2. PICK l \in {"done", "idle"} : Goto(p, l)
    BY <1>4 DEF stopRead, Returned
  <2>3. (\A q \in Procs : q # p => pc'[q] = pc[q]) /\ pc'[p] = l
    BY <1>0, <2>2, GotoMoves DEF Pcs, Moves
  <2>4. \A q \in Procs : ~Stops(q)'
    BY <2>1, <2>2, <2>3 DEF Stops
  <2>5. waits => pc'[Reader] # "onRaw"
    BY <1>0, <2>1, <2>3
  <2>6. onCloses = 0 /\ onCloses' \in {0, 1}
    BY <1>0, <2>1 DEF OnceInv
  <2>7. pc[Events] = "idle" \/ (p # Events /\ kind = "gnet") => pc'[Events] = pc[Events]
    BY <1>0, <2>1, <2>3
  <2>8. ~told => pc'[Events] = "idle"
    BY <2>7 DEF OnceInv
  <2>9. kind = "gnet" => p # Events /\ onCloses' = 0 /\ pc'[Events] = pc[Events]
          /\ (pc'[Loop] \in {"lostDrop", "stopAsync"} => pc[Loop] \in {"lostDrop", "stopAsync"})
    BY <1>0, <2>1, <2>3, <2>6 DEF OnceInv
  <2> QED BY <1>1, <2>1, <2>4, <2>5, <2>6, <2>8, <2>9 DEF OnceInv
<1>5. CASE doClose(p) /\ once # "no"
  <2>1. UNCHANGED <<once, onCloses>> /\ kind = "gws" /\ Goto(p, Returned(p)) /\ pc[p] = "doClose"
    BY <1>5 DEF doClose
  <2>2. PICK l \in {"done", "idle"} : Goto(p, l)
    BY <2>1 DEF Returned
  <2>3. Moves(p, l) /\ l \in Pcs
    BY <1>0, <2>2, GotoMoves DEF Pcs
  <2>4. p = Events => told
    BY <2>1 DEF OnceInv
  <2> QED BY <1>1, <2>1, <2>3, <2>4, OnceKept
<1> QED BY <1>2, <1>3, <1>4, <1>5

LEMMA NextOnce ==
    ASSUME StreamTypes, OnceInv, StreamNext
    PROVE  OnceInv'
<1>0. pc \in [Procs -> Pcs] /\ {App, Reader, Loop, Events} \subseteq Procs /\ onCloses \in {0, 1}
        /\ kind \in {"gnet", "gws"}
      /\ App # Reader /\ App # Loop /\ App # Events /\ Reader # Loop /\ Reader # Events /\ Loop # Events
      /\ \A w \in Writers : w \in Procs /\ w # Events
  BY NamesOfProcs DEF StreamTypes, PlaceTypes
<1>1. CASE \E p \in Procs : startDrain(p)
  <2> PICK p \in Procs : startDrain(p)
    BY <1>1
  <2>1. PICK l \in {"idle", "write"} : (Goto(p, l) \/ Broadcast(p, l))
    BY DEF startDrain
  <2>2. Moves(p, l) /\ l \in Pcs
    BY <1>0, <2>1, GotoMoves, BroadcastMoves DEF Pcs
  <2>3. UNCHANGED <<once, onCloses, told, kind, reading>>
    BY DEF startDrain, modes, OfConn
  <2>4. pc[p] \notin {"idle", "stopWait"}
    BY DEF startDrain
  <2>5. p = Events => told /\ kind # "gnet"
    BY <2>4 DEF OnceInv
  <2> QED BY <2>1, <2>2, <2>3, <2>5, OnceKept
<1>2. CASE \E p \in Procs : GnetWrites(p)
  <2> PICK p \in Procs : GnetWrites(p)
    BY <1>2
  <2>1. PICK l \in {"idle", "failed"} : Goto(p, l)
    BY DEF GnetWrites
  <2>2. Moves(p, l) /\ l \in Pcs
    BY <1>0, <2>1, GotoMoves, BroadcastMoves DEF Pcs
  <2>3. UNCHANGED <<once, onCloses, told, kind, reading>>
    BY DEF GnetWrites, modes, OfConn
  <2>4. pc[p] \notin {"idle", "stopWait"}
    BY DEF GnetWrites
  <2>5. p = Events => told /\ kind # "gnet"
    BY <2>4 DEF OnceInv
  <2> QED BY <2>1, <2>2, <2>3, <2>5, OnceKept
<1>3. CASE \E p \in Procs : GwsWrites(p)
  <2> PICK p \in Procs : GwsWrites(p)
    BY <1>3
  <2>1. PICK l \in {"idle"} : Goto(p, l)
    BY DEF GwsWrites
  <2>2. Moves(p, l) /\ l \in Pcs
    BY <1>0, <2>1, GotoMoves, BroadcastMoves DEF Pcs
  <2>3. UNCHANGED <<once, onCloses, told, kind, reading>>
    BY DEF GwsWrites, modes, OfConn
  <2>4. pc[p] \notin {"idle", "stopWait"}
    BY DEF GwsWrites
  <2>5. p = Events => told /\ kind # "gnet"
    BY <2>4 DEF OnceInv
  <2> QED BY <2>1, <2>2, <2>3, <2>5, OnceKept
<1>4. CASE \E p \in Procs : WriteFailed(p)
  <2> PICK p \in Procs : WriteFailed(p)
    BY <1>4
  <2>1. PICK l \in {"failedDrop", "doClose"} : Goto(p, l)
    BY DEF WriteFailed
  <2>2. Moves(p, l) /\ l \in Pcs
    BY <1>0, <2>1, GotoMoves, BroadcastMoves DEF Pcs
  <2>3. UNCHANGED <<once, onCloses, told, kind, reading>>
    BY DEF WriteFailed, modes, OfConn
  <2>4. pc[p] \notin {"idle", "stopWait"}
    BY DEF WriteFailed
  <2>5. p = Events => told /\ kind # "gnet"
    BY <2>4 DEF OnceInv
  <2> QED BY <2>1, <2>2, <2>3, <2>5, OnceKept
<1>5. CASE \E p \in Procs : Drops(p)
  <2> PICK p \in Procs : Drops(p)
    BY <1>5
  <2>1. PICK l \in {"idle", "shut", "stopAsync", "stopRead"} : Broadcast(p, l)
          /\ (l = "stopRead" => pc[p] = "dropOnce") /\ (l = "stopAsync" => pc[p] = "lostDrop")
    BY DEF Drops, dropQueuedBuffers
  <2>2. Moves(p, l) /\ l \in Pcs
    BY <1>0, <2>1, GotoMoves, BroadcastMoves DEF Pcs
  <2>3. UNCHANGED <<once, onCloses, told, kind, reading>>
    BY DEF Drops, modes, OfConn
  <2>4. pc[p] \notin {"idle", "stopWait"}
    BY DEF Drops
  <2>5. p = Events => told /\ kind # "gnet"
    BY <2>4 DEF OnceInv
  <2> QED BY <2>1, <2>2, <2>3, <2>5, OnceKept DEF Stops
<1>6. CASE \E p \in Procs : Flushes(p)
  <2> PICK p \in Procs : Flushes(p)
    BY <1>6
  <2>1. PICK l \in {"shut", "drop", "asleep"} : Goto(p, l)
    BY DEF Flushes
  <2>2. Moves(p, l) /\ l \in Pcs
    BY <1>0, <2>1, GotoMoves, BroadcastMoves DEF Pcs
  <2>3. UNCHANGED <<once, onCloses, told, kind, reading>>
    BY DEF Flushes, modes, OfConn
  <2>4. pc[p] \notin {"idle", "stopWait"}
    BY DEF Flushes
  <2>5. p = Events => told /\ kind # "gnet"
    BY <2>4 DEF OnceInv
  <2> QED BY <2>1, <2>2, <2>3, <2>5, OnceKept
<1>7. CASE \E p \in Procs : Shuts(p)
  <2> PICK p \in Procs : Shuts(p)
    BY <1>7
  <2>1. PICK l \in {"stopWait", "doClose"} : Goto(p, l)
    BY DEF Shuts
  <2>2. Moves(p, l) /\ l \in Pcs
    BY <1>0, <2>1, GotoMoves, BroadcastMoves DEF Pcs
  <2>3. UNCHANGED <<once, onCloses, told, kind, reading>>
    BY DEF Shuts, modes, OfConn
  <2>4. pc[p] \notin {"idle", "stopWait"}
    BY DEF Shuts
  <2>5. p = Events => told /\ kind # "gnet"
    BY <2>4 DEF OnceInv
  <2> QED BY <2>1, <2>2, <2>3, <2>5, OnceKept
<1>8. CASE \E p \in Procs : stopReadAndWait(p) \/ stopRead(p) \/ doClose(p)
  BY <1>8, StopOnce
<1>9. CASE \E p \in Procs : Close(p)
  <2> PICK p \in Procs : Close(p)
    BY <1>9
  <2>1. PICK l \in {"done", "idle", "flush", "drop"} : Goto(p, l)
    BY DEF Close
  <2>2. Moves(p, l) /\ l \in Pcs
    BY <1>0, <2>1, GotoMoves DEF Pcs
  <2>3. UNCHANGED <<once, onCloses, told, kind, reading>> /\ p # Events
    BY <1>0 DEF Close, modes
  <2> QED BY <2>2, <2>3, OnceKept
<1>10. CASE \E w \in Writers : Offers(w) \/ sendBufferDrop(w) \/ sendBufferRetry(w)
  <2> PICK w \in Writers : Offers(w) \/ sendBufferDrop(w) \/ sendBufferRetry(w)
    BY <1>10
  <2>1. PICK l \in {"offer", "idle", "drain"} : Goto(w, l)
    BY DEF Offers, sendBufferDrop, sendBufferRetry, Queued
  <2>2. Moves(w, l) /\ l \in Pcs
    BY <1>0, <2>1, GotoMoves DEF Pcs
  <2>3. UNCHANGED <<once, onCloses, told, kind, reading>>
    BY DEF Offers, sendBufferDrop, sendBufferRetry, modes, OfConn
  <2> QED BY <1>0, <2>2, <2>3, OnceKept
<1>11. CASE WriteDone
  <2>1. PICK l \in {"more", "failed"} : Goto(Loop, l) \/ Broadcast(Loop, l)
    BY <1>11 DEF WriteDone
  <2>2. Moves(Loop, l) /\ l \in Pcs
    BY <1>0, <2>1, GotoMoves, BroadcastMoves DEF Pcs
  <2>3. UNCHANGED <<once, onCloses, told, kind, reading>>
    BY <1>11 DEF WriteDone, modes, OfConn
  <2> QED BY <1>0, <2>2, <2>3, OnceKept
<1>12. CASE DrainsOn
  <2>1. PICK l \in {"drain", "idle"} : Goto(Loop, l) \/ Broadcast(Loop, l)
    BY <1>12 DEF DrainsOn
  <2>2. Moves(Loop, l) /\ l \in Pcs
    BY <1>0, <2>1, GotoMoves, BroadcastMoves DEF Pcs
  <2>3. UNCHANGED <<once, onCloses, told, kind, reading>>
    BY <1>12 DEF DrainsOn, modes, OfConn
  <2> QED BY <1>0, <2>2, <2>3, OnceKept
<1>13. CASE HandsOver
  <2>1. PICK l \in {"onRaw"} : Goto(Reader, l) \/ Broadcast(Reader, l)
    BY <1>13 DEF HandsOver
  <2>2. Moves(Reader, l) /\ l \in Pcs
    BY <1>0, <2>1, GotoMoves, BroadcastMoves DEF Pcs
  <2>3. UNCHANGED <<once, onCloses, told, kind, reading>>
    BY <1>13 DEF HandsOver, modes, OfConn
  <2>4. ~(once = "done" /\ waits)
    BY <1>13 DEF HandsOver
  <2> QED BY <1>0, <2>2, <2>3, <2>4, OnceKept
<1>14. CASE OnRawReturns
  <2>1. PICK l \in {"idle"} : Goto(Reader, l) \/ Broadcast(Reader, l)
    BY <1>14 DEF OnRawReturns
  <2>2. Moves(Reader, l) /\ l \in Pcs
    BY <1>0, <2>1, GotoMoves, BroadcastMoves DEF Pcs
  <2>3. UNCHANGED <<once, onCloses, told, kind, reading>>
    BY <1>14 DEF OnRawReturns, modes, OfConn
  <2> QED BY <1>0, <2>2, <2>3, OnceKept
<1>15. CASE DeadlinePasses
  <2>1. PICK p \in Procs : pc[p] = "asleep" /\ Broadcast(p, "flush")
    BY <1>15 DEF DeadlinePasses
  <2>2. Moves(p, "flush") /\ "flush" \in Pcs
    BY <1>0, <2>1, BroadcastMoves DEF Pcs
  <2>3. UNCHANGED <<once, onCloses, told, kind, reading>>
    BY <1>15 DEF DeadlinePasses, modes, OfConn
  <2>4. p = Events => told /\ kind # "gnet"
    BY <2>1 DEF OnceInv
  <2> QED BY <2>2, <2>3, <2>4, OnceKept
<1>16. CASE stopReadAsync
  <2>1. /\ kind = "gnet" /\ pc' = [pc EXCEPT ![Loop] = "idle", ![Events] = "stopWait"]
             /\ pc[Loop] = "stopAsync"
        /\ once # "running" /\ once' = IF once = "no" THEN "spawned" ELSE once
        /\ UNCHANGED <<onCloses, told, kind, reading>>
    BY <1>16 DEF stopReadAsync, modes
  <2>2. /\ pc'[Loop] = "idle" /\ pc'[Events] = "stopWait"
        /\ \A q \in Procs : q # Loop /\ q # Events => pc'[q] = pc[q]
    BY <1>0, <2>1
  <2>3. told /\ onCloses = 0 /\ once' \in {"spawned", "done"} /\ (once' = "done" => once = "done")
    BY <2>1 DEF OnceInv, StreamTypes, PlaceTypes
  <2>4. \A q \in Procs : ~Stops(q)
    BY <2>1 DEF OnceInv
  <2>5. \A q \in Procs : ~Stops(q)'
    BY <2>2, <2>4 DEF Stops
  <2>6. pc'[Reader] = pc[Reader] /\ (waits' <=> waits)
    BY <1>0, <2>1, <2>2 DEF waits
  <2> QED BY <2>1, <2>2, <2>3, <2>5, <2>6 DEF OnceInv
<1>17. CASE Spawned
  <2>1. /\ once = "spawned" /\ once' = "done" /\ (waits => pc[Reader] = "idle")
        /\ UNCHANGED <<pc, onCloses, told, kind, reading>> /\ (waits' <=> waits)
    BY <1>17 DEF Spawned, modes, waits
  <2> QED BY <2>1 DEF OnceInv, Stops
<1>18. CASE PeerLeaves
  <2>1. UNCHANGED <<pc, once, onCloses, told, kind, reading>> /\ (waits' <=> waits)
    BY <1>18 DEF PeerLeaves, modes, waits
  <2> QED BY <2>1 DEF OnceInv, Stops
<1>19. CASE GnetOnClose
  <2>1. /\ ~told /\ told' = TRUE /\ Goto(Loop, "lostDrop") /\ UNCHANGED <<once, onCloses, kind,
             reading>> /\ (waits' <=> waits)
        /\ kind = "gnet"
    BY <1>19 DEF GnetOnClose, modes, waits
  <2>2. pc'[Loop] = "lostDrop" /\ \A q \in Procs : q # Loop => pc'[q] = pc[q]
    BY <1>0, <2>1, GotoMoves DEF Moves, Pcs
  <2>3. pc[Events] = "idle"
    BY <2>1 DEF OnceInv
  <2>4. \A q \in Procs : Stops(q)' => Stops(q)
    BY <2>2 DEF Stops
  <2> QED BY <1>0, <2>1, <2>2, <2>3, <2>4 DEF OnceInv
<1>20. CASE GwsOnClose
  <2>1. /\ ~told /\ told' = TRUE /\ Goto(Events, "doClose") /\ UNCHANGED <<once, onCloses, kind,
             reading>> /\ (waits' <=> waits)
        /\ kind = "gws"
    BY <1>20 DEF GwsOnClose, modes, waits
  <2>2. pc'[Events] = "doClose" /\ \A q \in Procs : q # Events => pc'[q] = pc[q]
    BY <1>0, <2>1, GotoMoves DEF Moves, Pcs
  <2>3. pc[Events] = "idle"
    BY <2>1 DEF OnceInv
  <2>4. \A q \in Procs : Stops(q)' => Stops(q)
    BY <2>2 DEF Stops
  <2> QED BY <1>0, <2>1, <2>2, <2>3, <2>4 DEF OnceInv
<1> QED BY <1>1, <1>2, <1>3, <1>4, <1>5, <1>6, <1>7, <1>8, <1>9, <1>10, <1>11, <1>12, <1>13, <1>14,
           <1>15, <1>16, <1>17, <1>18, <1>19, <1>20 DEF StreamNext, StreamStep

---------------------------------------------------------------------------
\* The invariant is inductive, for any writers, packets, sizes and limits.
THEOREM StreamInductive == StreamSpec => []StreamInv
<1>1. StreamInit => StreamInv
  BY StreamInitInv
<1>2. StreamInv /\ [StreamNext]_streamVars => StreamInv'
  <2> SUFFICES ASSUME StreamInv, [StreamNext]_streamVars PROVE StreamInv'
    OBVIOUS
  <2>1. CASE StreamNext
    BY <2>1, NextTypes, NextDrain, NextClosers, NextOrder, NextFlush, NextOnce DEF StreamInv
  <2>2. CASE UNCHANGED streamVars
    <3>1. /\ UNCHANGED <<kind, needFlush, retry, reading, pc, sent, isClosing, sendQueue, draining>>
          /\ UNCHANGED <<flight, posted, late, sockOpen, told, once, queued, written, onCloses, broken>>
      BY <2>2 DEF streamVars
    <3>2. StreamTypes'
      BY <3>1 DEF StreamInv, StreamTypes, PlaceTypes, FlagTypes, PacketTypes
    <3>3. DrainInv' /\ OrderInv' /\ FlushInv'
      BY <3>1 DEF StreamInv, DrainInv, OrderInv, FlushInv, Calm, Kept, Dropped, Lost, Underway,
         Drains, Dropper
    <3>4. ClosersInv' /\ OnceInv'
      BY <3>1 DEF StreamInv, ClosersInv, OnceInv, Closer, Dropper, Stops, waits
    <3> QED BY <3>2, <3>3, <3>4 DEF StreamInv
  <2> QED BY <2>1, <2>2
<1> QED BY <1>1, <1>2, PTL DEF StreamSpec

\* What is on the wire, in the batch and in the queue is a beginning of what was accepted until a
\* batch is lost; at most one goroutine, batch or callback drains, and a queued packet has one or
\* a close; a Close that waited for the queue in time left nothing behind; and OnClose is told
\* once, after the last OnRaw of a read processor that waits.
THEOREM ConnFlushesHolds == StreamSpec => []ConnFlushes
<1>1. StreamInv => ConnFlushes
  <2> SUFFICES ASSUME StreamInv PROVE ConnFlushes
    OBVIOUS
  <2> USE DEF StreamInv
  <2>1. IsPrefix(written \o flight \o sendQueue, queued) \/ (broken /\ IsPrefix(written, queued))
    <3>1. IsPrefix(written, queued) /\ written \o flight \in Seq(PacketIds)
      BY WrittenIsPrefix
    <3>2. CASE Kept
      <4>1. queued \in Seq(PacketIds)
        BY DEF StreamTypes, PacketTypes
      <4>2. IsPrefix(queued, queued)
        BY <4>1, LenProperties, PrefixPointwise
      <4> QED BY <3>2, <4>2 DEF Kept
    <3>3. CASE Dropped
      <4>1. (written \o flight) \o <<>> = written \o flight
        BY <3>1, ConcatEmptySeq
      <4> QED BY <3>3, <4>1 DEF Dropped
    <3>4. CASE Lost
      BY <3>1, <3>4 DEF Lost
    <3> QED BY <3>2, <3>3, <3>4 DEF OrderInv
  <2>2. Cardinality(Draining) + (IF posted THEN 1 ELSE 0) + (IF pc[Loop] = "more" THEN 1 ELSE 0) <= 1
    <3>1. Draining = {p \in Procs : Drains(p)}
      BY DEF Draining, Drains
    <3>2. CASE Draining = {}
      <4>1. Cardinality(Draining) = 0
        BY <3>2, FS_EmptySet
      <4>2. ~(posted /\ pc[Loop] = "more")
        BY DEF DrainInv
      <4> QED BY <4>1, <4>2
    <3>3. CASE Draining # {}
      <4>1. PICK p \in Procs : Drains(p)
        BY <3>1, <3>3
      <4>2. Draining = {p}
        BY <3>1, <4>1 DEF DrainInv
      <4>3. Cardinality(Draining) = 1
        BY <4>2, FS_Singleton
      <4>4. ~posted /\ pc[Loop] # "more"
        BY <4>1 DEF DrainInv
      <4> QED BY <4>3, <4>4
    <3> QED BY <3>2, <3>3
  <2>3. sendQueue # <<>> => draining \/ isClosing
    BY DEF DrainInv
  <2>4. Flushed
    <3> SUFFICES ASSUME needFlush, ~broken, ~late, NEW p \in Procs, pc[p] = "shut" PROVE written = queued
      BY DEF Flushed
    <3>1. sockOpen /\ sendQueue = <<>>
      BY DEF ClosersInv, Closer
    <3>2. Kept /\ ~Underway
      BY <3>1 DEF FlushInv, Calm
    <3>3. flight = <<>>
      BY <3>2 DEF DrainInv, Underway, Drains
    <3>4. written \o <<>> = written
      BY WrittenIsPrefix
    <3> QED BY <3>1, <3>2, <3>3, <3>4 DEF Kept
  <2>5. CloseIsLast
    BY DEF CloseIsLast, OnceInv, StreamTypes, PlaceTypes
  <2> QED BY <2>1, <2>2, <2>3, <2>4, <2>5 DEF ConnFlushes, OneDrain
<1> QED BY <1>1, StreamInductive, PTL
=============================================================================
