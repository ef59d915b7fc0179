----------------------------- MODULE TableProofs ----------------------------
(*****************************************************************************)
(* Proofs about the tables of kkrpc, of a gate and of the timers.            *)
(*                                                                           *)
(* The requests that wait for an answer (RpcPending), for any sets of        *)
(* calls, channels, shards and readers and any MaxPending.  The type         *)
(* invariant needs two facts about who holds what (ReaderOK, MadeOK); each   *)
(* part of it is one lemma, with a case for every action that writes the     *)
(* variables of the part.  The second half follows an entry from the         *)
(* critical section that makes it to the one that takes it: until Stop the   *)
(* counter of pending.go covers the entries of the table, and the table      *)
(* implements OnceTable.                                                     *)
(*                                                                           *)
(* The logic nodes a gate knows over kkrpc (NodeTable), for any number of    *)
(* connections and processes of the node.  Only the last connection may be   *)
(* open, and a process asks on one before it says anything else there        *)
(* (Lines).  As long as no steps overlapped that must not, a registration    *)
(* that stores the node is alone (Registering), whoever removes a node       *)
(* found it stored with his own connection (Leaving), and a node that is in  *)
(* one table is in the other or somebody is about to put it there (Tables).  *)
(*                                                                           *)
(* Who is connected, logged in and bound at a gate (GateTables), for any     *)
(* sets of sessions, users and nodes.  The tables of users agree after       *)
(* every login, logout and disconnection (UsersInv), the stage of a client   *)
(* says which tables may have it (Connected), a node its session spoke to    *)
(* will be told, was told, or was bound too late (Spoken), and what a table  *)
(* still has was put there before the close passed it, or late (Stored,      *)
(* Logged).                                                                  *)
(*                                                                           *)
(* The timers (TimingWheel), for any number of callers, any delays and       *)
(* wheels of any size and number.  A timer is in one place: once in one      *)
(* bucket, or with one process that adds it (OnePlace); it is in none        *)
(* before AfterFunc, after it ran and after a Stop that returned true        *)
(* (Ends).  A bucket with an expiration is once on its way from the add      *)
(* that gave it the expiration through the delay queue and Poll to the       *)
(* runner (Onward), as long as no add was overtaken; so the runner moves     *)
(* the clock to a time that has come, and what add takes for expired is      *)
(* (InTime).  The ticks of the wheels are defined by recursion; that the     *)
(* definition has a value for each wheel (TickFacts) follows from the least  *)
(* number for which it would not (Least).                                    *)
(*****************************************************************************)
EXTENDS RpcPending, NodeTable, GateTables, TimingWheel, SequenceTheorems,
        FiniteSetTheorems, WellFoundedInduction, TLAPS

-----------------------------------------------------------------------------
(*****************************************************************************)
(* The requests that wait for an answer                                      *)
(*****************************************************************************)

\* A deliver that took an entry holds a channel for a sync call and a closure
\* for an async one.
ReaderOK ==
  \A r \in Readers : rd[r].at # "idle" =>
    IF rd[r].chan = NoChan THEN rd[r].id \in AsyncCalls
                           ELSE rd[r].id \in SyncCalls

\* Channels in use and channels in the pool were made by the pool.
MadeOK ==
  /\ \A c \in SyncCalls : Holds(c) => ch[c] \in made
  /\ \A x \in Chans : pool[x] > 0 => x \in made

Typed == TypeOK /\ ReaderOK /\ MadeOK

LEMMA TypedInit == Init => Typed
<1> SUFFICES ASSUME Init PROVE Typed
  OBVIOUS
<1>1. TableType
  <2>1. closed \in BOOLEAN
    BY DEF Init
  <2>2. QED
    BY <2>1 DEF Init, TableType
<1>2. ChansType
  BY DEF Init, ChansType
<1>3. PcType
  BY DEF Init, PcType, Common, Calls
<1>4. CallsType /\ ResultType
  BY DEF Init, CallsType, ResultType, Outcomes
<1>5. ReadersType /\ StopType
  BY DEF Init, ReadersType, StopType, Idle
<1>6. ReaderOK /\ MadeOK
  BY DEF Init, ReaderOK, MadeOK, Holds, Idle, Calls
<1> QED
  BY <1>1, <1>2, <1>3, <1>4, <1>5, <1>6 DEF Typed, TypeOK

-----------------------------------------------------------------------------
(* One lemma per part of the type invariant *)

LEMMA StopTypeStep == Typed /\ Next => StopType'
<1> SUFFICES ASSUME Typed, Next PROVE StopType'
  OBVIOUS
<1> USE DEF Typed, TypeOK, StopType
<1>1. ASSUME NEW c \in Calls, Invoker(c) PROVE StopType'
  BY <1>1 DEF Invoker, InvokeStart, AddCheck, AddLimit, AddInc, AddCh,
     AddCallback, AddUndo, InvokeSend, InvokeReceive, InvokeGiveUp, DeferDelCh,
     DeferDrain, DeferDec, DeferProbe, AsyncSend, AsyncDrop, AsyncDropDec,
     AsyncTimeout, AsyncFire, AsyncDone
<1>2. ASSUME NEW r \in Readers, Deliverer(r) PROVE StopType'
  BY <1>2 DEF Deliverer, DeliverTake, DeliverDec, DeliverSend, DeliverCall,
     RunClosure
<1>3. ASSUME Stopper PROVE StopType'
  <2>1. CASE CloseBegin
    BY <2>1 DEF CloseBegin
  <2>2. ASSUME NEW s \in Shards, CloseSweep(s) PROVE StopType'
    BY <2>2 DEF CloseSweep, TableType
  <2>3. CASE CloseReset
    BY <2>3 DEF CloseReset
  <2>4. ASSUME NEW c \in AsyncCalls, CloseCall(c) PROVE StopType'
    BY <2>4 DEF CloseCall, RunClosure
  <2>5. CASE CloseLink
    BY <2>5 DEF CloseLink
  <2> QED
    BY <1>3, <2>1, <2>2, <2>3, <2>4, <2>5 DEF Stopper
<1> QED
  BY <1>1, <1>2, <1>3 DEF Next

LEMMA ReadersTypeStep == Typed /\ Next => ReadersType' /\ ReaderOK'
<1> SUFFICES ASSUME Typed, Next PROVE ReadersType' /\ ReaderOK'
  OBVIOUS
<1> USE NoChanOutside, NoCallOutside DEF Typed, TypeOK
<1>1. ASSUME NEW c \in Calls, Invoker(c) PROVE UNCHANGED rd
  BY <1>1 DEF Invoker, InvokeStart, AddCheck, AddLimit, AddInc, AddCh,
     AddCallback, AddUndo, InvokeSend, InvokeReceive, InvokeGiveUp, DeferDelCh,
     DeferDrain, DeferDec, DeferProbe, AsyncSend, AsyncDrop, AsyncDropDec,
     AsyncTimeout, AsyncFire, AsyncDone
<1>2. ASSUME NEW r \in Readers, NEW c \in Calls, DeliverTake(r, c)
      PROVE  ReadersType' /\ ReaderOK'
  BY <1>2 DEF DeliverTake, TableType, Calls, ReadersType, ReaderOK
<1>3. ASSUME NEW r \in Readers, DeliverDec(r) \/ DeliverSend(r) \/ DeliverCall(r)
      PROVE  ReadersType' /\ ReaderOK'
  <2>1. CASE DeliverDec(r)
    BY <2>1 DEF DeliverDec, ReadersType, ReaderOK
  <2>2. CASE DeliverSend(r) \/ DeliverCall(r)
    <3>1. rd' = [rd EXCEPT ![r] = Idle]
      BY <2>2 DEF DeliverSend, DeliverCall
    <3> QED
      BY <3>1 DEF Idle, ReadersType, ReaderOK
  <2> QED
    BY <1>3, <2>1, <2>2
<1>4. ASSUME Stopper PROVE UNCHANGED rd
  BY <1>4 DEF Stopper, CloseBegin, CloseSweep, CloseReset, CloseCall, CloseLink
<1>5. UNCHANGED rd => ReadersType' /\ ReaderOK'
  BY DEF ReadersType, ReaderOK
<1> QED
  BY <1>1, <1>2, <1>3, <1>4, <1>5 DEF Next, Deliverer

\* What running a registered closure does to the variables it writes.
LEMMA RunClosureType ==
  ASSUME Typed, NEW c \in AsyncCalls, NEW o \in Outcomes, RunClosure(c, o)
  PROVE  /\ cbMap' \subseteq AsyncCalls
         /\ count' \in Int
         /\ doneCh' \subseteq AsyncCalls
         /\ called' \in [AsyncCalls -> Nat]
         /\ outcome' \in [Calls -> Outcomes]
<1> USE DEF Typed, TypeOK
<1>1. cbMap' \subseteq AsyncCalls /\ count' \in Int
  <2>1. cbMap' = cbMap \ {c} /\ count' \in {count, count - 1}
    BY DEF RunClosure
  <2> QED
    BY <2>1 DEF TableType
<1>2. doneCh' \subseteq AsyncCalls
  BY DEF RunClosure, CallsType
<1>3. called' \in [AsyncCalls -> Nat]
  <2>1. called' = [called EXCEPT ![c] = @ + 1]
    BY DEF RunClosure, CallBack
  <2> QED
    BY <2>1 DEF CallsType
<1>4. outcome' \in [Calls -> Outcomes]
  BY DEF RunClosure, CallBack, Report, ResultType
<1> QED
  BY <1>1, <1>2, <1>3, <1>4

LEMMA TableTypeStep == Typed /\ Next => TableType'
<1> SUFFICES ASSUME Typed, Next PROVE TableType'
  OBVIOUS
<1> USE DEF Typed, TypeOK
<1>1. ASSUME NEW c \in Calls, Invoker(c) PROVE TableType'
  <2> USE DEF TableType, table
  <2>1. CASE InvokeStart(c) \/ AddCheck(c) \/ AddLimit(c) \/ InvokeReceive(c)
             \/ InvokeGiveUp(c) \/ DeferDrain(c) \/ DeferProbe(c)
             \/ AsyncFire(c) \/ AsyncDone(c)
    BY <2>1 DEF InvokeStart, AddCheck, AddLimit, InvokeReceive, InvokeGiveUp,
       DeferDrain, DeferProbe, AsyncFire, AsyncDone
  <2>2. CASE AddInc(c) \/ AddUndo(c) \/ DeferDec(c) \/ AsyncDropDec(c)
    BY <2>2 DEF AddInc, AddUndo, DeferDec, AsyncDropDec
  <2>3. CASE AddCh(c) \/ DeferDelCh(c)
    BY <2>3 DEF AddCh, DeferDelCh
  <2>4. CASE AddCallback(c) \/ AsyncDrop(c) \/ AsyncTimeout(c)
    BY <2>4 DEF AddCallback, AsyncDrop, AsyncTimeout
  <2>5. CASE InvokeSend(c) \/ AsyncSend(c)
    BY <2>5 DEF InvokeSend, AsyncSend
  <2> QED
    BY <1>1, <2>1, <2>2, <2>3, <2>4, <2>5 DEF Invoker
<1>2. ASSUME NEW r \in Readers, NEW c \in Calls, DeliverTake(r, c)
      PROVE  TableType'
  BY <1>2 DEF TableType, DeliverTake
<1>3. ASSUME NEW r \in Readers, DeliverDec(r) \/ DeliverSend(r) PROVE TableType'
  <2>1. CASE DeliverDec(r)
    BY <2>1 DEF TableType, DeliverDec
  <2>2. CASE DeliverSend(r)
    BY <2>2 DEF TableType, table, DeliverSend
  <2> QED
    BY <1>3, <2>1, <2>2
<1>4. ASSUME NEW r \in Readers, DeliverCall(r) PROVE TableType'
  <2>1. rd[r].id \in AsyncCalls
    BY <1>4 DEF DeliverCall, ReaderOK
  <2>2. cbMap' \subseteq AsyncCalls /\ count' \in Int
    BY <1>4, <2>1, RunClosureType DEF DeliverCall, Outcomes
  <2> QED
    BY <1>4, <2>2 DEF TableType, DeliverCall
<1>5. ASSUME Stopper PROVE TableType'
  <2>1. CASE CloseBegin
    <3>1. closed' \in BOOLEAN
      BY <2>1 DEF CloseBegin
    <3> QED
      BY <2>1, <3>1 DEF CloseBegin, TableType, table
  <2>2. ASSUME NEW s \in Shards, CloseSweep(s) PROVE TableType'
    BY <2>2 DEF CloseSweep, TableType
  <2>3. CASE CloseReset
    BY <2>3 DEF CloseReset, TableType
  <2>4. ASSUME NEW c \in AsyncCalls, CloseCall(c) PROVE TableType'
    <3>1. cbMap' \subseteq AsyncCalls /\ count' \in Int
      BY <2>4, RunClosureType DEF CloseCall, Outcomes
    <3> QED
      BY <2>4, <3>1 DEF TableType, CloseCall
  <2>5. CASE CloseLink
    BY <2>5 DEF CloseLink, TableType, table
  <2> QED
    BY <1>5, <2>1, <2>2, <2>3, <2>4, <2>5 DEF Stopper
<1> QED
  BY <1>1, <1>2, <1>3, <1>4, <1>5 DEF Next, Deliverer

LEMMA ResultTypeStep == Typed /\ Next => ResultType'
<1> SUFFICES ASSUME Typed, Next PROVE ResultType'
  OBVIOUS
<1> USE DEF Typed, TypeOK, ResultType
<1>1. ASSUME NEW c \in Calls, NEW o \in Outcomes, Report(c, o)
      PROVE  outcome' \in [Calls -> Outcomes]
  BY <1>1 DEF Report
<1>2. ASSUME NEW c \in Calls, Invoker(c) PROVE ResultType'
  <2>1. CASE InvokeStart(c) \/ AddCheck(c) \/ AddLimit(c) \/ AddUndo(c)
    BY <1>1, <2>1 DEF InvokeStart, AddCheck, AddLimit, AddUndo, Refuse, CallBack,
       Outcomes
  <2>2. CASE AddInc(c) \/ AddCh(c) \/ AddCallback(c) \/ DeferDelCh(c)
             \/ DeferDrain(c) \/ DeferDec(c) \/ DeferProbe(c) \/ AsyncDrop(c)
             \/ AsyncDropDec(c) \/ AsyncTimeout(c) \/ AsyncDone(c)
    BY <2>2 DEF AddInc, AddCh, AddCallback, DeferDelCh, DeferDrain, DeferDec,
       DeferProbe, AsyncDrop, AsyncDropDec, AsyncTimeout, AsyncDone, result
  <2>3. CASE InvokeSend(c)
    BY <1>1, <2>3 DEF InvokeSend, Outcomes
  <2>4. CASE InvokeReceive(c) \/ InvokeGiveUp(c)
    BY <1>1, <2>4 DEF InvokeReceive, InvokeGiveUp, Outcomes
  <2>5. CASE AsyncSend(c) \/ AsyncFire(c)
    BY <1>1, <2>5 DEF AsyncSend, AsyncFire, CallBack, Outcomes
  <2> QED
    BY <1>2, <2>1, <2>2, <2>3, <2>4, <2>5 DEF Invoker
<1>3. ASSUME NEW r \in Readers, Deliverer(r) PROVE ResultType'
  <2>1. ASSUME NEW c \in Calls, DeliverTake(r, c) PROVE ResultType'
    BY <2>1 DEF DeliverTake, result
  <2>2. CASE DeliverDec(r) \/ DeliverSend(r)
    BY <2>2 DEF DeliverDec, DeliverSend, result
  <2>3. CASE DeliverCall(r)
    <3>1. rd[r].id \in AsyncCalls
      BY <2>3 DEF DeliverCall, ReaderOK
    <3> QED
      BY <2>3, <3>1, RunClosureType DEF DeliverCall, Outcomes
  <2> QED
    BY <1>3, <2>1, <2>2, <2>3 DEF Deliverer
<1>4. ASSUME Stopper PROVE ResultType'
  <2>1. CASE CloseBegin \/ (\E s \in Shards : CloseSweep(s)) \/ CloseReset
             \/ CloseLink
    BY <2>1 DEF CloseBegin, CloseSweep, CloseReset, CloseLink, result
  <2>2. ASSUME NEW c \in AsyncCalls, CloseCall(c) PROVE ResultType'
    BY <2>2, RunClosureType DEF CloseCall, Outcomes
  <2> QED
    BY <1>4, <2>1, <2>2 DEF Stopper
<1> QED
  BY <1>2, <1>3, <1>4 DEF Next

LEMMA PcTypeStep == Typed /\ Next => PcType'
<1> SUFFICES ASSUME Typed, Next PROVE PcType'
  OBVIOUS
<1> USE CallsDisjoint DEF Typed, TypeOK, PcType, Goto, Calls
<1>1. ASSUME NEW c \in Calls, Invoker(c) PROVE PcType'
  <2> USE DEF Common, SyncOnly, AsyncOnly
  <2>1. CASE InvokeStart(c) \/ AddCheck(c) \/ AddLimit(c) \/ AddInc(c)
    BY <2>1 DEF InvokeStart, AddCheck, AddLimit, AddInc, Refuse
  <2>2. CASE AddCh(c) \/ AddCallback(c) \/ AddUndo(c)
    BY <2>2 DEF AddCh, AddCallback, AddUndo, Refuse
  <2>3. CASE InvokeSend(c) \/ InvokeReceive(c) \/ InvokeGiveUp(c)
    BY <2>3 DEF InvokeSend, InvokeReceive, InvokeGiveUp
  <2>4. CASE DeferDelCh(c) \/ DeferDrain(c) \/ DeferDec(c) \/ DeferProbe(c)
    BY <2>4 DEF DeferDelCh, DeferDrain, DeferDec, DeferProbe
  <2>5. CASE AsyncSend(c) \/ AsyncDrop(c) \/ AsyncDropDec(c)
    BY <2>5 DEF AsyncSend, AsyncDrop, AsyncDropDec
  <2>6. CASE AsyncTimeout(c) \/ AsyncFire(c) \/ AsyncDone(c)
    BY <2>6 DEF AsyncTimeout, AsyncFire, AsyncDone
  <2> QED
    BY <1>1, <2>1, <2>2, <2>3, <2>4, <2>5, <2>6 DEF Invoker
<1>2. ASSUME NEW r \in Readers, Deliverer(r) PROVE PcType'
  BY <1>2 DEF Deliverer, DeliverTake, DeliverDec, DeliverSend, DeliverCall
<1>3. ASSUME Stopper PROVE PcType'
  BY <1>3 DEF Stopper, CloseBegin, CloseSweep, CloseReset, CloseCall, CloseLink
<1> QED
  BY <1>1, <1>2, <1>3 DEF Next

LEMMA CallsTypeStep == Typed /\ Next => CallsType'
<1> SUFFICES ASSUME Typed, Next PROVE CallsType'
  OBVIOUS
<1> USE DEF Typed, TypeOK
<1>1. ASSUME NEW c \in AsyncCalls, NEW o \in Outcomes, CallBack(c, o)
      PROVE  called' \in [AsyncCalls -> Nat]
  BY <1>1 DEF CallBack, CallsType
<1>2. ASSUME NEW c \in Calls, NEW o \in Outcomes, Refuse(c, o)
      PROVE  called' \in [AsyncCalls -> Nat]
  <2>1. CASE c \in AsyncCalls
    BY <1>1, <1>2, <2>1 DEF Refuse
  <2>2. CASE c \notin AsyncCalls
    BY <1>2, <2>2 DEF Refuse, CallsType
  <2> QED
    BY <2>1, <2>2
<1>3. ASSUME NEW c \in Calls, Invoker(c) PROVE CallsType'
  <2>1. CASE InvokeStart(c) \/ AddInc(c) \/ AddCallback(c) \/ InvokeSend(c)
             \/ InvokeGiveUp(c) \/ DeferDelCh(c) \/ DeferDrain(c) \/ DeferDec(c)
             \/ DeferProbe(c) \/ AsyncDrop(c) \/ AsyncDropDec(c)
             \/ AsyncTimeout(c) \/ AsyncDone(c)
    BY <2>1 DEF CallsType, InvokeStart, AddInc, AddCallback, InvokeSend,
       InvokeGiveUp, DeferDelCh, DeferDrain, DeferDec, DeferProbe, AsyncDrop,
       AsyncDropDec, AsyncTimeout, AsyncDone, sync, async
  <2>2. CASE AddCheck(c) \/ AddLimit(c) \/ AddUndo(c)
    <3>1. called' \in [AsyncCalls -> Nat]
      BY <1>2, <2>2 DEF AddCheck, AddLimit, AddUndo, Outcomes, CallsType
    <3> QED
      BY <2>2, <3>1 DEF CallsType, AddCheck, AddLimit, AddUndo, sync
  <2>3. CASE AddCh(c)
    BY <2>3 DEF CallsType, AddCh, async
  <2>4. CASE InvokeReceive(c)
    <3>1. ch[c] \in Chans
      BY <2>4 DEF InvokeReceive, MadeOK, Holds, ChansType
    <3>2. got' = got \/ got' = [got EXCEPT ![c] = buf[ch[c]]]
      BY <2>4 DEF InvokeReceive
    <3> QED
      BY <2>4, <3>1, <3>2 DEF CallsType, ChansType, InvokeReceive, async
  <2>5. CASE AsyncSend(c) \/ AsyncFire(c)
    <3>1. c \in AsyncCalls
      BY <2>5 DEF AsyncSend, AsyncFire, PcType, Calls, Common, SyncOnly
    <3>2. called' \in [AsyncCalls -> Nat]
      BY <1>1, <2>5, <3>1 DEF AsyncSend, AsyncFire, Outcomes, CallsType
    <3> QED
      BY <2>5, <3>2 DEF CallsType, AsyncSend, AsyncFire, sync
  <2> QED
    BY <1>3, <2>1, <2>2, <2>3, <2>4, <2>5 DEF Invoker
<1>4. ASSUME NEW r \in Readers, Deliverer(r) PROVE CallsType'
  <2>1. ASSUME NEW c \in Calls, DeliverTake(r, c) PROVE CallsType'
    BY <2>1 DEF CallsType, DeliverTake, sync, async
  <2>2. CASE DeliverDec(r) \/ DeliverSend(r)
    BY <2>2 DEF CallsType, DeliverDec, DeliverSend, sync, async
  <2>3. CASE DeliverCall(r)
    <3>1. rd[r].id \in AsyncCalls
      BY <2>3 DEF DeliverCall, ReaderOK
    <3>2. doneCh' \subseteq AsyncCalls /\ called' \in [AsyncCalls -> Nat]
      BY <2>3, <3>1, RunClosureType DEF DeliverCall, Outcomes
    <3> QED
      BY <2>3, <3>2 DEF CallsType, DeliverCall, sync
  <2> QED
    BY <1>4, <2>1, <2>2, <2>3 DEF Deliverer
<1>5. ASSUME Stopper PROVE CallsType'
  <2>1. CASE CloseBegin \/ (\E s \in Shards : CloseSweep(s)) \/ CloseReset
             \/ CloseLink
    BY <2>1 DEF CallsType, CloseBegin, CloseSweep, CloseReset, CloseLink, sync,
       async
  <2>2. ASSUME NEW c \in AsyncCalls, CloseCall(c) PROVE CallsType'
    <3>1. doneCh' \subseteq AsyncCalls /\ called' \in [AsyncCalls -> Nat]
      BY <2>2, RunClosureType DEF CloseCall, Outcomes
    <3> QED
      BY <2>2, <3>1 DEF CallsType, CloseCall, sync
  <2> QED
    BY <1>5, <2>1, <2>2 DEF Stopper
<1> QED
  BY <1>3, <1>4, <1>5 DEF Next

-----------------------------------------------------------------------------
(* Who owns a channel: the pool, or one live Invoke *)

Owned == Typed /\ ChanExclusive

\* One step of an Invoke keeps the pool and the holders apart.  Get hands out
\* a channel nobody holds; a Put ends the holding of the only holder.
LEMMA OwnedInvoker ==
  ASSUME Owned, PcType', CallsType', NEW c \in Calls, Invoker(c)
  PROVE  ChansType' /\ MadeOK' /\ ChanExclusive'
<1> USE CallsDisjoint, NoChanOutside DEF Owned, Typed, TypeOK
<1> DEFINE Inv == ChansType /\ MadeOK /\ ChanExclusive
<1>1. ASSUME UNCHANGED <<made, pool, buf, shut, ch>>,
             \A d \in SyncCalls : Holds(d)' => Holds(d)
      PROVE  Inv'
  BY <1>1 DEF ChansType, MadeOK, ChanExclusive
<1>2. CASE InvokeStart(c) \/ AddCheck(c) \/ AddLimit(c) \/ AddInc(c)
           \/ AddCallback(c) \/ AddUndo(c)
  <2>1. UNCHANGED <<made, pool, buf, shut, ch>>
    BY <1>2 DEF InvokeStart, AddCheck, AddLimit, AddInc, AddCallback, AddUndo,
       chans, sync
  <2>2. \A d \in SyncCalls : Holds(d)' => Holds(d)
    BY <1>2 DEF InvokeStart, AddCheck, AddLimit, AddInc, AddCallback, AddUndo,
       Refuse, Goto, Holds, PcType, Calls
  <2> QED
    BY <1>1, <2>1, <2>2
<1>3. CASE AddCh(c)
  <2>1. CASE closed
    <3>1. UNCHANGED <<made, pool, buf, shut, ch>> /\ pc' = [pc EXCEPT ![c] = "undo"]
      BY <1>3, <2>1 DEF AddCh, Goto
    <3>2. \A d \in SyncCalls : Holds(d)' => Holds(d)
      BY <3>1 DEF Holds, PcType, Calls
    <3> QED
      BY <1>1, <3>1, <3>2
  <2>2. CASE ~closed
    <3>1. PICK x \in Chans : PoolGet(x) /\ ch' = [ch EXCEPT ![c] = x]
      BY <1>3, <2>2 DEF AddCh
    <3>2. /\ c \in SyncCalls /\ ~Holds(c) /\ UNCHANGED <<buf, shut>>
          /\ pc' = [pc EXCEPT ![c] = "send"]
      BY <1>3, <2>2 DEF AddCh, Goto, Holds
    <3>3. \A d \in SyncCalls \ {c} : (Holds(d)' <=> Holds(d)) /\ ch'[d] = ch[d]
      BY <3>1, <3>2 DEF Holds, PcType, CallsType, Calls
    <3>4. ch'[c] = x
      BY <3>1, <3>2 DEF CallsType
    <3>5. pool[x] \in {0, 1} /\ \A d \in SyncCalls : Holds(d) => ch[d] # x
      BY <3>1 DEF PoolGet, ChansType, ChanExclusive, MadeOK
    <3>6. /\ pool' \in [Chans -> Nat] /\ pool'[x] = 0
          /\ \A y \in Chans \ {x} : pool'[y] = pool[y]
          /\ made \subseteq made' /\ x \in made' /\ made' \subseteq Chans
      BY <3>1, <3>5 DEF PoolGet, ChansType, MadeOK
    <3>7. ChansType'
      BY <3>2, <3>6 DEF ChansType
    <3>8. MadeOK'
      BY <3>3, <3>4, <3>6 DEF MadeOK
    <3>9. ChanExclusive'
      BY <3>3, <3>4, <3>5, <3>6 DEF ChanExclusive, MadeOK, ChansType
    <3> QED
      BY <3>7, <3>8, <3>9
  <2> QED
    BY <2>1, <2>2
<1>4. CASE InvokeSend(c) \/ InvokeGiveUp(c) \/ DeferDelCh(c)
  <2>1. UNCHANGED <<made, pool, buf, shut, ch>>
    BY <1>4 DEF InvokeSend, InvokeGiveUp, DeferDelCh, chans, sync
  <2>2. \A d \in SyncCalls : Holds(d)' => Holds(d)
    BY <1>4 DEF InvokeSend, InvokeGiveUp, DeferDelCh, Goto, Holds, PcType, Calls
  <2> QED
    BY <1>1, <2>1, <2>2
<1>5. CASE InvokeReceive(c)
  <2>1. \A d \in SyncCalls : Holds(d)' => Holds(d)
    BY <1>5 DEF InvokeReceive, Goto, Holds, PcType, Calls
  <2>2. UNCHANGED <<made, pool, shut, ch>>
    BY <1>5 DEF InvokeReceive
  <2>3. buf' = buf \/ buf' = [buf EXCEPT ![ch[c]] = NoCall]
    BY <1>5 DEF InvokeReceive
  <2>4. ChansType'
    BY <2>2, <2>3 DEF ChansType
  <2> QED
    BY <2>1, <2>2, <2>4 DEF MadeOK, ChanExclusive
<1>6. CASE DeferDrain(c) \/ DeferProbe(c)
  <2>1. /\ c \in SyncCalls /\ Holds(c) /\ UNCHANGED <<made, shut, ch>>
        /\ buf' = buf \/ buf' = [buf EXCEPT ![ch[c]] = NoCall]
        /\ pool' = pool \/ pool' = [pool EXCEPT ![ch[c]] = @ + 1]
        /\ pc' = [pc EXCEPT ![c] = "dec"] \/ pc' = [pc EXCEPT ![c] = "done"]
    BY <1>6 DEF DeferDrain, DeferProbe, PoolPut, Goto, Holds, sync, PcType, Calls,
       Common, AsyncOnly
  <2>2. ch[c] \in Chans /\ ch[c] \in made /\ pool[ch[c]] = 0
    BY <2>1 DEF MadeOK, ChanExclusive, ChansType
  <2>3. \A d \in SyncCalls : Holds(d)' => Holds(d) /\ d # c
    BY <2>1 DEF Holds, PcType, Calls
  <2>4. ChansType'
    BY <2>1 DEF ChansType
  <2>5. \A y \in Chans : pool'[y] = pool[y] \/ (y = ch[c] /\ pool'[y] = 1)
    BY <2>1, <2>2 DEF ChansType
  <2>6. MadeOK'
    BY <2>1, <2>2, <2>3, <2>5 DEF MadeOK
  <2>7. ChanExclusive'
    BY <2>1, <2>2, <2>3, <2>5 DEF ChanExclusive, MadeOK, ChansType
  <2> QED
    BY <2>4, <2>6, <2>7
<1>7. CASE DeferDec(c) \/ AsyncSend(c) \/ AsyncDrop(c) \/ AsyncDropDec(c)
           \/ AsyncTimeout(c) \/ AsyncFire(c) \/ AsyncDone(c)
  <2>1. UNCHANGED <<made, pool, buf, shut, ch>>
    BY <1>7 DEF DeferDec, AsyncSend, AsyncDrop, AsyncDropDec, AsyncTimeout,
       AsyncFire, AsyncDone, chans, sync
  <2>2. \A d \in SyncCalls : Holds(d)' => Holds(d)
    BY <1>7 DEF DeferDec, AsyncSend, AsyncDrop, AsyncDropDec, AsyncTimeout,
       AsyncFire, AsyncDone, Goto, Holds, PcType, Calls, Common, SyncOnly
  <2> QED
    BY <1>1, <2>1, <2>2
<1> QED
  BY <1>2, <1>3, <1>4, <1>5, <1>6, <1>7 DEF Invoker

\* deliver and closeAll fill and close channels; neither touches the pool.
LEMMA OwnedOthers ==
  ASSUME Owned, (\E r \in Readers : Deliverer(r)) \/ Stopper
  PROVE  ChansType' /\ MadeOK' /\ ChanExclusive'
<1> USE NoChanOutside DEF Owned, Typed, TypeOK
<1>1. UNCHANGED <<made, pool, ch, pc>>
  <2>1. ASSUME NEW r \in Readers, Deliverer(r) PROVE UNCHANGED <<made, pool, ch, pc>>
    BY <2>1 DEF Deliverer, DeliverTake, DeliverDec, DeliverSend, DeliverCall,
       chans, sync
  <2>2. ASSUME Stopper PROVE UNCHANGED <<made, pool, ch, pc>>
    BY <2>2 DEF Stopper, CloseBegin, CloseSweep, CloseReset, CloseCall, CloseLink,
       chans, sync
  <2> QED
    BY <2>1, <2>2
<1>2. MadeOK' /\ ChanExclusive'
  BY <1>1 DEF MadeOK, ChanExclusive, Holds
<1>3. ChansType'
  <2>1. ASSUME NEW r \in Readers, DeliverSend(r) PROVE ChansType'
    <3>1. rd[r].id \in SyncCalls
      BY <2>1 DEF DeliverSend, ReaderOK
    <3>2. UNCHANGED shut /\ (buf' = buf \/ buf' = [buf EXCEPT ![rd[r].chan] = rd[r].id])
      BY <2>1 DEF DeliverSend
    <3> QED
      BY <1>1, <3>1, <3>2 DEF ChansType
  <2>2. ASSUME NEW s \in Shards, CloseSweep(s) PROVE ChansType'
    <3>1. /\ UNCHANGED buf
          /\ shut' = shut \cup {chMap[c] : c \in {d \in SyncCalls \cap InShard(s) :
                                                    chMap[d] # NoChan}}
      BY <2>2 DEF CloseSweep
    <3>2. shut' \subseteq Chans
      BY <3>1 DEF ChansType, TableType
    <3> QED
      BY <1>1, <3>1, <3>2 DEF ChansType
  <2>3. ASSUME NEW r \in Readers,
               (\E c \in Calls : DeliverTake(r, c)) \/ DeliverDec(r) \/ DeliverCall(r)
        PROVE  ChansType'
    BY <2>3 DEF ChansType, DeliverTake, DeliverDec, DeliverCall, chans
  <2>4. CASE CloseBegin \/ CloseReset \/ CloseLink
             \/ \E c \in AsyncCalls : CloseCall(c)
    BY <2>4 DEF ChansType, CloseBegin, CloseReset, CloseCall, CloseLink, chans
  <2> QED
    BY <2>1, <2>2, <2>3, <2>4 DEF Deliverer, Stopper
<1> QED
  BY <1>2, <1>3

LEMMA OwnedInit == Init => Owned
  BY TypedInit DEF Init, Owned, ChanExclusive, Holds, Calls

LEMMA OwnedStep == Owned /\ [Next]_vars => Owned'
<1> SUFFICES ASSUME Owned, [Next]_vars PROVE Owned'
  OBVIOUS
<1>1. CASE Next
  <2>1. TableType' /\ PcType' /\ CallsType' /\ ResultType' /\ StopType'
    BY <1>1, TableTypeStep, PcTypeStep, CallsTypeStep, ResultTypeStep,
       StopTypeStep DEF Owned
  <2>2. ReadersType' /\ ReaderOK'
    BY <1>1, ReadersTypeStep DEF Owned
  <2>3. ChansType' /\ MadeOK' /\ ChanExclusive'
    BY <1>1, <2>1, OwnedInvoker, OwnedOthers DEF Next
  <2> QED
    BY <2>1, <2>2, <2>3 DEF Owned, Typed, TypeOK
<1>2. CASE UNCHANGED vars
  BY <1>2 DEF vars, table, chans, sync, result, async, Owned, Typed, TypeOK,
     TableType, ChansType, PcType, CallsType, ResultType, ReadersType, StopType,
     ReaderOK, MadeOK, ChanExclusive, Holds
<1> QED
  BY <1>1, <1>2

\* Every reachable state is well typed.
THEOREM TypeCorrect == Spec => []TypeOK
<1>1. Owned => TypeOK
  BY DEF Owned, Typed
<1> QED
  BY <1>1, OwnedInit, OwnedStep, PTL DEF Spec

\* pending.go and the deferred function of Invoke never let two calls share a
\* channel and never put one back twice, for any number of calls and readers.
THEOREM ChannelsExclusive == Spec => []ChanExclusive
<1>1. Owned => ChanExclusive
  BY DEF Owned
<1> QED
  BY <1>1, OwnedInit, OwnedStep, PTL DEF Spec

-----------------------------------------------------------------------------
(* Closing: an entry is only made while closed is unset, a sweep only starts
   after it was set *)

SweepAfterClosed ==
  /\ stop.phase # "open" => closed
  /\ stop.swept # {} => closed

Closing == Owned /\ SweepAfterClosed /\ NothingLeftBehind

LEMMA ClosingStep == Closing /\ [Next]_vars => SweepAfterClosed' /\ NothingLeftBehind'
<1> SUFFICES ASSUME Closing, [Next]_vars
             PROVE  SweepAfterClosed' /\ NothingLeftBehind'
  OBVIOUS
<1> USE DEF Closing, Owned, Typed, TypeOK
<1>1. ASSUME UNCHANGED <<closed, stop>>, Entries' \subseteq Entries
      PROVE  SweepAfterClosed' /\ NothingLeftBehind'
  BY <1>1 DEF SweepAfterClosed, NothingLeftBehind
<1>2. ASSUME NEW c \in Calls, Invoker(c)
      PROVE  SweepAfterClosed' /\ NothingLeftBehind'
  <2>1. UNCHANGED <<closed, stop>>
    BY <1>2 DEF Invoker, InvokeStart, AddCheck, AddLimit, AddInc, AddCh,
       AddCallback, AddUndo, InvokeSend, InvokeReceive, InvokeGiveUp, DeferDelCh,
       DeferDrain, DeferDec, DeferProbe, AsyncSend, AsyncDrop, AsyncDropDec,
       AsyncTimeout, AsyncFire, AsyncDone
  <2>2. CASE AddCh(c) \/ AddCallback(c)
    <3>1. CASE closed
      BY <1>1, <2>1, <2>2, <3>1 DEF AddCh, AddCallback, Entries
    <3>2. CASE ~closed
      BY <2>1, <3>2 DEF SweepAfterClosed, NothingLeftBehind
    <3> QED
      BY <3>1, <3>2
  <2>3. CASE ~(AddCh(c) \/ AddCallback(c))
    <3>1. /\ chMap' = chMap \/ chMap' = [chMap EXCEPT ![c] = NoChan]
          /\ cbMap' \subseteq cbMap
      BY <1>2, <2>3 DEF Invoker, InvokeStart, AddCheck, AddLimit, AddInc, AddUndo,
         InvokeSend, InvokeReceive, InvokeGiveUp, DeferDelCh, DeferDrain,
         DeferDec, DeferProbe, AsyncSend, AsyncDrop, AsyncDropDec, AsyncTimeout,
         AsyncFire, AsyncDone, table
    <3>2. Entries' \subseteq Entries
      BY <3>1 DEF Entries, TableType
    <3> QED
      BY <1>1, <2>1, <3>2
  <2> QED
    BY <2>2, <2>3
<1>3. ASSUME NEW r \in Readers, Deliverer(r)
      PROVE  SweepAfterClosed' /\ NothingLeftBehind'
  <2>1. UNCHANGED <<closed, stop>>
    BY <1>3 DEF Deliverer, DeliverTake, DeliverDec, DeliverSend, DeliverCall
  <2>2. /\ chMap' = chMap \/ \E c \in Calls : chMap' = [chMap EXCEPT ![c] = NoChan]
        /\ cbMap' \subseteq cbMap
    BY <1>3 DEF Deliverer, DeliverTake, DeliverDec, DeliverSend, DeliverCall,
       RunClosure, table
  <2>3. Entries' \subseteq Entries
    BY <2>2 DEF Entries, TableType
  <2> QED
    BY <1>1, <2>1, <2>3
<1>4. CASE CloseBegin
  BY <1>4 DEF CloseBegin, table, SweepAfterClosed, NothingLeftBehind, Entries,
     StopType
<1>5. ASSUME NEW s \in Shards, CloseSweep(s)
      PROVE  SweepAfterClosed' /\ NothingLeftBehind'
  <2>1. SweepAfterClosed' /\ stop'.swept = stop.swept \cup {s}
    BY <1>5 DEF CloseSweep, SweepAfterClosed, StopType
  <2>2. Entries' \subseteq Entries \ InShard(s)
    BY <1>5 DEF CloseSweep, Entries, TableType, InShard, Calls
  <2> QED
    BY <2>1, <2>2 DEF NothingLeftBehind, InShard, Entries, TableType, Calls
<1>6. ASSUME CloseReset \/ CloseLink \/ \E c \in AsyncCalls : CloseCall(c)
      PROVE  SweepAfterClosed' /\ NothingLeftBehind'
  <2>1. UNCHANGED closed /\ UNCHANGED chMap /\ cbMap' \subseteq cbMap
    BY <1>6 DEF CloseReset, CloseLink, CloseCall, RunClosure, table
  <2>2. stop'.swept = stop.swept /\ stop.phase # "open"
    BY <1>6 DEF CloseReset, CloseLink, CloseCall, StopType
  <2> QED
    BY <2>1, <2>2 DEF SweepAfterClosed, NothingLeftBehind, Entries
<1>7. CASE UNCHANGED vars
  BY <1>7 DEF vars, table, SweepAfterClosed, NothingLeftBehind, Entries
<1> QED
  BY <1>2, <1>3, <1>4, <1>5, <1>6, <1>7 DEF Next, Stopper

\* closeAll leaves no request behind in a shard it has swept, whatever calls
\* were half way into the table.
THEOREM CloseIsComplete == Spec => []NothingLeftBehind
<1>1. Init => Closing
  BY OwnedInit DEF Init, Closing, SweepAfterClosed, NothingLeftBehind, Entries
<1>2. Closing /\ [Next]_vars => Closing'
  BY OwnedStep, ClosingStep DEF Closing
<1>3. Closing => NothingLeftBehind
  BY DEF Closing
<1> QED
  BY <1>1, <1>2, <1>3, PTL DEF Spec

-----------------------------------------------------------------------------
(* The right to run the callback of an async call: at most one of the table,
   closeAll's list, a reader and the timeout has it *)

Runs(r, c) == rd[r].at # "idle" /\ rd[r].id = c

Token(c) == \/ c \in cbMap
            \/ c \in stop.todo
            \/ pc[c] = "fire"
            \/ \E r \in Readers : Runs(r, c)

TokenOne(c) ==
  /\ c \in cbMap => c \notin stop.todo /\ pc[c] # "fire"
                    /\ \A r \in Readers : ~Runs(r, c)
  /\ c \in stop.todo => pc[c] # "fire" /\ \A r \in Readers : ~Runs(r, c)
  /\ pc[c] = "fire" => \A r \in Readers : ~Runs(r, c)
  /\ \A r, q \in Readers : Runs(r, c) /\ Runs(q, c) => r = q

Fresh  == {"idle", "check", "limit", "inc", "lock", "undo"}
Unsent == {"drop", "dropdec", "failed"}

\* Before registration there is no token; a token means that the closure has
\* not run and, unless the send failed, neither has the callback.
TokenUnused(c) ==
  /\ pc[c] \in Fresh => ~Token(c) /\ c \notin doneCh /\ called[c] = 0
  /\ Token(c) => c \notin doneCh
  /\ pc[c] \notin Unsent => called[c] <= 1 /\ (Token(c) => called[c] = 0)

TokenOK == \A c \in AsyncCalls : TokenOne(c) /\ TokenUnused(c)

OnceInv == Owned /\ TokenOK /\ ClosureRunsOnce

LEMMA OnceInit == Init => OnceInv
<1> SUFFICES ASSUME Init PROVE TokenOK /\ ClosureRunsOnce
  BY OwnedInit DEF OnceInv
<1>1. ASSUME NEW c \in AsyncCalls PROVE ~Token(c) /\ TokenOne(c)
  BY DEF Init, Token, TokenOne, Runs, Idle, Calls
<1>2. ASSUME NEW c \in AsyncCalls PROVE TokenUnused(c)
  BY <1>1 DEF Init, TokenUnused, Calls, Unsent
<1> QED
  BY <1>1, <1>2 DEF TokenOK, Init, ClosureRunsOnce

\* The holder of c's token runs the closure and gives the token up.
LEMMA TokenSpent ==
  ASSUME OnceInv, NEW c \in AsyncCalls, NEW o \in Outcomes, RunClosure(c, o),
         UNCHANGED pc, Token(c), ~Token(c)',
         \A d \in AsyncCalls \ {c} :
            /\ (d \in stop.todo)' = (d \in stop.todo)
            /\ \A r \in Readers : Runs(r, d)' = Runs(r, d)
  PROVE  TokenOK' /\ ClosureRunsOnce'
<1> USE DEF OnceInv, Owned, Typed, TypeOK
<1>1. c \notin doneCh /\ TokenUnused(c)
  BY DEF TokenOK, TokenUnused
<1>2. /\ doneCh' = doneCh \cup {c} /\ UNCHANGED panics
      /\ cbMap' = cbMap \ {c}
      /\ called' = [called EXCEPT ![c] = @ + 1]
  BY <1>1 DEF RunClosure, CallBack
<1>3. ClosureRunsOnce'
  BY <1>2 DEF ClosureRunsOnce
<1>4. TokenOne(c)' /\ TokenUnused(c)'
  <2>1. pc[c] \notin Fresh
    BY <1>1 DEF TokenUnused
  <2>2. called'[c] = called[c] + 1 /\ called[c] \in Nat
    BY <1>2 DEF CallsType
  <2>3. TokenUnused(c)'
    BY <1>1, <2>1, <2>2 DEF TokenUnused
  <2>4. TokenOne(c)'
    BY DEF TokenOne, Token
  <2> QED
    BY <2>3, <2>4
<1>5. ASSUME NEW d \in AsyncCalls \ {c} PROVE TokenOne(d)' /\ TokenUnused(d)'
  <2>1. /\ (d \in cbMap') = (d \in cbMap)
        /\ (d \in doneCh') = (d \in doneCh)
        /\ called'[d] = called[d]
    BY <1>2 DEF CallsType
  <2>2. TokenOne(d) /\ TokenUnused(d)
    BY DEF TokenOK
  <2>3. TokenOne(d)'
    BY <2>1, <2>2 DEF TokenOne
  <2>4. Token(d)' <=> Token(d)
    BY <2>1 DEF Token
  <2>5. TokenUnused(d)'
    BY <2>1, <2>2, <2>4 DEF TokenUnused
  <2> QED
    BY <2>3, <2>5
<1> QED
  BY <1>3, <1>4, <1>5 DEF TokenOK

\* A step of call c that neither registers nor takes the entry of an async
\* call leaves every token where it is.
LEMMA TokenKept ==
  ASSUME OnceInv, UNCHANGED <<cbMap, rd, stop, doneCh, panics>>,
         NEW c \in Calls, NEW l, pc' = [pc EXCEPT ![c] = l],
         c \in AsyncCalls =>
            /\ l # "fire" /\ pc[c] # "fire"
            /\ l \in Fresh => pc[c] \in Fresh
            /\ pc[c] \in Unsent => l \in Unsent,
         \/ UNCHANGED called
         \/ /\ c \in AsyncCalls
            /\ called' = [called EXCEPT ![c] = @ + 1]
            /\ l = "drop" \/ (l = "done" /\ pc[c] \in Fresh)
  PROVE  TokenOK' /\ ClosureRunsOnce'
<1> USE DEF OnceInv, Owned, Typed, TypeOK
<1>1. ASSUME NEW d \in AsyncCalls PROVE TokenOne(d)' /\ TokenUnused(d)'
  <2>1. TokenOne(d) /\ TokenUnused(d)
    BY DEF TokenOK
  <2>2. /\ d # c => pc'[d] = pc[d] /\ called'[d] = called[d]
        /\ d = c => pc'[d] = l
        /\ pc'[d] = "fire" <=> pc[d] = "fire"
    <3>1. pc'[d] = IF d = c THEN l ELSE pc[d]
      BY DEF PcType, Calls
    <3>2. d # c => called'[d] = called[d]
      BY DEF CallsType
    <3>3. d = c => pc'[d] # "fire" /\ pc[d] # "fire"
      BY <3>1
    <3> QED
      BY <3>1, <3>2, <3>3
  <2>3. Token(d)' <=> Token(d)
    BY <2>2 DEF Token, Runs
  <2>4. TokenOne(d)'
    BY <2>1, <2>2 DEF TokenOne, Runs
  <2>5. called'[d] = called[d] \/ (d = c /\ called'[d] = called[d] + 1)
    BY DEF CallsType
  <2>6. called[d] \in Nat
    BY DEF CallsType
  <2>7. CASE d # c
    BY <2>1, <2>2, <2>3, <2>4, <2>7 DEF TokenUnused
  <2>8. CASE d = c
    <3>1. CASE UNCHANGED called
      <4>1. /\ l \in Fresh => pc[d] \in Fresh
            /\ pc[d] \in Unsent => l \in Unsent
        BY <2>8
      <4> QED
        BY <2>1, <2>2, <2>3, <2>4, <2>8, <3>1, <4>1 DEF TokenUnused
    <3>2. CASE called' = [called EXCEPT ![c] = @ + 1] /\ l = "drop"
      BY <2>1, <2>2, <2>3, <2>4, <2>8, <3>2 DEF TokenUnused, Fresh, Unsent
    <3>3. CASE /\ called' = [called EXCEPT ![c] = @ + 1] /\ l = "done"
               /\ pc[c] \in Fresh
      <4>1. called'[d] = 1 /\ ~Token(d)'
        BY <2>1, <2>3, <2>8, <3>3 DEF TokenUnused, CallsType
      <4> QED
        BY <2>1, <2>2, <2>4, <2>8, <3>3, <4>1 DEF TokenUnused, Fresh, Unsent
    <3> QED
      BY <3>1, <3>2, <3>3
  <2> QED
    BY <2>7, <2>8
<1> QED
  BY <1>1 DEF TokenOK, ClosureRunsOnce

LEMMA OnceInvoker ==
  ASSUME OnceInv, NEW c \in Calls, Invoker(c)
  PROVE  TokenOK' /\ ClosureRunsOnce'
<1> USE CallsDisjoint DEF OnceInv, Owned, Typed, TypeOK
<1>0. UNCHANGED <<rd, stop, doneCh, panics>>
  BY DEF Invoker, InvokeStart, AddCheck, AddLimit, AddInc, AddCh, AddCallback,
     AddUndo, InvokeSend, InvokeReceive, InvokeGiveUp, DeferDelCh, DeferDrain,
     DeferDec, DeferProbe, AsyncSend, AsyncDrop, AsyncDropDec, AsyncTimeout,
     AsyncFire, AsyncDone, async
<1>1. CASE c \in SyncCalls
  <2>1. UNCHANGED cbMap /\ UNCHANGED called /\ \E l : pc' = [pc EXCEPT ![c] = l]
    BY <1>1 DEF Invoker, InvokeStart, AddCheck, AddLimit, AddInc, AddCh,
       AddCallback, AddUndo, InvokeSend, InvokeReceive, InvokeGiveUp, DeferDelCh,
       DeferDrain, DeferDec, DeferProbe, AsyncSend, AsyncDrop, AsyncDropDec,
       AsyncTimeout, AsyncFire, AsyncDone, Refuse, Goto, table, async, PcType,
       Common, SyncOnly, CallsType
  <2> QED
    BY <1>0, <1>1, <2>1, TokenKept
<1>2. CASE c \in AsyncCalls /\ (InvokeStart(c) \/ AddCheck(c) \/ AddLimit(c)
             \/ AddInc(c) \/ AddUndo(c))
  <2> USE DEF Fresh, Unsent, Goto, Refuse, CallBack
  <2>1. CASE InvokeStart(c)
    BY <1>0, <1>2, <2>1, TokenKept DEF InvokeStart, table, async
  <2>2. CASE AddCheck(c)
    BY <1>0, <1>2, <2>2, TokenKept DEF AddCheck, table
  <2>3. CASE AddLimit(c)
    BY <1>0, <1>2, <2>3, TokenKept DEF AddLimit, table
  <2>4. CASE AddInc(c)
    BY <1>0, <1>2, <2>4, TokenKept DEF AddInc, async
  <2>5. CASE AddUndo(c)
    BY <1>0, <1>2, <2>5, TokenKept DEF AddUndo
  <2> QED
    BY <1>2, <2>1, <2>2, <2>3, <2>4, <2>5
<1>3. CASE AsyncSend(c) \/ AsyncDropDec(c) \/ AsyncDone(c)
  <2> USE DEF Fresh, Unsent, Goto, CallBack
  <2>1. CASE AsyncSend(c)
    BY <1>0, <2>1, TokenKept DEF AsyncSend, table
  <2>2. CASE AsyncDropDec(c)
    BY <1>0, <2>2, TokenKept DEF AsyncDropDec, async
  <2>3. CASE AsyncDone(c)
    BY <1>0, <2>3, TokenKept DEF AsyncDone, table, async
  <2> QED
    BY <1>3, <2>1, <2>2, <2>3
\* The actions that create, drop or move c's own token.
<1>4. ASSUME c \in AsyncCalls, NEW d \in AsyncCalls \ {c},
             AddCallback(c) \/ AsyncDrop(c) \/ AsyncTimeout(c) \/ AsyncFire(c)
      PROVE  TokenOne(d)' /\ TokenUnused(d)'
  <2>1. /\ (d \in cbMap') = (d \in cbMap)
        /\ pc'[d] = pc[d] /\ called'[d] = called[d]
    BY <1>4 DEF AddCallback, AsyncDrop, AsyncTimeout, AsyncFire, CallBack, Goto,
       table, async, PcType, CallsType, Calls
  <2>2. TokenOne(d) /\ TokenUnused(d)
    BY DEF TokenOK
  <2>3. TokenOne(d)' /\ (Token(d)' <=> Token(d))
    BY <1>0, <2>1, <2>2 DEF TokenOne, Token, Runs
  <2> QED
    BY <1>0, <2>1, <2>2, <2>3 DEF TokenUnused
<1>5. ASSUME c \in AsyncCalls,
             AddCallback(c) \/ AsyncDrop(c) \/ AsyncTimeout(c) \/ AsyncFire(c)
      PROVE  TokenOne(c)' /\ TokenUnused(c)'
  <2>1. TokenOne(c) /\ TokenUnused(c) /\ called[c] \in Nat
    BY <1>5 DEF TokenOK, CallsType
  <2>2. CASE AddCallback(c)
    <3>1. /\ pc[c] = "lock" /\ pc'[c] \in {"undo", "send"}
          /\ cbMap' = IF pc'[c] = "undo" THEN cbMap ELSE cbMap \cup {c}
          /\ UNCHANGED called
      BY <2>2 DEF AddCallback, Goto, PcType, async
    <3>2. ~Token(c) /\ c \notin doneCh /\ called[c] = 0
      BY <2>1, <3>1 DEF TokenUnused, Fresh
    <3>3. TokenOne(c)'
      BY <1>0, <3>1, <3>2 DEF TokenOne, Token, Runs
    <3>4. pc'[c] = "undo" => ~Token(c)'
      BY <1>0, <3>1, <3>2 DEF Token, Runs
    <3> QED
      BY <1>0, <3>1, <3>2, <3>3, <3>4 DEF TokenUnused, Fresh, Unsent
  <2>3. CASE AsyncDrop(c)
    <3>1. /\ pc'[c] \in {"dropdec", "failed"} /\ pc[c] = "drop"
          /\ cbMap' = cbMap \ {c} /\ UNCHANGED called
      BY <2>3 DEF AsyncDrop, Goto, PcType, async
    <3>2. Token(c)' => Token(c)
      BY <1>0, <3>1 DEF Token, Runs
    <3> QED
      BY <1>0, <2>1, <3>1, <3>2 DEF TokenOne, TokenUnused, Fresh, Unsent, Runs
  <2>4. CASE AsyncTimeout(c)
    <3>1. /\ pc[c] = "wait" /\ pc'[c] = IF c \in cbMap THEN "fire" ELSE "done"
          /\ cbMap' = cbMap \ {c} /\ UNCHANGED called
      BY <2>4 DEF AsyncTimeout, Goto, PcType, async
    <3>2. Token(c)' => Token(c)
      BY <1>0, <3>1 DEF Token, Runs
    <3> QED
      BY <1>0, <2>1, <3>1, <3>2 DEF TokenOne, TokenUnused, Fresh, Unsent, Runs
  <2>5. CASE AsyncFire(c)
    <3>1. /\ pc[c] = "fire" /\ pc'[c] = "done" /\ UNCHANGED cbMap
          /\ called'[c] = called[c] + 1
      BY <1>5, <2>5 DEF AsyncFire, Goto, CallBack, PcType, CallsType, table
    <3>2. called[c] = 0 /\ c \notin doneCh
      BY <2>1, <3>1 DEF TokenUnused, Token, Unsent
    <3>3. ~Token(c)'
      BY <1>0, <2>1, <3>1 DEF TokenOne, Token, Runs
    <3> QED
      BY <1>0, <2>1, <3>1, <3>2, <3>3 DEF TokenOne, TokenUnused, Fresh, Unsent,
         Runs, Token
  <2> QED
    BY <1>5, <2>2, <2>3, <2>4, <2>5
<1>6. CASE c \in AsyncCalls /\ (AddCallback(c) \/ AsyncDrop(c) \/ AsyncTimeout(c)
             \/ AsyncFire(c))
  BY <1>0, <1>4, <1>5, <1>6 DEF TokenOK, ClosureRunsOnce
<1>7. c \in AsyncCalls =>
        ~(AddCh(c) \/ InvokeSend(c) \/ InvokeReceive(c) \/ InvokeGiveUp(c)
          \/ DeferDelCh(c) \/ DeferDrain(c) \/ DeferDec(c) \/ DeferProbe(c))
  BY DEF AddCh, InvokeSend, InvokeReceive, InvokeGiveUp, DeferDelCh, DeferDrain,
     DeferDec, DeferProbe, PcType, Common, AsyncOnly
<1> QED
  BY <1>1, <1>2, <1>3, <1>6, <1>7 DEF Invoker, Calls

LEMMA OnceDeliverer ==
  ASSUME OnceInv, NEW r \in Readers, Deliverer(r)
  PROVE  TokenOK' /\ ClosureRunsOnce'
<1> USE CallsDisjoint, NoCallOutside DEF OnceInv, Owned, Typed, TypeOK
<1>1. ASSUME NEW c \in Calls, DeliverTake(r, c)
      PROVE  TokenOK' /\ ClosureRunsOnce'
  <2>0. UNCHANGED <<pc, called, doneCh, stop, panics>>
    BY <1>1 DEF DeliverTake, async
  <2>1. ASSUME NEW d \in AsyncCalls
        PROVE  /\ TokenOne(d)'
               /\ Token(d)' <=> Token(d)
    <3>1. TokenOne(d)
      BY DEF TokenOK
    <3>2. CASE d # c \/ c \notin cbMap
      <4>1. d \in cbMap' <=> d \in cbMap
        BY <1>1, <3>2 DEF DeliverTake, TableType, Calls
      <4>2. \A q \in Readers : Runs(q, d)' <=> Runs(q, d)
        BY <1>1, <3>2 DEF DeliverTake, Runs, ReadersType, TableType, Calls
      <4> QED
        BY <2>0, <3>1, <4>1, <4>2 DEF TokenOne, Token
    <3>3. CASE d = c /\ c \in cbMap
      <4>1. d \notin cbMap' /\ d \in cbMap
        BY <1>1, <3>3 DEF DeliverTake, TableType
      <4>2. \A q \in Readers : Runs(q, d)' <=> q = r
        BY <1>1, <3>1, <3>3 DEF DeliverTake, Runs, ReadersType, TableType,
           TokenOne
      <4> QED
        BY <2>0, <3>1, <4>1, <4>2 DEF TokenOne, Token
    <3> QED
      BY <3>2, <3>3
  <2> QED
    BY <2>0, <2>1 DEF TokenOK, TokenUnused, ClosureRunsOnce
<1>2. CASE DeliverDec(r) \/ (DeliverSend(r))
  <2>1. /\ UNCHANGED <<cbMap, pc, called, doneCh, stop>>
        /\ panics' \subseteq panics \cup {"send on closed channel"}
    BY <1>2 DEF DeliverDec, DeliverSend, async, table
  <2>2. ASSUME NEW d \in AsyncCalls, NEW q \in Readers
        PROVE  Runs(q, d)' <=> Runs(q, d)
    <3>1. CASE DeliverDec(r)
      BY <3>1 DEF DeliverDec, Runs, ReadersType
    <3>2. CASE DeliverSend(r)
      <4>1. rd[r].id \in SyncCalls /\ rd' = [rd EXCEPT ![r] = Idle]
        BY <3>2 DEF DeliverSend, ReaderOK
      <4> QED
        BY <4>1 DEF Runs, ReadersType, Idle
    <3> QED
      BY <1>2, <3>1, <3>2
  <2>3. ASSUME NEW d \in AsyncCalls PROVE TokenOne(d)' /\ TokenUnused(d)'
    <3>1. TokenOne(d) /\ TokenUnused(d)
      BY DEF TokenOK
    <3>2. TokenOne(d)' /\ (Token(d)' <=> Token(d))
      BY <2>1, <2>2, <3>1 DEF TokenOne, Token
    <3> QED
      BY <2>1, <3>1, <3>2 DEF TokenUnused
  <2> QED
    BY <2>1, <2>3 DEF TokenOK, ClosureRunsOnce
<1>3. CASE DeliverCall(r)
  <2>0. rd[r].at # "idle" /\ rd[r].id \in AsyncCalls
    BY <1>3 DEF DeliverCall, ReaderOK
  <2>1. PICK c \in AsyncCalls : c = rd[r].id /\ Runs(r, c)
    BY <2>0 DEF Runs
  <2>2. /\ rd' = [rd EXCEPT ![r] = Idle] /\ UNCHANGED <<pc, stop>>
        /\ \E o \in {"success", "error", "internal"} : RunClosure(c, o)
    BY <1>3, <2>1 DEF DeliverCall
  <2>3. PICK o \in Outcomes : RunClosure(c, o)
    BY <2>2 DEF Outcomes
  <2>4. TokenOne(c) /\ Token(c)
    BY <2>1 DEF TokenOK, Token
  <2>5. \A q \in Readers : ~Runs(q, c)'
    BY <2>1, <2>2, <2>4 DEF TokenOne, Runs, ReadersType, Idle, Calls
  <2>6. ~Token(c)'
    BY <2>1, <2>2, <2>3, <2>4, <2>5 DEF Token, TokenOne, RunClosure
  <2>7. \A d \in AsyncCalls \ {c} :
          /\ (d \in stop.todo)' = (d \in stop.todo)
          /\ \A q \in Readers : Runs(q, d)' = Runs(q, d)
    BY <2>1, <2>2 DEF Runs, ReadersType, Idle, Calls
  <2> QED
    BY <2>1, <2>2, <2>3, <2>4, <2>6, <2>7, TokenSpent
<1> QED
  BY <1>1, <1>2, <1>3 DEF Deliverer

LEMMA OnceStopper ==
  ASSUME OnceInv, Stopper PROVE TokenOK' /\ ClosureRunsOnce'
<1> USE DEF OnceInv, Owned, Typed, TypeOK
<1>1. ASSUME UNCHANGED <<pc, called, doneCh, rd, panics>>,
             \A d \in AsyncCalls :
                \/ (d \in cbMap' <=> d \in cbMap)
                   /\ (d \in stop'.todo <=> d \in stop.todo)
                \/ d \in cbMap /\ d \notin cbMap' /\ d \in stop'.todo
      PROVE  TokenOK' /\ ClosureRunsOnce'
  <2>1. ASSUME NEW d \in AsyncCalls PROVE TokenOne(d)' /\ TokenUnused(d)'
    <3>1. TokenOne(d) /\ TokenUnused(d)
      BY DEF TokenOK
    <3>2. TokenOne(d)'
      BY <1>1, <3>1 DEF TokenOne, Runs
    <3>3. Token(d)' <=> Token(d)
      BY <1>1, <3>1 DEF TokenOne, Token, Runs
    <3> QED
      BY <1>1, <3>1, <3>2, <3>3 DEF TokenUnused
  <2> QED
    BY <1>1, <2>1 DEF TokenOK, ClosureRunsOnce
<1>2. CASE CloseBegin \/ CloseReset \/ CloseLink
  <2>1. UNCHANGED <<pc, called, doneCh, rd, panics, cbMap>> /\ stop'.todo = stop.todo
    BY <1>2 DEF CloseBegin, CloseReset, CloseLink, table, async, StopType
  <2> QED
    BY <1>1, <2>1
<1>3. ASSUME NEW s \in Shards, CloseSweep(s)
      PROVE  TokenOK' /\ ClosureRunsOnce'
  <2>1. /\ UNCHANGED <<pc, called, doneCh, rd, panics>>
        /\ cbMap' = cbMap \ InShard(s)
        /\ stop'.todo = stop.todo \cup (cbMap \cap InShard(s))
    BY <1>3 DEF CloseSweep, async, StopType
  <2> QED
    BY <1>1, <2>1
<1>4. ASSUME NEW c \in AsyncCalls, CloseCall(c)
      PROVE  TokenOK' /\ ClosureRunsOnce'
  <2>1. /\ c \in stop.todo /\ stop'.todo = stop.todo \ {c} /\ UNCHANGED <<pc, rd>>
        /\ RunClosure(c, "error") /\ "error" \in Outcomes
    BY <1>4 DEF CloseCall, StopType, Outcomes
  <2>2. TokenOne(c) /\ Token(c)
    BY <2>1 DEF TokenOK, Token
  <2>3. ~Token(c)'
    BY <2>1, <2>2 DEF Token, TokenOne, RunClosure, Runs
  <2>4. \A d \in AsyncCalls \ {c} :
          /\ (d \in stop.todo)' = (d \in stop.todo)
          /\ \A q \in Readers : Runs(q, d)' = Runs(q, d)
    BY <2>1 DEF Runs
  <2> QED
    BY <2>1, <2>2, <2>3, <2>4, TokenSpent
<1> QED
  BY <1>2, <1>3, <1>4 DEF Stopper

LEMMA OnceStep == OnceInv /\ [Next]_vars => OnceInv'
<1> SUFFICES ASSUME OnceInv, [Next]_vars PROVE TokenOK' /\ ClosureRunsOnce'
  BY OwnedStep DEF OnceInv
<1>1. CASE Next
  BY <1>1, OnceInvoker, OnceDeliverer, OnceStopper DEF Next
<1>2. CASE UNCHANGED vars
  BY <1>2 DEF vars, table, async, OnceInv, TokenOK, TokenOne, TokenUnused, Token,
     Runs, ClosureRunsOnce
<1> QED
  BY <1>1, <1>2

\* Response, Stop and timeout never run the closure of InvokeAsync twice.
THEOREM ClosureOnce == Spec => []ClosureRunsOnce
<1>1. OnceInv => ClosureRunsOnce
  BY DEF OnceInv
<1> QED
  BY <1>1, OnceInit, OnceStep, PTL DEF Spec

\* The user's callback runs at most once for a request that was sent.
THEOREM CallbackOnceIfSentHolds == Spec => []CallbackOnceIfSent
<1>1. OnceInv => CallbackOnceIfSent
  BY DEF OnceInv, Owned, Typed, TypeOK, CallsType, TokenOK, TokenUnused, Unsent,
     CallbackOnceIfSent
<1> QED
  BY <1>1, OnceInit, OnceStep, PTL DEF Spec

\* Response, timeout and Stop race for an async call, and it ends once: its closure
\* and, if it was sent, its callback.
THEOREM AsyncEndsOnceHolds == Spec => []AsyncEndsOnce
BY ClosureOnce, CallbackOnceIfSentHolds, PTL DEF AsyncEndsOnce

-----------------------------------------------------------------------------
(* What a step of one call leaves alone *)

\* A call moves itself only, and touches no entry but its own.
LEMMA OthersStay ==
  ASSUME Typed, NEW c \in Calls, Invoker(c), NEW d \in Calls \ {c}
  PROVE  /\ pc'[d] = pc[d] /\ outcome'[d] = outcome[d]
         /\ d \in Entries' <=> d \in Entries
<1> USE DEF Typed, TypeOK
<1>1. \E l : pc' = [pc EXCEPT ![c] = l]
  BY DEF Invoker, InvokeStart, AddCheck, AddLimit, AddInc, AddCh, AddCallback,
     AddUndo, InvokeSend, InvokeReceive, InvokeGiveUp, DeferDelCh, DeferDrain,
     DeferDec, DeferProbe, AsyncSend, AsyncDrop, AsyncDropDec, AsyncTimeout,
     AsyncFire, AsyncDone, Refuse, Goto
<1>2. outcome' = outcome \/ \E o : outcome' = [outcome EXCEPT ![c] = o]
  BY DEF Invoker, InvokeStart, AddCheck, AddLimit, AddInc, AddCh, AddCallback,
     AddUndo, InvokeSend, InvokeReceive, InvokeGiveUp, DeferDelCh, DeferDrain,
     DeferDec, DeferProbe, AsyncSend, AsyncDrop, AsyncDropDec, AsyncTimeout,
     AsyncFire, AsyncDone, Refuse, CallBack, Report, result
<1>3. /\ chMap' = chMap \/ \E x : chMap' = [chMap EXCEPT ![c] = x]
      /\ cbMap' \in {cbMap, cbMap \cup {c}, cbMap \ {c}}
  BY DEF Invoker, InvokeStart, AddCheck, AddLimit, AddInc, AddCh, AddCallback,
     AddUndo, InvokeSend, InvokeReceive, InvokeGiveUp, DeferDelCh, DeferDrain,
     DeferDec, DeferProbe, AsyncSend, AsyncDrop, AsyncDropDec, AsyncTimeout,
     AsyncFire, AsyncDone, table
<1>4. pc'[d] = pc[d]
  BY <1>1 DEF PcType
<1>5. outcome'[d] = outcome[d]
  BY <1>2 DEF ResultType
<1>6. d \in SyncCalls => chMap'[d] = chMap[d]
  BY <1>3 DEF TableType
<1> QED
  BY <1>3, <1>4, <1>5, <1>6 DEF Entries

\* The places of a call that has counted itself and has no entry.
Owing == {"lock", "undo", "drain", "dec", "dropdec"}
Bad   == {"closed", "full", "encode"}

\* How a call moves: it counts itself, it takes that back, it enters the table, it leaves
\* it by its own hand, or none of these.
Counts(c)   == /\ pc[c] = "inc" /\ pc'[c] = "lock" /\ count' = count + 1
               /\ c \in Entries' <=> c \in Entries
Uncounts(c) == /\ pc[c] \in {"undo", "dec", "dropdec"} /\ pc'[c] \in {"done", "failed"}
               /\ count' = count - 1 /\ (c \in Entries' <=> c \in Entries)
Enters(c)   == /\ pc[c] = "lock" /\ ~closed /\ pc'[c] = "send" /\ c \in Entries'
               /\ UNCHANGED count
Leaves(c)   == /\ c \in Entries /\ c \notin Entries' /\ pc'[c] \in {"drain", "dropdec"}
               /\ UNCHANGED count
Stays(c)    == /\ c \in Entries' => c \in Entries
               /\ pc'[c] \in Fresh \cup Owing => pc[c] \in Fresh \cup Owing
               /\ pc'[c] \in Owing => pc[c] \in Owing
               /\ UNCHANGED count

\* A call leaves the early places for good, and is refused only there.
Proceeds(c) ==
  /\ pc'[c] \in Fresh => pc[c] \in Fresh
  /\ pc[c] # "done"
  /\ outcome'[c] \in Bad => (pc'[c] = "done" /\ pc[c] \in Fresh) \/ outcome[c] \in Bad
  /\ pc[c] \in Fresh /\ pc'[c] = "done" => outcome'[c] \in Bad
  /\ pc[c] \in Fresh /\ pc'[c] \notin Fresh \cup {"done"} => Enters(c)

LEMMA CallMoves ==
  ASSUME Typed, NEW c \in Calls, Invoker(c)
  PROVE  /\ UNCHANGED <<closed, rd, stop>>
         /\ Counts(c) \/ Uncounts(c) \/ Enters(c) \/ Leaves(c) \/ Stays(c)
         /\ Proceeds(c)
<1> USE CallsDisjoint, NoChanOutside
    DEF Typed, TypeOK, TableType, PcType, ResultType, Common, SyncOnly, AsyncOnly, Goto
<1> DEFINE Moves == /\ UNCHANGED <<closed, rd, stop>>
                    /\ Counts(c) \/ Uncounts(c) \/ Enters(c) \/ Leaves(c) \/ Stays(c)
                    /\ Proceeds(c)
<1>1. CASE InvokeStart(c) \/ AddCheck(c) \/ AddLimit(c)
  BY <1>1 DEF InvokeStart, AddCheck, AddLimit, Refuse, CallBack, Report, table,
     Entries, Stays, Proceeds, Fresh, Owing, Bad
<1>2. CASE AddInc(c) \/ AddUndo(c)
  BY <1>2 DEF AddInc, AddUndo, Refuse, CallBack, Report, result, Entries, Counts, Uncounts,
     Proceeds, Fresh, Bad
<1>3. CASE AddCh(c) \/ AddCallback(c)
  <2>1. CASE closed
    BY <1>3, <2>1 DEF AddCh, AddCallback, result, Entries, Stays, Proceeds, Fresh, Owing
  <2>2. CASE ~closed
    BY <1>3, <2>2 DEF AddCh, AddCallback, result, Entries, Enters, Proceeds, Fresh
  <2> QED  BY <2>1, <2>2
<1>4. CASE InvokeSend(c) \/ InvokeReceive(c) \/ InvokeGiveUp(c) \/ AsyncSend(c) \/ AsyncFire(c)
  BY <1>4 DEF InvokeSend, InvokeReceive, InvokeGiveUp, AsyncSend, AsyncFire, CallBack, Report,
     table, Entries, Stays, Proceeds, Fresh, Owing, Bad
<1>5. CASE DeferDelCh(c)
  <2>1. c \in SyncCalls /\ c \notin cbMap
    BY <1>5 DEF DeferDelCh, Calls
  <2>2. /\ c \notin Entries'
        /\ c \in Entries <=> chMap[c] # NoChan
    BY <1>5, <2>1 DEF DeferDelCh, Entries
  <2>3. /\ pc[c] = "del" /\ pc'[c] = IF chMap[c] # NoChan THEN "drain" ELSE "probe"
        /\ UNCHANGED <<closed, rd, stop, count, outcome>>
    BY <1>5 DEF DeferDelCh, result
  <2> QED
    BY <2>2, <2>3 DEF Leaves, Stays, Proceeds, Fresh, Owing
<1>6. CASE DeferDrain(c) \/ DeferProbe(c) \/ AsyncDone(c)
  BY <1>6 DEF DeferDrain, DeferProbe, AsyncDone, table, result, Entries, Stays, Proceeds,
     Fresh, Owing
<1>7. CASE DeferDec(c) \/ AsyncDropDec(c)
  BY <1>7 DEF DeferDec, AsyncDropDec, result, Entries, Uncounts, Proceeds, Fresh
<1>8. CASE AsyncDrop(c) \/ AsyncTimeout(c)
  BY <1>8 DEF AsyncDrop, AsyncTimeout, result, Entries, Leaves, Stays, Proceeds, Fresh, Owing
<1> QED
  BY <1>1, <1>2, <1>3, <1>4, <1>5, <1>6, <1>7, <1>8 DEF Invoker

-----------------------------------------------------------------------------
(* The counter: every call that is counted until Stop is charged once *)

Decs(r, c) == rd[r].at = "dec" /\ rd[r].id = c
Charged == Entries \cup {c \in Calls : pc[c] \in Owing \/ \E r \in Readers : Decs(r, c)}

\* A call owes its decrement itself, or has an entry, or left that to one deliver.
Alone ==
  /\ \A c \in Entries : pc[c] \notin Fresh \cup Owing /\ \A r \in Readers : ~Decs(r, c)
  /\ \A c \in Calls, r \in Readers : Decs(r, c) => pc[c] \notin Fresh \cup Owing
  /\ \A c \in Calls, r, q \in Readers : Decs(r, c) /\ Decs(q, c) => r = q

Covers == IsFiniteSet(Charged) /\ Cardinality(Charged) <= count

CountInv == Closing /\ Alone /\ (~closed => Covers)

\* Covers survives a step that charges one call and counts it, or that takes one off both.
LEMMA CoversStep ==
  ASSUME Covers, count \in Int,
         \/ Charged' \subseteq Charged /\ count' = count
         \/ \E c : Charged' \subseteq Charged \cup {c} /\ count' = count + 1
         \/ \E c \in Charged : Charged' \subseteq Charged \ {c} /\ count' = count - 1
  PROVE  Covers'
<1>1. IsFiniteSet(Charged) /\ Cardinality(Charged) <= count /\ Cardinality(Charged) \in Nat
  BY FS_CardinalityType DEF Covers
<1>2. ASSUME NEW S, IsFiniteSet(S), Charged' \subseteq S, Cardinality(S) <= count', count' \in Int
      PROVE  Covers'
  <2>1. IsFiniteSet(Charged') /\ Cardinality(Charged') <= Cardinality(S)
    BY <1>2, FS_Subset
  <2>2. Cardinality(S) \in Nat /\ Cardinality(Charged') \in Nat
    BY <1>2, <2>1, FS_CardinalityType
  <2> QED
    BY <1>2, <2>1, <2>2 DEF Covers
<1>3. CASE Charged' \subseteq Charged /\ count' = count
  BY <1>1, <1>2, <1>3
<1>4. ASSUME NEW c, Charged' \subseteq Charged \cup {c}, count' = count + 1
      PROVE  Covers'
  <2>1. /\ IsFiniteSet(Charged \cup {c})
        /\ \/ Cardinality(Charged \cup {c}) = Cardinality(Charged)
           \/ Cardinality(Charged \cup {c}) = Cardinality(Charged) + 1
    BY <1>1, FS_AddElement
  <2>2. count' \in Int /\ Cardinality(Charged \cup {c}) <= count'
    BY <1>1, <1>4, <2>1
  <2> QED
    BY <1>2, <1>4, <2>1, <2>2
<1>5. ASSUME NEW c \in Charged, Charged' \subseteq Charged \ {c}, count' = count - 1
      PROVE  Covers'
  <2>1. IsFiniteSet(Charged \ {c}) /\ Cardinality(Charged \ {c}) = Cardinality(Charged) - 1
    BY <1>1, FS_RemoveElement
  <2>2. count' \in Int /\ Cardinality(Charged \ {c}) <= count'
    BY <1>1, <1>5, <2>1
  <2> QED
    BY <1>2, <1>5, <2>1, <2>2
<1> QED
  BY <1>3, <1>4, <1>5

\* The steps of a call keep Alone and Covers.
LEMMA CountInvoker ==
  ASSUME CountInv, TableType', NEW c \in Calls, Invoker(c)
  PROVE  Alone' /\ (~closed' => Covers')
<1> USE DEF CountInv, Closing, Owned
<1>1. /\ UNCHANGED <<closed, rd, stop>>
      /\ Counts(c) \/ Uncounts(c) \/ Enters(c) \/ Leaves(c) \/ Stays(c)
  BY CallMoves
<1>2. \A d \in Calls \ {c} : pc'[d] = pc[d] /\ (d \in Entries' <=> d \in Entries)
  BY OthersStay
<1>3. Entries \subseteq Calls /\ Entries' \subseteq Calls /\ count \in Int
  BY DEF Typed, TypeOK, TableType, Entries, Calls
<1>4. \A r \in Readers, d \in Calls : Decs(r, d)' <=> Decs(r, d)
  BY <1>1 DEF Decs
<1>5. \A d \in Calls \ {c} : d \in Charged' <=> d \in Charged
  BY <1>2, <1>4 DEF Charged
<1>6. Charged \subseteq Calls /\ Charged' \subseteq Calls
  BY <1>3 DEF Charged
<1>7. Alone'
  <2>1. c \in Entries' => pc'[c] \notin Fresh \cup Owing /\ \A r \in Readers : ~Decs(r, c)
    BY <1>1 DEF Alone, Counts, Uncounts, Enters, Leaves, Stays, Fresh, Owing
  <2>2. \A r \in Readers : Decs(r, c) => pc'[c] \notin Fresh \cup Owing
    BY <1>1 DEF Alone, Counts, Uncounts, Enters, Leaves, Stays, Fresh, Owing
  <2> QED
    BY <1>2, <1>3, <1>4, <2>1, <2>2 DEF Alone
<1>8. ASSUME ~closed' PROVE Covers'
  <2>1. Covers
    BY <1>1, <1>8
  <2>2. CASE Counts(c)
    <3>1. Charged' \subseteq Charged \cup {c} /\ count' = count + 1
      BY <1>5, <1>6, <2>2 DEF Counts
    <3> QED
      BY <1>3, <2>1, <3>1, CoversStep
  <2>3. CASE Uncounts(c)
    <3>1. c \in Charged /\ c \notin Charged'
      BY <1>4, <2>3 DEF Uncounts, Charged, Owing, Alone
    <3>2. Charged' \subseteq Charged \ {c} /\ count' = count - 1
      BY <1>5, <1>6, <2>3, <3>1 DEF Uncounts
    <3> QED
      BY <1>3, <2>1, <3>1, <3>2, CoversStep
  <2>4. CASE Enters(c) \/ Leaves(c) \/ Stays(c)
    <3>1. c \in Charged' => c \in Charged
      BY <1>4, <2>4 DEF Enters, Leaves, Stays, Charged, Owing
    <3>2. Charged' \subseteq Charged /\ count' = count
      BY <1>5, <1>6, <2>4, <3>1 DEF Enters, Leaves, Stays
    <3> QED
      BY <1>3, <2>1, <3>2, CoversStep
  <2> QED
    BY <1>1, <2>2, <2>3, <2>4
<1> QED
  BY <1>7, <1>8

\* Running a closure takes an entry together with its count, or neither.
LEMMA CountClosure ==
  ASSUME CountInv, NEW c \in AsyncCalls, NEW o, RunClosure(c, o),
         UNCHANGED <<closed, chMap, pc>>,
         \A r \in Readers, d \in Calls : Decs(r, d)' <=> Decs(r, d)
  PROVE  Alone' /\ (~closed' => Covers')
<1> USE CallsDisjoint DEF CountInv, Closing, Owned, Typed, TypeOK
<1>1. Entries' = Entries \ {c} /\ (c \in cbMap <=> c \in Entries) /\ c \in Calls
  BY DEF RunClosure, Entries, Calls, TableType
<1>2. Entries \subseteq Calls /\ count \in Int
  BY DEF TableType, Entries, Calls
<1>3. Alone'
  BY <1>1, <1>2 DEF Alone
<1>4. CASE c \in cbMap
  <2>1. c \in Charged /\ c \notin Charged'
    BY <1>1, <1>4 DEF Charged, Alone
  <2>2. Charged' \subseteq Charged \ {c} /\ count' = count - 1
    BY <1>1, <1>4, <2>1 DEF Charged, RunClosure
  <2> QED
    BY <1>2, <1>3, <2>1, <2>2, CoversStep
<1>5. CASE c \notin cbMap
  <2>1. Charged' \subseteq Charged /\ count' = count
    BY <1>1, <1>5 DEF Charged, RunClosure
  <2> QED
    BY <1>2, <1>3, <2>1, CoversStep
<1> QED
  BY <1>4, <1>5

\* deliver takes the entry in one critical section and decrements in a later step.
LEMMA CountDeliverer ==
  ASSUME CountInv, NEW r \in Readers, Deliverer(r)
  PROVE  Alone' /\ (~closed' => Covers')
<1> USE CallsDisjoint, NoChanOutside DEF CountInv, Closing, Owned, Typed, TypeOK
<1>1. Entries \subseteq Calls /\ count \in Int
  BY DEF TableType, Entries, Calls
<1>2. ASSUME NEW c \in Calls, DeliverTake(r, c) PROVE Alone' /\ (~closed' => Covers')
  <2>0. UNCHANGED <<closed, count, pc>> /\ rd[r].at = "idle"
    BY <1>2 DEF DeliverTake
  <2>1. Entries' = Entries \ {c}
    BY <1>2 DEF DeliverTake, Entries, TableType, Calls
  <2>2. CASE c \in Entries
    <3>1. \A q \in Readers, d \in Calls : Decs(q, d)' <=> Decs(q, d) \/ (q = r /\ d = c)
      BY <1>2, <2>2 DEF DeliverTake, Entries, Decs, ReadersType, TableType, Calls
    <3>2. Alone'
      BY <1>1, <2>0, <2>1, <2>2, <3>1 DEF Alone, Decs
    <3>3. Charged' \subseteq Charged
      BY <2>0, <2>1, <2>2, <3>1 DEF Charged
    <3> QED
      BY <1>1, <2>0, <3>2, <3>3, CoversStep
  <2>3. CASE c \notin Entries
    <3>1. UNCHANGED rd
      BY <1>2, <2>3 DEF DeliverTake, Entries, Calls
    <3>2. Alone' /\ Charged' \subseteq Charged
      BY <2>0, <2>1, <3>1 DEF Alone, Charged, Decs
    <3> QED
      BY <1>1, <2>0, <3>2, CoversStep
  <2> QED
    BY <2>2, <2>3
<1>3. CASE DeliverDec(r)
  <2>1. /\ UNCHANGED <<closed, pc>> /\ count' = count - 1
        /\ Entries' = Entries
    BY <1>3 DEF DeliverDec, Entries
  <2>2. \A q \in Readers, d \in Calls : Decs(q, d)' <=> Decs(q, d) /\ q # r
    BY <1>3 DEF DeliverDec, Decs, ReadersType
  <2>3. rd[r].id \in Calls /\ Decs(r, rd[r].id)
    BY <1>3 DEF DeliverDec, Decs, ReaderOK, Calls
  <2>4. Alone'
    BY <1>1, <2>1, <2>2 DEF Alone
  <2>5. rd[r].id \in Charged /\ rd[r].id \notin Charged'
    BY <1>1, <2>1, <2>2, <2>3 DEF Charged, Alone
  <2>6. Charged' \subseteq Charged \ {rd[r].id}
    BY <2>1, <2>2, <2>5 DEF Charged
  <2> QED
    BY <1>1, <2>1, <2>4, <2>5, <2>6, CoversStep
<1>4. \A q \in Readers, d \in Calls : rd' = [rd EXCEPT ![r] = Idle] /\ rd[r].at # "dec"
                                      => (Decs(q, d)' <=> Decs(q, d))
  BY DEF Decs, ReadersType, Idle
<1>5. CASE DeliverSend(r)
  <2>1. UNCHANGED <<closed, pc, count, Entries>>
    BY <1>5 DEF DeliverSend, table, Entries
  <2>2. \A q \in Readers, d \in Calls : Decs(q, d)' <=> Decs(q, d)
    BY <1>4, <1>5 DEF DeliverSend
  <2>3. Alone' /\ Charged' \subseteq Charged
    BY <1>1, <2>1, <2>2 DEF Alone, Charged
  <2> QED
    BY <1>1, <2>1, <2>3, CoversStep
<1>6. CASE DeliverCall(r)
  <2>1. rd[r].id \in AsyncCalls /\ UNCHANGED <<closed, chMap, pc>>
    BY <1>6 DEF DeliverCall, ReaderOK
  <2>2. \A q \in Readers, d \in Calls : Decs(q, d)' <=> Decs(q, d)
    BY <1>4, <1>6 DEF DeliverCall
  <2>3. PICK o : RunClosure(rd[r].id, o)
    BY <1>6 DEF DeliverCall
  <2> QED
    BY <2>1, <2>2, <2>3, CountClosure
<1> QED
  BY <1>2, <1>3, <1>5, <1>6 DEF Deliverer

\* Stop may leave the counter anywhere, for nothing enters any more.
LEMMA CountStopper ==
  ASSUME CountInv, Stopper
  PROVE  Alone' /\ (~closed' => Covers')
<1> USE DEF CountInv, Closing, Owned, Typed, TypeOK
<1>1. closed'
  BY DEF Stopper, CloseBegin, CloseSweep, CloseReset, CloseCall, CloseLink, SweepAfterClosed
<1>2. UNCHANGED <<pc, rd>> /\ Entries' \subseteq Entries
  BY DEF Stopper, CloseBegin, CloseSweep, CloseReset, CloseCall, CloseLink, RunClosure,
     Entries, table, TableType
<1> QED
  BY <1>1, <1>2 DEF Alone, Decs

LEMMA CountStep == CountInv /\ [Next]_vars => CountInv'
<1> SUFFICES ASSUME CountInv, [Next]_vars PROVE CountInv'
  OBVIOUS
<1>1. Closing' /\ TableType'
  BY OwnedStep, ClosingStep DEF CountInv, Closing, Owned, Typed, TypeOK
<1>3. CASE Next
  BY <1>1, <1>3, CountInvoker, CountDeliverer, CountStopper DEF Next, CountInv
<1>4. CASE UNCHANGED vars
  <2>1. UNCHANGED <<closed, pc, rd, count, Entries>>
    BY <1>4 DEF vars, table, Entries
  <2>2. Alone' /\ (~closed' => Covers')
    BY <2>1 DEF CountInv, Alone, Covers, Charged, Decs
  <2> QED
    BY <1>1, <2>2 DEF CountInv
<1> QED
  BY <1>3, <1>4

\* Until Stop the counter of pending calls never falls below the number of entries of the
\* table, whatever calls, deliveries and the counter's own later updates are under way.
THEOREM CounterCovers == Spec => []CountCoversEntries
<1>1. Init => CountInv
  <2> SUFFICES ASSUME Init PROVE CountInv
    OBVIOUS
  <2>1. Charged = {} /\ count = 0
    BY DEF Init, Charged, Entries, Decs, Idle, Owing
  <2>2. Covers
    BY <2>1, FS_EmptySet DEF Covers
  <2>3. Alone
    BY DEF Init, Alone, Entries, Decs, Idle
  <2> QED
    BY <2>2, <2>3, OwnedInit DEF CountInv, Closing, Init, SweepAfterClosed, NothingLeftBehind, Entries
<1>2. CountInv => CountCoversEntries
  <2> SUFFICES ASSUME CountInv, ~closed PROVE Cardinality(Entries) <= count
    BY DEF CountCoversEntries
  <2>1. IsFiniteSet(Charged) /\ Cardinality(Charged) <= count /\ Entries \subseteq Charged
    BY DEF CountInv, Covers, Charged
  <2>2. /\ Cardinality(Entries) <= Cardinality(Charged)
        /\ Cardinality(Entries) \in Nat /\ Cardinality(Charged) \in Nat
    BY <2>1, FS_Subset, FS_CardinalityType
  <2> QED
    BY <2>1, <2>2 DEF CountInv, Closing, Owned, Typed, TypeOK, TableType
<1> QED
  BY <1>1, <1>2, CountStep, PTL DEF Spec

-----------------------------------------------------------------------------
(* The table implements OnceTable: an entry has entered, and whoever may still run a
   closure runs it for a call that has *)

InTable ==
  /\ \A c \in Entries : Entered(c)
  /\ \A r \in Readers : rd[r].at # "idle" => Entered(rd[r].id)
  /\ \A c \in stop.todo : Entered(c)
  /\ \A c \in Calls : outcome[c] \in Bad => pc[c] = "done"
  /\ closed <=> stop.phase # "open"

OnceTableInv == Owned /\ InTable

LEMMA StatusIs ==
  ASSUME NEW c \in Calls
  PROVE  Status[c] = IF c \in Entries THEN "waiting"
                     ELSE IF Entered(c) THEN "settled" ELSE "new"
BY DEF Status

\* A step that only takes entries away settles them all at once.
LEMMA TakesAway ==
  ASSUME Entries \subseteq Calls, Entries' \subseteq Entries, UNCHANGED closed,
         \A c \in Calls : Entered(c)' <=> Entered(c),
         \A c \in Entries : Entered(c)
  PROVE  Once!Next
<1> DEFINE Gone == Entries \ Entries'
<1>1. \A c \in Gone : Status[c] = "waiting"
  BY StatusIs
<1>2. Status' = [c \in Calls |-> IF c \in Gone THEN "settled" ELSE Status[c]]
  <2>1. \A c \in Calls : Status'[c] = IF c \in Entries' THEN "waiting"
                                      ELSE IF Entered(c)' THEN "settled" ELSE "new"
    BY DEF Status
  <2>2. \A c \in Calls : Status'[c] = IF c \in Gone THEN "settled" ELSE Status[c]
    BY <2>1, StatusIs
  <2>3. Status' = [c \in Calls |-> Status'[c]]
    BY DEF Status
  <2> QED
    BY <2>2, <2>3
<1>3. Once!Settle(Gone)
  BY <1>1, <1>2 DEF Once!Settle
<1> QED
  BY <1>3 DEF Once!Next

\* What a step of a call means to the table: it enters, or at most leaves.
LEMMA TableInvoker ==
  ASSUME OnceTableInv, NEW c \in Calls, Invoker(c)
  PROVE  Once!Next /\ InTable'
<1> USE DEF OnceTableInv, Owned
<1>1. /\ UNCHANGED <<closed, rd, stop>>
      /\ Counts(c) \/ Uncounts(c) \/ Enters(c) \/ Leaves(c) \/ Stays(c)
      /\ Proceeds(c)
  BY CallMoves
<1>2. \A d \in Calls \ {c} : /\ pc'[d] = pc[d] /\ outcome'[d] = outcome[d]
                             /\ d \in Entries' <=> d \in Entries
  BY OthersStay
<1>3. Entries \subseteq Calls /\ Entries' \subseteq Calls
  <2>1. Entries \subseteq Calls
    BY DEF Typed, TypeOK, TableType, Entries, Calls
  <2>2. Entries' \subseteq SyncCalls \cup cbMap' /\ cbMap' \subseteq cbMap \cup {c}
    BY DEF Entries, Invoker, InvokeStart, AddCheck, AddLimit, AddInc, AddCh, AddCallback,
       AddUndo, InvokeSend, InvokeReceive, InvokeGiveUp, DeferDelCh, DeferDrain, DeferDec,
       DeferProbe, AsyncSend, AsyncDrop, AsyncDropDec, AsyncTimeout, AsyncFire, AsyncDone,
       table
  <2> QED
    BY <2>1, <2>2 DEF Typed, TypeOK, TableType, Calls
<1>4. \A d \in Calls : Entered(d) <=> pc[d] \notin Fresh /\ ~(pc[d] = "done" /\ outcome[d] \in Bad)
  BY DEF Entered, Fresh, Bad
<1>5. \A d \in Calls : Entered(d)' <=> pc'[d] \notin Fresh /\ ~(pc'[d] = "done" /\ outcome'[d] \in Bad)
  BY DEF Entered, Fresh, Bad
<1>6. \A d \in Calls \ {c} : Entered(d)' <=> Entered(d)
  BY <1>2, <1>4, <1>5
<1>7. /\ Entered(c) => Entered(c)'
      /\ outcome'[c] \in Bad => pc'[c] = "done"
  BY <1>1, <1>4, <1>5 DEF InTable, Proceeds
<1>8. CASE Enters(c)
  <2>1. ~Entered(c) /\ c \notin Entries /\ ~closed /\ Entered(c)' /\ c \in Entries'
    BY <1>1, <1>4, <1>5, <1>8 DEF Enters, Fresh, InTable
  <2>2. Status[c] = "new"
    BY <2>1, StatusIs
  <2>3. Status' = [Status EXCEPT ![c] = "waiting"]
    <3>1. \A d \in Calls : Status'[d] = IF d \in Entries' THEN "waiting"
                                        ELSE IF Entered(d)' THEN "settled" ELSE "new"
      BY DEF Status
    <3>2. \A d \in Calls : Status'[d] = IF d = c THEN "waiting" ELSE Status[d]
      BY <1>2, <1>6, <2>1, <3>1, StatusIs
    <3> QED
      BY <3>2 DEF Status
  <2>4. Once!Enter(c)
    BY <1>1, <2>1, <2>2, <2>3 DEF Once!Enter
  <2>5. InTable'
    BY <1>1, <1>2, <1>3, <1>6, <1>7, <2>1 DEF InTable, Typed, TypeOK, StopType, ReadersType,
       ReaderOK, Calls
  <2> QED
    BY <2>4, <2>5 DEF Once!Next
<1>9. CASE ~Enters(c)
  <2>1. c \in Entries' => c \in Entries
    BY <1>1, <1>9, <1>4 DEF Counts, Uncounts, Leaves, Stays
  <2>2. Entered(c)' => Entered(c)
    BY <1>1, <1>4, <1>5, <1>9 DEF Proceeds
  <2>3. Entries' \subseteq Entries /\ \A d \in Calls : Entered(d)' <=> Entered(d)
    BY <1>2, <1>3, <1>6, <1>7, <2>1, <2>2
  <2>4. Once!Next
    BY <1>1, <1>3, <2>3, TakesAway DEF InTable
  <2>5. InTable'
    BY <1>1, <1>2, <1>3, <1>7, <2>3 DEF InTable, Typed, TypeOK, StopType, ReadersType,
       ReaderOK, Calls
  <2> QED
    BY <2>4, <2>5
<1> QED
  BY <1>8, <1>9

\* A step of a reader or of Stop takes entries away, hands closures on or runs them.
LEMMA TableTaker ==
  ASSUME OnceTableInv, Entries' \subseteq Entries, UNCHANGED <<closed, pc>>,
         stop'.phase # "open" <=> stop.phase # "open",
         \/ UNCHANGED outcome
         \/ \E c \in AsyncCalls, o \in {"success", "error", "internal"} :
               Entered(c) /\ Report(c, o),
         \A c \in stop'.todo : c \in stop.todo \/ c \in Entries,
         \A r \in Readers : rd'[r].at # "idle" =>
                              \/ rd'[r].id \in Entries
                              \/ rd[r].at # "idle" /\ rd'[r].id = rd[r].id
  PROVE  Once!Next /\ InTable'
<1> USE DEF OnceTableInv, Owned, Typed, TypeOK
<1>1. Entries \subseteq Calls
  BY DEF TableType, Entries, Calls
<1>2. ASSUME NEW c \in Calls
      PROVE  /\ Entered(c)' <=> Entered(c)
             /\ outcome'[c] \in Bad => outcome[c] \in Bad
  <2>1. CASE outcome'[c] = outcome[c]
    BY <2>1 DEF Entered
  <2>2. CASE outcome'[c] \in {"success", "error", "internal"} /\ Entered(c)
    BY <2>2 DEF Entered, Bad
  <2> QED
    BY <2>1, <2>2 DEF Report, ResultType
<1>3. Once!Next
  BY <1>1, <1>2, TakesAway DEF InTable
<1>4. InTable'
  BY <1>1, <1>2 DEF InTable, StopType, ReadersType, ReaderOK, Calls
<1> QED
  BY <1>3, <1>4

LEMMA TableDeliverer ==
  ASSUME OnceTableInv, NEW r \in Readers, Deliverer(r)
  PROVE  Once!Next /\ InTable'
<1> USE CallsDisjoint, NoChanOutside DEF OnceTableInv, Owned, Typed, TypeOK
<1>1. ASSUME NEW c \in Calls, DeliverTake(r, c) PROVE Once!Next /\ InTable'
  <2>1. UNCHANGED <<closed, pc, outcome, stop>>
    BY <1>1 DEF DeliverTake, result
  <2>2. Entries' \subseteq Entries
    BY <1>1 DEF DeliverTake, Entries, TableType, Calls
  <2>3. \A q \in Readers : rd'[q] = rd[q] \/ (rd'[q].id = c /\ c \in Entries)
    BY <1>1 DEF DeliverTake, Entries, ReadersType, TableType, Calls
  <2> QED
    BY <2>1, <2>2, <2>3, TableTaker
<1>2. CASE DeliverDec(r) \/ DeliverSend(r)
  <2>1. UNCHANGED <<closed, pc, outcome, stop, Entries>>
    BY <1>2 DEF DeliverDec, DeliverSend, result, table, Entries
  <2>2. \A q \in Readers : rd'[q].at # "idle" => rd[q].at # "idle" /\ rd'[q].id = rd[q].id
    <3>1. CASE DeliverDec(r)
      BY <3>1 DEF DeliverDec, ReadersType
    <3>2. CASE DeliverSend(r)
      BY <3>2 DEF DeliverSend, ReadersType, Idle
    <3> QED
      BY <1>2, <3>1, <3>2
  <2> QED
    BY <2>1, <2>2, TableTaker
<1>3. CASE DeliverCall(r)
  <2>1. /\ UNCHANGED <<closed, pc, stop>> /\ rd[r].id \in AsyncCalls
        /\ Entered(rd[r].id)
    BY <1>3 DEF DeliverCall, ReaderOK, InTable
  <2>2. PICK o \in {"success", "error", "internal"} : RunClosure(rd[r].id, o)
    BY <1>3 DEF DeliverCall
  <2>3. Entries' \subseteq Entries /\ Report(rd[r].id, o)
    BY <1>3, <2>2 DEF DeliverCall, RunClosure, CallBack, Entries
  <2>4. \A q \in Readers : rd'[q].at # "idle" => rd[q].at # "idle" /\ rd'[q].id = rd[q].id
    BY <1>3 DEF DeliverCall, ReadersType, Idle
  <2> QED
    BY <2>1, <2>2, <2>3, <2>4, TableTaker
<1> QED
  BY <1>1, <1>2, <1>3 DEF Deliverer

LEMMA TableStopper ==
  ASSUME OnceTableInv, Stopper
  PROVE  Once!Next /\ InTable'
<1> USE DEF OnceTableInv, Owned, Typed, TypeOK
<1>1. UNCHANGED rd
  BY DEF Stopper, CloseBegin, CloseSweep, CloseReset, CloseCall, CloseLink
<1>2. CASE CloseBegin
  <2>1. /\ ~closed /\ closed' = TRUE /\ stop'.phase = "sweep" /\ stop'.todo = stop.todo
        /\ UNCHANGED <<pc, outcome, Entries>>
    BY <1>2 DEF CloseBegin, result, table, Entries, InTable, StopType
  <2>2. UNCHANGED Status
    BY <2>1 DEF Status, Entered
  <2>3. Once!Close
    BY <2>1, <2>2 DEF Once!Close
  <2>4. InTable'
    BY <1>1, <2>1 DEF InTable, Entered
  <2> QED
    BY <2>3, <2>4 DEF Once!Next
<1>3. ASSUME NEW s \in Shards, CloseSweep(s) PROVE Once!Next /\ InTable'
  <2>1. UNCHANGED <<closed, pc, outcome>> /\ stop'.phase = stop.phase
    BY <1>3 DEF CloseSweep, result, StopType
  <2>2. Entries' \subseteq Entries
    BY <1>3 DEF CloseSweep, Entries, TableType
  <2>3. \A c \in stop'.todo : c \in stop.todo \/ c \in Entries
    BY <1>3 DEF CloseSweep, Entries, StopType
  <2> QED
    BY <1>1, <2>1, <2>2, <2>3, TableTaker
<1>4. CASE CloseReset \/ CloseLink
  <2>1. /\ UNCHANGED <<closed, pc, outcome, Entries>> /\ stop'.todo = stop.todo
        /\ stop.phase # "open" /\ stop'.phase # "open"
    BY <1>4 DEF CloseReset, CloseLink, result, table, Entries, StopType
  <2> QED
    BY <1>1, <2>1, TableTaker
<1>5. ASSUME NEW c \in AsyncCalls, CloseCall(c) PROVE Once!Next /\ InTable'
  <2>1. /\ UNCHANGED <<closed, pc>> /\ stop'.phase = stop.phase
        /\ stop'.todo = stop.todo \ {c} /\ Entered(c)
    BY <1>5 DEF CloseCall, StopType, InTable
  <2>2. Entries' \subseteq Entries /\ Report(c, "error")
    BY <1>5 DEF CloseCall, RunClosure, CallBack, Entries
  <2> QED
    BY <1>1, <2>1, <2>2, TableTaker
<1> QED
  BY <1>2, <1>3, <1>4, <1>5 DEF Stopper

\* The table of pending.go implements OnceTable: an id enters at most once, only while the
\* table is open, and leaves once, whoever of response, timeout, caller and Stop takes it.
THEOREM TableImplementsOnce == Spec => ImplementsOnceTable
<1>1. Init => OnceTableInv /\ Once!Init
  <2> SUFFICES ASSUME Init PROVE InTable /\ Once!Init
    BY OwnedInit DEF OnceTableInv
  <2>1. Entries = {} /\ \A c \in Calls : pc[c] = "idle" /\ outcome[c] = "none"
    BY DEF Init, Entries
  <2>2. InTable
    BY <2>1 DEF Init, InTable, Idle, Bad
  <2>3. Status = [c \in Calls |-> "new"]
    BY <2>1 DEF Status, Entered
  <2> QED
    BY <2>2, <2>3 DEF Once!Init, Init
<1>2. OnceTableInv /\ [Next]_vars => OnceTableInv' /\ [Once!Next]_<<Status, ~closed>>
  <2> SUFFICES ASSUME OnceTableInv, [Next]_vars
               PROVE  InTable' /\ [Once!Next]_<<Status, ~closed>>
    BY OwnedStep DEF OnceTableInv
  <2>1. CASE Next
    BY <2>1, TableInvoker, TableDeliverer, TableStopper DEF Next
  <2>2. CASE UNCHANGED vars
    <3>1. UNCHANGED <<closed, pc, rd, stop, outcome, Entries>>
      BY <2>2 DEF vars, table, result, Entries
    <3>2. UNCHANGED Status
      BY <3>1 DEF Status, Entered
    <3> QED
      BY <3>1, <3>2 DEF OnceTableInv, InTable, Entered
  <2> QED
    BY <2>1, <2>2
<1> QED
  BY <1>1, <1>2, PTL DEF Spec, ImplementsOnceTable, Once!Spec

-----------------------------------------------------------------------------
(* Without a timeout or a cancellation a frame is always on its way to the Invoke that owns
   the channel it travels on: its entry, a deliver and the buffer hold it one after the
   other *)

GaveUp(c) == outcome[c] \in {"timeout", "canceled"}
NobodyGaveUp     == \A c \in SyncCalls : ~GaveUp(c)
OnTheWayOut   == {"del", "drain", "dec", "probe", "done"}

\* An entry is the caller's own channel, open and empty, with no deliver on its way.
EntryOwn(c) ==
  chMap[c] # NoChan =>
    /\ pc[c] \in {"send", "wait", "del"} /\ (c \in awaited => pc[c] = "wait")
    /\ chMap[c] = ch[c] /\ ch[c] \notin shut /\ buf[ch[c]] = NoCall
    /\ \A r \in Readers : ~Runs(r, c)

\* A deliver that took the entry carries the channel of the call that waits for it.
CarriesOwn(r, c) ==
  Runs(r, c) =>
    /\ pc[c] = "wait" /\ rd[r].chan = ch[c] /\ ch[c] \notin shut /\ buf[ch[c]] = NoCall
    /\ \A q \in Readers : Runs(q, c) => q = r

\* A frame in a buffer is that of the call that waits there.
BufferOwn(x) ==
  buf[x] # NoCall => pc[buf[x]] = "wait" /\ ch[buf[x]] = x /\ x \notin shut

OwnPaths ==
  /\ \A c \in SyncCalls : /\ got[c] \in {NoCall, c}
                          /\ EntryOwn(c)
                          /\ pc[c] = "drain" => ch[c] \notin shut
                          /\ c \in awaited => pc[c] \notin Fresh \cup {"send"}
  /\ \A r \in Readers, c \in SyncCalls : CarriesOwn(r, c)
  /\ \A x \in Chans : BufferOwn(x) /\ (pool[x] > 0 => x \notin shut)
  /\ shut \subseteq made

CrossInv == /\ Owned
            /\ \A c \in SyncCalls : GaveUp(c) => pc[c] \in OnTheWayOut
            /\ NobodyGaveUp => OwnPaths

\* Who gives up stays with it, on its way out.
LEMMA GiveUpStays ==
  ASSUME CrossInv, Next, NEW d \in SyncCalls
  PROVE  /\ GaveUp(d) => GaveUp(d)'
         /\ GaveUp(d)' => pc'[d] \in OnTheWayOut
<1> USE CallsDisjoint DEF CrossInv, Owned, Typed, TypeOK, GaveUp, OnTheWayOut
<1>1. ASSUME NEW c \in Calls, Invoker(c), c # d
      PROVE  pc'[d] = pc[d] /\ outcome'[d] = outcome[d]
  BY <1>1, OthersStay DEF Calls
<1>2. ASSUME Invoker(d)
      PROVE  /\ GaveUp(d) => GaveUp(d)'
             /\ GaveUp(d)' => pc'[d] \in OnTheWayOut
  <2> USE DEF Goto, PcType, ResultType, Calls
  <2>1. CASE InvokeStart(d) \/ AddCheck(d) \/ AddLimit(d) \/ AddUndo(d)
    BY <2>1 DEF InvokeStart, AddCheck, AddLimit, AddUndo, Refuse, Report
  <2>2. CASE AddInc(d) \/ AddCh(d) \/ AddCallback(d)
    BY <2>2 DEF AddInc, AddCh, AddCallback, result
  <2>3. CASE InvokeSend(d) \/ InvokeReceive(d) \/ InvokeGiveUp(d)
    BY <2>3 DEF InvokeSend, InvokeReceive, InvokeGiveUp, Report
  <2>4. CASE DeferDelCh(d) \/ DeferDrain(d) \/ DeferDec(d) \/ DeferProbe(d)
    BY <2>4 DEF DeferDelCh, DeferDrain, DeferDec, DeferProbe, result
  <2>5. ~(AsyncSend(d) \/ AsyncDrop(d) \/ AsyncDropDec(d) \/ AsyncTimeout(d) \/ AsyncFire(d)
          \/ AsyncDone(d))
    BY DEF AsyncSend, AsyncDrop, AsyncDropDec, AsyncTimeout, AsyncFire, AsyncDone, CallsType,
       Common, SyncOnly
  <2> QED
    BY <1>2, <2>1, <2>2, <2>3, <2>4, <2>5 DEF Invoker
<1>3. ASSUME NEW r \in Readers, Deliverer(r)
      PROVE  pc'[d] = pc[d] /\ outcome'[d] = outcome[d]
  <2>1. CASE DeliverCall(r)
    <3>1. rd[r].id \in AsyncCalls /\ UNCHANGED pc
      BY <2>1 DEF DeliverCall, ReaderOK
    <3>2. \E o : Report(rd[r].id, o)
      BY <2>1 DEF DeliverCall, RunClosure, CallBack
    <3> QED
      BY <3>1, <3>2 DEF Report, ResultType, Calls
  <2>2. CASE ~DeliverCall(r)
    BY <1>3, <2>2 DEF Deliverer, DeliverTake, DeliverDec, DeliverSend, result
  <2> QED
    BY <2>1, <2>2
<1>4. ASSUME Stopper PROVE pc'[d] = pc[d] /\ outcome'[d] = outcome[d]
  BY <1>4 DEF Stopper, CloseBegin, CloseSweep, CloseReset, CloseCall, CloseLink, RunClosure,
     CallBack, Report, ResultType, result, Calls
<1> QED
  BY <1>1, <1>2, <1>3, <1>4 DEF Next

Holder == \A c \in SyncCalls : Holds(c) => ch[c] \in Chans

LEMMA HolderInChans == Owned => Holder
BY DEF Owned, Typed, TypeOK, MadeOK, ChansType, Holder

\* A step of an Invoke touches its own part, empties at most its own buffer and puts only
\* open channels back.
LEMMA OwnKept ==
  ASSUME Owned, OwnPaths, NEW c \in SyncCalls, UNCHANGED <<rd, shut>>,
         \A d \in SyncCalls \ {c} :
            /\ pc'[d] = pc[d] /\ ch'[d] = ch[d] /\ chMap'[d] = chMap[d] /\ got'[d] = got[d]
            /\ d \in awaited' <=> d \in awaited,
         \A x \in Chans : buf'[x] \in {buf[x], NoCall},
         made \subseteq made',
         got'[c] \in {NoCall, c},
         EntryOwn(c)',
         pc'[c] = "drain" => ch'[c] \notin shut,
         c \in awaited' => pc'[c] \notin Fresh \cup {"send"},
         \A r \in Readers : CarriesOwn(r, c)',
         \A x \in Chans : buf'[x] = c => pc'[c] = "wait" /\ ch'[c] = x /\ x \notin shut,
         \A x \in Chans : pool'[x] > 0 => x \notin shut
  PROVE  OwnPaths'
<1> USE DEF OwnPaths
<1>1. ASSUME NEW d \in SyncCalls \ {c}
      PROVE  /\ EntryOwn(d)' /\ \A r \in Readers : CarriesOwn(r, d)'
             /\ got'[d] \in {NoCall, d} /\ (pc'[d] = "drain" => ch'[d] \notin shut')
             /\ d \in awaited' => pc'[d] \notin Fresh \cup {"send"}
  <2>1. EntryOwn(d)'
    <3>1. EntryOwn(d) /\ (Holds(d) => ch[d] \in Chans)
      BY HolderInChans DEF Holder
    <3> QED
      BY <3>1 DEF EntryOwn, Holds, Runs
  <2>2. ASSUME NEW r \in Readers PROVE CarriesOwn(r, d)'
    <3>1. CarriesOwn(r, d) /\ (Holds(d) => ch[d] \in Chans)
      BY HolderInChans DEF Holder
    <3> QED
      BY <3>1 DEF CarriesOwn, Holds, Runs
  <2> QED
    BY <2>1, <2>2
<1>2. ASSUME NEW x \in Chans PROVE BufferOwn(x)'
  <2>1. BufferOwn(x) /\ buf'[x] \in {buf[x], NoCall}
    OBVIOUS
  <2>2. CASE buf'[x] = c
    BY <2>2 DEF BufferOwn
  <2>3. CASE buf'[x] # c
    <3>1. buf[x] \in SyncCalls \cup {NoCall}
      BY DEF Owned, Typed, TypeOK, ChansType
    <3> QED
      BY <2>1, <2>3, <3>1 DEF BufferOwn
  <2> QED
    BY <2>2, <2>3
<1> QED
  BY <1>1, <1>2

\* What a step of an Invoke leaves alone in the calls of others.
LEMMA PathsStay ==
  ASSUME Typed, NEW c \in Calls, Invoker(c), NEW d \in SyncCalls \ {c}
  PROVE  /\ pc'[d] = pc[d] /\ ch'[d] = ch[d] /\ chMap'[d] = chMap[d] /\ got'[d] = got[d]
         /\ d \in awaited' <=> d \in awaited
<1> USE DEF Typed, TypeOK
<1>1. pc'[d] = pc[d]
  BY OthersStay DEF Calls
<1>2. chMap' = chMap \/ \E x : chMap' = [chMap EXCEPT ![c] = x]
  BY DEF Invoker, InvokeStart, AddCheck, AddLimit, AddInc, AddCh, AddCallback,
     AddUndo, InvokeSend, InvokeReceive, InvokeGiveUp, DeferDelCh, DeferDrain,
     DeferDec, DeferProbe, AsyncSend, AsyncDrop, AsyncDropDec, AsyncTimeout,
     AsyncFire, AsyncDone, table
<1>3. /\ ch' = ch \/ \E x : ch' = [ch EXCEPT ![c] = x]
      /\ got' = got \/ \E x : got' = [got EXCEPT ![c] = x]
      /\ awaited' = awaited \/ awaited' = awaited \cup {c}
  BY DEF Invoker, InvokeStart, AddCheck, AddLimit, AddInc, AddCh, AddCallback,
     AddUndo, InvokeSend, InvokeReceive, InvokeGiveUp, DeferDelCh, DeferDrain,
     DeferDec, DeferProbe, AsyncSend, AsyncDrop, AsyncDropDec, AsyncTimeout,
     AsyncFire, AsyncDone, sync
<1> QED
  BY <1>1, <1>2, <1>3 DEF TableType, CallsType

LEMMA OwnInvoker ==
  ASSUME Owned, OwnPaths, NobodyGaveUp', NEW c \in SyncCalls, Invoker(c)
  PROVE  OwnPaths'
<1> USE CallsDisjoint, NoChanOutside, NoCallOutside
<1>1. \A d \in SyncCalls \ {c} :
            /\ pc'[d] = pc[d] /\ ch'[d] = ch[d] /\ chMap'[d] = chMap[d] /\ got'[d] = got[d]
            /\ d \in awaited' <=> d \in awaited
  BY PathsStay DEF Owned, Calls
<1>2. UNCHANGED <<rd, shut>> /\ c \in Calls
  BY DEF Invoker, InvokeStart, AddCheck, AddLimit, AddInc, AddCh, AddCallback,
     AddUndo, InvokeSend, InvokeReceive, InvokeGiveUp, DeferDelCh, DeferDrain,
     DeferDec, DeferProbe, AsyncSend, AsyncDrop, AsyncDropDec, AsyncTimeout,
     AsyncFire, AsyncDone, chans, Calls
<1>3. /\ EntryOwn(c) /\ \A r \in Readers : CarriesOwn(r, c)
      /\ \A x \in Chans : BufferOwn(x) /\ (pool[x] > 0 => x \notin shut)
      /\ got[c] \in {NoCall, c} /\ (pc[c] = "drain" => ch[c] \notin shut)
      /\ c \in awaited => pc[c] \notin Fresh \cup {"send"}
      /\ c # NoCall
  BY DEF OwnPaths, Calls
<1>4. /\ Holds(c) => ch[c] \in Chans
      /\ \A d \in SyncCalls : Holds(c) /\ Holds(d) /\ d # c => ch[d] # ch[c]
      /\ \A x \in Chans : buf[x] \in SyncCalls \cup {NoCall}
      /\ chMap[c] \in Chans \cup {NoChan} /\ made \subseteq Chans
  BY HolderInChans DEF Holder, Owned, ChanExclusive, Typed, TypeOK, ChansType, TableType
\* Before the call holds a channel nothing of it is under way.
<1>5. CASE UNCHANGED <<chMap, buf, pool, made, ch, got, awaited>> /\ pc[c] \in Fresh
           /\ pc'[c] \in Fresh \cup {"done"}
  <2>1. /\ chMap[c] = NoChan /\ \A r \in Readers : ~Runs(r, c)
        /\ \A x \in Chans : buf[x] # c
    BY <1>3, <1>5 DEF EntryOwn, CarriesOwn, BufferOwn, Fresh
  <2>2. EntryOwn(c)' /\ (\A r \in Readers : CarriesOwn(r, c)') /\ pc'[c] # "drain" /\ c \notin awaited
    BY <1>2, <1>3, <1>5, <2>1 DEF EntryOwn, CarriesOwn, Runs, Fresh
  <2> QED
    BY <1>1, <1>2, <1>3, <1>5, <2>1, <2>2, OwnKept
<1>6. CASE AddCh(c) /\ ~closed
  <2>1. PICK x \in Chans : PoolGet(x) /\ chMap' = [chMap EXCEPT ![c] = x]
                           /\ ch' = [ch EXCEPT ![c] = x]
    BY <1>6 DEF AddCh
  <2>2. chMap'[c] = x /\ ch'[c] = x /\ pc[c] = "lock" /\ pc'[c] = "send"
        /\ UNCHANGED <<buf, got, awaited>>
    BY <1>2, <1>6, <2>1 DEF AddCh, Goto, Owned, Typed, TypeOK, TableType, CallsType, PcType
  <2>3. x \notin shut /\ buf[x] = NoCall /\ made \subseteq made'
    BY <1>3, <1>4, <2>1 DEF PoolGet, OwnPaths, BufferOwn, Holds, Owned, ChanExclusive, Typed,
       MadeOK, TypeOK, ChansType
  <2>4. /\ \A r \in Readers : ~Runs(r, c)
        /\ \A y \in Chans : buf[y] # c
        /\ c \notin awaited
    BY <1>3, <2>2 DEF CarriesOwn, BufferOwn, Fresh
  <2>5. EntryOwn(c)' /\ \A r \in Readers : CarriesOwn(r, c)'
    BY <1>2, <2>2, <2>3, <2>4 DEF EntryOwn, CarriesOwn, Runs
  <2>6. \A y \in Chans : pool'[y] > 0 => y \notin shut
    BY <1>3, <2>1 DEF PoolGet, Owned, Typed, TypeOK, ChansType
  <2> QED
    BY <1>1, <1>2, <1>3, <2>2, <2>3, <2>4, <2>5, <2>6, OwnKept
<1>7. CASE InvokeSend(c)
  <2>1. /\ pc[c] = "send" /\ UNCHANGED <<chMap, buf, pool, made, ch, got>>
        /\ \/ pc'[c] = "wait"
           \/ pc'[c] = "del" /\ UNCHANGED awaited
    BY <1>2, <1>7 DEF InvokeSend, Goto, table, chans, sync, Owned, Typed, TypeOK, PcType
  <2>2. /\ \A r \in Readers : ~Runs(r, c)
        /\ \A x \in Chans : buf[x] # c
        /\ c \notin awaited
    BY <1>3, <2>1 DEF CarriesOwn, BufferOwn
  <2>3. /\ EntryOwn(c)' /\ (\A r \in Readers : CarriesOwn(r, c)')
        /\ c \in awaited' => pc'[c] \notin Fresh \cup {"send"}
    BY <1>2, <1>3, <2>1, <2>2 DEF EntryOwn, CarriesOwn, Runs, Fresh
  <2> QED
    BY <1>1, <1>2, <1>3, <2>1, <2>2, <2>3, OwnKept
\* It finds its own frame, or its channel closed and empty.
<1>8. CASE InvokeReceive(c)
  <2>1. /\ pc[c] = "wait" /\ pc'[c] = "del" /\ ch[c] \in Chans
        /\ UNCHANGED <<chMap, pool, made, ch, awaited>>
    BY <1>2, <1>4, <1>8 DEF InvokeReceive, Goto, table, Holds, Owned, Typed, TypeOK, PcType
  <2>2. /\ buf[ch[c]] # NoCall => buf[ch[c]] = c
        /\ \A x \in Chans : buf[x] = c => x = ch[c]
    BY <1>3, <1>4, <2>1 DEF BufferOwn, Holds
  <2>3. /\ \A x \in Chans : buf'[x] = IF x = ch[c] THEN NoCall ELSE buf[x]
        /\ got'[c] \in {NoCall, c}
    BY <1>3, <1>8, <2>1, <2>2 DEF InvokeReceive, Owned, Typed, TypeOK, ChansType, CallsType
  <2>4. chMap[c] = NoChan /\ \A r \in Readers : ~Runs(r, c)
    BY <1>3, <1>8, <2>1 DEF InvokeReceive, EntryOwn, CarriesOwn
  <2>5. EntryOwn(c)' /\ \A r \in Readers : CarriesOwn(r, c)'
    BY <1>2, <2>1, <2>4 DEF EntryOwn, CarriesOwn, Runs
  <2> QED
    BY <1>1, <1>2, <1>3, <2>1, <2>2, <2>3, <2>5, OwnKept DEF Fresh
<1>9. ~InvokeGiveUp(c)
  BY <1>2 DEF InvokeGiveUp, Report, NobodyGaveUp, GaveUp, Owned, Typed, TypeOK, ResultType
\* After it has received there is nothing left to discard.
<1>10. CASE DeferDelCh(c) \/ DeferDrain(c) \/ DeferDec(c) \/ DeferProbe(c)
  <2>1. /\ pc[c] \in OnTheWayOut \ {"done"} /\ pc'[c] \in OnTheWayOut /\ UNCHANGED <<ch, got, awaited, made>>
        /\ pc[c] # "del" => UNCHANGED chMap
    BY <1>2, <1>10 DEF DeferDelCh, DeferDrain, DeferDec, DeferProbe, Goto, table, chans, sync,
       Owned, Typed, TypeOK, PcType, OnTheWayOut
  <2>2. /\ \A r \in Readers : ~Runs(r, c)
        /\ \A x \in Chans : buf[x] # c
    BY <1>3, <2>1 DEF CarriesOwn, BufferOwn, OnTheWayOut
  <2>3. chMap'[c] = NoChan
    <3>1. CASE pc[c] = "del"
      BY <1>10, <3>1 DEF DeferDelCh, DeferDrain, DeferDec, DeferProbe, Owned, Typed, TypeOK,
         TableType
    <3>2. CASE pc[c] # "del"
      BY <1>3, <2>1, <3>2 DEF EntryOwn, OnTheWayOut
    <3> QED
      BY <3>1, <3>2
  <2>4. EntryOwn(c)' /\ \A r \in Readers : CarriesOwn(r, c)'
    BY <1>2, <2>2, <2>3 DEF EntryOwn, CarriesOwn, Runs
  <2>5. pc'[c] = "drain" => ch[c] \notin shut
    BY <1>3, <1>10 DEF DeferDelCh, DeferDrain, DeferDec, DeferProbe, EntryOwn, Goto, Owned,
       Typed, TypeOK, PcType, Calls
  <2>6. /\ \A x \in Chans : buf'[x] \in {buf[x], NoCall}
        /\ \A x \in Chans : pool'[x] > 0 => x \notin shut
    <3>1. CASE DeferDelCh(c) \/ DeferDec(c)
      BY <1>3, <3>1 DEF DeferDelCh, DeferDec, chans
    <3>2. CASE DeferDrain(c)
      <4>1. buf' = [buf EXCEPT ![ch[c]] = NoCall] /\ pool' = [pool EXCEPT ![ch[c]] = @ + 1]
            /\ ch[c] \notin shut
        BY <1>3, <3>2 DEF DeferDrain, PoolPut
      <4> QED
        BY <1>3, <4>1 DEF Owned, Typed, TypeOK, ChansType
    <3>3. CASE DeferProbe(c)
      <4>1. ch[c] \in Chans /\ pc[c] = "probe"
        BY <1>4, <3>3 DEF DeferProbe, Holds
      <4>2. buf[ch[c]] = NoCall
        BY <1>3, <1>4, <2>2, <4>1 DEF BufferOwn, Holds
      <4>3. /\ UNCHANGED buf
            /\ \/ UNCHANGED pool
               \/ ch[c] \notin shut /\ pool' = [pool EXCEPT ![ch[c]] = @ + 1]
        BY <3>3, <4>2 DEF DeferProbe, PoolPut
      <4> QED
        BY <1>3, <4>3 DEF Owned, Typed, TypeOK, ChansType
    <3> QED
      BY <1>10, <3>1, <3>2, <3>3
  <2> QED
    BY <1>1, <1>2, <1>3, <2>1, <2>2, <2>4, <2>5, <2>6, OwnKept DEF OnTheWayOut, Fresh
<1>11. CASE InvokeStart(c) \/ AddCheck(c) \/ AddLimit(c) \/ AddInc(c) \/ AddUndo(c)
            \/ (AddCh(c) /\ closed)
  <2>1. /\ UNCHANGED <<chMap, buf, pool, made, ch, got, awaited>>
        /\ pc[c] \in Fresh /\ pc'[c] \in Fresh \cup {"done"}
    BY <1>2, <1>11 DEF InvokeStart, AddCheck, AddLimit, AddInc, AddUndo, AddCh, Refuse, Goto,
       table, chans, sync, Fresh, Owned, Typed, TypeOK, PcType
  <2> QED
    BY <1>5, <2>1
<1>12. ~(AddCallback(c) \/ AsyncSend(c) \/ AsyncDrop(c) \/ AsyncDropDec(c) \/ AsyncTimeout(c)
         \/ AsyncFire(c) \/ AsyncDone(c))
  BY DEF AddCallback, AsyncSend, AsyncDrop, AsyncDropDec, AsyncTimeout, AsyncFire, AsyncDone,
     Common, SyncOnly, Owned, Typed, TypeOK, PcType, CallsType
<1> QED
  BY <1>6, <1>7, <1>8, <1>9, <1>10, <1>11, <1>12 DEF Invoker

\* A step of an InvokeAsync has no part in channels.
LEMMA OwnAsync ==
  ASSUME Owned, OwnPaths, NEW c \in AsyncCalls, Invoker(c)
  PROVE  OwnPaths'
<1> USE CallsDisjoint
<1>1. \A d \in SyncCalls : /\ pc'[d] = pc[d] /\ ch'[d] = ch[d] /\ chMap'[d] = chMap[d]
                           /\ got'[d] = got[d] /\ (d \in awaited' <=> d \in awaited)
  BY PathsStay DEF Owned, Calls
<1>2. UNCHANGED <<rd, shut, buf, pool, made>>
  BY DEF Invoker, InvokeStart, AddCheck, AddLimit, AddInc, AddCh, AddCallback,
     AddUndo, InvokeSend, InvokeReceive, InvokeGiveUp, DeferDelCh, DeferDrain,
     DeferDec, DeferProbe, AsyncSend, AsyncDrop, AsyncDropDec, AsyncTimeout,
     AsyncFire, AsyncDone, chans, Owned, Typed, TypeOK, PcType, Common, AsyncOnly
<1>3. ASSUME NEW x \in Chans PROVE BufferOwn(x)'
  <2>1. BufferOwn(x) /\ buf[x] \in SyncCalls \cup {NoCall}
    BY DEF OwnPaths, Owned, Typed, TypeOK, ChansType
  <2> QED
    BY <1>1, <1>2, <2>1 DEF BufferOwn
<1>4. ASSUME NEW d \in SyncCalls PROVE EntryOwn(d)' /\ \A r \in Readers : CarriesOwn(r, d)'
  BY <1>1, <1>2 DEF OwnPaths, EntryOwn, CarriesOwn, Runs
<1> QED
  BY <1>1, <1>2, <1>3, <1>4 DEF OwnPaths

LEMMA OwnDeliverer ==
  ASSUME Owned, OwnPaths, NEW r \in Readers, Deliverer(r)
  PROVE  OwnPaths'
<1> USE CallsDisjoint, NoChanOutside, NoCallOutside
<1>1. UNCHANGED <<pc, ch, got, made, pool, shut>>
  BY DEF Deliverer, DeliverTake, DeliverDec, DeliverSend, DeliverCall, chans, sync
<1>2. /\ \A d \in SyncCalls : Holds(d) => ch[d] \in Chans
      /\ \A d, e \in SyncCalls : Holds(d) /\ Holds(e) /\ d # e => ch[d] # ch[e]
  BY HolderInChans DEF Holder, Owned, ChanExclusive
\* Steps that leave entries, buffers and the tokens of sync calls where they are.
<1>3. ASSUME UNCHANGED <<chMap, buf>>, awaited' \subseteq awaited,
             \A q \in Readers, d \in SyncCalls :
                (Runs(q, d)' <=> Runs(q, d)) /\ (Runs(q, d) => rd'[q].chan = rd[q].chan)
      PROVE  OwnPaths'
  <2>1. \A x \in Chans : BufferOwn(x)'
    BY <1>1, <1>3 DEF OwnPaths, BufferOwn
  <2>2. \A d \in SyncCalls : EntryOwn(d)'
    BY <1>1, <1>3 DEF OwnPaths, EntryOwn
  <2>3. \A q \in Readers, d \in SyncCalls : CarriesOwn(q, d)'
    BY <1>1, <1>3 DEF OwnPaths, CarriesOwn
  <2> QED
    BY <1>1, <1>3, <2>1, <2>2, <2>3 DEF OwnPaths
\* The entry becomes the token of this reader.
<1>4. ASSUME NEW c \in SyncCalls, DeliverTake(r, c), chMap[c] # NoChan PROVE OwnPaths'
  <2>1. /\ chMap' = [chMap EXCEPT ![c] = NoChan] /\ awaited' = awaited \ {c} /\ c \in awaited
        /\ rd' = [rd EXCEPT ![r] = [at |-> "dec", id |-> c, chan |-> chMap[c]]]
        /\ rd[r].at = "idle" /\ UNCHANGED buf
    BY <1>4 DEF DeliverTake, chans
  <2>2. \A d \in SyncCalls : chMap'[d] = IF d = c THEN NoChan ELSE chMap[d]
    BY <2>1 DEF Owned, Typed, TypeOK, TableType
  <2>3. /\ \A q \in Readers \ {r} : rd'[q] = rd[q]
        /\ rd'[r] = [at |-> "dec", id |-> c, chan |-> chMap[c]]
    BY <2>1 DEF Owned, Typed, TypeOK, ReadersType
  <2>4. EntryOwn(c)
    BY DEF OwnPaths
  <2>5. \A q \in Readers, d \in SyncCalls : CarriesOwn(q, d)'
    <3>1. ASSUME NEW q \in Readers, NEW d \in SyncCalls \ {c} PROVE CarriesOwn(q, d)'
      <4>1. CarriesOwn(q, d)
        BY DEF OwnPaths
      <4> QED
        BY <1>1, <2>1, <2>3, <4>1 DEF CarriesOwn, Runs
    <3>2. ASSUME NEW q \in Readers PROVE CarriesOwn(q, c)'
      BY <1>1, <1>4, <2>1, <2>3, <2>4 DEF CarriesOwn, EntryOwn, Runs
    <3> QED
      BY <3>1, <3>2
  <2>6. \A d \in SyncCalls : EntryOwn(d)'
    <3> SUFFICES ASSUME NEW d \in SyncCalls \ {c} PROVE EntryOwn(d)'
      BY <2>2 DEF EntryOwn
    <3>1. EntryOwn(d)
      BY DEF OwnPaths
    <3> QED
      BY <1>1, <2>1, <2>2, <2>3, <3>1 DEF EntryOwn, Runs
  <2>7. \A x \in Chans : BufferOwn(x)'
    BY <1>1, <2>1 DEF OwnPaths, BufferOwn
  <2> QED
    BY <1>1, <2>1, <2>5, <2>6, <2>7 DEF OwnPaths
<1>5. ASSUME NEW c \in SyncCalls, DeliverTake(r, c), chMap[c] = NoChan PROVE OwnPaths'
  <2>1. UNCHANGED <<chMap, buf, rd>> /\ awaited' \subseteq awaited
    BY <1>5 DEF DeliverTake, chans, Owned, Typed, TypeOK, TableType
  <2> QED
    BY <1>3, <2>1 DEF Runs
<1>6. ASSUME NEW c \in AsyncCalls, DeliverTake(r, c) PROVE OwnPaths'
  <2>1. /\ UNCHANGED <<chMap, buf>> /\ awaited' \subseteq awaited /\ rd[r].at = "idle"
        /\ \/ UNCHANGED rd
           \/ rd' = [rd EXCEPT ![r] = [at |-> "dec", id |-> c, chan |-> NoChan]]
    BY <1>6 DEF DeliverTake, chans
  <2>2. \A q \in Readers, d \in SyncCalls :
            (Runs(q, d)' <=> Runs(q, d)) /\ (Runs(q, d) => rd'[q].chan = rd[q].chan)
    BY <2>1 DEF Runs, Owned, Typed, TypeOK, ReadersType
  <2> QED
    BY <1>3, <2>1, <2>2
<1>7. CASE DeliverDec(r)
  <2>1. /\ UNCHANGED <<chMap, buf, awaited>> /\ rd[r].at = "dec"
        /\ rd' = [rd EXCEPT ![r].at = "hand"]
    BY <1>7 DEF DeliverDec, chans
  <2>2. \A q \in Readers, d \in SyncCalls :
            (Runs(q, d)' <=> Runs(q, d)) /\ (Runs(q, d) => rd'[q].chan = rd[q].chan)
    BY <2>1 DEF Runs, Owned, Typed, TypeOK, ReadersType
  <2> QED
    BY <1>3, <2>1, <2>2
<1>8. CASE DeliverCall(r)
  <2>1. /\ UNCHANGED <<chMap, buf, awaited>> /\ rd' = [rd EXCEPT ![r] = Idle]
        /\ rd[r].id \in AsyncCalls
    BY <1>8 DEF DeliverCall, chans, Owned, Typed, ReaderOK
  <2>2. \A q \in Readers, d \in SyncCalls :
            (Runs(q, d)' <=> Runs(q, d)) /\ (Runs(q, d) => rd'[q].chan = rd[q].chan)
    BY <2>1 DEF Runs, Idle, Owned, Typed, TypeOK, ReadersType
  <2> QED
    BY <1>3, <2>1, <2>2
\* The token of this reader becomes the frame in the buffer of the same call.
<1>9. CASE DeliverSend(r)
  <2>1. PICK c \in SyncCalls : c = rd[r].id /\ Runs(r, c)
    BY <1>9 DEF DeliverSend, Runs, Owned, Typed, ReaderOK
  <2>2. /\ pc[c] = "wait" /\ rd[r].chan = ch[c] /\ ch[c] \notin shut /\ buf[ch[c]] = NoCall
        /\ \A q \in Readers : Runs(q, c) => q = r
        /\ ch[c] \in Chans /\ Holds(c)
    BY <1>2, <2>1 DEF OwnPaths, CarriesOwn, Holds
  <2>3. /\ buf' = [buf EXCEPT ![ch[c]] = c] /\ rd' = [rd EXCEPT ![r] = Idle]
        /\ UNCHANGED <<chMap, awaited>>
    BY <1>9, <2>1, <2>2 DEF DeliverSend, table
  <2>4. /\ buf'[ch[c]] = c /\ \A x \in Chans \ {ch[c]} : buf'[x] = buf[x]
        /\ \A q \in Readers, d \in SyncCalls : Runs(q, d)' <=> q # r /\ Runs(q, d)
        /\ \A q \in Readers \ {r} : rd'[q] = rd[q]
    BY <2>2, <2>3 DEF Runs, Idle, Calls, Owned, Typed, TypeOK, ReadersType, ChansType
  <2>5. \A d \in SyncCalls \ {c} : Holds(d) => ch[d] \in Chans \ {ch[c]}
    BY <1>2, <2>2
  <2>6. \A d \in SyncCalls : EntryOwn(d)'
    <3>1. ASSUME NEW d \in SyncCalls \ {c} PROVE EntryOwn(d)'
      <4>1. EntryOwn(d)
        BY DEF OwnPaths
      <4> QED
        BY <1>1, <2>3, <2>4, <2>5, <4>1 DEF EntryOwn, Holds
    <3>2. EntryOwn(c)'
      BY <2>1, <2>3 DEF OwnPaths, EntryOwn
    <3> QED
      BY <3>1, <3>2
  <2>7. \A q \in Readers, d \in SyncCalls : CarriesOwn(q, d)'
    <3>1. ASSUME NEW q \in Readers, NEW d \in SyncCalls \ {c} PROVE CarriesOwn(q, d)'
      <4>1. CarriesOwn(q, d)
        BY DEF OwnPaths
      <4> QED
        BY <1>1, <2>4, <2>5, <4>1 DEF CarriesOwn, Holds
    <3>2. ASSUME NEW q \in Readers PROVE CarriesOwn(q, c)'
      BY <2>2, <2>4 DEF CarriesOwn
    <3> QED
      BY <3>1, <3>2
  <2>8. \A x \in Chans : BufferOwn(x)'
    BY <1>1, <2>2, <2>4 DEF OwnPaths, BufferOwn
  <2> QED
    BY <1>1, <2>3, <2>6, <2>7, <2>8 DEF OwnPaths
<1> QED
  BY <1>4, <1>5, <1>6, <1>7, <1>8, <1>9 DEF Deliverer, Calls

LEMMA OwnStopper ==
  ASSUME Owned, OwnPaths, Stopper
  PROVE  OwnPaths'
<1>1. UNCHANGED <<pc, ch, got, made, pool, buf, rd>> /\ awaited' \subseteq awaited
  BY DEF Stopper, CloseBegin, CloseSweep, CloseReset, CloseCall, CloseLink, chans, sync
\* A sweep closes the channels of entries, which no deliver and no frame uses.
<1>2. ASSUME NEW s \in Shards, CloseSweep(s) PROVE OwnPaths'
  <2>1. /\ \A x \in shut' \ shut : \E e \in SyncCalls : x = chMap[e] /\ chMap[e] # NoChan
                                                        /\ chMap'[e] = NoChan
        /\ \A d \in SyncCalls : chMap'[d] \in {chMap[d], NoChan}
        /\ shut \subseteq shut'
    BY <1>2 DEF CloseSweep
  <2>2. ASSUME NEW x \in shut' \ shut
        PROVE  \E e \in SyncCalls :
                  /\ x = ch[e] /\ Holds(e) /\ pc[e] # "drain" /\ chMap'[e] = NoChan
                  /\ buf[x] = NoCall /\ \A r \in Readers : ~Runs(r, e)
    BY <2>1 DEF OwnPaths, EntryOwn, Holds
  <2>3. ASSUME NEW d \in SyncCalls, Holds(d),
               \/ pc[d] = "drain" \/ chMap'[d] # NoChan \/ buf[ch[d]] # NoCall
               \/ \E r \in Readers : Runs(r, d)
        PROVE  ch[d] \in shut' => ch[d] \in shut
    BY <2>2, <2>3 DEF Owned, ChanExclusive
  <2>4. \A d \in SyncCalls : EntryOwn(d)' /\ (pc'[d] = "drain" => ch'[d] \notin shut')
    BY <1>1, <2>1, <2>3 DEF OwnPaths, EntryOwn, Holds, Runs
  <2>5. \A r \in Readers, d \in SyncCalls : CarriesOwn(r, d)'
    <3> SUFFICES ASSUME NEW r \in Readers, NEW d \in SyncCalls PROVE CarriesOwn(r, d)'
      OBVIOUS
    <3>1. CarriesOwn(r, d)
      BY DEF OwnPaths
    <3> QED
      BY <1>1, <2>3, <3>1 DEF CarriesOwn, Holds, Runs
  <2>6. ASSUME NEW x \in Chans PROVE BufferOwn(x)' /\ (pool'[x] > 0 => x \notin shut')
    <3>1. BufferOwn(x) /\ (pool[x] > 0 => x \notin shut)
      BY DEF OwnPaths
    <3>2. x \in shut' \ shut => pool[x] = 0 /\ buf[x] = NoCall
      BY <2>2 DEF Owned, ChanExclusive
    <3> QED
      BY <1>1, <3>1, <3>2 DEF BufferOwn
  <2>7. shut' \subseteq made'
    BY <1>1, <2>2 DEF OwnPaths, Owned, Typed, MadeOK
  <2> QED
    BY <1>1, <2>4, <2>5, <2>6, <2>7 DEF OwnPaths
<1>3. CASE CloseBegin \/ CloseReset \/ CloseLink \/ \E c \in AsyncCalls : CloseCall(c)
  <2>1. UNCHANGED <<chMap, shut>>
    BY <1>3 DEF CloseBegin, CloseReset, CloseLink, CloseCall, chans, table
  <2>2. \A d \in SyncCalls : EntryOwn(d)' /\ \A r \in Readers : CarriesOwn(r, d)'
    BY <1>1, <2>1 DEF OwnPaths, EntryOwn, CarriesOwn, Runs
  <2>3. \A x \in Chans : BufferOwn(x)'
    BY <1>1, <2>1 DEF OwnPaths, BufferOwn
  <2> QED
    BY <1>1, <2>1, <2>2, <2>3 DEF OwnPaths
<1> QED
  BY <1>2, <1>3 DEF Stopper

\* The pool of reply channels alone never mixes up two calls: who reads the response of
\* another call owes it to some call that timed out or was cancelled.
THEOREM CrossTalk == Spec => []CrossTalkNeedsGiveUp
<1>1. Init => CrossInv
  <2> SUFFICES ASSUME Init PROVE (\A c \in SyncCalls : ~GaveUp(c)) /\ OwnPaths
    BY OwnedInit DEF CrossInv
  <2>1. \A c \in SyncCalls : EntryOwn(c) /\ \A r \in Readers : CarriesOwn(r, c)
    BY DEF Init, EntryOwn, CarriesOwn, Runs, Idle
  <2> QED
    BY <2>1 DEF Init, GaveUp, OwnPaths, BufferOwn, Calls
<1>2. CrossInv /\ [Next]_vars => CrossInv'
  <2> SUFFICES ASSUME CrossInv, [Next]_vars
               PROVE  /\ \A c \in SyncCalls : GaveUp(c)' => pc'[c] \in OnTheWayOut
                      /\ NobodyGaveUp' => OwnPaths'
    BY OwnedStep DEF CrossInv
  <2>1. CASE Next
    <3>1. \A c \in SyncCalls : (GaveUp(c) => GaveUp(c)') /\ (GaveUp(c)' => pc'[c] \in OnTheWayOut)
      BY <2>1, GiveUpStays
    <3>2. ASSUME NobodyGaveUp' PROVE OwnPaths'
      <4>1. Owned /\ OwnPaths
        BY <3>1, <3>2 DEF CrossInv, NobodyGaveUp
      <4> QED
        BY <2>1, <3>2, <4>1, OwnInvoker, OwnAsync, OwnDeliverer, OwnStopper DEF Next, Calls
    <3> QED
      BY <3>1, <3>2
  <2>2. CASE UNCHANGED vars
    <3>1. UNCHANGED <<outcome, pc, ch, got, made, pool, buf, shut, rd, awaited, chMap>>
      BY <2>2 DEF vars, table, chans, sync, result
    <3>2. (\A c \in SyncCalls : EntryOwn(c)' <=> EntryOwn(c))
          /\ (\A r \in Readers, c \in SyncCalls : CarriesOwn(r, c)' <=> CarriesOwn(r, c))
          /\ \A x \in Chans : BufferOwn(x)' <=> BufferOwn(x)
      BY <3>1 DEF EntryOwn, CarriesOwn, BufferOwn, Runs
    <3> QED
      BY <3>1, <3>2 DEF CrossInv, NobodyGaveUp, GaveUp, OwnPaths
  <2> QED
    BY <2>1, <2>2
<1>3. CrossInv => CrossTalkNeedsGiveUp
  BY DEF CrossInv, NobodyGaveUp, GaveUp, OwnPaths, CrossTalkNeedsGiveUp
<1> QED
  BY <1>1, <1>2, <1>3, PTL DEF Spec

-----------------------------------------------------------------------------
(*****************************************************************************)
(* The tables of a gate                                                      *)
(*****************************************************************************)

\* The first connection is made; connections are numbered from 1.
NodesOK == 1 \in NodeConns /\ NodeConns \subseteq Nat \ {0}

-----------------------------------------------------------------------------
\* Connections that were made, and those of them that are gone at the gate.
Closed(c) == closing[c] # "no"

\* What is known of every connection: only the last one may be open, those that were not made
\* yet have said nothing, and a process that still registers has said nothing either.
Lines ==
  /\ cur \in NodeConns /\ asked \in 0 .. cur /\ nodeReg <= cur
  /\ \A c \in NodeConns :
        /\ c > cur => inbox[c] = <<>> /\ closing[c] = "no" /\ nodeRegs[c] = "no" /\ c \notin connReg /\ ~open[c]
        /\ c < cur => Closed(c) /\ ~open[c]
        /\ c = cur /\ ~Closed(c) => open[c]
  /\ open[cur] => ~Closed(cur)
  /\ game = "gone" <=> ~open[cur]
  /\ game = "registers" => inbox[cur] = <<>>

\* What a registration has done so far, as long as nothing has overlapped it.
Registering(c) ==
  /\ nodeRegs[c] = "node" => connReg \subseteq {c}
  /\ nodeRegs[c] = "conn" /\ ~Closed(c) => nodeReg = c

\* What a removal has done so far.
Leaving(c) ==
  /\ closing[c] \in {"node", "delete", "done"} => c \notin connReg
  /\ closing[c] = "delete" => nodeReg \in {c, NoNodeConn}

\* The node is in the second table too, or someone is about to put it there or to take it out
\* of the first.
Pending(n) ==
  \/ nodeRegs[n] = "conn" \/ (\E c \in NodeConns : nodeRegs[c] = "node")
  \/ closing[n] \in {"node", "delete"}

\* The registration of the process on this connection is on its way or done.
Registers ==
  \/ inbox[cur] = <<"reg">>
  \/ inbox[cur] = <<>> /\ (nodeRegs[cur] # "no" \/ nodeReg = cur)

Tables ==
  ~raced =>
    /\ \A c \in NodeConns : Registering(c) /\ Leaving(c)
    /\ connReg \subseteq {nodeReg}
    /\ nodeReg # NoNodeConn => nodeReg \in connReg \/ Pending(nodeReg)
    /\ game = "up" /\ asked = cur => Registers

NodeType ==
  /\ game \in {"registers", "leaves", "up", "leaving", "gone"} /\ cur \in Nat
  /\ inbox \in [NodeConns -> Seq({"reg", "unreg"})] /\ open \in [NodeConns -> BOOLEAN]
  /\ closing \in [NodeConns -> {"no", "load", "node", "delete", "done"}]
  /\ nodeRegs \in [NodeConns -> {"no", "old", "node", "conn"}]
  /\ nodeReg \in NodeConns \cup {NoNodeConn} /\ connReg \subseteq NodeConns /\ asked \in Nat

NodeInv == NodeType /\ Lines /\ Tables

LEMMA NodeTypeStep == ASSUME NodesOK, NodeType, Lines, NodeNext PROVE NodeType'
<1> USE DEF NodesOK, NodeType, memberVars
<1>0. cur \in NodeConns
  BY DEF Lines
<1>1. ASSUME Cut(cur)
      PROVE  /\ inbox' \in [NodeConns -> Seq({"reg", "unreg"})]
             /\ closing' \in [NodeConns -> {"no", "load", "node", "delete", "done"}]
  <2>1. PICK i \in 0 .. Len(inbox[cur]) : inbox' = [inbox EXCEPT ![cur] = SubSeq(@, 1, i)]
    BY <1>1 DEF Cut
  <2>2. SubSeq(inbox[cur], 1, i) \in Seq({"reg", "unreg"})
    BY <1>0
  <2> QED
    BY <1>1, <2>1, <2>2 DEF Cut
<1>2. CASE registerToGateway \/ GameLeaves
  <2>1. \A m \in {"reg", "unreg"} : Append(inbox[cur], m) \in Seq({"reg", "unreg"})
    BY <1>0
  <2>2. \A m \in {"reg", "unreg"} : Says(cur, m) => inbox' \in [NodeConns -> Seq({"reg", "unreg"})]
    BY <2>1 DEF Says
  <2> QED
    BY <1>2, <2>2 DEF registerToGateway, GameLeaves
<1>3. CASE Reconnects \/ GameStops \/ GameRestarts
  BY <1>0, <1>1, <1>3 DEF Reconnects, GameStops, GameRestarts
<1>4. ASSUME NEW c \in NodeConns, onRegister(c) \/ unregisterLogicNode(c) PROVE NodeType'
  <2>1. Tail(inbox[c]) \in Seq({"reg", "unreg"})
    BY <1>4 DEF onRegister, unregisterLogicNode, Handled
  <2>2. /\ inbox' = [inbox EXCEPT ![c] = Tail(@)]
        /\ nodeRegs' = nodeRegs \/ nodeRegs' = [nodeRegs EXCEPT ![c] = "old"]
        /\ connReg' = connReg \/ connReg' = connReg \ {nodeReg}
        /\ nodeReg' \in {nodeReg, NoNodeConn} /\ UNCHANGED <<game, cur, open, closing, asked>>
    BY <1>4 DEF onRegister, unregisterLogicNode, Handled
  <2>3. inbox' \in [NodeConns -> Seq({"reg", "unreg"})]
    BY <2>1, <2>2
  <2>4. nodeRegs' \in [NodeConns -> {"no", "old", "node", "conn"}]
    BY <2>2
  <2>5. game' \in {"registers", "leaves", "up", "leaving", "gone"} /\ cur' \in Nat /\ asked' \in Nat
    BY <2>2
  <2>6. nodeReg' \in NodeConns \cup {NoNodeConn}
    BY <2>2 DEF NoNodeConn
  <2>7. connReg' \subseteq NodeConns
    BY <2>2
  <2>8. open' \in [NodeConns -> BOOLEAN]
    BY <2>2
  <2>9. closing' \in [NodeConns -> {"no", "load", "node", "delete", "done"}]
    BY <2>2
  <2> QED
    BY <2>3, <2>4, <2>5, <2>6, <2>7, <2>8, <2>9
<1>5. ASSUME NEW c \in NodeConns, registerLogicNode(c) PROVE NodeType'
  <2>1. /\ \E at \in {"no", "node", "conn"} : nodeRegs' = [nodeRegs EXCEPT ![c] = at]
        /\ connReg' \subseteq connReg \cup {c} /\ nodeReg' \in {nodeReg, c}
        /\ UNCHANGED <<game, cur, inbox, open, closing, asked>>
    BY <1>5 DEF registerLogicNode, RegForgetsOld, RegStoresNode, RegStoresConn
  <2>2. nodeRegs' \in [NodeConns -> {"no", "old", "node", "conn"}]
    BY <2>1
  <2>3. nodeReg' \in NodeConns \cup {NoNodeConn} /\ connReg' \subseteq NodeConns
    BY <2>1
  <2>4. open' \in [NodeConns -> BOOLEAN] /\ inbox' \in [NodeConns -> Seq({"reg", "unreg"})]
        /\ closing' \in [NodeConns -> {"no", "load", "node", "delete", "done"}]
    BY <2>1
  <2> QED
    BY <2>1, <2>2, <2>3, <2>4
<1>6. ASSUME NEW c \in NodeConns, unregisterLogicNodeByConnId(c) PROVE NodeType'
  BY <1>6 DEF unregisterLogicNodeByConnId, CloseLoads, CloseCompares, CloseDeletes, NoNodeConn
<1> QED
  BY <1>2, <1>3, <1>4, <1>5, <1>6 DEF NodeNext

\* A step of the gate leaves the node alone and works on connections that were made.
LEMMA LinesKept ==
  ASSUME NodesOK, NodeType, Lines, NEW c \in NodeConns, c <= cur,
         UNCHANGED <<game, cur, open, asked>>,
         \A d \in NodeConns \ {c} :
            inbox'[d] = inbox[d] /\ closing'[d] = closing[d] /\ nodeRegs'[d] = nodeRegs[d],
         inbox'[c] = inbox[c] \/ inbox[c] # <<>>, Closed(c)' <=> Closed(c),
         connReg' \subseteq connReg \cup {c}, nodeReg' \in {nodeReg, c, NoNodeConn}
  PROVE  Lines'
<1> USE DEF NodesOK, NodeType, Lines
<1>1. cur' \in NodeConns /\ asked' \in 0 .. cur' /\ nodeReg' <= cur'
  <2>1. c \in Nat /\ cur \in Nat /\ nodeReg <= cur
    OBVIOUS
  <2> QED
    BY <2>1 DEF NoNodeConn
<1>2. ASSUME NEW d \in NodeConns
      PROVE  /\ d > cur => inbox'[d] = <<>> /\ closing'[d] = "no" /\ nodeRegs'[d] = "no" /\ d \notin connReg' /\ ~open[d]
             /\ d < cur => Closed(d)' /\ ~open[d]
             /\ d = cur /\ ~Closed(d)' => open[d]
             /\ open[cur] => ~Closed(cur)'
  BY DEF Closed
<1>3. game' = "registers" => inbox'[cur] = <<>>
  OBVIOUS
<1> QED
  BY <1>1, <1>2, <1>3

LEMMA LinesStep == ASSUME NodesOK, NodeType, Lines, NodeNext PROVE Lines'
<1> USE DEF NodesOK, NodeType, memberVars
<1>0. cur \in NodeConns /\ cur <= cur
  BY DEF Lines
<1>1. CASE registerToGateway
  BY <1>0, <1>1 DEF registerToGateway, Says, Lines, Closed
<1>2. CASE GameLeaves
  BY <1>0, <1>2 DEF GameLeaves, Says, Lines, Closed
<1>3. ASSUME Cut(cur)
      PROVE  /\ \A d \in NodeConns \ {cur} : inbox'[d] = inbox[d] /\ closing'[d] = closing[d]
             /\ closing'[cur] = IF open[cur] THEN "load" ELSE closing[cur]
  BY <1>0, <1>3 DEF Cut
<1>4. CASE Reconnects \/ GameRestarts
  <2>1. /\ cur + 1 \in NodeConns /\ cur' = cur + 1 /\ game' \in {game, "registers"} /\ game' # "gone"
        /\ open' = [open EXCEPT ![cur] = FALSE, ![cur + 1] = TRUE] /\ Cut(cur)
        /\ UNCHANGED <<nodeReg, connReg, nodeRegs, asked>>
    BY <1>4 DEF Reconnects, GameRestarts
  <2>2. closing'[cur] # "no"
    BY <1>0, <1>3, <2>1 DEF Lines, Closed
  <2>3. inbox'[cur'] = <<>> /\ closing'[cur'] = "no" /\ open'[cur']
    BY <1>0, <1>3, <2>1 DEF Lines
  <2>4. game' = "registers" => inbox'[cur'] = <<>>
    BY <2>3
  <2>5. asked' \in 0 .. cur' /\ nodeReg' <= cur'
    BY <2>1 DEF Lines
  <2>6. ASSUME NEW c \in NodeConns
        PROVE  /\ c > cur' => inbox'[c] = <<>> /\ closing'[c] = "no" /\ nodeRegs'[c] = "no" /\ c \notin connReg' /\ ~open'[c]
               /\ c < cur' => Closed(c)' /\ ~open'[c]
               /\ c = cur' /\ ~Closed(c)' => open'[c]
    <3>1. CASE c > cur'
      <4>1. c > cur /\ c # cur /\ c # cur + 1 /\ ~(c < cur') /\ c # cur'
        BY <1>0, <2>1, <3>1
      <4>2. inbox[c] = <<>> /\ closing[c] = "no" /\ nodeRegs[c] = "no" /\ c \notin connReg /\ ~open[c]
        BY <4>1 DEF Lines
      <4>3. inbox'[c] = inbox[c] /\ closing'[c] = closing[c]
        BY <1>3, <2>1, <4>1
      <4>4. open'[c] = open[c]
        BY <2>1, <4>1
      <4> QED
        BY <2>1, <4>1, <4>2, <4>3, <4>4
    <3>2. CASE c = cur'
      BY <2>1, <2>3, <3>2
    <3>3. CASE c = cur
      BY <1>0, <2>1, <2>2, <3>3 DEF Closed
    <3>4. CASE c < cur
      BY <1>0, <1>3, <2>1, <3>4 DEF Lines, Closed
    <3> QED
      BY <2>1, <3>1, <3>2, <3>3, <3>4
  <2> QED
    BY <2>1, <2>3, <2>4, <2>5, <2>6 DEF Lines, Closed
<1>5. CASE GameStops
  <2>1. /\ cur' = cur /\ game' = "gone" /\ open' = [open EXCEPT ![cur] = FALSE] /\ Cut(cur)
        /\ UNCHANGED <<nodeReg, connReg, nodeRegs, asked>> /\ open[cur]
    BY <1>5 DEF GameStops
  <2> QED
    BY <1>0, <1>3, <2>1 DEF Lines, Closed
<1>6. ASSUME NEW c \in NodeConns, onRegister(c) \/ unregisterLogicNode(c) PROVE Lines'
  <2>1. c <= cur /\ inbox[c] # <<>>
    BY <1>0, <1>6 DEF onRegister, unregisterLogicNode, Handled, Lines
  <2> QED
    BY <1>6, <2>1, LinesKept DEF onRegister, unregisterLogicNode, Handled, Closed, NoNodeConn
<1>7. ASSUME NEW c \in NodeConns, registerLogicNode(c) PROVE Lines'
  <2>1. c <= cur
    BY <1>0, <1>7 DEF registerLogicNode, RegForgetsOld, RegStoresNode, RegStoresConn, Lines
  <2> QED
    BY <1>7, <2>1, LinesKept DEF registerLogicNode, RegForgetsOld, RegStoresNode, RegStoresConn, Closed
<1>8. ASSUME NEW c \in NodeConns, unregisterLogicNodeByConnId(c) PROVE Lines'
  <2>1. c <= cur
    BY <1>0, <1>8 DEF unregisterLogicNodeByConnId, CloseLoads, CloseCompares, CloseDeletes, Lines
  <2> QED
    BY <1>8, <2>1, LinesKept DEF unregisterLogicNodeByConnId, CloseLoads, CloseCompares, CloseDeletes, Closed, NoNodeConn
<1> QED
  BY <1>1, <1>2, <1>4, <1>5, <1>6, <1>7, <1>8 DEF NodeNext

TablesNow ==
    /\ \A c \in NodeConns : Registering(c) /\ Leaving(c)
    /\ connReg \subseteq {nodeReg}
    /\ nodeReg # NoNodeConn => nodeReg \in connReg \/ Pending(nodeReg)
    /\ game = "up" /\ asked = cur => Registers

\* What the node does leaves the tables of the gate alone.
LEMMA NodeKeeps ==
  ASSUME NodesOK, NodeType, TablesNow, cur \in NodeConns, UNCHANGED <<nodeReg, connReg, nodeRegs>>,
         \A d \in NodeConns : closing'[d] = closing[d] \/ (closing[d] = "no" /\ closing'[d] = "load"),
         game' = "up" /\ asked' = cur' => Registers'
  PROVE  TablesNow'
<1> USE DEF NodesOK, NodeType
<1>1. ASSUME NEW c \in NodeConns PROVE (Registering(c) /\ Leaving(c))'
  BY DEF TablesNow, Registering, Leaving, Closed
<1>2. nodeReg # NoNodeConn => nodeReg \in connReg \/ Pending(nodeReg)'
  BY DEF TablesNow, Pending
<1> QED
  BY <1>1, <1>2 DEF TablesNow

LEMMA TablesStep == ASSUME NodesOK, NodeInv, NodeNext, ~raced' PROVE ~raced /\ (TablesNow => TablesNow')
<1> USE DEF NodesOK, NodeInv, NodeType, memberVars
<1>0. cur \in NodeConns
  BY DEF Lines
<1>1. ~raced
  BY DEF NodeNext, registerToGateway, GameLeaves, GameStops, Reconnects, GameRestarts, onRegister,
     registerLogicNode, unregisterLogicNode, unregisterLogicNodeByConnId
<1> SUFFICES ASSUME TablesNow PROVE TablesNow'
  BY <1>1
<1>2. CASE registerToGateway
  <2>1. game' = "up" => inbox'[cur] = <<"reg">>
    <3>1. inbox' = [inbox EXCEPT ![cur] = Append(@, "reg")] /\ (game' = "up" => game # "leaves")
      BY <1>2 DEF registerToGateway, Says
    <3>2. game' = "up" => inbox[cur] = <<>>
      BY <1>2, <3>1 DEF registerToGateway, Lines
    <3>3. inbox'[cur] = Append(inbox[cur], "reg")
      BY <1>0, <3>1
    <3>4. Append(<<>>, "reg") = <<"reg">>
      OBVIOUS
    <3> QED
      BY <3>2, <3>3, <3>4
  <2>2. UNCHANGED <<nodeReg, connReg, nodeRegs, closing, cur>>
    BY <1>2 DEF registerToGateway
  <2> QED
    BY <1>0, <2>1, <2>2, NodeKeeps DEF Registers
<1>3. CASE GameLeaves
  <2>1. game' # "up" /\ UNCHANGED <<nodeReg, connReg, nodeRegs, closing>>
    BY <1>3 DEF GameLeaves
  <2> QED
    BY <1>0, <2>1, NodeKeeps
<1>4. CASE Reconnects \/ GameStops \/ GameRestarts
  <2>1. game' = "up" => asked' # cur'
    BY <1>0, <1>4 DEF Reconnects, GameStops, GameRestarts, Lines
  <2>2. \A d \in NodeConns : closing'[d] = closing[d] \/ (closing[d] = "no" /\ closing'[d] = "load")
    <3>1. closing' = [closing EXCEPT ![cur] = IF open[cur] THEN "load" ELSE @]
      BY <1>4 DEF Reconnects, GameStops, GameRestarts, Cut
    <3> QED
      BY <1>0, <3>1 DEF Lines, Closed
  <2>3. UNCHANGED <<nodeReg, connReg, nodeRegs>>
    BY <1>4 DEF Reconnects, GameStops, GameRestarts
  <2> QED
    BY <1>0, <2>1, <2>2, <2>3, NodeKeeps
<1>5. ASSUME NEW c \in NodeConns, onRegister(c) PROVE TablesNow'
  <2>1. /\ nodeRegs[c] = "no" /\ nodeRegs' = [nodeRegs EXCEPT ![c] = "old"] /\ inbox[c] # <<>> /\ Head(inbox[c]) = "reg"
        /\ inbox' = [inbox EXCEPT ![c] = Tail(@)] /\ UNCHANGED <<game, cur, nodeReg, connReg, closing, asked>>
    BY <1>5 DEF onRegister, Handled
  <2>2. ASSUME NEW d \in NodeConns PROVE (Registering(d) /\ Leaving(d))'
    BY <2>1 DEF TablesNow, Registering, Leaving, Closed
  <2>3. nodeReg # NoNodeConn => nodeReg \in connReg \/ Pending(nodeReg)'
    <3>1. nodeReg # NoNodeConn => nodeReg \in NodeConns
      BY <2>1 DEF TablesNow, Lines
    <3>2. \A d \in NodeConns : nodeRegs[d] \in {"node", "conn"} => nodeRegs'[d] = nodeRegs[d]
      BY <2>1
    <3> QED
      BY <2>1, <3>1, <3>2 DEF TablesNow, Pending
  <2>4. game' = "up" /\ asked' = cur' => Registers'
    <3>1. CASE c = cur
      BY <2>1, <3>1 DEF TablesNow, Registers
    <3>2. CASE c # cur
      BY <1>0, <2>1, <3>2 DEF TablesNow, Registers
    <3> QED
      BY <3>1, <3>2
  <2> QED
    BY <2>1, <2>2, <2>3, <2>4 DEF TablesNow
<1>6. ASSUME NEW c \in NodeConns, registerLogicNode(c) PROVE TablesNow'
  <2>1. /\ ~Closed(c) /\ \A d \in NodeConns \ {c} : nodeRegs[d] = "no"
        /\ nodeReg' = nodeReg \/ \A d \in NodeConns : closing[d] # "delete"
        /\ UNCHANGED <<game, cur, inbox, open, closing, asked>>
    BY <1>6 DEF registerLogicNode, Closed
  <2>2. c = cur
    BY <1>0, <1>6, <2>1 DEF Lines, registerLogicNode, RegForgetsOld, RegStoresNode, RegStoresConn
  <2>3. \A d \in NodeConns \ {c} : nodeRegs'[d] = "no"
    BY <1>6, <2>1 DEF registerLogicNode, RegForgetsOld, RegStoresNode, RegStoresConn
  <2>4. CASE RegForgetsOld(c)
    <3>1. /\ nodeRegs'[c] = "node" /\ connReg' = connReg \ ({nodeReg} \ {c}) /\ nodeReg' = nodeReg
      BY <2>4 DEF RegForgetsOld
    <3>2. connReg' \subseteq {c} /\ connReg' \subseteq connReg
      BY <3>1 DEF TablesNow
    <3>3. ASSUME NEW d \in NodeConns PROVE (Registering(d) /\ Leaving(d))'
      BY <2>1, <2>3, <3>1, <3>2 DEF TablesNow, Registering, Leaving, Closed
    <3> QED
      BY <2>1, <2>2, <3>1, <3>2, <3>3 DEF TablesNow, Pending, Registers
  <2>5. CASE RegStoresNode(c)
    <3>1. /\ nodeRegs[c] = "node" /\ nodeRegs'[c] = "conn" /\ connReg' = connReg /\ nodeReg' = c
      BY <2>5 DEF RegStoresNode
    <3>2. connReg \subseteq {c}
      BY <3>1 DEF TablesNow, Registering
    <3>3. ASSUME NEW d \in NodeConns PROVE (Registering(d) /\ Leaving(d))'
      BY <2>1, <2>3, <3>1, <3>2 DEF TablesNow, Registering, Leaving, Closed
    <3> QED
      BY <2>1, <2>2, <3>1, <3>2, <3>3 DEF TablesNow, Pending, Registers
  <2>6. CASE RegStoresConn(c)
    <3>1. /\ nodeRegs[c] = "conn" /\ nodeRegs'[c] = "no" /\ connReg' = connReg \cup {c} /\ nodeReg' = nodeReg
      BY <2>6 DEF RegStoresConn
    <3>2. nodeReg = c
      BY <2>1, <3>1 DEF TablesNow, Registering
    <3>3. ASSUME NEW d \in NodeConns PROVE (Registering(d) /\ Leaving(d))'
      BY <2>1, <2>3, <3>1, <3>2 DEF TablesNow, Registering, Leaving, Closed
    <3> QED
      BY <2>1, <2>2, <3>1, <3>2, <3>3 DEF TablesNow, Registers
  <2> QED
    BY <1>6, <2>4, <2>5, <2>6 DEF registerLogicNode
<1>7. ASSUME NEW c \in NodeConns, unregisterLogicNode(c) PROVE TablesNow'
  <2>1. /\ inbox[c] # <<>> /\ Head(inbox[c]) = "unreg" /\ inbox' = [inbox EXCEPT ![c] = Tail(@)]
        /\ connReg' = connReg \ {nodeReg} /\ nodeReg' = NoNodeConn
        /\ nodeReg \in {c, NoNodeConn} /\ \A d \in NodeConns : nodeRegs[d] = "no"
        /\ UNCHANGED <<game, cur, open, closing, nodeRegs, asked>>
    BY <1>7 DEF unregisterLogicNode, Handled
  <2>2. connReg' = {}
    BY <2>1 DEF TablesNow
  <2>3. ASSUME NEW d \in NodeConns PROVE (Registering(d) /\ Leaving(d))'
    BY <2>1, <2>2 DEF TablesNow, Registering, Leaving, Closed
  <2>4. game' = "up" /\ asked' = cur' => Registers'
    <3>1. ASSUME game = "up", asked = cur PROVE Registers'
      <4>1. Registers /\ c # cur
        BY <2>1, <3>1 DEF TablesNow, Registers
      <4>2. inbox'[cur] = inbox[cur] /\ nodeReg # cur
        BY <1>0, <2>1, <4>1 DEF NoNodeConn
      <4> QED
        BY <2>1, <4>1, <4>2 DEF Registers
    <3> QED
      BY <2>1, <3>1
  <2> QED
    BY <2>2, <2>3, <2>4, <2>1 DEF TablesNow
<1>8. ASSUME NEW c \in NodeConns, unregisterLogicNodeByConnId(c) PROVE TablesNow'
  <2>1. UNCHANGED <<game, cur, inbox, open, nodeRegs, asked>>
    BY <1>8 DEF unregisterLogicNodeByConnId
  <2>2. \A d \in NodeConns \ {c} : closing'[d] = closing[d]
    BY <1>8 DEF unregisterLogicNodeByConnId, CloseLoads, CloseCompares, CloseDeletes
  <2>3. Closed(c) /\ Closed(c)'
    BY <1>8 DEF unregisterLogicNodeByConnId, CloseLoads, CloseCompares, CloseDeletes, Closed
  <2>4. CASE CloseLoads(c)
    <3>1. /\ closing'[c] = IF c \in connReg THEN "node" ELSE "done"
          /\ closing[c] = "load" /\ connReg' = connReg \ {c} /\ nodeReg' = nodeReg
      BY <2>4 DEF CloseLoads
    <3>2. ASSUME NEW d \in NodeConns PROVE (Registering(d) /\ Leaving(d))'
      BY <2>1, <2>2, <2>3, <3>1 DEF TablesNow, Registering, Leaving, Closed
    <3>3. nodeReg # NoNodeConn => nodeReg \in connReg' \/ Pending(nodeReg)'
      <4>1. CASE nodeReg = c
        BY <2>1, <3>1, <4>1 DEF TablesNow, Pending
      <4>2. CASE nodeReg # c
        BY <2>1, <2>2, <3>1, <4>2 DEF TablesNow, Pending, Lines
      <4> QED
        BY <4>1, <4>2
    <3> QED
      BY <2>1, <3>1, <3>2, <3>3 DEF TablesNow, Registers
  <2>5. CASE CloseCompares(c)
    <3>1. /\ closing'[c] = IF nodeReg = c THEN "delete" ELSE "done"
          /\ closing[c] = "node" /\ connReg' = connReg /\ nodeReg' = nodeReg
      BY <2>5 DEF CloseCompares
    <3>2. ASSUME NEW d \in NodeConns PROVE (Registering(d) /\ Leaving(d))'
      BY <2>1, <2>2, <2>3, <3>1 DEF TablesNow, Registering, Leaving, Closed
    <3>3. nodeReg # NoNodeConn => nodeReg \in connReg \/ Pending(nodeReg)'
      <4>1. CASE nodeReg = c
        BY <2>1, <3>1, <4>1 DEF Pending
      <4>2. CASE nodeReg # c
        BY <2>1, <2>2, <3>1, <4>2 DEF TablesNow, Pending, Lines
      <4> QED
        BY <4>1, <4>2
    <3> QED
      BY <2>1, <3>1, <3>2, <3>3 DEF TablesNow, Registers
  <2>6. CASE CloseDeletes(c)
    <3>1. /\ closing[c] = "delete" /\ closing'[c] = "done" /\ nodeReg' = NoNodeConn /\ connReg' = connReg
      BY <2>6 DEF CloseDeletes
    <3>2. nodeReg \in {c, NoNodeConn} /\ c \notin connReg
      BY <3>1 DEF TablesNow, Leaving
    <3>3. connReg = {} \/ connReg = {NoNodeConn}
      BY <3>2 DEF TablesNow
    <3>4. connReg = {}
      BY <3>3 DEF NoNodeConn
    <3>5. ASSUME NEW d \in NodeConns PROVE (Registering(d) /\ Leaving(d))'
      BY <2>1, <2>2, <2>3, <3>1, <3>2, <3>4 DEF TablesNow, Registering, Leaving, Closed
    <3>6. game = "up" /\ asked = cur => Registers'
      <4>1. ASSUME nodeReg = cur PROVE open[cur] => FALSE
        BY <1>0, <2>3, <3>2, <4>1 DEF Lines, NoNodeConn
      <4>2. game = "up" /\ asked = cur => Registers /\ open[cur]
        BY DEF TablesNow, Lines
      <4> QED
        BY <2>1, <4>1, <4>2 DEF Registers
    <3> QED
      BY <2>1, <3>1, <3>4, <3>5, <3>6 DEF TablesNow
  <2> QED
    BY <1>8, <2>4, <2>5, <2>6 DEF unregisterLogicNodeByConnId
<1> QED
  BY <1>2, <1>3, <1>4, <1>5, <1>6, <1>7, <1>8 DEF NodeNext

LEMMA NodeStarts == ASSUME NodesOK, NodeInit PROVE NodeInv
<1> USE DEF NodesOK, NodeInit, NoNodeConn
<1>1. NodeType
  BY DEF NodeType
<1>2. cur = 1 /\ \A c \in NodeConns : ~(c < 1) /\ (c > 1 => c # 1)
  OBVIOUS
<1>3. Lines
  <2>1. \A c \in NodeConns : (open[c] <=> c = 1)
    BY Zenon
  <2>2. \A c \in NodeConns : inbox[c] = <<>> /\ closing[c] = "no" /\ nodeRegs[c] = "no"
    OBVIOUS
  <2>3. asked = 0 /\ 0 \in 0 .. 1 /\ nodeReg = 0 /\ connReg = {} /\ game = "registers"
    OBVIOUS
  <2> QED
    BY <1>2, <2>1, <2>2, <2>3 DEF Lines, Closed
<1>4. Tables
  BY DEF Tables, Registering, Leaving, Closed
<1> QED
  BY <1>1, <1>3, <1>4 DEF NodeInv

LEMMA NodeStep == ASSUME NodesOK, NodeInv, [NodeNext]_nodeTableVars PROVE NodeInv'
<1>1. CASE NodeNext
  <2>1. NodeType' /\ Lines'
    BY <1>1, NodeTypeStep, LinesStep DEF NodeInv
  <2>2. ASSUME ~raced' PROVE TablesNow'
    BY <1>1, <2>2, TablesStep DEF NodeInv, Tables, TablesNow
  <2> QED
    BY <2>1, <2>2 DEF NodeInv, Tables, TablesNow
<1>2. CASE UNCHANGED nodeTableVars
  BY <1>2 DEF nodeTableVars, memberVars, NodeInv, NodeType, Lines, Closed, Tables, Registering, Leaving,
     Pending, Registers
<1> QED
  BY <1>1, <1>2

LEMMA NodeInvImplies == ASSUME NodesOK, NodeInv PROVE NodesAgree
<1> SUFFICES ASSUME ~raced, Settled
             PROVE  /\ connReg = {nodeReg} \ {NoNodeConn}
                    /\ nodeReg # NoNodeConn => nodeReg = cur /\ open[cur]
                    /\ game = "up" /\ asked = cur => nodeReg = cur
  BY DEF NodesAgree
<1> USE DEF NodesOK, NodeInv, NodeType
<1>1. \A c \in NodeConns : inbox[c] = <<>> /\ nodeRegs[c] = "no" /\ closing[c] \in {"no", "done"}
  BY DEF Settled, Resting, Removing
<1>2. nodeReg # NoNodeConn => nodeReg \in connReg
  BY <1>1 DEF Tables, Pending
<1>3. nodeReg # NoNodeConn => nodeReg = cur /\ open[cur]
  BY <1>1, <1>2 DEF Tables, Leaving, Lines, Closed
<1>4. connReg = {nodeReg} \ {NoNodeConn}
  BY <1>2 DEF Tables, NoNodeConn
<1>5. game = "up" /\ asked = cur => nodeReg = cur
  <2>1. inbox[cur] # <<"reg">> /\ nodeRegs[cur] = "no"
    <3>1. cur \in NodeConns /\ <<>> # <<"reg">>
      <4>1. Len(<<>>) = 0 /\ Len(<<"reg">>) = 1
        OBVIOUS
      <4> QED
        BY <4>1 DEF Lines
    <3>2. inbox[cur] = <<>> /\ nodeRegs[cur] = "no"
      BY <1>1, <3>1
    <3> QED
      BY <3>1, <3>2, Zenon
  <2> QED
    BY <2>1 DEF Tables, Registers
<1> QED
  BY <1>3, <1>4, <1>5

\* When everything has been handled, logicNodeMap and connMap agree and name the open
\* connection, unless a registration overlapped another, its own OnClose or a removal:
\* registerLogicNode and unregisterLogicNodeByConnId (transrpc/member_mgr.go) over
\* any reconnections, restarts and late messages.
THEOREM NodesAgreeHolds ==
  ASSUME NodesOK
  PROVE  NodeSpec => []NodesAgree
<1>1. NodeInit => NodeInv
  BY NodeStarts
<1>2. NodeInv /\ [NodeNext]_nodeTableVars => NodeInv'
  BY NodeStep
<1>3. NodeInv => NodesAgree
  BY NodeInvImplies
<1> QED
  BY <1>1, <1>2, <1>3, PTL DEF NodeSpec

-----------------------------------------------------------------------------
\* Who is logged in where: entries for the user "0" and the session "" are left over.
UserTypes ==
  /\ uid2sid \in [UserIds \cup {NullUser} -> ClientSids \cup {EmptySid, NoEntry}]
  /\ sid2uid \in [ClientSids \cup {EmptySid} -> UserIds \cup {NullUser, NoEntry}]

UsersInv == UserTypes /\ UsersAgree

LoginEffect(u, s, us, su) ==
  /\ us \in [UserIds \cup {NullUser} -> ClientSids \cup {EmptySid, NoEntry}]
  /\ su \in [ClientSids \cup {EmptySid} -> UserIds \cup {NullUser, NoEntry}]
  /\ \A v \in UserIds : us[v] = IF v = u THEN s
                                ELSE IF v = sid2uid[s] THEN NoEntry ELSE uid2sid[v]
  /\ \A t \in ClientSids : su[t] = IF t = s THEN u
                                   ELSE IF t = uid2sid[u] THEN NoEntry ELSE sid2uid[t]

\* What a login does to tables that agree: the user leaves the session it was in, the
\* session loses its user, and only that other session is kicked.
LEMMA LoginShape ==
  ASSUME UsersInv, NEW u \in UserIds, NEW s \in ClientSids
  PROVE  /\ LoginEffect(u, s, LoggedIn(u, s).uid2sid, LoggedIn(u, s).sid2uid)
         /\ LoggedIn(u, s).kicks = IF uid2sid[u] \in ClientSids \ {s} THEN {uid2sid[u]} ELSE {}
<1> DEFINE old == uid2sid[u]
           other == sid2uid[s]
           k == CheckKick(u, s)
           kicksOld == old \in ClientSids \ {s}
           kicksOther == other \in UserIds \ {u}
<1>1. UserTypes /\ UsersAgree
  BY DEF UsersInv
<1>2. kicksOld => sid2uid[old] = u
  BY <1>1 DEF UsersAgree
<1>3. kicksOther => uid2sid[other] = s
  BY <1>1 DEF UsersAgree
<1>4. u # NoEntry /\ s # NoEntry
  BY GateAssumption
<1>5. \A f, a : Without(f, a) = [f EXCEPT ![a] = NoEntry]
  BY DEF Without
<1>6. k = [uid2sid |-> IF kicksOther
                       THEN Without(IF kicksOld THEN Without(uid2sid, u) ELSE uid2sid, other)
                       ELSE IF kicksOld THEN Without(uid2sid, u) ELSE uid2sid,
           sid2uid |-> IF kicksOld THEN Without(sid2uid, old) ELSE sid2uid,
           kicks |-> IF kicksOld THEN {old} ELSE {}]
  <2> DEFINE ua == IF kicksOld THEN Without(uid2sid, u) ELSE uid2sid
             sa == IF kicksOld THEN Without(sid2uid, old) ELSE sid2uid
             third == IF kicksOther THEN ua[other] ELSE NoEntry
  <2>1. sa[s] = other
    BY <1>1, <1>5 DEF UserTypes
  <2>2. kicksOther => ua[other] = s
    BY <1>1, <1>3, <1>5 DEF UserTypes
  <2>3. third \notin ClientSids \ {s}
    BY <2>2, GateAssumption
  <2>4. ua = IF kicksOld /\ sid2uid[old] # NoEntry THEN Without(uid2sid, sid2uid[old]) ELSE uid2sid
    BY <1>2, <1>4
  <2>5. (IF kicksOld THEN {old} ELSE {}) \cup {} = IF kicksOld THEN {old} ELSE {}
    OBVIOUS
  <2> QED
    BY <2>1, <2>3, <2>4, <2>5 DEF CheckKick
<1>7. LoggedIn(u, s) = [k EXCEPT !.uid2sid = [@ EXCEPT ![u] = s], !.sid2uid = [@ EXCEPT ![s] = u]]
  BY DEF LoggedIn
<1>8. /\ LoggedIn(u, s).uid2sid = [k.uid2sid EXCEPT ![u] = s]
      /\ LoggedIn(u, s).sid2uid = [k.sid2uid EXCEPT ![s] = u]
      /\ LoggedIn(u, s).kicks = IF kicksOld THEN {old} ELSE {}
  BY <1>6, <1>7
<1>9. /\ k.uid2sid \in [UserIds \cup {NullUser} -> ClientSids \cup {EmptySid, NoEntry}]
      /\ \A v \in UserIds \ {u} : k.uid2sid[v] = IF v = other THEN NoEntry ELSE uid2sid[v]
  <2> DEFINE ua == IF kicksOld THEN [uid2sid EXCEPT ![u] = NoEntry] ELSE uid2sid
  <2>1. k.uid2sid = IF kicksOther THEN [ua EXCEPT ![other] = NoEntry] ELSE ua
    BY <1>6 DEF Without
  <2>2. /\ ua \in [UserIds \cup {NullUser} -> ClientSids \cup {EmptySid, NoEntry}]
        /\ \A v \in UserIds \ {u} : ua[v] = uid2sid[v]
    BY <1>1 DEF UserTypes
  <2>3. \A v \in UserIds \ {u} : v = other => kicksOther
    OBVIOUS
  <2> HIDE DEF ua, k
  <2>4. CASE kicksOther
    BY <2>1, <2>2, <2>4
  <2>5. CASE ~kicksOther
    BY <2>1, <2>2, <2>3, <2>5
  <2> QED
    BY <2>4, <2>5
<1>10. /\ k.sid2uid \in [ClientSids \cup {EmptySid} -> UserIds \cup {NullUser, NoEntry}]
       /\ \A t \in ClientSids \ {s} : k.sid2uid[t] = IF t = old THEN NoEntry ELSE sid2uid[t]
  <2>1. k.sid2uid = IF kicksOld THEN [sid2uid EXCEPT ![old] = NoEntry] ELSE sid2uid
    BY <1>6 DEF Without
  <2> HIDE DEF k
  <2>2. CASE kicksOld
    BY <1>1, <2>1, <2>2 DEF UserTypes
  <2>3. CASE ~kicksOld
    BY <1>1, <2>1, <2>3 DEF UserTypes
  <2> QED
    BY <2>2, <2>3
<1> HIDE DEF k
<1>11. LoggedIn(u, s).kicks = IF kicksOld THEN {old} ELSE {}
  BY <1>8
<1>12. \A v \in UserIds : LoggedIn(u, s).uid2sid[v] = IF v = u THEN s
                                            ELSE IF v = other THEN NoEntry ELSE uid2sid[v]
  BY <1>8, <1>9
<1>13. \A t \in ClientSids : LoggedIn(u, s).sid2uid[t] = IF t = s THEN u
                                              ELSE IF t = old THEN NoEntry ELSE sid2uid[t]
  BY <1>8, <1>10
<1>14. /\ LoggedIn(u, s).uid2sid \in [UserIds \cup {NullUser} -> ClientSids \cup {EmptySid, NoEntry}]
       /\ LoggedIn(u, s).sid2uid \in [ClientSids \cup {EmptySid} -> UserIds \cup {NullUser, NoEntry}]
  BY <1>8, <1>9, <1>10
<1> QED
  BY <1>11, <1>12, <1>13, <1>14 DEF LoginEffect

LEMMA LoginKeeps ==
  ASSUME UsersInv, NEW u \in UserIds, NEW s \in ClientSids,
         uid2sid' = LoggedIn(u, s).uid2sid, sid2uid' = LoggedIn(u, s).sid2uid
  PROVE  /\ UsersInv'
         /\ \A v \in UserIds : uid2sid'[v] \in ClientSids => uid2sid'[v] = s \/ uid2sid'[v] = uid2sid[v]
<1> DEFINE old == uid2sid[u]
           other == sid2uid[s]
<1>1. /\ \A v \in UserIds : uid2sid'[v] = IF v = u THEN s ELSE IF v = other THEN NoEntry ELSE uid2sid[v]
      /\ \A t \in ClientSids : sid2uid'[t] = IF t = s THEN u ELSE IF t = old THEN NoEntry ELSE sid2uid[t]
      /\ UserTypes'
  <2>1. LoginEffect(u, s, uid2sid', sid2uid')
    BY LoginShape
  <2> QED
    BY <2>1 DEF LoginEffect, UserTypes
<1>2. UserTypes /\ UsersAgree
  BY DEF UsersInv
<1>3. NoEntry \notin ClientSids /\ NoEntry \notin UserIds
  BY GateAssumption
<1>4. ASSUME NEW v \in UserIds, uid2sid'[v] \in ClientSids PROVE sid2uid'[uid2sid'[v]] = v
  <2>1. CASE v = u
    BY <1>1, <2>1
  <2>2. CASE v # u
    <3>1. uid2sid'[v] = uid2sid[v] /\ v # other
      BY <1>1, <1>3, <1>4, <2>2
    <3>2. sid2uid[uid2sid[v]] = v
      BY <1>2, <1>4, <3>1 DEF UsersAgree
    <3>3. uid2sid[v] # s /\ uid2sid[v] # old
      BY <1>2, <1>4, <2>2, <3>1, <3>2 DEF UsersAgree
    <3> QED
      BY <1>1, <1>4, <3>1, <3>2, <3>3
  <2> QED
    BY <2>1, <2>2
<1>5. ASSUME NEW t \in ClientSids, sid2uid'[t] \in UserIds PROVE uid2sid'[sid2uid'[t]] = t
  <2>1. CASE t = s
    BY <1>1, <2>1
  <2>2. CASE t # s
    <3>1. sid2uid'[t] = sid2uid[t] /\ t # old
      BY <1>1, <1>3, <1>5, <2>2
    <3>2. uid2sid[sid2uid[t]] = t
      BY <1>2, <1>5, <3>1 DEF UsersAgree
    <3>3. sid2uid[t] # u /\ sid2uid[t] # other
      BY <1>2, <1>5, <2>2, <3>1, <3>2 DEF UsersAgree
    <3> QED
      BY <1>1, <1>5, <3>1, <3>2, <3>3
  <2> QED
    BY <2>1, <2>2
<1>6. UsersAgree'
  BY <1>4, <1>5 DEF UsersAgree
<1> QED
  BY <1>1, <1>3, <1>6 DEF UsersInv

LEMMA LogoutKeeps ==
  ASSUME UsersInv, NEW u \in UserIds, onUserLogout(u)
  PROVE  /\ UsersInv'
         /\ \A v \in UserIds : uid2sid'[v] \in ClientSids => uid2sid'[v] = uid2sid[v]
<1>1. UserTypes /\ UsersAgree
  BY DEF UsersInv
<1>2. /\ uid2sid' = [uid2sid EXCEPT ![u] = NoEntry]
      /\ sid2uid' = IF uid2sid[u] # NoEntry THEN [sid2uid EXCEPT ![uid2sid[u]] = NullUser] ELSE sid2uid
  BY DEF onUserLogout, Without
<1>3. UserTypes'
  BY <1>1, <1>2 DEF UserTypes
<1>4. NoEntry \notin ClientSids /\ NullUser \notin UserIds /\ NoEntry \notin UserIds
  BY GateAssumption
<1>5. \A v \in UserIds : uid2sid'[v] = IF v = u THEN NoEntry ELSE uid2sid[v]
  BY <1>1, <1>2 DEF UserTypes
<1>6. \A t \in ClientSids : sid2uid'[t] = IF t = uid2sid[u] THEN NullUser ELSE sid2uid[t]
  BY <1>1, <1>2, <1>4 DEF UserTypes
<1>7. UsersAgree'
  BY <1>1, <1>4, <1>5, <1>6 DEF UsersAgree
<1> QED
  BY <1>3, <1>4, <1>5, <1>7 DEF UsersInv

\* After a disconnection nobody is in the session.
LEMMA DisconnectKeeps ==
  ASSUME UsersInv, NEW s \in ClientSids, onSessionDisconnect(s)
  PROVE  /\ UsersInv'
         /\ \A v \in UserIds : uid2sid'[v] \in ClientSids => uid2sid'[v] = uid2sid[v] /\ uid2sid[v] # s
<1>1. UserTypes /\ UsersAgree
  BY DEF UsersInv
<1>2. /\ sid2uid' = [sid2uid EXCEPT ![s] = NoEntry]
      /\ uid2sid' = IF sid2uid[s] # NoEntry THEN [uid2sid EXCEPT ![sid2uid[s]] = EmptySid] ELSE uid2sid
  BY DEF onSessionDisconnect, Without
<1>3. UserTypes'
  BY <1>1, <1>2 DEF UserTypes
<1>4. EmptySid \notin ClientSids /\ NoEntry \notin UserIds
  BY GateAssumption
<1>5. \A t \in ClientSids : sid2uid'[t] = IF t = s THEN NoEntry ELSE sid2uid[t]
  BY <1>1, <1>2 DEF UserTypes
<1>6. \A v \in UserIds : uid2sid'[v] = IF v = sid2uid[s] THEN EmptySid ELSE uid2sid[v]
  BY <1>1, <1>2, <1>4 DEF UserTypes
<1>7. UsersAgree'
  BY <1>1, <1>4, <1>5, <1>6 DEF UsersAgree
<1>8. \A v \in UserIds : uid2sid'[v] \in ClientSids => uid2sid'[v] = uid2sid[v] /\ uid2sid[v] # s
  BY <1>1, <1>4, <1>6 DEF UsersAgree
<1> QED
  BY <1>3, <1>7, <1>8 DEF UsersInv

-----------------------------------------------------------------------------
\* A client that connected, and what the server and the first two tables hold of it.
Begun(s) == cl[s] \notin {"new", "counted"}

ClientStages == {"new", "counted", "open", "tell", "conns", "clients", "users", "binds", "feed", "gone"}

ConnTypes ==
  /\ limit \in Nat \ {0}
  /\ live \subseteq ClientSids /\ IsFiniteSet(live)
  /\ conns \subseteq ClientSids /\ clients \subseteq ClientSids
  /\ cl \in [ClientSids -> ClientStages]

Connected(s) ==
  /\ s \in live <=> cl[s] \in {"counted", "open"}
  /\ s \in conns => cl[s] \in {"open", "tell", "conns"}
  /\ cl[s] = "open" => s \in conns
  /\ s \in clients => cl[s] \in {"open", "tell", "conns", "clients"} /\ (s \in conns \/ cl[s] = "clients")

ConnsInv == ConnTypes /\ (\A s \in ClientSids : Connected(s)) /\ LimitHolds

\* Only the client's own steps move it, in the order of its stages.
ClientMoves(s) ==
  \/ ConnCounted(s) \/ OnConnect(s) \/ ConnCloses(s) \/ onClientConnClose(s)

LEMMA OthersLeaveConns ==
  ASSUME [GateNext]_gateTableVars, \A s \in ClientSids : ~ClientMoves(s)
  PROVE  UNCHANGED <<limit, live, conns, cl>> /\ clients' \subseteq clients
<1>1. CASE UNCHANGED gateTableVars
  BY <1>1 DEF gateTableVars, given, tabVars
<1>2. ASSUME NEW s \in ClientSids,
             \/ OnRaw(s) \/ allocLogicNode(s) \/ sessionBind(s) \/ onBindLogicNode(s)
             \/ Forwards(s) \/ RecvQueueFull(s)
      PROVE  UNCHANGED <<limit, live, conns, cl, clients>>
  BY <1>2 DEF OnRaw, allocLogicNode, sessionBind, onBindLogicNode, Forwards, RecvQueueFull, given, tabVars
<1>3. ASSUME NEW f \in Feeders, feedCallback(f) \/ IsLimited(f) \/ IsLimitedSets(f) \/ Reset(f)
      PROVE  UNCHANGED <<limit, live, conns, cl, clients>>
  BY <1>3 DEF feedCallback, IsLimited, IsLimitedSets, Reset, StoresDeadline, given, tabVars
<1>4. ASSUME NEW n \in GameNodes,
             \/ \E u \in UserIds, s \in ClientSids, login \in BOOLEAN : HookBegins(n, u, s, login)
             \/ onUserLogin(n) \/ onUnbindLogicNode(n) \/ LogoutUser(n) \/ Kick(n)
      PROVE  UNCHANGED <<limit, live, conns, cl, clients>>
  BY <1>4 DEF HookBegins, onUserLogin, onUnbindLogicNode, LogoutUser, Kick, given, tabVars
<1>5. ASSUME NEW n \in GameNodes, removeClient(n)
      PROVE  UNCHANGED <<limit, live, conns, cl>> /\ clients' \subseteq clients
  BY <1>5 DEF removeClient, given
<1> QED
  BY <1>1, <1>2, <1>3, <1>4, <1>5 DEF GateNext, ClientMoves

LEMMA ConnsKept ==
  ASSUME ConnsInv, [GateNext]_gateTableVars
  PROVE  ConnsInv'
<1>1. ConnTypes /\ LimitHolds /\ \A s \in ClientSids : Connected(s)
  BY DEF ConnsInv
<1>2. CASE \A s \in ClientSids : ~ClientMoves(s)
  <2>1. UNCHANGED <<limit, live, conns, cl>> /\ clients' \subseteq clients
    BY <1>2, OthersLeaveConns
  <2>2. ConnTypes' /\ LimitHolds'
    BY <1>1, <2>1 DEF ConnTypes, LimitHolds
  <2>3. \A s \in ClientSids : Connected(s)'
    BY <1>1, <2>1 DEF Connected
  <2> QED
    BY <2>2, <2>3 DEF ConnsInv
<1>3. ASSUME NEW s \in ClientSids, ConnCounted(s) PROVE ConnsInv'
  <2>1. /\ cl[s] = "new" /\ live' = live \cup {s} /\ cl' = [cl EXCEPT ![s] = "counted"]
        /\ UNCHANGED <<limit, conns, clients>>
    BY <1>3 DEF ConnCounted, given, tabVars
  <2>2. IsFiniteSet(live')
    BY <1>1, <2>1, FS_AddElement DEF ConnTypes
  <2>3. ConnTypes'
    BY <1>1, <2>1, <2>2 DEF ConnTypes, ClientStages
  <2>4. \A t \in ClientSids : Connected(t)'
    BY <1>1, <2>1 DEF ConnTypes, Connected
  <2>5. s \notin conns
    BY <1>1, <2>1 DEF Connected
  <2>6. live' \cap conns' = live \cap conns
    BY <2>1, <2>5
  <2> QED
    BY <1>1, <2>1, <2>3, <2>4, <2>6 DEF ConnsInv, LimitHolds
<1>4. ASSUME NEW s \in ClientSids, OnConnect(s) PROVE ConnsInv'
  <2>1. cl[s] = "counted" /\ limit' = limit
    BY <1>4 DEF OnConnect, given
  <2>2. CASE Cardinality(live) >= limit
    <3>1. cl' = [cl EXCEPT ![s] = "tell"] /\ live' = live \ {s} /\ UNCHANGED <<conns, clients>>
      BY <1>4, <2>2 DEF OnConnect
    <3>2. IsFiniteSet(live')
      BY <1>1, <3>1, FS_RemoveElement DEF ConnTypes
    <3>3. ConnTypes'
      BY <1>1, <2>1, <3>1, <3>2 DEF ConnTypes, ClientStages
    <3>4. \A t \in ClientSids : Connected(t)'
      BY <1>1, <2>1, <3>1 DEF ConnTypes, Connected
    <3>5. s \notin conns
      BY <1>1, <2>1 DEF Connected
    <3>6. live' \cap conns' = live \cap conns
      BY <3>1, <3>5
    <3> QED
      BY <1>1, <2>1, <3>3, <3>4, <3>6 DEF ConnsInv, LimitHolds
  <2>3. CASE ~(Cardinality(live) >= limit)
    <3>1. /\ cl' = [cl EXCEPT ![s] = "open"] /\ live' = live
          /\ conns' = conns \cup {s} /\ clients' = clients \cup {s}
      BY <1>4, <2>3 DEF OnConnect, onNewClientConn
    <3>2. ConnTypes'
      BY <1>1, <2>1, <3>1 DEF ConnTypes, ClientStages
    <3>3. \A t \in ClientSids : Connected(t)'
      BY <1>1, <2>1, <3>1 DEF ConnTypes, Connected
    <3>4. IsFiniteSet(live) /\ limit \in Nat
      BY <1>1 DEF ConnTypes
    <3>5. Cardinality(live \cap conns') <= Cardinality(live)
      BY <3>4, FS_Intersection
    <3>6. IsFiniteSet(live \cap conns')
      BY <3>4, FS_Intersection
    <3>7. Cardinality(live) \in Nat /\ Cardinality(live \cap conns') \in Nat
      BY <3>4, <3>6, FS_CardinalityType
    <3>8. Cardinality(live' \cap conns') < limit'
      BY <2>1, <2>3, <3>1, <3>4, <3>5, <3>7
    <3> QED
      BY <3>2, <3>3, <3>8 DEF ConnsInv, LimitHolds
  <2> QED
    BY <2>2, <2>3
<1>5. ASSUME NEW s \in ClientSids, ConnCloses(s) \/ onClientConnClose(s) PROVE ConnsInv'
  <2>1. /\ limit' = limit /\ live' = IF cl[s] = "open" THEN live \ {s} ELSE live
        /\ conns' = IF cl[s] = "conns" THEN conns \ {s} ELSE conns
        /\ clients' = IF cl[s] = "clients" THEN clients \ {s} ELSE clients
    BY <1>5 DEF ConnCloses, onClientConnClose, CloseSteps, given, tabVars
  <2>2. \/ cl[s] = "open" /\ cl' = [cl EXCEPT ![s] = "tell"]
        \/ cl[s] = "tell" /\ cl' = [cl EXCEPT ![s] = "conns"]
        \/ cl[s] = "conns" /\ cl' = [cl EXCEPT ![s] = "clients"]
        \/ cl[s] = "clients" /\ cl' = [cl EXCEPT ![s] = "users"]
        \/ cl[s] = "users" /\ cl' = [cl EXCEPT ![s] = "binds"]
        \/ cl[s] = "binds" /\ cl' = [cl EXCEPT ![s] = "feed"]
        \/ cl[s] = "feed" /\ cl' = [cl EXCEPT ![s] = "gone"]
    BY <1>5 DEF ConnCloses, onClientConnClose, CloseSteps
  <2>3. IsFiniteSet(live')
    BY <1>1, <2>1, FS_RemoveElement DEF ConnTypes
  <2>4. ConnTypes'
    BY <1>1, <2>1, <2>2, <2>3 DEF ConnTypes, ClientStages
  <2>5. \A t \in ClientSids : Connected(t)'
    BY <1>1, <2>1, <2>2 DEF ConnTypes, Connected
  <2>6. IsFiniteSet(live \cap conns) /\ (live' \cap conns') \in SUBSET (live \cap conns)
    BY <1>1, <2>1, FS_Intersection DEF ConnTypes
  <2>7. /\ IsFiniteSet(live' \cap conns')
        /\ Cardinality(live' \cap conns') <= Cardinality(live \cap conns)
    BY <2>6, FS_Subset
  <2>8. Cardinality(live' \cap conns') \in Nat /\ Cardinality(live \cap conns) \in Nat
    BY <2>6, <2>7, FS_CardinalityType
  <2>9. LimitHolds'
    BY <1>1, <2>1, <2>7, <2>8 DEF LimitHolds, ConnTypes
  <2> QED
    BY <2>4, <2>5, <2>9 DEF ConnsInv
<1> QED
  BY <1>2, <1>3, <1>4, <1>5 DEF ClientMoves

-----------------------------------------------------------------------------
\* What is stored of a session: where its reader is, the node it is bound to and the nodes it
\* spoke to.
ReaderStages == {"no", "alloc", "bind", "weigh", "send"}

BindTypes ==
  /\ sessionTable \in [ClientSids -> GameNodes \cup {NoNode}]
  /\ reader \in [ClientSids -> [at : ReaderStages, n : GameNodes \cup {NoNode}]]
  /\ seen \subseteq GameNodes \X ClientSids

\* Only the reader of a session binds it, and it found the session unbound.
Reading(s) ==
  /\ reader[s].at # "no" => Begun(s)
  /\ reader[s].at \in {"bind", "weigh", "send"} => reader[s].n \in GameNodes
  /\ reader[s].at = "bind" => sessionTable[s] = NoNode

\* Node n will be told, was told, or the session was bound too late for that.
Told(s, n) ==
  \/ cl[s] \in {"open", "tell"} /\ sessionTable[s] = n
  \/ <<n, s>> \in told
  \/ <<"tell", s>> \in late

Spoken(s) ==
  /\ sessionTable[s] # NoNode => Told(s, sessionTable[s])
  /\ reader[s].at \in {"weigh", "send"} => Told(s, reader[s].n)
  /\ \A n \in GameNodes : <<n, s>> \in seen => Told(s, n) /\ Begun(s)

\* What is in a table was put there before the close passed it, or late.
Stored(s) ==
  /\ sessionTable[s] # NoNode => Begun(s) /\ (cl[s] \notin {"feed", "gone"} \/ <<"bind", s>> \in late)
  /\ sessionTable[s] # NoNode =>
       \/ s \in left \/ <<sessionTable[s], s>> \in nodeTable
       \/ reader[s].at = "weigh" /\ reader[s].n = sessionTable[s]

SessionInv(s) == Reading(s) /\ Spoken(s) /\ Stored(s)

Grows == late \subseteq late' /\ told \subseteq told' /\ left \subseteq left'

\* A step that is not the session's: it takes nothing away but the count of a session that left.
SessionKept(s) ==
  /\ sessionTable'[s] = sessionTable[s] /\ reader'[s] = reader[s]
  /\ \A n \in GameNodes : /\ <<n, s>> \in seen' => <<n, s>> \in seen
                          /\ <<n, s>> \in nodeTable => <<n, s>> \in nodeTable' \/ s \in left'

LEMMA KeptKeeps ==
  ASSUME NEW s \in ClientSids, BindTypes, SessionInv(s), SessionKept(s), Grows, cl'[s] = cl[s]
  PROVE  SessionInv(s)'
<1>1. Reading(s) /\ Spoken(s) /\ Stored(s)
  BY DEF SessionInv
<1>2. Begun(s)' <=> Begun(s)
  BY DEF Begun
<1>3. \A n : Told(s, n) => Told(s, n)'
  BY DEF Told, SessionKept, Grows
<1>4. Reading(s)'
  BY <1>1, <1>2 DEF Reading, SessionKept
<1>5. Spoken(s)'
  BY <1>1, <1>2, <1>3 DEF Spoken, SessionKept
<1>6. sessionTable[s] \in GameNodes \cup {NoNode}
  BY DEF BindTypes
<1>7. Stored(s)'
  BY <1>1, <1>2, <1>6 DEF Stored, SessionKept, Grows
<1> QED
  BY <1>4, <1>5, <1>7 DEF SessionInv

\* The reader of a session binds it, counts it and speaks for it.
ReaderMoves(s) ==
  OnRaw(s) \/ allocLogicNode(s) \/ sessionBind(s) \/ onBindLogicNode(s) \/ Forwards(s)

\* Clients are told of errors.
FeedMoves ==
  \/ \E s \in ClientSids : RecvQueueFull(s)
  \/ \E f \in Feeders : feedCallback(f) \/ IsLimited(f) \/ IsLimitedSets(f) \/ Reset(f)

HookMoves(n) ==
  \/ \E u \in UserIds, s \in ClientSids, login \in BOOLEAN : HookBegins(n, u, s, login)
  \/ onUserLogin(n) \/ Kick(n) \/ removeClient(n) \/ onUnbindLogicNode(n) \/ LogoutUser(n)

LEMMA ReaderLeavesOthers ==
  ASSUME NEW s \in ClientSids, BindTypes, ReaderMoves(s)
  PROVE  /\ Grows /\ UNCHANGED cl
         /\ \A t \in ClientSids \ {s} : SessionKept(t)
<1>1. /\ Grows /\ UNCHANGED <<cl, left>>
      /\ sessionTable' = sessionTable \/ sessionTable' = [sessionTable EXCEPT ![s] = reader[s].n]
      /\ reader' = reader \/ \E at, n : reader' = [reader EXCEPT ![s] = [at |-> at, n |-> n]]
      /\ seen' \subseteq seen \cup {<<reader[s].n, s>>}
      /\ nodeTable \subseteq nodeTable'
  BY DEF ReaderMoves, OnRaw, allocLogicNode, sessionBind, onBindLogicNode, Forwards,
     Refuses, Reads, tabVars, Grows
<1>2. ASSUME NEW t \in ClientSids \ {s} PROVE SessionKept(t)
  <2>1. sessionTable'[t] = sessionTable[t]
    BY <1>1 DEF BindTypes
  <2>2. reader'[t] = reader[t]
    BY <1>1 DEF BindTypes
  <2> QED
    BY <1>1, <2>1, <2>2 DEF SessionKept
<1> QED
  BY <1>1, <1>2

LEMMA ReaderKeepsTypes ==
  ASSUME NEW s \in ClientSids, BindTypes, SessionInv(s), ReaderMoves(s)
  PROVE  BindTypes'
<1>1. reader[s].n \in GameNodes \cup {NoNode} /\ Reading(s)
  BY DEF BindTypes, SessionInv
<1>2. sessionTable' \in [ClientSids -> GameNodes \cup {NoNode}]
  <2>1. sessionTable' = sessionTable \/ sessionTable' = [sessionTable EXCEPT ![s] = reader[s].n]
    BY DEF ReaderMoves, OnRaw, allocLogicNode, sessionBind, onBindLogicNode, Forwards, tabVars
  <2> QED
    BY <1>1, <2>1 DEF BindTypes
<1>3. seen' \subseteq GameNodes \X ClientSids
  <2>1. \/ seen' = seen
        \/ reader[s].at = "send" /\ seen' = seen \cup {<<reader[s].n, s>>}
    BY DEF ReaderMoves, OnRaw, allocLogicNode, sessionBind, onBindLogicNode, Forwards, tabVars
  <2> QED
    BY <1>1, <2>1 DEF BindTypes, Reading
<1>4. \/ reader' = reader
      \/ \E at \in ReaderStages, n \in GameNodes \cup {NoNode} : Reads(s, at, n)
  <2>1. chooseLogicNode \subseteq GameNodes
    BY DEF chooseLogicNode, chooseFromShardOrRpc, chooseFromDiscovery
  <2>2. CASE allocLogicNode(s)
    <3>1. Bound(s) \in GameNodes \cup {NoNode}
      BY DEF Bound, BindTypes
    <3>2. \/ Reads(s, "no", NoNode) \/ Reads(s, "send", Bound(s))
          \/ \E n \in chooseLogicNode : Reads(s, "bind", n)
      BY <2>2 DEF allocLogicNode, Refuses
    <3>3. {"no", "send", "bind"} \subseteq ReaderStages
      BY DEF ReaderStages
    <3> QED
      BY <2>1, <3>1, <3>2, <3>3, Zenon
  <2>3. CASE ~allocLogicNode(s)
    <3>1. \/ reader' = reader
          \/ Reads(s, "alloc", NoNode) \/ Reads(s, "weigh", reader[s].n)
          \/ Reads(s, "send", reader[s].n) \/ Reads(s, "no", NoNode)
      BY <2>3 DEF ReaderMoves, OnRaw, sessionBind, onBindLogicNode, Forwards, Refuses
    <3>2. {"alloc", "weigh", "send", "no"} \subseteq ReaderStages
      BY DEF ReaderStages
    <3> QED
      BY <1>1, <3>1, <3>2, Zenon
  <2> QED
    BY <2>2, <2>3
<1>5. reader' \in [ClientSids -> [at : ReaderStages, n : GameNodes \cup {NoNode}]]
  BY <1>4 DEF BindTypes, Reads
<1> QED
  BY <1>2, <1>3, <1>5 DEF BindTypes

LEMMA ReaderKeepsOwn ==
  ASSUME NEW s \in ClientSids, BindTypes, SessionInv(s), ReaderMoves(s)
  PROVE  SessionInv(s)'
<1>1. Reading(s) /\ Spoken(s) /\ Stored(s)
  BY DEF SessionInv
<1>2. Grows /\ UNCHANGED cl
  BY ReaderLeavesOthers
<1>3. Begun(s)' <=> Begun(s)
  BY <1>2 DEF Begun
<1>4. /\ sessionTable[s] \in GameNodes \cup {NoNode} /\ reader[s].n \in GameNodes \cup {NoNode}
      /\ \A at, n : Reads(s, at, n) => reader'[s].at = at /\ reader'[s].n = n
  BY DEF BindTypes, Reads
<1>5. NoNode \notin GameNodes
  BY GateAssumption
<1>6. CASE OnRaw(s) \/ allocLogicNode(s)
  <2>1. UNCHANGED <<sessionTable, nodeTable, seen>>
    BY <1>6 DEF OnRaw, allocLogicNode, tabVars
  <2>2. \A n : Told(s, n) => Told(s, n)'
    BY <1>2, <2>1 DEF Told, Grows
  <2>3. /\ Begun(s) /\ reader[s].at # "weigh"
        /\ \/ reader'[s].at \in {"alloc", "no"}
           \/ reader'[s].at = "bind" /\ reader'[s].n \in GameNodes /\ sessionTable[s] = NoNode
           \/ reader'[s].at = "send" /\ reader'[s].n = sessionTable[s] /\ sessionTable[s] # NoNode
    <3>1. CASE OnRaw(s)
      <4>1. reader[s].at = "no" /\ Begun(s)
        BY <3>1 DEF OnRaw, Begun
      <4>2. reader' = reader \/ Reads(s, "alloc", NoNode) \/ Reads(s, "no", NoNode)
        BY <3>1 DEF OnRaw, Refuses
      <4> QED
        BY <1>4, <4>1, <4>2
    <3>2. CASE allocLogicNode(s)
      <4>1. chooseLogicNode \subseteq GameNodes
        BY DEF chooseLogicNode, chooseFromShardOrRpc, chooseFromDiscovery
      <4>2. \/ Reads(s, "no", NoNode)
            \/ sessionTable[s] # NoNode /\ Reads(s, "send", sessionTable[s])
            \/ sessionTable[s] = NoNode /\ \E n \in chooseLogicNode : Reads(s, "bind", n)
        BY <3>2 DEF allocLogicNode, Bound, Refuses
      <4>3. reader[s].at = "alloc" /\ Begun(s)
        BY <1>1, <3>2 DEF allocLogicNode, Reading
      <4>4. CASE sessionTable[s] = NoNode /\ \E n \in chooseLogicNode : Reads(s, "bind", n)
        BY <1>4, <4>1, <4>3, <4>4
      <4> QED
        BY <1>4, <4>2, <4>3, <4>4
    <3> QED
      BY <1>6, <3>1, <3>2
  <2>4. Reading(s)'
    BY <1>3, <1>4, <2>1, <2>3 DEF Reading
  <2>5. sessionTable[s] # NoNode => Told(s, sessionTable[s])
    BY <1>1 DEF Spoken
  <2>6. Spoken(s)'
    BY <1>1, <1>3, <2>1, <2>2, <2>3, <2>5 DEF Spoken
  <2>7. Stored(s)'
    BY <1>1, <1>2, <1>3, <2>1, <2>3 DEF Stored, Grows
  <2> QED
    BY <2>4, <2>6, <2>7 DEF SessionInv
<1>7. CASE sessionBind(s)
  <2>1. /\ reader[s].at = "bind" /\ reader'[s].at = "weigh" /\ reader'[s].n = reader[s].n
        /\ sessionTable'[s] = reader[s].n /\ UNCHANGED <<nodeTable, seen, told>>
    BY <1>4, <1>7 DEF sessionBind, BindTypes
  <2>2. /\ cl[s] \in {"feed", "gone"} => <<"bind", s>> \in late'
        /\ cl[s] \notin {"open", "tell"} => <<"tell", s>> \in late'
    BY <1>7 DEF sessionBind
  <2>3. reader[s].n \in GameNodes /\ sessionTable[s] = NoNode /\ Begun(s)
    BY <1>1, <2>1 DEF Reading
  <2>4. Told(s, reader[s].n)'
    BY <1>2, <2>1, <2>2 DEF Told
  <2>5. \A n \in GameNodes : Told(s, n) => Told(s, n)'
    BY <1>2, <1>5, <2>3 DEF Told, Grows
  <2>6. Reading(s)'
    BY <1>3, <2>1, <2>3 DEF Reading
  <2>7. Spoken(s)'
    BY <1>1, <1>3, <2>1, <2>4, <2>5 DEF Spoken
  <2>8. Stored(s)'
    BY <1>1, <1>2, <1>3, <2>1, <2>2, <2>3 DEF Stored, Grows
  <2> QED
    BY <2>6, <2>7, <2>8 DEF SessionInv
<1>8. CASE onBindLogicNode(s)
  <2>1. /\ reader[s].at = "weigh" /\ reader'[s].at = "send" /\ reader'[s].n = reader[s].n
        /\ nodeTable' = nodeTable \cup {<<reader[s].n, s>>}
        /\ UNCHANGED <<sessionTable, seen>>
    BY <1>4, <1>8 DEF onBindLogicNode
  <2>2. \A n : Told(s, n) => Told(s, n)'
    BY <1>2, <2>1 DEF Told, Grows
  <2>3. Reading(s)'
    BY <1>1, <1>3, <2>1 DEF Reading
  <2>4. Spoken(s)'
    BY <1>1, <1>3, <2>1, <2>2 DEF Spoken
  <2>5. Stored(s)'
    BY <1>1, <1>2, <1>3, <2>1 DEF Stored, Grows
  <2> QED
    BY <2>3, <2>4, <2>5 DEF SessionInv
<1>9. CASE Forwards(s)
  <2>1. /\ reader[s].at = "send" /\ reader'[s].at = "no"
        /\ seen' \subseteq seen \cup {<<reader[s].n, s>>}
        /\ UNCHANGED <<sessionTable, nodeTable>>
    BY <1>4, <1>9 DEF Forwards, Refuses, tabVars
  <2>2. \A n : Told(s, n) => Told(s, n)'
    BY <1>2, <2>1 DEF Told, Grows
  <2>3. Begun(s) /\ Told(s, reader[s].n)
    BY <1>1, <2>1 DEF Reading, Spoken
  <2>4. Reading(s)'
    BY <1>1, <1>3, <2>1, <2>3 DEF Reading
  <2>5. Spoken(s)'
    BY <1>1, <1>3, <2>1, <2>2, <2>3 DEF Spoken
  <2>6. Stored(s)'
    BY <1>1, <1>2, <1>3, <2>1 DEF Stored, Grows
  <2> QED
    BY <2>4, <2>5, <2>6 DEF SessionInv
<1> QED
  BY <1>6, <1>7, <1>8, <1>9 DEF ReaderMoves

\* Telling clients of errors changes nothing else of their sessions, of logins and of hooks.
LEMMA FeedLeavesSessions ==
  ASSUME FeedMoves
  PROVE  /\ Grows /\ UNCHANGED <<errCallback, conns, clients, cl, reader, hk, sessionTable, seen, displaced>>
         /\ UNCHANGED <<uid2sid, sid2uid>>
         /\ \A t \in ClientSids : SessionKept(t)
<1>1. CASE \E s \in ClientSids : RecvQueueFull(s)
  BY <1>1 DEF RecvQueueFull, SessionKept, Grows, given, tabVars
<1>2. CASE \E f \in Feeders : feedCallback(f) \/ IsLimited(f)
  BY <1>2 DEF feedCallback, IsLimited, SessionKept, Grows, given, tabVars
<1>3. CASE \E f \in Feeders : IsLimitedSets(f) \/ Reset(f)
  BY <1>3 DEF IsLimitedSets, Reset, StoresDeadline, SessionKept, Grows, given
<1> QED
  BY <1>1, <1>2, <1>3 DEF FeedMoves

\* The connect and the close of a client.
LEMMA ClientLeavesOthers ==
  ASSUME NEW s \in ClientSids, ConnsInv, BindTypes, ClientMoves(s)
  PROVE  /\ Grows /\ UNCHANGED <<reader, hk, seen, nodeTable>> /\ BindTypes'
         /\ Begun(s) => Begun(s)'
         /\ \A t \in ClientSids \ {s} : SessionKept(t) /\ cl'[t] = cl[t]
<1>1. /\ Grows /\ UNCHANGED <<reader, hk, seen, nodeTable>>
      /\ sessionTable' = sessionTable \/ sessionTable' = [sessionTable EXCEPT ![s] = NoNode]
      /\ \E stage : cl' = [cl EXCEPT ![s] = stage] /\ (Begun(s) => stage \notin {"new", "counted"})
  BY DEF ClientMoves, ConnCounted, OnConnect, ConnCloses, onClientConnClose, CloseSteps, tabVars, Grows, Begun
<1>2. cl \in [ClientSids -> ClientStages]
  BY DEF ConnsInv, ConnTypes
<1>3. ASSUME NEW t \in ClientSids \ {s} PROVE SessionKept(t) /\ cl'[t] = cl[t]
  BY <1>1, <1>2, <1>3 DEF BindTypes, SessionKept
<1>4. BindTypes'
  BY <1>1 DEF BindTypes
<1>5. Begun(s) => Begun(s)'
  BY <1>1, <1>2 DEF Begun
<1> QED
  BY <1>1, <1>3, <1>4, <1>5

LEMMA ClientKeepsOwn ==
  ASSUME NEW s \in ClientSids, ConnsInv, BindTypes, SessionInv(s), ClientMoves(s)
  PROVE  SessionInv(s)'
<1>1. Reading(s) /\ Spoken(s) /\ Stored(s)
  BY DEF SessionInv
<1>2. Grows /\ UNCHANGED <<reader, hk, seen, nodeTable>> /\ (Begun(s) => Begun(s)')
  BY ClientLeavesOthers
<1>3. cl \in [ClientSids -> ClientStages] /\ sessionTable \in [ClientSids -> GameNodes \cup {NoNode}]
  BY DEF ConnsInv, ConnTypes, BindTypes
<1>4. NoNode \notin GameNodes
  BY GateAssumption
<1>5. /\ sessionTable'[s] = IF cl[s] = "binds" THEN NoNode ELSE sessionTable[s]
      /\ cl[s] = "tell" /\ sessionTable[s] # NoNode => <<sessionTable[s], s>> \in told'
  BY <1>3 DEF ClientMoves, ConnCounted, OnConnect, ConnCloses, onClientConnClose, tabVars, Bound
<1>6. \/ cl[s] \in {"new", "counted"} /\ cl'[s] \in {"counted", "open", "tell"}
      \/ cl[s] = "open" /\ cl'[s] = "tell"
      \/ cl[s] = "tell" /\ cl'[s] = "conns"
      \/ cl[s] \in {"conns", "clients", "users"} /\ cl'[s] \in {"clients", "users", "binds"}
      \/ cl[s] = "binds" /\ cl'[s] = "feed"
      \/ cl[s] = "feed" /\ cl'[s] = "gone"
  BY <1>3 DEF ClientMoves, ConnCounted, OnConnect, ConnCloses, onClientConnClose, CloseSteps
<1>7. \A n \in GameNodes : Told(s, n) => Told(s, n)'
  BY <1>2, <1>4, <1>5, <1>6 DEF Told, Grows
<1>8. Reading(s)'
  BY <1>1, <1>2, <1>5 DEF Reading
<1>9. sessionTable'[s] # NoNode => sessionTable'[s] = sessionTable[s] /\ sessionTable[s] \in GameNodes
  BY <1>3, <1>5
<1>10. Spoken(s)'
  BY <1>1, <1>2, <1>7, <1>9 DEF Spoken, Reading
<1>11. Stored(s)'
  BY <1>1, <1>2, <1>5, <1>6, <1>9 DEF Stored, Grows
<1> QED
  BY <1>8, <1>10, <1>11 DEF SessionInv

-----------------------------------------------------------------------------
\* The hooks: a node reports only of sessions that spoke to it, a login kicks only such.
HookStages == {"no", "user", "kick", "unbind", "logged"}

Hook == [at : HookStages, u : UserIds \cup {NullUser}, s : ClientSids \cup {EmptySid}, kicks : SUBSET ClientSids]

Reported(n) ==
  /\ hk[n].at # "no" => hk[n].u \in UserIds /\ hk[n].s \in ClientSids /\ Begun(hk[n].s)
  /\ \A t \in hk[n].kicks : Begun(t)

HooksInv == hk \in [GameNodes -> Hook] /\ \A n \in GameNodes : Reported(n)

\* The session of a user came before its close passed userMgr, or late.
Logged(u) ==
  uid2sid[u] \in ClientSids =>
    /\ Begun(uid2sid[u])
    /\ cl[uid2sid[u]] \notin {"binds", "feed", "gone"} \/ <<"user", uid2sid[u]>> \in late

LoginsInv == UsersInv /\ \A u \in UserIds : Logged(u)

LEMMA HookLeavesSessions ==
  ASSUME NEW n \in GameNodes, HookMoves(n)
  PROVE  /\ Grows /\ UNCHANGED <<cl, reader, sessionTable, seen>>
         /\ \A t \in ClientSids : SessionKept(t)
<1>1. /\ Grows /\ UNCHANGED <<cl, reader, sessionTable, seen>>
      /\ \/ nodeTable' = nodeTable
         \/ nodeTable' = nodeTable \ {<<n, hk[n].s>>} /\ left' = left \cup {hk[n].s}
  <2>1. CASE \E u \in UserIds, s \in ClientSids, login \in BOOLEAN : HookBegins(n, u, s, login)
    BY <2>1 DEF HookBegins, Grows
  <2>2. CASE onUserLogin(n)
    BY <2>2 DEF onUserLogin, Grows
  <2>3. CASE Kick(n)
    BY <2>3 DEF Kick, Grows, tabVars
  <2>4. CASE onUnbindLogicNode(n) \/ LogoutUser(n) \/ removeClient(n)
    BY <2>4 DEF onUnbindLogicNode, LogoutUser, removeClient, Grows
  <2> QED
    BY <2>1, <2>2, <2>3, <2>4 DEF HookMoves
<1>2. ASSUME NEW t \in ClientSids PROVE SessionKept(t)
  BY <1>1 DEF SessionKept
<1> QED
  BY <1>1, <1>2

LEMMA HookKeepsHooks ==
  ASSUME NEW n \in GameNodes, HookMoves(n), LoginsInv, HooksInv, BindTypes, \A s \in ClientSids : SessionInv(s)
  PROVE  HooksInv'
<1>1. hk \in [GameNodes -> Hook] /\ \A m \in GameNodes : Reported(m)
  BY DEF HooksInv
<1>2. UNCHANGED cl /\ \A s : Begun(s)' <=> Begun(s)
  BY HookLeavesSessions DEF Begun
<1>3. ASSUME NEW u \in UserIds, NEW s \in ClientSids, NEW login \in BOOLEAN, HookBegins(n, u, s, login)
      PROVE  HooksInv'
  <2>1. /\ <<n, s>> \in seen
        /\ hk' = [hk EXCEPT ![n] = [at |-> IF login THEN "user" ELSE "unbind", u |-> u, s |-> s, kicks |-> {}]]
    BY <1>3 DEF HookBegins
  <2>2. Begun(s)
    BY <2>1 DEF SessionInv, Spoken
  <2>3. [at |-> IF login THEN "user" ELSE "unbind", u |-> u, s |-> s, kicks |-> {}] \in Hook
    BY DEF Hook, HookStages
  <2>4. hk' \in [GameNodes -> Hook]
    BY <1>1, <2>1, <2>3
  <2>5. \A m \in GameNodes : Reported(m)'
    BY <1>1, <1>2, <2>1, <2>2 DEF Reported
  <2> QED
    BY <2>4, <2>5 DEF HooksInv
<1>4. ASSUME onUserLogin(n) \/ Kick(n) \/ onUnbindLogicNode(n) \/ LogoutUser(n) PROVE HooksInv'
  <2>1. hk[n] \in Hook
    BY <1>1
  <2>2. hk[n].at # "no" /\ hk[n].u \in UserIds /\ hk[n].s \in ClientSids /\ Begun(hk[n].s)
    BY <1>1, <1>4 DEF Reported, onUserLogin, Kick, onUnbindLogicNode, LogoutUser
  <2>3. \E at \in HookStages, kicks \in SUBSET {t \in ClientSids : Begun(t)} :
           hk' = [hk EXCEPT ![n] = [@ EXCEPT !.at = at, !.kicks = kicks]]
    <3>0. hk[n].kicks \in SUBSET {t \in ClientSids : Begun(t)}
      BY <1>1, <2>1 DEF Reported, Hook
    <3>1. CASE onUserLogin(n) /\ errCallback
      <4>1. LoggedIn(hk[n].u, hk[n].s).kicks \in SUBSET {t \in ClientSids : Begun(t)}
        <5>1. UsersInv /\ Logged(hk[n].u)
          BY <2>2 DEF LoginsInv
        <5>2. LoggedIn(hk[n].u, hk[n].s).kicks = IF uid2sid[hk[n].u] \in ClientSids \ {hk[n].s} THEN {uid2sid[hk[n].u]} ELSE {}
          BY <2>2, <5>1, LoginShape
        <5>3. uid2sid[hk[n].u] \in ClientSids => Begun(uid2sid[hk[n].u])
          BY <5>1 DEF Logged
        <5> QED
          BY <5>2, <5>3
      <4>2. hk' = [hk EXCEPT ![n] = [@ EXCEPT !.at = "kick", !.kicks = LoggedIn(hk[n].u, hk[n].s).kicks]]
        BY <3>1 DEF onUserLogin
      <4> QED
        BY <4>1, <4>2 DEF HookStages
    <3>2. CASE Kick(n) /\ hk[n].kicks # {}
      <4>1. hk[n].at = "kick"
        BY <3>2 DEF Kick
      <4>2. PICK s \in hk[n].kicks : hk' = [hk EXCEPT ![n].kicks = @ \ {s}]
        BY <3>2 DEF Kick
      <4>3. [hk[n] EXCEPT !.kicks = @ \ {s}] = [hk[n] EXCEPT !.at = "kick", !.kicks = hk[n].kicks \ {s}]
        BY <2>1, <4>1 DEF Hook
      <4>4. hk[n].kicks \ {s} \in SUBSET {t \in ClientSids : Begun(t)}
        BY <3>0
      <4> QED
        BY <1>1, <4>2, <4>3, <4>4 DEF HookStages
    <3>3. CASE \/ onUserLogin(n) /\ ~errCallback
               \/ Kick(n) /\ hk[n].kicks = {}
               \/ onUnbindLogicNode(n)
               \/ LogoutUser(n)
      <4>1. PICK at \in HookStages : hk' = [hk EXCEPT ![n] = [@ EXCEPT !.at = at]]
        BY <3>3 DEF onUserLogin, Kick, onUnbindLogicNode, LogoutUser, Hooking, HookStages
      <4>2. [hk[n] EXCEPT !.at = at] = [hk[n] EXCEPT !.at = at, !.kicks = hk[n].kicks]
        BY <2>1 DEF Hook
      <4> QED
        BY <1>1, <3>0, <4>1, <4>2
    <3> QED
      BY <1>4, <3>1, <3>2, <3>3
  <2>4. PICK at \in HookStages, kicks \in SUBSET {t \in ClientSids : Begun(t)} :
           hk' = [hk EXCEPT ![n] = [@ EXCEPT !.at = at, !.kicks = kicks]]
    BY <2>3
  <2>5. [hk[n] EXCEPT !.at = at, !.kicks = kicks] \in Hook
    BY <2>1 DEF Hook
  <2>6. hk' \in [GameNodes -> Hook]
    BY <1>1, <2>4, <2>5
  <2>7. hk'[n] = [hk[n] EXCEPT !.at = at, !.kicks = kicks]
    BY <1>1, <2>4
  <2>8. hk'[n].u = hk[n].u /\ hk'[n].s = hk[n].s /\ hk'[n].kicks = kicks
    BY <2>1, <2>7 DEF Hook
  <2>9. Reported(n)'
    BY <1>2, <2>2, <2>4, <2>8 DEF Reported
  <2>10. ASSUME NEW m \in GameNodes \ {n} PROVE Reported(m)'
    <3>1. hk'[m] = hk[m]
      BY <1>1, <2>4
    <3> QED
      BY <1>1, <1>2, <3>1 DEF Reported
  <2> QED
    BY <2>6, <2>9, <2>10 DEF HooksInv
<1>5. ASSUME removeClient(n) PROVE HooksInv'
  <2>1. UNCHANGED hk
    BY <1>5 DEF removeClient
  <2> QED
    BY <1>1, <1>2, <2>1 DEF HooksInv, Reported
<1> QED
  BY <1>3, <1>4, <1>5 DEF HookMoves

LEMMA HookKeepsLogins ==
  ASSUME NEW n \in GameNodes, HookMoves(n), LoginsInv, HooksInv
  PROVE  LoginsInv'
<1>1. UsersInv /\ (\A u \in UserIds : Logged(u)) /\ Reported(n)
  BY DEF LoginsInv, HooksInv
<1>2. Grows /\ UNCHANGED cl /\ \A s : Begun(s)' <=> Begun(s)
  BY HookLeavesSessions DEF Begun
<1>3. CASE onUserLogin(n)
  <2>1. /\ hk[n].at = "user"
        /\ uid2sid' = LoggedIn(hk[n].u, hk[n].s).uid2sid /\ sid2uid' = LoggedIn(hk[n].u, hk[n].s).sid2uid
        /\ cl[hk[n].s] \in {"binds", "feed", "gone"} => <<"user", hk[n].s>> \in late'
    BY <1>3 DEF onUserLogin
  <2>2. hk[n].u \in UserIds /\ hk[n].s \in ClientSids /\ Begun(hk[n].s)
    BY <1>1, <2>1 DEF Reported
  <2>3. /\ UsersInv'
        /\ \A v \in UserIds : uid2sid'[v] \in ClientSids => uid2sid'[v] = hk[n].s \/ uid2sid'[v] = uid2sid[v]
    BY <1>1, <2>1, <2>2, LoginKeeps
  <2>4. \A v \in UserIds : Logged(v)'
    BY <1>1, <1>2, <2>1, <2>2, <2>3 DEF Logged, Grows
  <2> QED
    BY <2>3, <2>4 DEF LoginsInv
<1>4. CASE LogoutUser(n)
  <2>1. hk[n].u \in UserIds /\ onUserLogout(hk[n].u)
    BY <1>1, <1>4 DEF LogoutUser, Reported
  <2>2. UsersInv' /\ \A v \in UserIds : uid2sid'[v] \in ClientSids => uid2sid'[v] = uid2sid[v]
    BY <1>1, <2>1, LogoutKeeps
  <2>3. \A v \in UserIds : Logged(v)'
    BY <1>1, <1>2, <2>2 DEF Logged, Grows
  <2> QED
    BY <2>2, <2>3 DEF LoginsInv
<1>5. CASE ~onUserLogin(n) /\ ~LogoutUser(n)
  <2>1. UNCHANGED <<uid2sid, sid2uid>>
    BY <1>5 DEF HookMoves, HookBegins, Kick, removeClient, onUnbindLogicNode, tabVars
  <2>2. UsersInv'
    BY <1>1, <2>1 DEF UsersInv, UserTypes, UsersAgree
  <2>3. \A v \in UserIds : Logged(v)'
    BY <1>1, <1>2, <2>1 DEF Logged, Grows
  <2> QED
    BY <2>2, <2>3 DEF LoginsInv
<1> QED
  BY <1>3, <1>4, <1>5

LEMMA ClientKeepsLogins ==
  ASSUME NEW s \in ClientSids, ConnsInv, BindTypes, ClientMoves(s), LoginsInv, HooksInv
  PROVE  LoginsInv' /\ HooksInv'
<1>1. UsersInv /\ (\A u \in UserIds : Logged(u)) /\ hk \in [GameNodes -> Hook] /\ \A n \in GameNodes : Reported(n)
  BY DEF LoginsInv, HooksInv
<1>2. /\ Grows /\ UNCHANGED hk /\ (Begun(s) => Begun(s)')
      /\ \A t \in ClientSids \ {s} : cl'[t] = cl[t]
  BY ClientLeavesOthers
<1>3. \A t \in ClientSids : Begun(t) => Begun(t)'
  BY <1>2 DEF Begun
<1>4. HooksInv'
  <2>1. \A n \in GameNodes : hk[n].kicks \subseteq ClientSids
    BY <1>1 DEF Hook
  <2> QED
    BY <1>1, <1>2, <1>3, <2>1 DEF HooksInv, Reported
<1>5. CASE cl[s] # "users"
  <2>1. UNCHANGED <<uid2sid, sid2uid>>
    BY <1>5 DEF ClientMoves, ConnCounted, OnConnect, ConnCloses, onClientConnClose, tabVars
  <2>2. cl'[s] \in {"binds", "feed", "gone"} => cl[s] \in {"binds", "feed", "gone"}
    BY <1>5 DEF ClientMoves, ConnCounted, OnConnect, ConnCloses, onClientConnClose, CloseSteps,
       ConnsInv, ConnTypes
  <2>3. UsersInv'
    BY <1>1, <2>1 DEF UsersInv, UserTypes, UsersAgree
  <2>4. \A u \in UserIds : Logged(u)'
    BY <1>1, <1>2, <1>3, <2>1, <2>2 DEF Logged, Grows
  <2> QED
    BY <1>4, <2>3, <2>4 DEF LoginsInv
<1>6. CASE cl[s] = "users"
  <2>1. onSessionDisconnect(s)
    BY <1>6 DEF ClientMoves, ConnCounted, OnConnect, ConnCloses, onClientConnClose
  <2>2. /\ UsersInv'
        /\ \A v \in UserIds : uid2sid'[v] \in ClientSids => uid2sid'[v] = uid2sid[v] /\ uid2sid[v] # s
    BY <1>1, <2>1, DisconnectKeeps
  <2>3. \A u \in UserIds : Logged(u)'
    BY <1>1, <1>2, <1>3, <2>2 DEF Logged, Grows
  <2> QED
    BY <1>4, <2>2, <2>3 DEF LoginsInv
<1> QED
  BY <1>5, <1>6

LEMMA ReaderKeepsLogins ==
  ASSUME NEW s \in ClientSids, BindTypes, ReaderMoves(s), LoginsInv, HooksInv
  PROVE  LoginsInv' /\ HooksInv'
<1>1. UsersInv /\ (\A u \in UserIds : Logged(u)) /\ hk \in [GameNodes -> Hook] /\ \A n \in GameNodes : Reported(n)
  BY DEF LoginsInv, HooksInv
<1>2. Grows /\ UNCHANGED <<cl, hk, uid2sid, sid2uid>>
  BY ReaderLeavesOthers DEF ReaderMoves, OnRaw, allocLogicNode, sessionBind, onBindLogicNode, Forwards, tabVars
<1>3. UsersInv'
  BY <1>1, <1>2 DEF UsersInv, UserTypes, UsersAgree
<1>4. \A u \in UserIds : Logged(u)'
  BY <1>1, <1>2 DEF Logged, Begun, Grows
<1>5. HooksInv'
  BY <1>1, <1>2 DEF HooksInv, Reported, Begun
<1> QED
  BY <1>3, <1>4, <1>5 DEF LoginsInv

-----------------------------------------------------------------------------
\* Who tells a client of an error tells one that connected; what the limit remembers is of such a
\* client, and was written before its close passed the limit, or late.
FeedStages == {"no", "drop", "live", "ask", "set", "reset"}

ToldInv ==
  /\ feed \in [Feeders -> [at : FeedStages, s : ClientSids \cup {EmptySid}]]
  /\ \A f \in Feeders : feed[f].at # "no" => feed[f].s \in ClientSids /\ Begun(feed[f].s)
  /\ \A e \in cache : e[2] \in ClientSids /\ Begun(e[2]) /\ (cl[e[2]] # "gone" \/ e \in late)

\* The hook of node n is about to take the session out of the clients.
Pursued(n, s) ==
  \/ hk[n].at = "kick" /\ s \in hk[n].kicks
  \/ feed[Kicked(n)].at = "drop" /\ feed[Kicked(n)].s = s

\* A session that lost its user is heard until its hook or its close comes to it.
KickInv ==
  \A s \in displaced :
    /\ s \in ClientSids /\ Begun(s)
    /\ errCallback /\ s \in clients => cl[s] = "clients" \/ \E n \in GameNodes : Pursued(n, s)

GateInv ==
  /\ ConnsInv /\ BindTypes /\ (\A s \in ClientSids : SessionInv(s)) /\ LoginsInv /\ HooksInv
  /\ ToldInv /\ KickInv

\* What may happen to the goroutine f that tells a client.
FeedStep(f) ==
  \/ \E at \in FeedStages, s \in ClientSids : Begun(s) /\ feed' = [feed EXCEPT ![f] = [at |-> at, s |-> s]]
  \/ \E at \in FeedStages : feed[f].at # "no" /\ feed' = [feed EXCEPT ![f].at = at]
  \/ feed' = [feed EXCEPT ![f] = NotFeeding]

\* Begun clients stay so, and what is late stays late.
LEMMA GateGoesOn ==
  ASSUME GateInv, [GateNext]_gateTableVars
  PROVE  /\ \A s \in ClientSids : Begun(s) => Begun(s)'
         /\ late \subseteq late' /\ errCallback' = errCallback
<1>1. ConnsInv /\ BindTypes
  BY DEF GateInv
<1>2. errCallback' = errCallback
  BY DEF GateNext, gateTableVars, given, ConnCounted, OnConnect, ConnCloses, onClientConnClose, OnRaw,
     allocLogicNode, sessionBind, onBindLogicNode, Forwards, RecvQueueFull, feedCallback, IsLimited,
     IsLimitedSets, Reset, StoresDeadline, HookBegins, onUserLogin, Kick, removeClient, onUnbindLogicNode,
     LogoutUser
<1>3. CASE UNCHANGED gateTableVars
  BY <1>2, <1>3 DEF gateTableVars, Begun
<1>4. ASSUME NEW s \in ClientSids, ClientMoves(s) PROVE late \subseteq late' /\ \A t \in ClientSids : Begun(t) => Begun(t)'
  <2>1. Grows /\ (Begun(s) => Begun(s)') /\ \A t \in ClientSids \ {s} : cl'[t] = cl[t]
    BY <1>1, <1>4, ClientLeavesOthers
  <2> QED
    BY <2>1 DEF Grows, Begun
<1>5. ASSUME \/ \E s \in ClientSids : ReaderMoves(s)
             \/ FeedMoves \/ \E n \in GameNodes : HookMoves(n)
      PROVE  late \subseteq late' /\ UNCHANGED cl
  BY <1>1, <1>5, ReaderLeavesOthers, FeedLeavesSessions, HookLeavesSessions DEF Grows
<1> QED
  BY <1>2, <1>3, <1>4, <1>5 DEF GateNext, ClientMoves, ReaderMoves, FeedMoves, HookMoves, Begun

LEMMA FeedSteps ==
  ASSUME GateInv, [GateNext]_gateTableVars
  PROVE  UNCHANGED feed \/ \E f \in Feeders : FeedStep(f)
<1>1. ToldInv /\ HooksInv /\ BindTypes /\ \A s \in ClientSids : SessionInv(s)
  BY DEF GateInv
<1>2. \A s \in ClientSids : Refused(s) \in Feeders /\ <<"full", s>> \in Feeders
  BY DEF Feeders, Refused
<1>3. \A n \in GameNodes : Kicked(n) \in Feeders
  BY DEF Feeders, Kicked
<1>4. CASE UNCHANGED feed
  BY <1>4
<1>5. ASSUME NEW s \in ClientSids, OnRaw(s) \/ allocLogicNode(s) \/ Forwards(s), feed' # feed
      PROVE  FeedStep(Refused(s))
  <2>1. Feeds(Refused(s), s)
    BY <1>5 DEF OnRaw, allocLogicNode, Forwards, Refuses
  <2>2. Begun(s)
    BY <1>1, <1>5 DEF OnRaw, allocLogicNode, Forwards, SessionInv, Reading, Begun
  <2> QED
    BY <2>1, <2>2 DEF Feeds, FeedStep, FeedStages
<1>6. ASSUME NEW s \in ClientSids, RecvQueueFull(s) PROVE FeedStep(<<"full", s>>)
  BY <1>6 DEF RecvQueueFull, Feeds, Begun, FeedStep, FeedStages
<1>7. ASSUME NEW f \in Feeders, feedCallback(f) \/ IsLimited(f) \/ IsLimitedSets(f) \/ Reset(f) PROVE FeedStep(f)
  BY <1>7 DEF feedCallback, IsLimited, IsLimitedSets, Reset, Feeding, FeedEnds, FeedStep, FeedStages
<1>8. ASSUME NEW n \in GameNodes, Kick(n), feed' # feed PROVE FeedStep(Kicked(n))
  <2>1. PICK s \in hk[n].kicks : feed' = [feed EXCEPT ![Kicked(n)] = [at |-> "drop", s |-> s]]
    BY <1>8 DEF Kick
  <2>2. s \in ClientSids /\ Begun(s)
    <3>1. hk[n] \in Hook /\ Reported(n)
      BY <1>1 DEF HooksInv
    <3> QED
      BY <2>1, <3>1 DEF Hook, Reported
  <2> QED
    BY <2>1, <2>2 DEF FeedStep, FeedStages
<1>9. ASSUME NEW n \in GameNodes, removeClient(n) PROVE FeedStep(Kicked(n))
  BY <1>9 DEF removeClient, Feeding, FeedStep, FeedStages
<1>10. ASSUME NEW s \in ClientSids,
              \/ ConnCounted(s) \/ OnConnect(s) \/ ConnCloses(s) \/ onClientConnClose(s)
              \/ sessionBind(s) \/ onBindLogicNode(s)
       PROVE  UNCHANGED feed
  BY <1>10 DEF ConnCounted, OnConnect, ConnCloses, onClientConnClose, sessionBind, onBindLogicNode
<1>11. ASSUME NEW n \in GameNodes,
              \/ \E u \in UserIds, s \in ClientSids, login \in BOOLEAN : HookBegins(n, u, s, login)
              \/ onUserLogin(n) \/ onUnbindLogicNode(n) \/ LogoutUser(n)
       PROVE  UNCHANGED feed
  BY <1>11 DEF HookBegins, onUserLogin, onUnbindLogicNode, LogoutUser
<1>12. CASE UNCHANGED gateTableVars
  BY <1>12 DEF gateTableVars
<1> QED
  BY <1>2, <1>3, <1>4, <1>5, <1>6, <1>7, <1>8, <1>9, <1>10, <1>11, <1>12 DEF GateNext

\* The close of a session takes its entries; an entry that is written later is late.
LEMMA CacheSteps ==
  ASSUME GateInv, [GateNext]_gateTableVars
  PROVE  \A e \in cache' : e[2] \in ClientSids /\ Begun(e[2])' /\ (cl'[e[2]] # "gone" \/ e \in late')
<1>1. ToldInv /\ ConnsInv /\ BindTypes
  BY DEF GateInv
<1>2. /\ \A s \in ClientSids : Begun(s) => Begun(s)'
      /\ late \subseteq late'
  BY GateGoesOn
<1>3. \A e \in cache : e[2] \in ClientSids /\ Begun(e[2]) /\ (cl[e[2]] # "gone" \/ e \in late)
  BY <1>1 DEF ToldInv
<1>4. ASSUME UNCHANGED <<cache, cl>> PROVE \A e \in cache' : e[2] \in ClientSids /\ Begun(e[2])' /\ (cl'[e[2]] # "gone" \/ e \in late')
  BY <1>2, <1>3, <1>4
<1>5. ASSUME NEW s \in ClientSids, ClientMoves(s)
      PROVE  \A e \in cache' : e[2] \in ClientSids /\ Begun(e[2])' /\ (cl'[e[2]] # "gone" \/ e \in late')
  <2>1. cl \in [ClientSids -> ClientStages] /\ \A t \in ClientSids \ {s} : cl'[t] = cl[t]
    BY <1>1, <1>5, ClientLeavesOthers DEF ConnsInv, ConnTypes
  <2>2. /\ cache' \subseteq cache
        /\ cl'[s] = "gone" => cl[s] = "feed" /\ \A e \in cache' : e[2] # s
    BY <1>5, <2>1 DEF ClientMoves, ConnCounted, OnConnect, ConnCloses, onClientConnClose, CloseSteps, tabVars
  <2> QED
    BY <1>2, <1>3, <2>1, <2>2
<1>6. ASSUME NEW f \in Feeders, feed[f].at # "no", StoresDeadline(f)
      PROVE  \A e \in cache' : e[2] \in ClientSids /\ Begun(e[2])' /\ (cl'[e[2]] # "gone" \/ e \in late')
  <2> DEFINE entry == <<f[1], feed[f].s>>
  <2>1. /\ cache' = cache \cup {entry} /\ UNCHANGED cl
        /\ late' = IF cl[feed[f].s] = "gone" THEN late \cup {entry} ELSE late
    BY <1>6 DEF StoresDeadline
  <2>2. entry[2] = feed[f].s /\ feed[f].s \in ClientSids /\ Begun(feed[f].s)
    BY <1>1, <1>6 DEF ToldInv
  <2>3. \A e : e = entry => e[2] \in ClientSids /\ Begun(e[2])' /\ (cl'[e[2]] # "gone" \/ e \in late')
    BY <1>2, <2>1, <2>2
  <2>4. \A e \in cache : e[2] \in ClientSids /\ Begun(e[2])' /\ (cl'[e[2]] # "gone" \/ e \in late')
    BY <1>2, <1>3, <2>1
  <2>5. \A e \in cache' : e \in cache \/ e = entry
    BY <2>1
  <2> QED
    BY <2>3, <2>4, <2>5, Zenon
<1>7. ASSUME NEW s \in ClientSids, ReaderMoves(s) \/ RecvQueueFull(s) PROVE UNCHANGED <<cache, cl>>
  BY <1>7 DEF ReaderMoves, OnRaw, allocLogicNode, sessionBind, onBindLogicNode, Forwards, RecvQueueFull, tabVars
<1>8. ASSUME NEW f \in Feeders, feedCallback(f) \/ IsLimited(f) PROVE UNCHANGED <<cache, cl>>
  BY <1>8 DEF feedCallback, IsLimited, tabVars
<1>9. ASSUME NEW f \in Feeders, IsLimitedSets(f) \/ Reset(f) PROVE feed[f].at # "no" /\ StoresDeadline(f)
  BY <1>9 DEF IsLimitedSets, Reset
<1>10. ASSUME NEW n \in GameNodes, HookMoves(n) PROVE UNCHANGED <<cache, cl>>
  BY <1>10 DEF HookMoves, HookBegins, onUserLogin, Kick, removeClient, onUnbindLogicNode, LogoutUser, tabVars
<1>11. ASSUME UNCHANGED gateTableVars PROVE UNCHANGED <<cache, cl>>
  BY <1>11 DEF gateTableVars, tabVars
<1>12. \/ UNCHANGED gateTableVars
       \/ \E s \in ClientSids : ClientMoves(s) \/ ReaderMoves(s) \/ RecvQueueFull(s)
       \/ \E f \in Feeders : feedCallback(f) \/ IsLimited(f) \/ IsLimitedSets(f) \/ Reset(f)
       \/ \E n \in GameNodes : HookMoves(n)
  BY DEF GateNext, ClientMoves, ReaderMoves, HookMoves
<1> QED
  BY <1>4, <1>5, <1>6, <1>7, <1>8, <1>9, <1>10, <1>11, <1>12

LEMMA ToldKept ==
  ASSUME GateInv, [GateNext]_gateTableVars
  PROVE  ToldInv'
<1>1. /\ feed \in [Feeders -> [at : FeedStages, s : ClientSids \cup {EmptySid}]]
      /\ \A f \in Feeders : feed[f].at # "no" => feed[f].s \in ClientSids /\ Begun(feed[f].s)
  BY DEF GateInv, ToldInv
<1>2. \A s \in ClientSids : Begun(s) => Begun(s)'
  BY GateGoesOn
<1>3. ASSUME NEW f \in Feeders, FeedStep(f)
      PROVE  \E r \in [at : FeedStages, s : ClientSids \cup {EmptySid}] :
               /\ feed' = [feed EXCEPT ![f] = r]
               /\ r.at # "no" => r.s \in ClientSids /\ Begun(r.s)
  <2>1. CASE \E at \in FeedStages, s \in ClientSids : Begun(s) /\ feed' = [feed EXCEPT ![f] = [at |-> at, s |-> s]]
    <3>1. PICK at \in FeedStages, s \in ClientSids : Begun(s) /\ feed' = [feed EXCEPT ![f] = [at |-> at, s |-> s]]
      BY <2>1
    <3> WITNESS [at |-> at, s |-> s] \in [at : FeedStages, s : ClientSids \cup {EmptySid}]
    <3> QED
      BY <3>1
  <2>2. CASE \E at \in FeedStages : feed[f].at # "no" /\ feed' = [feed EXCEPT ![f].at = at]
    <3>1. PICK at \in FeedStages : feed[f].at # "no" /\ feed' = [feed EXCEPT ![f].at = at]
      BY <2>2
    <3>2. feed[f].s \in ClientSids /\ Begun(feed[f].s)
      BY <1>1, <3>1
    <3>3. [feed[f] EXCEPT !.at = at] = [at |-> at, s |-> feed[f].s]
      BY <1>1
    <3>4. feed' = [feed EXCEPT ![f] = [at |-> at, s |-> feed[f].s]]
      BY <1>1, <3>1, <3>3
    <3>5. [at |-> at, s |-> feed[f].s] \in [at : FeedStages, s : ClientSids \cup {EmptySid}]
      BY <3>2
    <3> QED
      BY <3>2, <3>4, <3>5
  <2>3. CASE feed' = [feed EXCEPT ![f] = NotFeeding]
    <3>1. /\ NotFeeding \in [at : FeedStages, s : ClientSids \cup {EmptySid}]
          /\ NotFeeding.at = "no"
      BY DEF NotFeeding, FeedStages
    <3> QED
      BY <2>3, <3>1
  <2> QED
    BY <1>3, <2>1, <2>2, <2>3 DEF FeedStep
<1>4. /\ feed' \in [Feeders -> [at : FeedStages, s : ClientSids \cup {EmptySid}]]
      /\ \A f \in Feeders : (feed[f].at # "no" => feed[f].s \in ClientSids /\ Begun(feed[f].s))'
  <2>1. CASE UNCHANGED feed
    BY <1>1, <1>2, <2>1 DEF Begun
  <2>2. ASSUME NEW f \in Feeders, FeedStep(f)
        PROVE  /\ feed' \in [Feeders -> [at : FeedStages, s : ClientSids \cup {EmptySid}]]
               /\ \A g \in Feeders : (feed[g].at # "no" => feed[g].s \in ClientSids /\ Begun(feed[g].s))'
    <3>1. PICK r \in [at : FeedStages, s : ClientSids \cup {EmptySid}] :
               /\ feed' = [feed EXCEPT ![f] = r]
               /\ r.at # "no" => r.s \in ClientSids /\ Begun(r.s)
      BY <1>3, <2>2
    <3>2. feed'[f] = r /\ \A g \in Feeders \ {f} : feed'[g] = feed[g]
      BY <1>1, <3>1
    <3>3. feed' \in [Feeders -> [at : FeedStages, s : ClientSids \cup {EmptySid}]]
      BY <1>1, <3>1
    <3>4. ASSUME NEW g \in Feeders, feed'[g].at # "no"
          PROVE  feed'[g].s \in ClientSids /\ cl'[feed'[g].s] \notin {"new", "counted"}
      <4>1. CASE g = f
        BY <1>2, <3>1, <3>2, <3>4, <4>1 DEF Begun
      <4>2. CASE g # f
        BY <1>1, <1>2, <3>2, <3>4, <4>2 DEF Begun
      <4> QED
        BY <4>1, <4>2
    <3> QED
      BY <3>3, <3>4 DEF Begun
  <2> QED
    BY <2>1, <2>2, FeedSteps
<1> QED
  BY <1>4, CacheSteps DEF ToldInv

LEMMA KickKept ==
  ASSUME GateInv, [GateNext]_gateTableVars
  PROVE  KickInv'
<1>1. ToldInv /\ KickInv /\ ConnsInv /\ BindTypes /\ LoginsInv /\ HooksInv
  BY DEF GateInv
<1>2. /\ \A s \in ClientSids : Begun(s) => Begun(s)'
      /\ errCallback' = errCallback
  BY GateGoesOn
<1>3. /\ cl \in [ClientSids -> ClientStages] /\ hk \in [GameNodes -> Hook]
      /\ feed \in [Feeders -> [at : FeedStages, s : ClientSids \cup {EmptySid}]]
      /\ \A s \in ClientSids : s \in clients => s \in conns \/ cl[s] = "clients"
      /\ \A n \in GameNodes : Kicked(n) \in Feeders
  BY <1>1 DEF ConnsInv, ConnTypes, Connected, HooksInv, ToldInv, Feeders, Kicked
<1>4. \A s \in displaced : /\ s \in ClientSids /\ Begun(s)
                           /\ errCallback /\ s \in clients => cl[s] = "clients" \/ \E n \in GameNodes : Pursued(n, s)
  BY <1>1 DEF KickInv
\* Whoever pursues a session goes on, and who was not heard is not heard.
<1>5. ASSUME displaced' = displaced,
             \A s \in displaced : s \in clients' => s \in clients /\ (cl[s] = "clients" => cl'[s] = "clients"),
             \A n \in GameNodes, s \in displaced : Pursued(n, s) /\ s \in clients' =>
               Pursued(n, s)' \/ cl'[s] = "clients"
      PROVE  KickInv'
  BY <1>2, <1>4, <1>5 DEF KickInv
<1>6. ASSUME UNCHANGED <<hk, displaced, clients, cl>>,
             \A n \in GameNodes : feed[Kicked(n)].at = "drop" => feed'[Kicked(n)] = feed[Kicked(n)]
      PROVE  KickInv'
  BY <1>5, <1>6 DEF Pursued
<1>7. ASSUME UNCHANGED gateTableVars PROVE KickInv'
  BY <1>6, <1>7 DEF gateTableVars, tabVars
<1>8. ASSUME NEW s \in ClientSids, ClientMoves(s) PROVE KickInv'
  <2>1. UNCHANGED <<hk, feed, displaced>>
    BY <1>8 DEF ClientMoves, ConnCounted, OnConnect, ConnCloses, onClientConnClose
  <2>2. \A t \in ClientSids \ {s} : cl'[t] = cl[t]
    BY <1>1, <1>8, ClientLeavesOthers
  <2>3. clients' \subseteq clients \/ (cl[s] = "counted" /\ clients' = clients \cup {s})
    BY <1>8 DEF ClientMoves, ConnCounted, OnConnect, onNewClientConn, ConnCloses, onClientConnClose, tabVars
  <2>4. cl[s] = "clients" => s \notin clients'
    BY <1>8 DEF ClientMoves, ConnCounted, OnConnect, ConnCloses, onClientConnClose
  <2>5. \A t \in displaced : t \in clients' => t \in clients /\ (cl[t] = "clients" => cl'[t] = "clients")
    BY <1>4, <2>2, <2>3, <2>4 DEF Begun
  <2>6. \A n \in GameNodes, t \in displaced : Pursued(n, t) => Pursued(n, t)'
    BY <2>1 DEF Pursued
  <2> QED
    BY <1>5, <2>1, <2>5, <2>6
<1>9. ASSUME NEW s \in ClientSids, ReaderMoves(s) \/ RecvQueueFull(s) PROVE KickInv'
  <2>1. UNCHANGED <<hk, displaced, clients, cl>>
    BY <1>9 DEF ReaderMoves, OnRaw, allocLogicNode, sessionBind, onBindLogicNode, Forwards, RecvQueueFull, tabVars
  <2>2. UNCHANGED feed \/ Feeds(Refused(s), s) \/ Feeds(<<"full", s>>, s)
    BY <1>9 DEF ReaderMoves, OnRaw, allocLogicNode, sessionBind, onBindLogicNode, Forwards, RecvQueueFull, Refuses
  <2>3. \A n \in GameNodes : Kicked(n) # Refused(s) /\ Kicked(n) # <<"full", s>>
    BY DEF Kicked, Refused
  <2>4. \A n \in GameNodes : feed'[Kicked(n)] = feed[Kicked(n)]
    BY <1>3, <2>2, <2>3 DEF Feeds
  <2> QED
    BY <1>6, <2>1, <2>4
<1>10. ASSUME NEW f \in Feeders, feedCallback(f) \/ IsLimited(f) \/ IsLimitedSets(f) \/ Reset(f) PROVE KickInv'
  <2>1. UNCHANGED <<hk, displaced, clients, cl>> /\ feed[f].at # "drop"
    BY <1>10 DEF feedCallback, IsLimited, IsLimitedSets, Reset, StoresDeadline, tabVars
  <2>2. \A g \in Feeders : g # f => feed'[g] = feed[g]
    BY <1>3, <1>10 DEF feedCallback, IsLimited, IsLimitedSets, Reset, Feeding, FeedEnds
  <2> QED
    BY <1>3, <1>6, <2>1, <2>2
<1>11. ASSUME NEW n \in GameNodes,
              \/ \E u \in UserIds, s \in ClientSids, login \in BOOLEAN : HookBegins(n, u, s, login)
              \/ onUnbindLogicNode(n) \/ LogoutUser(n)
       PROVE  KickInv'
  <2>1. UNCHANGED <<feed, displaced, clients, cl>> /\ hk[n].at # "kick"
    BY <1>11 DEF HookBegins, onUnbindLogicNode, LogoutUser
  <2>2. \A m \in GameNodes \ {n} : hk'[m] = hk[m]
    BY <1>3, <1>11 DEF HookBegins, onUnbindLogicNode, LogoutUser, Hooking
  <2>3. \A m \in GameNodes, t \in displaced : Pursued(m, t) => Pursued(m, t)'
    BY <2>1, <2>2 DEF Pursued
  <2> QED
    BY <1>5, <2>1, <2>3
<1>12. ASSUME NEW n \in GameNodes, Kick(n) PROVE KickInv'
  <2>1. /\ UNCHANGED <<displaced, clients, cl, conns>> /\ feed[Kicked(n)].at = "no" /\ hk[n].at = "kick"
    BY <1>12 DEF Kick, tabVars
  <2>2. CASE hk[n].kicks = {}
    <3>1. UNCHANGED feed /\ \A m \in GameNodes \ {n} : hk'[m] = hk[m]
      BY <1>3, <1>12, <2>2 DEF Kick, Hooking
    <3>2. \A m \in GameNodes, t \in displaced : Pursued(m, t) => Pursued(m, t)'
      BY <2>1, <2>2, <3>1 DEF Pursued
    <3> QED
      BY <1>5, <2>1, <3>2
  <2>3. CASE hk[n].kicks # {}
    <3>1. PICK s \in hk[n].kicks :
            /\ hk' = [hk EXCEPT ![n].kicks = @ \ {s}]
            /\ feed' = IF s \in conns THEN [feed EXCEPT ![Kicked(n)] = [at |-> "drop", s |-> s]] ELSE feed
      BY <1>12, <2>3 DEF Kick
    <3>2. /\ \A m \in GameNodes \ {n} : hk'[m] = hk[m] /\ feed'[Kicked(m)] = feed[Kicked(m)]
          /\ hk'[n].at = "kick" /\ hk'[n].kicks = hk[n].kicks \ {s}
          /\ s \in conns => feed'[Kicked(n)].at = "drop" /\ feed'[Kicked(n)].s = s
      <4>1. \A m \in GameNodes \ {n} : Kicked(m) # Kicked(n)
        BY DEF Kicked
      <4>2. hk[n] \in Hook
        BY <1>3
      <4>3. hk'[n] = [hk[n] EXCEPT !.kicks = @ \ {s}]
        BY <1>3, <3>1
      <4>4. hk'[n].at = hk[n].at /\ hk'[n].kicks = hk[n].kicks \ {s}
        BY <4>2, <4>3 DEF Hook
      <4> QED
        BY <1>3, <2>1, <3>1, <4>1, <4>4
    <3>3. \A m \in GameNodes \ {n}, t \in displaced : Pursued(m, t) => Pursued(m, t)'
      BY <3>2 DEF Pursued
    <3>4. \A t \in displaced : Pursued(n, t) => t \in hk[n].kicks
      BY <2>1 DEF Pursued
    <3>5. \A t \in displaced : t \in hk[n].kicks => Pursued(n, t)' \/ (t = s /\ s \notin conns)
      BY <3>2 DEF Pursued
    <3>6. \A t \in displaced : t = s /\ s \notin conns /\ t \in clients' => cl'[t] = "clients"
      BY <1>3, <1>4, <2>1
    <3> QED
      BY <1>5, <2>1, <3>3, <3>4, <3>5, <3>6
  <2> QED
    BY <2>2, <2>3
<1>13. ASSUME NEW n \in GameNodes, removeClient(n) PROVE KickInv'
  <2>1. /\ UNCHANGED <<hk, displaced, cl>> /\ feed[Kicked(n)].at = "drop"
        /\ clients' = clients \ {feed[Kicked(n)].s}
    BY <1>13 DEF removeClient
  <2>2. \A m \in GameNodes \ {n} : feed'[Kicked(m)] = feed[Kicked(m)]
    BY <1>3, <1>13 DEF removeClient, Feeding, Kicked
  <2>3. \A m \in GameNodes, t \in displaced : Pursued(m, t) /\ t \in clients' => Pursued(m, t)'
    BY <2>1, <2>2 DEF Pursued
  <2> QED
    BY <1>5, <2>1, <2>3
<1>14. ASSUME NEW n \in GameNodes, onUserLogin(n) PROVE KickInv'
  <2> DEFINE u == hk[n].u
             s == hk[n].s
             old == uid2sid[u]
  <2>1. /\ hk[n].at = "user" /\ UNCHANGED <<feed, clients, cl>>
        /\ sid2uid' = LoggedIn(u, s).sid2uid /\ displaced' = displaced \cup Displaced
        /\ hk' = IF errCallback THEN [hk EXCEPT ![n].at = "kick", ![n].kicks = LoggedIn(u, s).kicks]
                 ELSE [hk EXCEPT ![n].at = "no"]
    BY <1>14 DEF onUserLogin
  <2>2. u \in UserIds /\ s \in ClientSids
    BY <1>1, <2>1 DEF HooksInv, Reported
  <2>3. UsersInv /\ Logged(u)
    BY <1>1, <2>2 DEF LoginsInv
  <2>4. /\ \A t \in ClientSids : sid2uid'[t] = IF t = s THEN u ELSE IF t = old THEN NoEntry ELSE sid2uid[t]
        /\ LoggedIn(u, s).kicks = IF old \in ClientSids \ {s} THEN {old} ELSE {}
    BY <2>1, <2>2, <2>3, LoginShape DEF LoginEffect
  <2>5. NoEntry \notin UserIds
    BY GateAssumption
  <2>6. \A t \in Displaced : t \in ClientSids /\ t = old /\ t # s
    BY <2>2, <2>4, <2>5 DEF Displaced
  <2>7. \A t \in Displaced : t \in ClientSids /\ Begun(t) /\ t \in LoggedIn(u, s).kicks
    BY <2>3, <2>4, <2>6 DEF Logged
  <2>8. /\ \A m \in GameNodes \ {n} : hk'[m] = hk[m]
        /\ errCallback => hk'[n].at = "kick" /\ hk'[n].kicks = LoggedIn(u, s).kicks
    <3>1. hk[n] \in Hook
      BY <1>3
    <3>2. errCallback => hk'[n] = [[hk[n] EXCEPT !.at = "kick"] EXCEPT !.kicks = LoggedIn(u, s).kicks]
      BY <1>3, <2>1
    <3> QED
      BY <1>3, <2>1, <3>1, <3>2 DEF Hook
  <2>9. \A t \in ClientSids : t \in Displaced /\ errCallback => Pursued(n, t)'
    BY <2>7, <2>8 DEF Pursued
  <2>10. \A m \in GameNodes, t \in displaced : Pursued(m, t) => Pursued(m, t)'
    BY <2>1, <2>8 DEF Pursued
  <2> HIDE DEF u, s, old
  <2>11. ASSUME NEW t, t \in displaced'
         PROVE  /\ t \in ClientSids /\ Begun(t)'
                /\ errCallback' /\ t \in clients' => cl'[t] = "clients" \/ \E m \in GameNodes : Pursued(m, t)'
    <3>1. CASE t \in displaced
      BY <1>2, <1>4, <2>1, <2>10, <3>1
    <3>2. CASE t \in Displaced
      BY <1>2, <2>7, <2>9, <3>2
    <3> QED
      BY <2>1, <2>11, <3>1, <3>2
  <2> QED
    BY <2>11 DEF KickInv
<1> QED
  BY <1>7, <1>8, <1>9, <1>10, <1>11, <1>12, <1>13, <1>14 DEF GateNext, ClientMoves, ReaderMoves


LEMMA GateInvInit == GateInit => GateInv
<1> SUFFICES ASSUME GateInit PROVE GateInv
  OBVIOUS
<1>1. ConnsInv
  <2>1. IsFiniteSet({}) /\ Cardinality({}) = 0
    BY FS_EmptySet
  <2>2. limit \in Nat \ {0}
    BY GateAssumption DEF GateInit
  <2>3. ConnTypes /\ \A s \in ClientSids : Connected(s)
    BY <2>1, <2>2 DEF GateInit, ConnTypes, Connected, ClientStages
  <2>4. live \cap conns = {}
    BY DEF GateInit
  <2>5. LimitHolds
    BY <2>1, <2>2, <2>4 DEF LimitHolds
  <2> QED
    BY <2>3, <2>5 DEF ConnsInv
<1>2. BindTypes
  BY DEF GateInit, BindTypes, ReaderStages
<1>3. \A s \in ClientSids : SessionInv(s)
  BY DEF GateInit, SessionInv, Reading, Spoken, Stored
<1>4. LoginsInv
  BY GateAssumption DEF GateInit, LoginsInv, UsersInv, UserTypes, UsersAgree, Logged
<1>5. HooksInv
  BY DEF GateInit, HooksInv, Hook, HookStages, Reported
<1>6. ToldInv /\ KickInv
  BY DEF GateInit, ToldInv, FeedStages, NotFeeding, KickInv
<1> QED
  BY <1>1, <1>2, <1>3, <1>4, <1>5, <1>6 DEF GateInv

LEMMA GateInvKept ==
  ASSUME GateInv, [GateNext]_gateTableVars
  PROVE  GateInv'
<1>1. ConnsInv /\ BindTypes /\ (\A s \in ClientSids : SessionInv(s)) /\ LoginsInv /\ HooksInv
  BY DEF GateInv
<1>2. ConnsInv' /\ ToldInv' /\ KickInv'
  BY ConnsKept, ToldKept, KickKept DEF GateInv
<1>3. CASE UNCHANGED gateTableVars
  <2>1. UNCHANGED <<live, conns, clients, uid2sid, sid2uid, sessionTable, nodeTable, cache, reader, cl, hk,
                    late, seen, told, left>>
    BY <1>3 DEF gateTableVars, tabVars
  <2>2. BindTypes'
    BY <1>1, <2>1 DEF BindTypes
  <2>3. \A s \in ClientSids : SessionInv(s)'
    BY <1>1, <2>1, KeptKeeps DEF SessionKept, Grows
  <2>4. LoginsInv' /\ HooksInv'
    BY <1>1, <2>1 DEF LoginsInv, UsersInv, UserTypes, UsersAgree, Logged, HooksInv, Reported, Begun
  <2> QED
    BY <1>2, <2>2, <2>3, <2>4 DEF GateInv
<1>4. ASSUME NEW s \in ClientSids, ClientMoves(s) PROVE GateInv'
  <2>1. /\ Grows /\ BindTypes'
        /\ \A t \in ClientSids \ {s} : SessionKept(t) /\ cl'[t] = cl[t]
    BY <1>1, <1>4, ClientLeavesOthers
  <2>2. \A t \in ClientSids \ {s} : SessionInv(t)'
    BY <1>1, <2>1, KeptKeeps
  <2>3. SessionInv(s)'
    BY <1>1, <1>4, ClientKeepsOwn
  <2>4. LoginsInv' /\ HooksInv'
    BY <1>1, <1>4, ClientKeepsLogins
  <2> QED
    BY <1>2, <2>1, <2>2, <2>3, <2>4 DEF GateInv
<1>5. ASSUME NEW s \in ClientSids, ReaderMoves(s) PROVE GateInv'
  <2>1. Grows /\ UNCHANGED cl /\ \A t \in ClientSids \ {s} : SessionKept(t)
    BY <1>1, <1>5, ReaderLeavesOthers
  <2>2. \A t \in ClientSids \ {s} : SessionInv(t)'
    BY <1>1, <2>1, KeptKeeps
  <2>3. BindTypes' /\ SessionInv(s)'
    BY <1>1, <1>5, ReaderKeepsTypes, ReaderKeepsOwn
  <2>4. LoginsInv' /\ HooksInv'
    BY <1>1, <1>5, ReaderKeepsLogins
  <2> QED
    BY <1>2, <2>2, <2>3, <2>4 DEF GateInv
<1>8. ASSUME FeedMoves PROVE GateInv'
  <2>1. /\ Grows /\ UNCHANGED <<cl, reader, hk, sessionTable, seen, uid2sid, sid2uid>>
        /\ \A t \in ClientSids : SessionKept(t)
    BY <1>8, FeedLeavesSessions
  <2>2. BindTypes'
    BY <1>1, <2>1 DEF BindTypes
  <2>3. \A t \in ClientSids : SessionInv(t)'
    BY <1>1, <2>1, KeptKeeps
  <2>4. LoginsInv'
    <3>1. UsersInv'
      BY <1>1, <2>1 DEF LoginsInv, UsersInv, UserTypes, UsersAgree
    <3>2. \A u \in UserIds : Logged(u)'
      BY <1>1, <2>1 DEF LoginsInv, Logged, Begun, Grows
    <3> QED
      BY <3>1, <3>2 DEF LoginsInv
  <2>5. HooksInv'
    BY <1>1, <2>1 DEF HooksInv, Reported, Begun
  <2> QED
    BY <1>2, <2>2, <2>3, <2>4, <2>5 DEF GateInv
<1>6. ASSUME NEW n \in GameNodes, HookMoves(n) PROVE GateInv'
  <2>1. /\ Grows /\ UNCHANGED <<cl, reader, sessionTable, seen>>
        /\ \A t \in ClientSids : SessionKept(t)
    BY <1>6, HookLeavesSessions
  <2>2. BindTypes'
    BY <1>1, <2>1 DEF BindTypes
  <2>3. \A t \in ClientSids : SessionInv(t)'
    BY <1>1, <2>1, KeptKeeps
  <2>4. LoginsInv' /\ HooksInv'
    BY <1>1, <1>6, HookKeepsLogins, HookKeepsHooks
  <2> QED
    BY <1>2, <2>2, <2>3, <2>4 DEF GateInv
<1>7. \/ UNCHANGED gateTableVars
      \/ \E s \in ClientSids : ClientMoves(s) \/ ReaderMoves(s)
      \/ FeedMoves \/ \E n \in GameNodes : HookMoves(n)
  BY DEF GateNext, ClientMoves, ReaderMoves, FeedMoves, HookMoves
<1> QED
  BY <1>3, <1>4, <1>5, <1>6, <1>7, <1>8

LEMMA GateInvHolds ==
  ASSUME GateInv
  PROVE  GateTablesHold
<1>1. UsersAgree /\ UserTypes /\ LimitHolds /\ \A s \in ClientSids : Connected(s)
  BY DEF GateInv, ConnsInv, LoginsInv, UsersInv
<1>2. live \subseteq ClientSids /\ conns \subseteq ClientSids /\ clients \subseteq ClientSids
  BY DEF GateInv, ConnsInv, ConnTypes
<1>3. /\ seen \subseteq GameNodes \X ClientSids
      /\ \A s \in ClientSids : Reading(s) /\ Spoken(s) /\ Stored(s)
      /\ \A u \in UserIds : Logged(u)
  BY DEF GateInv, BindTypes, SessionInv, LoginsInv
<1>4. ASSUME Quiet
      PROVE  /\ conns = live /\ clients \subseteq conns
             /\ \A s \in ClientSids : s \in conns <=> cl[s] = "open"
  <2>1. \A s \in ClientSids : cl[s] \in {"new", "open", "gone"}
    BY <1>4 DEF Quiet
  <2>2. \A s \in ClientSids : /\ s \in conns <=> cl[s] = "open"
                              /\ s \in live <=> cl[s] = "open"
                              /\ s \in clients => cl[s] = "open"
    BY <1>1, <2>1 DEF Connected
  <2> QED
    BY <1>2, <2>2
<1>5. NothingStale
  <2> SUFFICES ASSUME Quiet
      PROVE  /\ conns = live /\ clients \subseteq conns
             /\ \A p \in seen : cl[p[2]] = "gone" => p \in told \/ <<"tell", p[2]>> \in late
             /\ \A u \in UserIds : uid2sid[u] \in ClientSids => uid2sid[u] \in conns \/ <<"user", uid2sid[u]>> \in late
             /\ \A e \in cache : e[2] \in conns \/ e \in late
             /\ \A s \in ClientSids :
                  /\ sessionTable[s] # NoNode => s \in conns \/ <<"bind", s>> \in late
                  /\ s \in conns \ left /\ sessionTable[s] # NoNode => <<sessionTable[s], s>> \in nodeTable
    BY DEF NothingStale
  <2>1. \A s \in ClientSids : reader[s].at = "no" /\ cl[s] \in {"new", "open", "gone"}
    BY DEF Quiet
  <2>2. ASSUME NEW p \in seen, cl[p[2]] = "gone" PROVE p \in told \/ <<"tell", p[2]>> \in late
    <3>1. PICK n \in GameNodes, s \in ClientSids : p = <<n, s>>
      BY <1>3
    <3>2. Told(s, n)
      BY <1>3, <3>1 DEF Spoken
    <3> QED
      BY <2>2, <3>1, <3>2 DEF Told
  <2>3. ASSUME NEW u \in UserIds, uid2sid[u] \in ClientSids
        PROVE  uid2sid[u] \in conns \/ <<"user", uid2sid[u]>> \in late
    BY <1>3, <1>4, <2>1, <2>3 DEF Logged, Begun
  <2>4. ASSUME NEW s \in ClientSids
        PROVE  /\ sessionTable[s] # NoNode => s \in conns \/ <<"bind", s>> \in late
               /\ s \in conns \ left /\ sessionTable[s] # NoNode => <<sessionTable[s], s>> \in nodeTable
    BY <1>3, <1>4, <2>1 DEF Stored, Begun
  <2>5. ASSUME NEW e \in cache PROVE e[2] \in conns \/ e \in late
    BY <1>4, <2>1 DEF GateInv, ToldInv, Begun
  <2> QED
    BY <1>4, <2>2, <2>3, <2>4, <2>5
<1>6. DisplacedNotHeard
  <2>1. Quiet => \A n \in GameNodes, s \in ClientSids : ~Pursued(n, s)
    BY DEF Quiet, Pursued, Feeders, Kicked
  <2>2. Quiet => \A s \in ClientSids : cl[s] # "clients"
    BY DEF Quiet
  <2> QED
    BY <1>2, <2>1, <2>2 DEF GateInv, KickInv, DisplacedNotHeard
<1> QED
  BY <1>1, <1>5, <1>6 DEF GateTablesHold

\* Users and sessions name each other and the limit of clients holds.  When the gate is at rest
\* its tables, that of the errors told included, hold nothing of a client that is gone but what
\* was written after its close had passed; and a session whose user went to another one is heard
\* no more if the gate kicks at all.
THEOREM GateTablesAgree == GateSpec => []GateTablesHold
<1>1. GateSpec => []GateInv
  BY GateInvInit, GateInvKept, PTL DEF GateSpec
<1> QED
  BY <1>1, GateInvHolds, PTL

-----------------------------------------------------------------------------
(*****************************************************************************)
(* The timers                                                                *)
(*****************************************************************************)

(* The inductive invariant                                                 *)

AddStates == {"idle", "load", "insert", "expire", "offer", "wake", "done", "stop", "remove", "stopped"}
AdderStates == [at : AddStates, timer : Timers \union {"none"}, bucket : Buckets \union {NoBucket}, level : Levels]

\* What add is given and decides has the ranges of the wheels: the wheel it looks at exists.
AdderOK(p) ==
    /\ adder[p].at \in {"load", "insert", "expire", "offer"} =>
          adder[p].timer \in Timers /\ due[adder[p].timer] # -1
    /\ adder[p].at \in {"insert", "expire", "offer", "remove"} => adder[p].bucket \in Buckets
    /\ adder[p].at = "load" => clock[adder[p].level] # -1
AdderTypes == adder \in [Adders -> AdderStates] /\ \A p \in Adders : AdderOK(p)

Times == Nat \union {-1}
WheelTypes ==
    /\ now \in 0..LastTime
    /\ clock \in [Levels -> Times] /\ clock[1] # -1
    /\ exp \in [Buckets -> Times]
    /\ timers \in [Buckets -> Seq(Timers)]
    /\ due \in [Timers -> Times] /\ \A t \in Timers : due[t] < Interval(WheelLevels)
    /\ ran \in [Timers -> Times] /\ stopped \subseteq Timers

HandTypes ==
    /\ pq \subseteq [bucket : Buckets, prio : Times]
    /\ poll = [at |-> poll.at, bucket |-> poll.bucket, prio |-> poll.prio]
    /\ poll.at = "send" => poll.bucket \in Buckets /\ poll.prio \in Times
    /\ runner \in [at : {"receive", "advance", "lock", "flush", "exit"}, bucket : Buckets \union {NoBucket}]
    /\ runner.at \in {"advance", "lock", "flush"} => runner.bucket \in Buckets

\* Process p is adding t, and has not put it into a bucket yet.
Carries(p, t) == adder[p].at \in {"load", "insert"} /\ adder[p].timer = t
Lists(b, t) == \E i \in DOMAIN timers[b] : timers[b][i] = t
Nowhere(t) == (\A b \in Buckets : ~Lists(b, t)) /\ (\A p \in Adders : ~Carries(p, t))

\* A timer is at one place: a bucket, once, or a process that adds it.
OnePlace ==
    /\ \A b, c \in Buckets : \A i \in DOMAIN timers[b], j \in DOMAIN timers[c] :
          timers[b][i] = timers[c][j] => b = c /\ i = j
    /\ \A p \in Adders : \A t \in Timers : Carries(p, t) =>
          (\A b \in Buckets : ~Lists(b, t)) /\ (\A q \in Adders : Carries(q, t) => q = p)

\* ... or at none: it ran, was stopped, or was not made yet.
Ends ==
    \A t \in Timers :
        /\ ran[t] # -1 \/ t \in stopped \/ due[t] = -1 => Nowhere(t)
        /\ t \in stopped \/ due[t] = -1 => ran[t] = -1
        /\ t \in stopped => due[t] # -1

\* The way of a bucket with an expiration: to the delay queue, to Poll, to the runner.
Offered(p, b) == adder[p].at = "offer" /\ adder[p].bucket = b
Waits(b) == \E i \in pq : i.bucket = b
Sent(b) == poll.at = "send" /\ poll.bucket = b
Flushed(b) == runner.at \in {"advance", "lock", "flush"} /\ runner.bucket = b

\* It is on the way once, with the expiration it has.
Onward ==
    \A b \in Buckets :
        /\ \A p \in Adders : Offered(p, b) =>
              /\ exp[b] # -1 /\ ~Waits(b) /\ ~Sent(b) /\ ~Flushed(b)
              /\ \A q \in Adders : Offered(q, b) => q = p
        /\ \A i \in pq : i.bucket = b => i.prio = exp[b] /\ exp[b] # -1 /\ ~Sent(b) /\ ~Flushed(b)
        /\ Sent(b) => poll.prio = exp[b] /\ exp[b] # -1 /\ exp[b] <= now /\ ~Flushed(b)
        /\ Flushed(b) => exp[b] # -1 /\ exp[b] <= now

\* So the runner moves the clock to a time that has come, and no timer runs before its own.
InTime ==
    /\ clock[1] <= now
    /\ \A t \in Timers : ran[t] # -1 => ran[t] >= due[t]

WheelInv ==
    /\ WheelTypes /\ HandTypes /\ AdderTypes /\ OnePlace /\ Ends
    /\ overtaken \/ (Onward /\ InTime)

---------------------------------------------------------------------------
(* Arithmetic                                                              *)

LEMMA Least == ASSUME NEW S, S \subseteq Nat, S # {} PROVE \E n \in S : \A m \in S : n <= m
<1>1. PICK x \in S : \A y \in S : ~ (<<y, x>> \in OpToRel(<, Nat))
  BY WFMin, NatLessThanWellFounded
<1>2. ASSUME NEW y \in S PROVE ~ (y < x)
  <2>1. <<y, x>> \notin OpToRel(<, Nat) /\ <<y, x>> \in Nat \X Nat
    BY <1>1
  <2> QED BY <2>1 DEF OpToRel
<1>3. x \in Nat /\ \A y \in S : y \in Nat /\ ~(y < x)
  BY <1>2
<1> QED BY <1>3

\* The recursion that defines the ticks has a solution on every prefix of the wheels.
Ticks(f, n) ==
    /\ f \in [1..n -> Nat \ {0}]
    /\ \A l \in 1..n : f[l] = IF l = 1 THEN 1 ELSE f[l - 1] * WheelSize

LEMMA TicksExist == \A n \in Nat : \E f : Ticks(f, n)
<1> DEFINE S == {n \in Nat : ~ \E f : Ticks(f, n)}
<1>1. SUFFICES ASSUME S # {} PROVE FALSE
  OBVIOUS
<1>2. PICK n \in S : \A m \in S : n <= m
  BY <1>1, Least
<1>3. n \in Nat /\ ~ \E f : Ticks(f, n)
  OBVIOUS
<1>4. \A m \in Nat : m < n => \E f : Ticks(f, m)
  BY <1>2
<1> HIDE DEF S
<1>5. CASE n = 0
  <2>1. Ticks([l \in 1..0 |-> 1], 0)
    BY DEF Ticks
  <2> QED BY <2>1, <1>3, <1>5
<1>6. CASE n # 0
  <2>1. n - 1 \in Nat /\ n - 1 < n
    BY <1>3, <1>6
  <2>2. PICK f : Ticks(f, n - 1)
    BY <2>1, <1>4
  <2> DEFINE g == [l \in 1..n |-> IF l = 1 THEN 1 ELSE f[l - 1] * WheelSize]
  <2>3. ASSUME NEW l \in 1..n, l # 1 PROVE f[l - 1] \in Nat \ {0} /\ f[l - 1] * WheelSize \in Nat \ {0}
    <3>1. l - 1 \in 1..(n - 1)
      BY <1>3, <2>1, <2>3
    <3>2. f[l - 1] \in Nat \ {0}
      BY <3>1, <2>2 DEF Ticks
    <3> QED BY <3>2, WheelSizes
  <2>4. g \in [1..n -> Nat \ {0}]
    BY <2>3
  <2>5. ASSUME NEW l \in 1..n PROVE g[l] = IF l = 1 THEN 1 ELSE g[l - 1] * WheelSize
    <3>1. CASE l = 1
      BY <3>1
    <3>2. CASE l # 1
      <4>1. l - 1 \in 1..(n - 1) /\ l - 1 \in 1..n
        BY <1>3, <2>1, <3>2
      <4>2. f[l - 1] = IF l - 1 = 1 THEN 1 ELSE f[(l - 1) - 1] * WheelSize
        BY <4>1, <2>2 DEF Ticks
      <4>3. g[l - 1] = f[l - 1]
        BY <4>1, <4>2
      <4> QED BY <4>3, <3>2
    <3> QED BY <3>1, <3>2
  <2> HIDE DEF g
  <2>6. Ticks(g, n)
    BY <2>4, <2>5 DEF Ticks
  <2> QED BY <2>6, <1>3
<1> QED BY <1>5, <1>6

LEMMA TickFacts == TickOf \in [Levels -> Nat \ {0}] /\ TickOf[1] = 1
<1>1. PICK f : Ticks(f, WheelLevels)
  BY TicksExist, WheelSizes
<1>2. f = [l \in Levels |-> IF l = 1 THEN 1 ELSE f[l - 1] * WheelSize]
  BY <1>1 DEF Ticks, Levels
<1>3. TickOf = [l \in Levels |-> IF l = 1 THEN 1 ELSE TickOf[l - 1] * WheelSize]
  BY <1>2 DEF TickOf
<1> DEFINE S == {l \in Levels : TickOf[l] \notin Nat \ {0}}
<1>4. SUFFICES ASSUME S # {} PROVE FALSE
  <2>1. \A l \in Levels : TickOf[l] \in Nat \ {0}
    BY <1>4
  <2>2. 1 \in Levels
    BY WheelSizes DEF Levels
  <2>3. TickOf[1] = 1
    BY <1>3, <2>2
  <2>4. DOMAIN TickOf = Levels /\ TickOf = [l \in Levels |-> TickOf[l]]
    BY <1>3
  <2> HIDE DEF S
  <2> QED BY <2>1, <2>3, <2>4
<1>5. S \subseteq Nat
  BY DEF Levels
<1>6. PICK l \in S : \A m \in S : l <= m
  BY <1>4, <1>5, Least
<1>7. l \in Levels /\ TickOf[l] \notin Nat \ {0} /\ TickOf[l] = IF l = 1 THEN 1 ELSE TickOf[l - 1] * WheelSize
  BY <1>3
<1>8. l # 1
  BY <1>7
<1>9. l - 1 \in Levels /\ l \in Nat /\ l - 1 \in Nat
  BY <1>7, <1>8, WheelSizes DEF Levels
<1>10. l - 1 \notin S
  BY <1>6, <1>9
<1>11. TickOf[l - 1] \in Nat \ {0}
  BY <1>9, <1>10
<1>12. TickOf[l - 1] * WheelSize \in Nat \ {0}
  BY <1>11, WheelSizes
<1> QED BY <1>7, <1>8, <1>12

LEMMA IntervalFacts == \A l \in Levels : Interval(l) \in Nat \ {0}
<1> TAKE l \in Levels
<1>1. TickOf[l] \in Nat \ {0}
  BY TickFacts
<1> QED BY <1>1, WheelSizes DEF Interval

LEMMA TruncateFacts == ASSUME NEW x \in Nat, NEW m \in Nat \ {0} PROVE Truncate(x, m) \in Nat /\ Truncate(x, m) <= x
<1>1. x % m \in 0..(m - 1) /\ x % m <= x
  OBVIOUS
<1> QED BY <1>1 DEF Truncate

LEMMA SlotFacts == ASSUME NEW x \in Nat, NEW l \in Levels PROVE <<l, (x \div TickOf[l]) % WheelSize>> \in Buckets
<1>1. TickOf[l] \in Nat \ {0}
  BY TickFacts
<1>2. x \div TickOf[l] \in Int
  BY <1>1
<1> DEFINE y == x \div TickOf[l]
<1>3. y % WheelSize \in 0..(WheelSize - 1)
  <2>1. y \in Int
    BY <1>2
  <2> HIDE DEF y
  <2> QED BY <2>1, WheelSizes
<1> QED BY <1>3 DEF Buckets

---------------------------------------------------------------------------
(* A list of timers                                                        *)

Distinct(q) == \A i, j \in DOMAIN q : q[i] = q[j] => i = j

LEMMA UnlistedFacts ==
    ASSUME NEW q \in Seq(Timers), NEW t, Distinct(q)
    PROVE  /\ Unlisted(q, t) \in Seq(Timers)
           /\ \A i \in DOMAIN Unlisted(q, t) : Unlisted(q, t)[i] # t /\ \E j \in DOMAIN q : q[j] = Unlisted(q, t)[i]
           /\ Distinct(Unlisted(q, t))
<1>1. CASE ~ \E i \in DOMAIN q : q[i] = t
  BY <1>1 DEF Unlisted
<1>2. CASE \E i \in DOMAIN q : q[i] = t
  <2>1. PICK k \in DOMAIN q : q[k] = t /\ k = CHOOSE i \in DOMAIN q : q[i] = t
    BY <1>2
  <2> DEFINE r == RemoveAt(q, k)
  <2>2. Unlisted(q, t) = r
    BY <1>2, <2>1 DEF Unlisted
  <2>3. Len(q) \in Nat /\ DOMAIN q = 1..Len(q) /\ k \in 1..Len(q) /\ \A i \in 1..Len(q) : q[i] \in Timers
    OBVIOUS
  <2> DEFINE a == SubSeq(q, 1, k - 1)
             b == SubSeq(q, k + 1, Len(q))
  <2>4. a \in Seq(Timers) /\ Len(a) = k - 1 /\ \A i \in 1..(k - 1) : a[i] = q[i]
    BY <2>3, SubSeqProperties
  <2>5. b \in Seq(Timers) /\ Len(b) = Len(q) - k /\ \A i \in 1..(Len(q) - k) : b[i] = q[k + i]
    BY <2>3, SubSeqProperties
  <2>6. r = a \o b
    BY DEF RemoveAt
  <2> HIDE DEF a, b, r
  <2>7. r \in Seq(Timers) /\ Len(r) = Len(q) - 1 /\ DOMAIN r = 1..(Len(q) - 1)
        /\ \A i \in 1..(Len(q) - 1) : r[i] = IF i < k THEN q[i] ELSE q[i + 1]
    <3>1. /\ a \o b \in Seq(Timers) /\ Len(a \o b) = Len(a) + Len(b)
          /\ \A i \in 1..(Len(a) + Len(b)) : (a \o b)[i] = IF i <= Len(a) THEN a[i] ELSE b[i - Len(a)]
      BY <2>4, <2>5, ConcatProperties
    <3>2. ASSUME NEW i \in 1..(Len(q) - 1) PROVE r[i] = IF i < k THEN q[i] ELSE q[i + 1]
      <4>0. i \in 1..(Len(a) + Len(b))
        BY <2>3, <2>4, <2>5
      <4>1. r[i] = IF i <= k - 1 THEN a[i] ELSE b[i - (k - 1)]
        <5>1. r[i] = IF i <= Len(a) THEN a[i] ELSE b[i - Len(a)]
          BY <3>1, <2>6, <4>0
        <5>2. Len(a) = k - 1
          BY <2>4
        <5> QED BY <5>1, <5>2
      <4>2. CASE i < k
        BY <4>1, <4>2, <2>3, <2>4
      <4>3. CASE ~(i < k)
        <5>1. i - (k - 1) \in 1..(Len(q) - k) /\ k + (i - (k - 1)) = i + 1 /\ ~(i <= k - 1)
          BY <2>3, <4>3
        <5> QED BY <4>1, <4>3, <5>1, <2>5
      <4> QED BY <4>2, <4>3
    <3>3. r \in Seq(Timers) /\ Len(r) = Len(q) - 1
      <4>1. r \in Seq(Timers) /\ Len(r) = Len(a) + Len(b)
        BY <3>1, <2>6, Zenon
      <4>2. Len(a) + Len(b) = Len(q) - 1
        BY <2>3, <2>4, <2>5
      <4> QED BY <4>1, <4>2
    <3>4. DOMAIN r = 1..(Len(q) - 1)
      BY <3>3, LenProperties
    <3> QED BY <3>2, <3>3, <3>4
  <2>8. \A i \in 1..(Len(q) - 1) : \E j \in 1..Len(q) : j # k /\ r[i] = q[j] /\ j = (IF i < k THEN i ELSE i + 1)
    BY <2>3, <2>7
  <2>9. \A i \in DOMAIN r : r[i] # t /\ \E j \in DOMAIN q : q[j] = r[i]
    BY <2>1, <2>3, <2>7, <2>8 DEF Distinct
  <2>10. Distinct(r)
    <3> SUFFICES ASSUME NEW i \in DOMAIN r, NEW j \in DOMAIN r, r[i] = r[j] PROVE i = j
      BY DEF Distinct
    <3>1. PICK m \in 1..Len(q) : r[i] = q[m] /\ m = (IF i < k THEN i ELSE i + 1)
      BY <2>7, <2>8
    <3>2. PICK n \in 1..Len(q) : r[j] = q[n] /\ n = (IF j < k THEN j ELSE j + 1)
      BY <2>7, <2>8
    <3>3. m = n
      BY <3>1, <3>2, <2>3 DEF Distinct
    <3> QED BY <3>1, <3>2, <3>3, <2>3, <2>7
  <2> QED BY <2>2, <2>7, <2>9, <2>10
<1> QED BY <1>1, <1>2

---------------------------------------------------------------------------
(* What changes, and what stays                                            *)

LEMMA LevelOne == 1 \in Levels /\ WheelLevels \in Levels /\ \A l \in Levels : l \in Nat /\ (l # WheelLevels => l + 1 \in Levels)
BY WheelSizes DEF Levels

LEMMA RestType == AtRest \in AdderStates
BY LevelOne DEF AtRest, AdderStates, AddStates

\* What it is to change the state of one process.
LEMMA Moves ==
    ASSUME AdderTypes, NEW p \in Adders, NEW s \in AddStates, adder' = [adder EXCEPT ![p].at = s]
    PROVE  /\ adder' \in [Adders -> AdderStates] /\ \A q \in Adders : q # p => adder'[q] = adder[q]
           /\ adder'[p].at = s /\ adder'[p].timer = adder[p].timer
           /\ adder'[p].bucket = adder[p].bucket /\ adder'[p].level = adder[p].level
<1>1. adder \in [Adders -> AdderStates] /\ adder[p] \in AdderStates
  BY DEF AdderTypes
<1>2. adder' = [adder EXCEPT ![p] = [adder[p] EXCEPT !.at = s]]
  OBVIOUS
<1>3. [adder[p] EXCEPT !.at = s] \in AdderStates
  BY <1>1 DEF AdderStates
<1> QED BY <1>1, <1>2, <1>3 DEF AdderStates

\* The types of the adders: only those that moved need a look.
LEMMA AddersKept ==
    ASSUME AdderTypes, adder' \in [Adders -> AdderStates],
           \A t \in Timers : due[t] # -1 => due'[t] # -1,
           \A l \in Levels : clock[l] # -1 => clock'[l] # -1,
           \A p \in Adders : adder'[p] = adder[p] \/ AdderOK(p)'
    PROVE  AdderTypes'
<1>1. ASSUME NEW p \in Adders, adder'[p] = adder[p] PROVE AdderOK(p)'
  <2>1. AdderOK(p) /\ adder[p].level \in Levels
    BY DEF AdderTypes, AdderStates
  <2> QED BY <1>1, <2>1 DEF AdderOK
<1> QED BY <1>1 DEF AdderTypes

\* ... of the rest: most of it stays.
LEMMA TypesSame ==
    ASSUME WheelTypes, HandTypes, UNCHANGED <<now, clock, exp, timers, due, ran, stopped, pq, poll, runner>>
    PROVE  WheelTypes' /\ HandTypes'
<1>1. WheelTypes'
  BY DEF WheelTypes
<1>2. HandTypes'
  BY DEF HandTypes
<1> QED BY <1>1, <1>2

LEMMA WheelSame ==
    ASSUME WheelTypes, UNCHANGED <<now, clock, exp, timers, due, ran, stopped>>
    PROVE  WheelTypes'
BY DEF WheelTypes

LEMMA HandSame == ASSUME HandTypes, UNCHANGED <<pq, poll, runner>> PROVE HandTypes'
BY DEF HandTypes

\* A timer's place stays if no process took one up, and no bucket, end or start changed.
LEMMA OnceKept ==
    ASSUME OnePlace, Ends, UNCHANGED <<timers, ran, stopped, due>>,
           \A p \in Adders : \A t \in Timers : Carries(p, t)' => Carries(p, t)
    PROVE  OnePlace' /\ Ends'
<1>1. \A b \in Buckets : \A t \in Timers : Lists(b, t)' <=> Lists(b, t)
  BY DEF Lists
<1>2. OnePlace'
  BY <1>1 DEF OnePlace
<1>3. Ends'
  BY <1>1 DEF Ends, Nowhere
<1> QED BY <1>2, <1>3

\* The way of the buckets stays if no process offers another one.
LEMMA OnwardKept ==
    ASSUME Onward, UNCHANGED <<exp, pq, poll, runner>>, now \in Int, now' \in Int, now <= now', WheelTypes,
           \A p \in Adders : \A b \in Buckets : Offered(p, b)' => Offered(p, b)
    PROVE  Onward'
<1> SUFFICES ASSUME NEW b \in Buckets
    PROVE  (/\ \A p \in Adders : Offered(p, b) =>
                 /\ exp[b] # -1 /\ ~Waits(b) /\ ~Sent(b) /\ ~Flushed(b)
                 /\ \A q \in Adders : Offered(q, b) => q = p
            /\ \A i \in pq : i.bucket = b => i.prio = exp[b] /\ exp[b] # -1 /\ ~Sent(b) /\ ~Flushed(b)
            /\ Sent(b) => poll.prio = exp[b] /\ exp[b] # -1 /\ exp[b] <= now /\ ~Flushed(b)
            /\ Flushed(b) => exp[b] # -1 /\ exp[b] <= now)'
  BY DEF Onward
<1>1. (Waits(b)' <=> Waits(b)) /\ (Sent(b)' <=> Sent(b)) /\ (Flushed(b)' <=> Flushed(b))
  BY DEF Waits, Sent, Flushed
<1>2. exp'[b] = exp[b] /\ pq' = pq /\ poll' = poll /\ exp[b] \in Int
  BY DEF WheelTypes, Times
<1>3. exp[b] <= now => exp[b] <= now'
  BY <1>2
<1> QED BY <1>1, <1>2, <1>3 DEF Onward

---------------------------------------------------------------------------
(* Callers                                                                 *)

\* Steps after which a process carries and offers nothing it did not before.
LEMMA InvKept ==
    ASSUME WheelInv, UNCHANGED <<now, clock, exp, timers, due, ran, stopped, pq, poll, runner, overtaken>>,
           AdderTypes',
           \A p \in Adders : \A t \in Timers : Carries(p, t)' => Carries(p, t),
           \A p \in Adders : \A b \in Buckets : Offered(p, b)' => Offered(p, b)
    PROVE  WheelInv'
<1>1. WheelTypes /\ HandTypes /\ OnePlace /\ Ends
  BY DEF WheelInv
<1>2. WheelTypes' /\ HandTypes'
  BY <1>1, TypesSame
<1>3. OnePlace' /\ Ends'
  BY <1>1, OnceKept
<1>4. now \in Int /\ now <= now
  BY <1>1 DEF WheelTypes
<1>5. Onward => Onward'
  BY <1>1, <1>4, OnwardKept
<1>6. InTime => InTime'
  BY DEF InTime
<1> QED BY <1>2, <1>3, <1>5, <1>6 DEF WheelInv

LEMMA StopTimerKeeps == ASSUME WheelInv, NEW t \in Timers, StopTimer(t) PROVE WheelInv'
<1>1. AdderTypes /\ t \in Adders
  BY DEF WheelInv, Adders
<1>2. adder' = [adder EXCEPT ![t].at = "stop"]
      /\ UNCHANGED <<now, clock, exp, timers, due, ran, stopped, pq, poll, runner, overtaken>>
  BY DEF StopTimer
<1>3. "stop" \in AddStates
  BY DEF AddStates
<1>4. adder' \in [Adders -> AdderStates] /\ adder'[t].at = "stop" /\ \A q \in Adders : q # t => adder'[q] = adder[q]
  BY <1>1, <1>2, <1>3, Moves
<1>5. AdderTypes'
  BY <1>1, <1>2, <1>4, AddersKept DEF AdderOK
<1>6. \A p \in Adders : \A u \in Timers : Carries(p, u)' => Carries(p, u)
  BY <1>4 DEF Carries
<1>7. \A p \in Adders : \A b \in Buckets : Offered(p, b)' => Offered(p, b)
  BY <1>4 DEF Offered
<1> QED BY <1>2, <1>5, <1>6, <1>7, InvKept

LEMMA StopReadsKeeps == ASSUME WheelInv, NEW t \in Timers, StopReads(t) PROVE WheelInv'
<1>1. AdderTypes /\ t \in Adders
  BY DEF WheelInv, Adders
<1>2. UNCHANGED <<now, clock, exp, timers, due, ran, stopped, pq, poll, runner, overtaken>>
  BY DEF StopReads
<1>3. "stopped" \in AddStates /\ "remove" \in AddStates
  BY DEF AddStates
<1>4. /\ adder' \in [Adders -> AdderStates] /\ \A q \in Adders : q # t => adder'[q] = adder[q]
      /\ adder'[t].at = "stopped" \/ (adder'[t].at = "remove" /\ adder'[t].bucket \in Buckets)
  <2>1. CASE BucketsOf(t) = {}
    <3>1. adder' = [adder EXCEPT ![t] = [@ EXCEPT !.at = "stopped"]]
      BY <2>1 DEF StopReads
    <3>2. adder' = [adder EXCEPT ![t].at = "stopped"]
      BY <3>1
    <3> QED BY <1>1, <1>3, <3>2, Moves
  <2>2. CASE BucketsOf(t) # {}
    <3>1. PICK b \in Buckets : b = CHOOSE c \in BucketsOf(t) : TRUE
      BY <2>2 DEF BucketsOf
    <3>2. adder' = [adder EXCEPT ![t] = [adder[t] EXCEPT !.at = "remove", !.bucket = b]]
      BY <2>2, <3>1 DEF StopReads
    <3>3. /\ adder' \in [Adders -> AdderStates] /\ \A q \in Adders : q # t => adder'[q] = adder[q]
          /\ adder'[t].at = "remove" /\ adder'[t].bucket = b
      <4> DEFINE r == [adder[t] EXCEPT !.at = "remove", !.bucket = b]
      <4>1. adder \in [Adders -> AdderStates] /\ adder[t] \in AdderStates
        BY <1>1 DEF AdderTypes
      <4>2. r \in AdderStates /\ r.at = "remove" /\ r.bucket = b
        BY <1>3, <4>1 DEF AdderStates
      <4>3. adder' = [adder EXCEPT ![t] = r]
        BY <3>2
      <4> HIDE DEF r
      <4> QED BY <1>1, <4>1, <4>2, <4>3
    <3> QED BY <3>3
  <2> QED BY <2>1, <2>2
<1>5. AdderTypes'
  BY <1>1, <1>2, <1>4, AddersKept DEF AdderOK
<1>6. \A p \in Adders : \A u \in Timers : Carries(p, u)' => Carries(p, u)
  BY <1>4 DEF Carries
<1>7. \A p \in Adders : \A b \in Buckets : Offered(p, b)' => Offered(p, b)
  BY <1>4 DEF Offered
<1> QED BY <1>2, <1>5, <1>6, <1>7, InvKept

LEMMA AfterFuncKeeps == ASSUME WheelInv, NEW t \in Timers, NEW d \in Delays, AfterFunc(t, d) PROVE WheelInv'
<1>1. WheelTypes /\ HandTypes /\ AdderTypes /\ OnePlace /\ Ends /\ t \in Adders
  BY DEF WheelInv, Adders
<1>2. /\ due[t] = -1 /\ due' = [due EXCEPT ![t] = now + d]
      /\ adder' = [adder EXCEPT ![t] = [AtRest EXCEPT !.at = "load", !.timer = t]]
      /\ UNCHANGED <<now, clock, exp, timers, ran, stopped, pq, poll, runner, overtaken>>
  BY DEF AfterFunc
<1>3. now + d \in Nat /\ now + d < Interval(WheelLevels)
  <2>1. now \in 0..LastTime /\ d \in Nat /\ LastTime \in Nat /\ LastTime + d < Interval(WheelLevels)
    BY <1>1, WheelSizes DEF WheelTypes
  <2>2. Interval(WheelLevels) \in Nat
    BY IntervalFacts, LevelOne
  <2> QED BY <2>1, <2>2
<1>4. /\ due' \in [Timers -> Times] /\ due'[t] = now + d /\ \A u \in Timers : u # t => due'[u] = due[u]
  BY <1>1, <1>2, <1>3 DEF WheelTypes, Times
<1>5. WheelTypes'
  BY <1>1, <1>2, <1>3, <1>4 DEF WheelTypes
<1>6. HandTypes'
  BY <1>1, <1>2, HandSame
<1>7. /\ adder' \in [Adders -> AdderStates] /\ \A q \in Adders : q # t => adder'[q] = adder[q]
      /\ adder'[t].at = "load" /\ adder'[t].timer = t /\ adder'[t].level = 1
  BY <1>1, <1>2, LevelOne DEF AdderTypes, AdderStates, AddStates, AtRest
<1>8. AdderTypes'
  <2>1. AdderOK(t)'
    BY <1>1, <1>2, <1>3, <1>4, <1>7 DEF AdderOK, WheelTypes
  <2>2. \A u \in Timers : due[u] # -1 => due'[u] # -1
    BY <1>2, <1>4
  <2> QED BY <1>1, <1>2, <1>7, <2>1, <2>2, AddersKept
<1>9. Nowhere(t)
  BY <1>1, <1>2 DEF Ends
<1>10. \A p \in Adders : \A u \in Timers : Carries(p, u)' <=> IF p = t THEN u = t ELSE Carries(p, u)
  BY <1>7 DEF Carries
<1>11. \A b \in Buckets : \A u \in Timers : Lists(b, u)' <=> Lists(b, u)
  BY <1>2 DEF Lists
<1>12. OnePlace'
  BY <1>1, <1>2, <1>9, <1>10, <1>11 DEF OnePlace, Nowhere
<1>13. Ends'
  <2>1. t \notin stopped /\ ran[t] = -1 /\ due'[t] # -1
    BY <1>1, <1>2, <1>3, <1>4 DEF Ends
  <2>2. ASSUME NEW u \in Timers, u # t, Nowhere(u) PROVE Nowhere(u)'
    BY <2>2, <1>10, <1>11 DEF Nowhere
  <2> QED BY <1>1, <1>2, <1>4, <2>1, <2>2 DEF Ends
<1>14. Onward => Onward'
  <2>1. now \in Int /\ now' = now /\ now <= now
    BY <1>1, <1>2 DEF WheelTypes
  <2>2. \A p \in Adders : \A b \in Buckets : Offered(p, b)' => Offered(p, b)
    BY <1>7 DEF Offered
  <2> QED BY <1>1, <1>2, <2>1, <2>2, OnwardKept
<1>15. InTime => InTime'
  BY <1>1, <1>2, <1>4 DEF InTime, Ends
<1> QED BY <1>2, <1>5, <1>6, <1>8, <1>12, <1>13, <1>14, <1>15 DEF WheelInv

---------------------------------------------------------------------------
(* Stopping a timer                                                        *)

LEMMA StopRemovesKeeps == ASSUME WheelInv, NEW t \in Timers, StopRemoves(t) PROVE WheelInv'
<1> DEFINE b == adder[t].bucket
<1>1. WheelTypes /\ HandTypes /\ AdderTypes /\ OnePlace /\ Ends /\ t \in Adders
  BY DEF WheelInv, Adders
<1>2. /\ adder[t].at = "remove" /\ timers' = [timers EXCEPT ![b] = Unlisted(@, t)]
      /\ stopped' = (IF b \in BucketsOf(t) THEN stopped \union {t} ELSE stopped \ {t})
      /\ adder' = [adder EXCEPT ![t].at = "stop"]
      /\ UNCHANGED <<now, clock, exp, due, ran, pq, poll, runner, overtaken>>
  BY DEF StopRemoves
<1>3. b \in Buckets
  BY <1>1, <1>2 DEF AdderTypes, AdderOK
<1>4. PICK k \in Buckets : k = b
  BY <1>3
<1>5. timers[k] \in Seq(Timers) /\ Distinct(timers[k])
  BY <1>1, <1>4 DEF WheelTypes, OnePlace, Distinct
<1>6. /\ Unlisted(timers[k], t) \in Seq(Timers) /\ Distinct(Unlisted(timers[k], t))
      /\ \A i \in DOMAIN Unlisted(timers[k], t) :
            Unlisted(timers[k], t)[i] # t /\ \E j \in DOMAIN timers[k] : timers[k][j] = Unlisted(timers[k], t)[i]
  BY <1>5, UnlistedFacts
<1>7. /\ timers' \in [Buckets -> Seq(Timers)] /\ timers'[k] = Unlisted(timers[k], t)
      /\ \A c \in Buckets : c # k => timers'[c] = timers[c]
  <2> HIDE DEF b
  <2>1. timers \in [Buckets -> Seq(Timers)] /\ timers' = [timers EXCEPT ![k] = Unlisted(timers[k], t)]
    BY <1>1, <1>2, <1>4 DEF WheelTypes
  <2> QED BY <2>1, <1>6
<1>8. /\ \A c \in Buckets : Distinct(timers'[c])
      /\ \A c \in Buckets : \A u \in Timers : Lists(c, u)' => Lists(c, u)
      /\ ~Lists(k, t)'
  <2>1. ASSUME NEW c \in Buckets PROVE Distinct(timers'[c]) /\ \A u \in Timers : Lists(c, u)' => Lists(c, u)
    <3>1. CASE c = k
      BY <3>1, <1>6, <1>7 DEF Lists
    <3>2. CASE c # k
      BY <3>2, <1>1, <1>7 DEF Lists, OnePlace, Distinct
    <3> QED BY <3>1, <3>2
  <2>2. ~Lists(k, t)'
    BY <1>6, <1>7 DEF Lists
  <2> QED BY <2>1, <2>2
<1>9. "stop" \in AddStates
  BY DEF AddStates
<1>10. adder' \in [Adders -> AdderStates] /\ adder'[t].at = "stop" /\ \A q \in Adders : q # t => adder'[q] = adder[q]
  BY <1>1, <1>2, <1>9, Moves
<1>11. \A p \in Adders : \A u \in Timers : Carries(p, u)' => Carries(p, u)
  BY <1>10 DEF Carries
<1>12. AdderTypes'
  BY <1>1, <1>2, <1>10, AddersKept DEF AdderOK
<1>13. WheelTypes' /\ HandTypes'
  <2>1. stopped' \subseteq Timers
    BY <1>1, <1>2 DEF WheelTypes
  <2> QED BY <1>1, <1>2, <1>7, <2>1 DEF WheelTypes, HandTypes
<1>14. OnePlace'
  <2>1. ASSUME NEW c \in Buckets, NEW d \in Buckets, NEW i \in DOMAIN timers'[c], NEW j \in DOMAIN timers'[d],
               timers'[c][i] = timers'[d][j]
        PROVE  c = d /\ i = j
    <3>1. PICK u \in Timers : u = timers'[c][i]
      BY <1>7
    <3>2. Lists(c, u)' /\ Lists(d, u)'
      BY <3>1, <2>1 DEF Lists
    <3>3. Lists(c, u) /\ Lists(d, u)
      BY <3>2, <1>8
    <3>4. c = d
      BY <3>3, <1>1 DEF Lists, OnePlace
    <3> QED BY <3>4, <2>1, <1>8 DEF Distinct
  <2>2. ASSUME NEW p \in Adders, NEW u \in Timers, Carries(p, u)'
        PROVE  (\A c \in Buckets : ~Lists(c, u)') /\ (\A q \in Adders : Carries(q, u)' => q = p)
    BY <2>2, <1>1, <1>8, <1>11 DEF OnePlace
  <2> QED BY <2>1, <2>2 DEF OnePlace
<1>15. Ends'
  <2>1. ASSUME NEW u \in Timers, Nowhere(u) PROVE Nowhere(u)'
    BY <2>1, <1>8, <1>11 DEF Nowhere
  <2>2. CASE b \in BucketsOf(t)
    <3>1. Lists(k, t)
      BY <2>2, <1>4 DEF BucketsOf, Lists
    <3>2. ran[t] = -1 /\ due[t] # -1
      BY <3>1, <1>1 DEF Ends, Nowhere
    <3>3. \A p \in Adders : ~Carries(p, t)'
      BY <3>1, <1>1, <1>11 DEF OnePlace
    <3>4. \A c \in Buckets : ~Lists(c, t)'
      <4>1. ASSUME NEW c \in Buckets, Lists(c, t)' PROVE FALSE
        <5>1. Lists(c, t)
          BY <4>1, <1>8
        <5>2. c = k
          BY <5>1, <3>1, <1>1 DEF Lists, OnePlace
        <5> QED BY <4>1, <5>2, <1>8
      <4> QED BY <4>1
    <3>5. stopped' = stopped \union {t} /\ ran' = ran /\ due' = due
      BY <2>2, <1>2
    <3>6. Nowhere(t)'
      BY <3>3, <3>4 DEF Nowhere
    <3> QED BY <1>1, <2>1, <3>2, <3>5, <3>6 DEF Ends
  <2>3. CASE b \notin BucketsOf(t)
    <3>1. stopped' \subseteq stopped /\ ran' = ran /\ due' = due
      BY <2>3, <1>2
    <3> QED BY <1>1, <2>1, <3>1 DEF Ends
  <2> QED BY <2>2, <2>3
<1>16. Onward => Onward'
  <2>1. now \in Int /\ now' = now /\ now <= now
    BY <1>1, <1>2 DEF WheelTypes
  <2>2. \A p \in Adders : \A c \in Buckets : Offered(p, c)' => Offered(p, c)
    BY <1>10 DEF Offered
  <2> QED BY <1>1, <1>2, <2>1, <2>2, OnwardKept
<1>17. InTime => InTime'
  BY <1>2 DEF InTime
<1> QED BY <1>2, <1>12, <1>13, <1>14, <1>15, <1>16, <1>17 DEF WheelInv

\* Steps of Poll and of the runner that hand no bucket on and leave the adders' timers.
LEMMA HandsKept ==
    ASSUME WheelInv, UNCHANGED <<now, clock, exp, timers, due, ran, stopped, pq, overtaken>>,
           AdderTypes', HandTypes',
           \A p \in Adders : \A t \in Timers : Carries(p, t)' => Carries(p, t),
           \A p \in Adders : \A b \in Buckets : Offered(p, b)' => Offered(p, b),
           poll.prio = poll'.prio,
           \A b \in Buckets : (Sent(b)' => Sent(b)) /\ (Flushed(b)' => Flushed(b))
    PROVE  WheelInv'
<1>1. WheelTypes /\ OnePlace /\ Ends
  BY DEF WheelInv
<1>2. WheelTypes'
  BY <1>1, WheelSame
<1>3. OnePlace' /\ Ends'
  BY <1>1, OnceKept
<1>4. \A b \in Buckets : Waits(b)' <=> Waits(b)
  BY DEF Waits
<1>5. Onward => Onward'
  BY <1>4 DEF Onward
<1>6. InTime => InTime'
  BY DEF InTime
<1> QED BY <1>2, <1>3, <1>5, <1>6 DEF WheelInv

LEMMA AdderStays == ASSUME AdderTypes, UNCHANGED <<adder, due, clock>> PROVE AdderTypes'
BY DEF AdderTypes, AdderOK

LEMMA SamePlace ==
    ASSUME adder' = adder
    PROVE  /\ \A p \in Adders : \A t \in Timers : Carries(p, t)' <=> Carries(p, t)
           /\ \A p \in Adders : \A b \in Buckets : Offered(p, b)' <=> Offered(p, b)
BY DEF Carries, Offered

LEMMA PollMoves ==
    ASSUME HandTypes, NEW s, poll' = [poll EXCEPT !.at = s]
    PROVE  poll' = [at |-> s, bucket |-> poll.bucket, prio |-> poll.prio]
<1> DEFINE r == [at |-> poll.at, bucket |-> poll.bucket, prio |-> poll.prio]
<1>1. poll = r /\ r.bucket = poll.bucket /\ r.prio = poll.prio
  BY DEF HandTypes
<1>2. [r EXCEPT !.at = s] = [at |-> s, bucket |-> r.bucket, prio |-> r.prio]
  OBVIOUS
<1> QED BY <1>1, <1>2

LEMMA PollWokenKeeps == ASSUME WheelInv, NEW p \in Adders, PollWoken(p) PROVE WheelInv'
<1>1. AdderTypes /\ HandTypes
  BY DEF WheelInv
<1>2. /\ adder' = [adder EXCEPT ![p].at = "done"] /\ poll' = [poll EXCEPT !.at = "peek"]
      /\ UNCHANGED <<now, clock, exp, timers, due, ran, stopped, pq, runner, overtaken>>
  BY DEF PollWoken
<1>3. "done" \in AddStates
  BY DEF AddStates
<1>4. adder' \in [Adders -> AdderStates] /\ adder'[p].at = "done" /\ \A q \in Adders : q # p => adder'[q] = adder[q]
  BY <1>1, <1>2, <1>3, Moves
<1>5. AdderTypes'
  BY <1>1, <1>2, <1>4, AddersKept DEF AdderOK
<1>6. \A q \in Adders : \A u \in Timers : Carries(q, u)' => Carries(q, u)
  BY <1>4 DEF Carries
<1>7. \A q \in Adders : \A b \in Buckets : Offered(q, b)' => Offered(q, b)
  BY <1>4 DEF Offered
<1>8. poll' = [at |-> "peek", bucket |-> poll.bucket, prio |-> poll.prio]
  BY <1>1, <1>2, PollMoves
<1>9. HandTypes' /\ poll'.prio = poll.prio
  BY <1>1, <1>2, <1>8 DEF HandTypes
<1>10. \A b \in Buckets : (Sent(b)' => Sent(b)) /\ (Flushed(b)' => Flushed(b))
  BY <1>2, <1>8 DEF Sent, Flushed
<1> QED BY <1>2, <1>5, <1>6, <1>7, <1>9, <1>10, HandsKept

---------------------------------------------------------------------------
(* Poll                                                                    *)

LEMMA PollLeavesKeeps == ASSUME WheelInv, PollTimeout \/ PollExits PROVE WheelInv'
<1>1. AdderTypes /\ HandTypes
  BY DEF WheelInv
<1>2. UNCHANGED <<now, clock, exp, timers, due, adder, ran, stopped, pq, runner, overtaken>>
  BY DEF PollTimeout, PollExits
<1>3. PICK s \in {"peek", "drain", "exit"} : poll' = [poll EXCEPT !.at = s]
  BY DEF PollTimeout, PollExits
<1>4. poll' = [at |-> s, bucket |-> poll.bucket, prio |-> poll.prio]
  BY <1>1, <1>3, PollMoves
<1>5. HandTypes' /\ poll'.prio = poll.prio
  BY <1>1, <1>2, <1>4 DEF HandTypes
<1>6. \A b \in Buckets : (Sent(b)' => Sent(b)) /\ (Flushed(b)' => Flushed(b))
  BY <1>2, <1>4 DEF Sent, Flushed
<1>7. AdderTypes'
  BY <1>1, <1>2, AdderStays
<1> QED BY <1>2, <1>5, <1>6, <1>7, SamePlace, HandsKept

LEMMA RunnerMovesKeeps == ASSUME WheelInv, RunnerLocks \/ RunnerExits PROVE WheelInv'
<1>1. AdderTypes /\ HandTypes
  BY DEF WheelInv
<1>2. UNCHANGED <<now, clock, exp, timers, due, adder, ran, stopped, pq, poll, overtaken>>
  BY DEF RunnerLocks, RunnerExits
<1>3. \/ runner.at = "lock" /\ runner' = [runner EXCEPT !.at = "flush"]
      \/ runner.at = "receive" /\ runner' = [runner EXCEPT !.at = "exit"]
  BY DEF RunnerLocks, RunnerExits
<1>4. HandTypes'
  BY <1>1, <1>2, <1>3 DEF HandTypes
<1>5. \A b \in Buckets : (Sent(b)' => Sent(b)) /\ (Flushed(b)' => Flushed(b))
  BY <1>1, <1>2, <1>3 DEF Sent, Flushed, HandTypes
<1>6. AdderTypes'
  BY <1>1, <1>2, AdderStays
<1> QED BY <1>2, <1>4, <1>5, <1>6, SamePlace, HandsKept

LEMMA NothingKeeps ==
    ASSUME WheelInv,
           UNCHANGED <<now, clock, exp, timers, due, adder, ran, stopped, pq, poll, runner, overtaken>>
    PROVE  WheelInv'
<1>1. AdderTypes /\ HandTypes
  BY DEF WheelInv
<1>2. HandTypes'
  BY <1>1, HandSame
<1>3. AdderTypes'
  BY <1>1, AdderStays
<1>4. poll'.prio = poll.prio /\ \A b \in Buckets : (Sent(b)' => Sent(b)) /\ (Flushed(b)' => Flushed(b))
  BY DEF Sent, Flushed
<1> QED BY <1>2, <1>3, <1>4, SamePlace, HandsKept

LEMMA WheelTickKeeps == ASSUME WheelInv, WheelTick PROVE WheelInv'
<1>1. WheelTypes /\ HandTypes /\ AdderTypes /\ OnePlace /\ Ends
  BY DEF WheelInv
<1>2. /\ now < LastTime /\ now' = now + 1
      /\ UNCHANGED <<clock, exp, timers, due, adder, ran, stopped, pq, poll, runner, overtaken>>
  BY DEF WheelTick
<1>3. now' \in 0..LastTime /\ now \in Int /\ now' \in Int /\ now <= now'
  BY <1>1, <1>2, WheelSizes DEF WheelTypes
<1>4. WheelTypes'
  BY <1>1, <1>2, <1>3 DEF WheelTypes
<1>5. HandTypes' /\ AdderTypes'
  BY <1>1, <1>2, HandSame, AdderStays
<1>6. OnePlace' /\ Ends'
  BY <1>1, <1>2, SamePlace, OnceKept
<1>7. Onward => Onward'
  BY <1>1, <1>2, <1>3, SamePlace, OnwardKept
<1>8. InTime => InTime'
  <2>1. clock'[1] = clock[1] /\ clock[1] \in Int
    BY <1>1, <1>2, LevelOne DEF WheelTypes, Times
  <2>2. clock[1] <= now => clock'[1] <= now'
    BY <1>3, <2>1
  <2> QED BY <1>2, <2>2 DEF InTime
<1> QED BY <1>2, <1>4, <1>5, <1>6, <1>7, <1>8 DEF WheelInv

LEMMA PollSendsKeeps == ASSUME WheelInv, PollSends PROVE WheelInv'
<1>1. WheelTypes /\ HandTypes /\ AdderTypes /\ OnePlace /\ Ends
  BY DEF WheelInv
<1>2. /\ poll.at = "send" /\ poll' = [poll EXCEPT !.at = "peek"]
      /\ runner' = [at |-> "advance", bucket |-> poll.bucket]
      /\ UNCHANGED <<now, clock, exp, timers, due, adder, pq, ran, stopped, overtaken>>
  BY DEF PollSends
<1>3. poll' = [at |-> "peek", bucket |-> poll.bucket, prio |-> poll.prio]
  BY <1>1, <1>2, PollMoves
<1>4. poll.bucket \in Buckets
  BY <1>1, <1>2 DEF HandTypes
<1>5. WheelTypes' /\ AdderTypes'
  BY <1>1, <1>2, WheelSame, AdderStays
<1>6. HandTypes'
  BY <1>1, <1>2, <1>3, <1>4 DEF HandTypes
<1>7. OnePlace' /\ Ends'
  BY <1>1, <1>2, SamePlace, OnceKept
<1>8. Onward => Onward'
  <2>1. \A b \in Buckets : ~Sent(b)' /\ (Flushed(b)' <=> Sent(b)) /\ (Waits(b)' <=> Waits(b))
    BY <1>2, <1>3 DEF Sent, Flushed, Waits
  <2>2. \A p \in Adders : \A b \in Buckets : Offered(p, b)' <=> Offered(p, b)
    BY <1>2, SamePlace
  <2> QED BY <1>2, <2>1, <2>2 DEF Onward
<1>9. InTime => InTime'
  BY <1>2 DEF InTime
<1> QED BY <1>2, <1>5, <1>6, <1>7, <1>8, <1>9 DEF WheelInv

LEMMA PollPeekKeeps == ASSUME WheelInv, PollPeek PROVE WheelInv'
<1>1. WheelTypes /\ HandTypes /\ AdderTypes /\ OnePlace /\ Ends
  BY DEF WheelInv
<1>2. UNCHANGED <<now, clock, exp, timers, due, adder, runner, ran, stopped, overtaken>>
  BY DEF PollPeek
<1>3. WheelTypes' /\ AdderTypes'
  BY <1>1, <1>2, WheelSame, AdderStays
<1>4. OnePlace' /\ Ends'
  BY <1>1, <1>2, SamePlace, OnceKept
<1>5. InTime => InTime'
  BY <1>2 DEF InTime
<1>6. \A p \in Adders : \A b \in Buckets : Offered(p, b)' <=> Offered(p, b)
  BY <1>2, SamePlace
<1>7. \A b \in Buckets : Flushed(b)' <=> Flushed(b)
  BY <1>2 DEF Flushed
<1>8. CASE \E i \in pq : i.prio <= now
  <2>1. PICK i \in pq : /\ \A j \in pq : i.prio <= j.prio
                        /\ pq' = pq \ {i}
                        /\ poll' = [at |-> "send", bucket |-> i.bucket, prio |-> i.prio]
    BY <1>8 DEF PollPeek
  <2>2. i.bucket \in Buckets /\ i.prio \in Times /\ pq' \subseteq pq
    BY <1>1, <2>1 DEF HandTypes
  <2>3. HandTypes'
    BY <1>1, <1>2, <2>1, <2>2 DEF HandTypes
  <2>4. i.prio <= now
    <3>1. PICK j \in pq : j.prio <= now
      BY <1>8
    <3>2. i.prio <= j.prio /\ i.prio \in Int /\ j.prio \in Int /\ now \in Int
      BY <1>1, <2>1, <2>2 DEF HandTypes, WheelTypes, Times
    <3> QED BY <3>1, <3>2
  <2>5. ASSUME Onward PROVE Onward'
    <3>1. /\ i.prio = exp[i.bucket] /\ exp[i.bucket] # -1 /\ ~Flushed(i.bucket)
          /\ \A p \in Adders : ~Offered(p, i.bucket)
      BY <2>2, <2>5 DEF Onward, Waits
    <3>2. \A j \in pq : j.bucket = i.bucket => j = i
      <4> SUFFICES ASSUME NEW j \in pq, j.bucket = i.bucket PROVE j = i
        OBVIOUS
      <4>1. j.prio = i.prio
        BY <2>2, <2>5, <3>1 DEF Onward
      <4>2. i \in [bucket : Buckets, prio : Times] /\ j \in [bucket : Buckets, prio : Times]
        BY <1>1 DEF HandTypes
      <4> QED BY <4>1, <4>2
    <3>3. \A b \in Buckets : Sent(b)' <=> b = i.bucket
      BY <2>1 DEF Sent
    <3>4. \A b \in Buckets : (Waits(b)' => Waits(b)) /\ (Waits(b)' => b # i.bucket)
      BY <2>1, <3>2 DEF Waits
    <3>5. poll'.prio = i.prio /\ \A b \in Buckets : b # i.bucket => ~Sent(b)'
      BY <2>1, <3>3
    <3> SUFFICES ASSUME NEW b \in Buckets
        PROVE  (/\ \A p \in Adders : Offered(p, b) =>
                     /\ exp[b] # -1 /\ ~Waits(b) /\ ~Sent(b) /\ ~Flushed(b)
                     /\ \A q \in Adders : Offered(q, b) => q = p
                /\ \A j \in pq : j.bucket = b => j.prio = exp[b] /\ exp[b] # -1 /\ ~Sent(b) /\ ~Flushed(b)
                /\ Sent(b) => poll.prio = exp[b] /\ exp[b] # -1 /\ exp[b] <= now /\ ~Flushed(b)
                /\ Flushed(b) => exp[b] # -1 /\ exp[b] <= now)'
      BY DEF Onward
    <3>6. ASSUME NEW p \in Adders, Offered(p, b)'
          PROVE  /\ exp'[b] # -1 /\ ~Waits(b)' /\ ~Sent(b)' /\ ~Flushed(b)'
                 /\ \A q \in Adders : Offered(q, b)' => q = p
      BY <1>2, <1>6, <1>7, <2>5, <3>1, <3>3, <3>4, <3>6 DEF Onward
    <3>7. ASSUME NEW j \in pq', j.bucket = b
          PROVE  j.prio = exp'[b] /\ exp'[b] # -1 /\ ~Sent(b)' /\ ~Flushed(b)'
      <4>1. j \in pq /\ j # i
        BY <2>1, <3>7
      <4> QED BY <4>1, <1>2, <1>7, <2>5, <3>2, <3>3, <3>7 DEF Onward
    <3>8. Sent(b)' => poll'.prio = exp'[b] /\ exp'[b] # -1 /\ exp'[b] <= now' /\ ~Flushed(b)'
      BY <1>2, <1>7, <2>4, <3>1, <3>3, <3>5
    <3>9. Flushed(b)' => exp'[b] # -1 /\ exp'[b] <= now'
      BY <1>2, <1>7, <2>5 DEF Onward
    <3> QED BY <3>6, <3>7, <3>8, <3>9
  <2> QED BY <1>2, <1>3, <1>4, <1>5, <2>3, <2>5 DEF WheelInv
<1>9. CASE ~ \E i \in pq : i.prio <= now
  <2> DEFINE v == IF pq = {} THEN -1 ELSE (CHOOSE i \in pq : \A j \in pq : i.prio <= j.prio).prio
  <2>1. poll' = [at |-> "wait", bucket |-> NoBucket, prio |-> v] /\ pq' = pq
    BY <1>9 DEF PollPeek
  <2> HIDE DEF v
  <2>2. HandTypes'
    BY <1>1, <1>2, <2>1 DEF HandTypes
  <2>3. \A b \in Buckets : ~Sent(b)' /\ (Waits(b)' <=> Waits(b))
    BY <2>1 DEF Sent, Waits
  <2>4. Onward => Onward'
    BY <1>2, <1>6, <1>7, <2>1, <2>3 DEF Onward
  <2> QED BY <1>2, <1>3, <1>4, <1>5, <2>2, <2>4 DEF WheelInv
<1> QED BY <1>8, <1>9

---------------------------------------------------------------------------
(* The runner, and buckets that get an expiration                          *)

LEMMA RunnerAdvancesKeeps == ASSUME WheelInv, RunnerAdvances PROVE WheelInv'
<1> DEFINE e == exp[runner.bucket]
           Moved(l) == \A k \in 1..l : clock[k] # -1 /\ e >= clock[k] + TickOf[k]
<1>1. WheelTypes /\ HandTypes /\ AdderTypes /\ OnePlace /\ Ends
  BY DEF WheelInv
<1>2. /\ runner.at = "advance" /\ runner' = [runner EXCEPT !.at = "lock"]
      /\ clock' = [l \in Levels |-> IF Moved(l) THEN Truncate(e, TickOf[l]) ELSE clock[l]]
      /\ UNCHANGED <<now, exp, timers, due, adder, pq, poll, ran, stopped, overtaken>>
  BY DEF RunnerAdvances
<1>3. runner.bucket \in Buckets /\ e \in Times
  BY <1>1, <1>2 DEF HandTypes, WheelTypes
<1>4. ASSUME NEW l \in Levels, Moved(l)
      PROVE  e \in Nat /\ Truncate(e, TickOf[l]) \in Nat /\ Truncate(e, TickOf[l]) <= e
  <2> HIDE DEF e
  <2>1. l \in 1..l /\ clock[l] \in Times /\ TickOf[l] \in Nat \ {0}
    BY <1>1, LevelOne, TickFacts DEF WheelTypes, Levels
  <2>2. clock[l] # -1 /\ e >= clock[l] + TickOf[l]
    BY <1>4, <2>1
  <2>3. e \in Nat
    BY <1>3, <2>1, <2>2 DEF Times
  <2> QED BY <2>1, <2>3, TruncateFacts
<1>5. clock' \in [Levels -> Times] /\ \A l \in Levels : clock[l] # -1 => clock'[l] # -1
  <2> HIDE DEF e, Moved
  <2>1. \A l \in Levels : clock'[l] \in Times /\ (clock[l] # -1 => clock'[l] # -1)
    BY <1>1, <1>2, <1>4 DEF WheelTypes, Times
  <2> QED BY <1>2, <2>1
<1>6. WheelTypes'
  BY <1>1, <1>2, <1>5, LevelOne DEF WheelTypes
<1>7. HandTypes'
  BY <1>1, <1>2 DEF HandTypes
<1>8. AdderTypes'
  <2>1. adder' \in [Adders -> AdderStates]
    BY <1>1, <1>2 DEF AdderTypes
  <2> QED BY <1>1, <1>2, <1>5, <2>1, AddersKept
<1>9. OnePlace' /\ Ends'
  BY <1>1, <1>2, SamePlace, OnceKept
<1>10. \A b \in Buckets : Flushed(b)' <=> Flushed(b)
  BY <1>1, <1>2 DEF Flushed, HandTypes
<1>11. Onward => Onward'
  <2>1. \A b \in Buckets : (Sent(b)' <=> Sent(b)) /\ (Waits(b)' <=> Waits(b))
    BY <1>2 DEF Sent, Waits
  <2>2. \A p \in Adders : \A b \in Buckets : Offered(p, b)' <=> Offered(p, b)
    BY <1>2, SamePlace
  <2> QED BY <1>2, <1>10, <2>1, <2>2 DEF Onward
<1>12. ASSUME Onward, InTime PROVE InTime'
  <2>1. e <= now
    BY <1>2, <1>3, <1>12 DEF Onward, Flushed
  <2>2. CASE Moved(1)
    <3>1. clock'[1] = Truncate(e, TickOf[1]) /\ Truncate(e, TickOf[1]) <= e /\ Truncate(e, TickOf[1]) \in Nat /\ e \in Nat
      BY <1>2, <1>4, <2>2, LevelOne
    <3> HIDE DEF e
    <3>2. clock'[1] <= now
      BY <1>1, <2>1, <3>1 DEF WheelTypes
    <3> QED BY <1>2, <1>12, <3>2 DEF InTime
  <2>3. CASE ~Moved(1)
    <3>1. clock'[1] = clock[1]
      BY <1>2, <2>3, LevelOne
    <3> QED BY <1>2, <1>12, <3>1 DEF InTime
  <2> QED BY <2>2, <2>3
<1> QED BY <1>2, <1>6, <1>7, <1>8, <1>9, <1>11, <1>12 DEF WheelInv

LEMMA AddOfferKeeps == ASSUME WheelInv, NEW p \in Adders, AddOffer(p) PROVE WheelInv'
<1>1. WheelTypes /\ HandTypes /\ AdderTypes /\ OnePlace /\ Ends
  BY DEF WheelInv
<1>2. PICK b \in Buckets : b = adder[p].bucket
  BY <1>1 DEF AddOffer, AdderTypes, AdderOK
<1>3. PICK s \in {"wake", "done"} : adder' = [adder EXCEPT ![p].at = s]
  BY DEF AddOffer
<1>4. /\ adder[p].at = "offer" /\ pq' = pq \union {[bucket |-> b, prio |-> exp[b]]}
      /\ UNCHANGED <<now, clock, exp, timers, due, poll, runner, ran, stopped, overtaken>>
  BY <1>2 DEF AddOffer
<1>5. s \in AddStates
  BY DEF AddStates
<1>6. adder' \in [Adders -> AdderStates] /\ adder'[p].at = s /\ \A q \in Adders : q # p => adder'[q] = adder[q]
  BY <1>1, <1>3, <1>5, Moves
<1>7. AdderTypes'
  BY <1>1, <1>4, <1>6, AddersKept DEF AdderOK
<1>8. WheelTypes'
  BY <1>1, <1>4, WheelSame
<1>9. HandTypes'
  <2>1. [bucket |-> b, prio |-> exp[b]] \in [bucket : Buckets, prio : Times]
    BY <1>1 DEF WheelTypes
  <2>2. pq' \subseteq [bucket : Buckets, prio : Times]
    BY <1>1, <1>4, <2>1 DEF HandTypes
  <2> QED BY <1>1, <1>4, <2>2 DEF HandTypes
<1>10. OnePlace' /\ Ends'
  <2>1. \A q \in Adders : \A t \in Timers : Carries(q, t)' => Carries(q, t)
    BY <1>6 DEF Carries
  <2> QED BY <1>1, <1>4, <2>1, OnceKept
<1>11. InTime => InTime'
  BY <1>4 DEF InTime
<1>12. ASSUME Onward PROVE Onward'
  <2>1. Offered(p, b)
    BY <1>2, <1>4 DEF Offered
  <2>2. /\ exp[b] # -1 /\ ~Waits(b) /\ ~Sent(b) /\ ~Flushed(b) /\ \A q \in Adders : Offered(q, b) => q = p
    BY <1>12, <2>1 DEF Onward
  <2>3. \A c \in Buckets : (Sent(c)' <=> Sent(c)) /\ (Flushed(c)' <=> Flushed(c)) /\ (Waits(c)' => Waits(c) \/ c = b)
    BY <1>4 DEF Sent, Flushed, Waits
  <2>4. \A q \in Adders : \A c \in Buckets : Offered(q, c)' => Offered(q, c) /\ c # b
    BY <1>6, <2>2 DEF Offered
  <2> SUFFICES ASSUME NEW c \in Buckets
      PROVE  (/\ \A q \in Adders : Offered(q, c) =>
                   /\ exp[c] # -1 /\ ~Waits(c) /\ ~Sent(c) /\ ~Flushed(c)
                   /\ \A r \in Adders : Offered(r, c) => r = q
              /\ \A i \in pq : i.bucket = c => i.prio = exp[c] /\ exp[c] # -1 /\ ~Sent(c) /\ ~Flushed(c)
              /\ Sent(c) => poll.prio = exp[c] /\ exp[c] # -1 /\ exp[c] <= now /\ ~Flushed(c)
              /\ Flushed(c) => exp[c] # -1 /\ exp[c] <= now)'
    BY DEF Onward
  <2>5. ASSUME NEW q \in Adders, Offered(q, c)'
        PROVE  /\ exp'[c] # -1 /\ ~Waits(c)' /\ ~Sent(c)' /\ ~Flushed(c)'
               /\ \A r \in Adders : Offered(r, c)' => r = q
    BY <1>4, <1>12, <2>3, <2>4, <2>5 DEF Onward
  <2>6. ASSUME NEW i \in pq', i.bucket = c PROVE i.prio = exp'[c] /\ exp'[c] # -1 /\ ~Sent(c)' /\ ~Flushed(c)'
    <3>1. CASE i \in pq
      BY <3>1, <1>4, <1>12, <2>3, <2>6 DEF Onward
    <3>2. CASE i = [bucket |-> b, prio |-> exp[b]]
      BY <3>2, <1>4, <2>2, <2>3, <2>6
    <3> QED BY <3>1, <3>2, <1>4
  <2>7. Sent(c)' => poll'.prio = exp'[c] /\ exp'[c] # -1 /\ exp'[c] <= now' /\ ~Flushed(c)'
    BY <1>4, <1>12, <2>3 DEF Onward
  <2>8. Flushed(c)' => exp'[c] # -1 /\ exp'[c] <= now'
    BY <1>4, <1>12, <2>3 DEF Onward
  <2> QED BY <2>5, <2>6, <2>7, <2>8
<1> QED BY <1>4, <1>7, <1>8, <1>9, <1>10, <1>11, <1>12 DEF WheelInv

LEMMA AddExpireKeeps == ASSUME WheelInv, NEW p \in Adders, AddExpire(p) PROVE WheelInv'
<1>1. WheelTypes /\ HandTypes /\ AdderTypes /\ OnePlace /\ Ends
  BY DEF WheelInv
<1> DEFINE e == Truncate(due[adder[p].timer], TickOf[adder[p].level])
<1>2. PICK b \in Buckets : b = adder[p].bucket
  BY <1>1 DEF AddExpire, AdderTypes, AdderOK
<1>3. e \in Nat
  <2>1. adder[p].timer \in Timers /\ due[adder[p].timer] # -1 /\ adder[p].level \in Levels
    BY <1>1 DEF AddExpire, AdderTypes, AdderOK, AdderStates
  <2>2. due[adder[p].timer] \in Nat /\ TickOf[adder[p].level] \in Nat \ {0}
    BY <1>1, <2>1, TickFacts DEF WheelTypes, Times
  <2> QED BY <2>2, TruncateFacts
<1>4. PICK s \in {"done", "offer"} : adder' = [adder EXCEPT ![p].at = s] /\ (s = "done" <=> exp[b] = e)
  BY <1>2 DEF AddExpire
<1>5. /\ adder[p].at = "expire" /\ exp' = [exp EXCEPT ![b] = e] /\ overtaken' = (overtaken \/ exp[b] \notin {-1, e})
      /\ UNCHANGED <<now, clock, timers, due, pq, poll, runner, ran, stopped>>
  BY <1>2 DEF AddExpire
<1> HIDE DEF e
<1>6. s \in AddStates
  BY DEF AddStates
<1>7. /\ adder' \in [Adders -> AdderStates] /\ \A q \in Adders : q # p => adder'[q] = adder[q]
      /\ adder'[p].at = s /\ adder'[p].timer = adder[p].timer /\ adder'[p].bucket = b
  BY <1>1, <1>2, <1>4, <1>6, Moves
<1>8. exp' \in [Buckets -> Times] /\ exp'[b] = e /\ \A c \in Buckets : c # b => exp'[c] = exp[c]
  BY <1>1, <1>3, <1>5 DEF WheelTypes, Times
<1>9. WheelTypes' /\ HandTypes'
  BY <1>1, <1>5, <1>8, HandSame DEF WheelTypes
<1>10. AdderTypes'
  <2>1. AdderOK(p)'
    BY <1>1, <1>5, <1>7 DEF AdderOK, AdderTypes
  <2> QED BY <1>1, <1>5, <1>7, <2>1, AddersKept
<1>11. OnePlace' /\ Ends'
  <2>1. \A q \in Adders : \A t \in Timers : Carries(q, t)' => Carries(q, t)
    BY <1>7 DEF Carries
  <2> QED BY <1>1, <1>5, <2>1, OnceKept
<1>12. InTime => InTime'
  BY <1>5 DEF InTime
<1>13. \A c \in Buckets : (Sent(c)' <=> Sent(c)) /\ (Flushed(c)' <=> Flushed(c)) /\ (Waits(c)' <=> Waits(c))
  BY <1>5 DEF Sent, Flushed, Waits
<1>14. ASSUME Onward, ~overtaken' PROVE Onward'
  <2>1. CASE exp[b] = e
    <3>1. exp' = exp
      BY <1>1, <1>5, <2>1 DEF WheelTypes
    <3>2. \A q \in Adders : \A c \in Buckets : Offered(q, c)' => Offered(q, c)
      BY <1>4, <1>7, <2>1 DEF Offered
    <3>3. now \in Int /\ now' = now /\ now <= now
      BY <1>1, <1>5 DEF WheelTypes
    <3> QED BY <1>1, <1>5, <1>14, <3>1, <3>2, <3>3, OnwardKept
  <2>2. CASE exp[b] = -1
    <3>1. ~Sent(b) /\ ~Flushed(b) /\ ~Waits(b) /\ \A q \in Adders : ~Offered(q, b)
      BY <1>14, <2>2 DEF Onward, Waits
    <3>2. \A q \in Adders : \A c \in Buckets : c # b => (Offered(q, c)' => Offered(q, c))
      BY <1>7 DEF Offered
    <3>3. \A q \in Adders : Offered(q, b)' => q = p
      BY <1>7, <3>1 DEF Offered
    <3>4. exp'[b] # -1
      BY <1>3, <1>8
    <3>5. \A i \in pq : i.bucket # b
      BY <3>1 DEF Waits
    <3> SUFFICES ASSUME NEW c \in Buckets
        PROVE  (/\ \A q \in Adders : Offered(q, c) =>
                     /\ exp[c] # -1 /\ ~Waits(c) /\ ~Sent(c) /\ ~Flushed(c)
                     /\ \A r \in Adders : Offered(r, c) => r = q
                /\ \A i \in pq : i.bucket = c => i.prio = exp[c] /\ exp[c] # -1 /\ ~Sent(c) /\ ~Flushed(c)
                /\ Sent(c) => poll.prio = exp[c] /\ exp[c] # -1 /\ exp[c] <= now /\ ~Flushed(c)
                /\ Flushed(c) => exp[c] # -1 /\ exp[c] <= now)'
      BY DEF Onward
    <3>6. CASE c = b
      BY <3>6, <1>5, <1>13, <3>1, <3>3, <3>4, <3>5
    <3>7. CASE c # b
      BY <3>7, <1>5, <1>8, <1>13, <1>14, <3>2 DEF Onward
    <3> QED BY <3>6, <3>7
  <2> QED BY <1>5, <1>14, <2>1, <2>2
<1> QED BY <1>5, <1>9, <1>10, <1>11, <1>12, <1>14 DEF WheelInv

---------------------------------------------------------------------------
(* Timers put into buckets                                                 *)

LEMMA AddInsertKeeps == ASSUME WheelInv, NEW p \in Adders, AddInsert(p) PROVE WheelInv'
<1>1. WheelTypes /\ HandTypes /\ AdderTypes /\ OnePlace /\ Ends
  BY DEF WheelInv
<1>2. PICK b \in Buckets : b = adder[p].bucket
  BY <1>1 DEF AddInsert, AdderTypes, AdderOK
<1>3. PICK t \in Timers : t = adder[p].timer
  BY <1>1 DEF AddInsert, AdderTypes, AdderOK
<1>4. /\ adder[p].at = "insert" /\ timers' = [timers EXCEPT ![b] = Append(timers[b], t)]
      /\ adder' = [adder EXCEPT ![p].at = "expire"]
      /\ UNCHANGED <<now, clock, exp, due, pq, poll, runner, ran, stopped, overtaken>>
  BY <1>2, <1>3 DEF AddInsert
<1>5. "expire" \in AddStates
  BY DEF AddStates
<1>6. /\ adder' \in [Adders -> AdderStates] /\ \A q \in Adders : q # p => adder'[q] = adder[q]
      /\ adder'[p].at = "expire" /\ adder'[p].timer = t /\ adder'[p].bucket = b
  BY <1>1, <1>2, <1>3, <1>4, <1>5, Moves
<1>7. Carries(p, t)
  BY <1>3, <1>4 DEF Carries
<1>8. (\A c \in Buckets : ~Lists(c, t)) /\ (\A q \in Adders : Carries(q, t) => q = p)
  BY <1>1, <1>7 DEF OnePlace
<1>9. \A q \in Adders : \A u \in Timers : Carries(q, u)' => Carries(q, u) /\ q # p /\ u # t
  BY <1>6, <1>8 DEF Carries
<1> DEFINE q == timers[b]
<1>10. q \in Seq(Timers) /\ timers \in [Buckets -> Seq(Timers)]
  BY <1>1 DEF WheelTypes
<1>11. /\ Len(q) \in Nat /\ DOMAIN q = 1..Len(q) /\ Append(q, t) \in Seq(Timers)
       /\ DOMAIN Append(q, t) = 1..(Len(q) + 1)
       /\ \A i \in 1..Len(q) : Append(q, t)[i] = q[i]
       /\ Append(q, t)[Len(q) + 1] = t
  BY <1>10
<1>12. timers' \in [Buckets -> Seq(Timers)] /\ timers'[b] = Append(q, t) /\ \A c \in Buckets : c # b => timers'[c] = timers[c]
  BY <1>4, <1>10, <1>11
<1>13. ASSUME NEW c \in Buckets, NEW i \in DOMAIN timers'[c]
       PROVE  \/ i \in DOMAIN timers[c] /\ timers'[c][i] = timers[c][i] /\ timers[c][i] # t
              \/ c = b /\ i = Len(q) + 1 /\ timers'[c][i] = t
  <2>1. CASE c = b
    <3>1. i \in 1..(Len(q) + 1)
      BY <2>1, <1>11, <1>12
    <3>2. CASE i \in 1..Len(q)
      BY <2>1, <3>2, <1>8, <1>11, <1>12 DEF Lists
    <3>3. CASE i = Len(q) + 1
      BY <2>1, <3>3, <1>11, <1>12
    <3> QED BY <3>1, <3>2, <3>3, <1>11
  <2>2. CASE c # b
    BY <2>2, <1>8, <1>12 DEF Lists
  <2> QED BY <2>1, <2>2
<1> HIDE DEF q
<1>14. \A c \in Buckets : \A u \in Timers : Lists(c, u)' => Lists(c, u) \/ u = t
  BY <1>13 DEF Lists
<1>15. OnePlace'
  <2>1. ASSUME NEW c \in Buckets, NEW d \in Buckets, NEW i \in DOMAIN timers'[c], NEW j \in DOMAIN timers'[d],
               timers'[c][i] = timers'[d][j]
        PROVE  c = d /\ i = j
    <3>1. CASE timers'[c][i] = t
      BY <3>1, <2>1, <1>13
    <3>2. CASE timers'[c][i] # t
      <4>1. i \in DOMAIN timers[c] /\ j \in DOMAIN timers[d] /\ timers[c][i] = timers[d][j]
        BY <3>2, <2>1, <1>13
      <4> QED BY <4>1, <1>1 DEF OnePlace
    <3> QED BY <3>1, <3>2
  <2>2. ASSUME NEW r \in Adders, NEW u \in Timers, Carries(r, u)'
        PROVE  (\A c \in Buckets : ~Lists(c, u)') /\ (\A s \in Adders : Carries(s, u)' => s = r)
    BY <2>2, <1>1, <1>9, <1>14 DEF OnePlace
  <2> QED BY <2>1, <2>2 DEF OnePlace
<1>16. Ends'
  <2>1. ASSUME NEW u \in Timers, Nowhere(u) PROVE Nowhere(u)'
    <3>1. u # t
      BY <2>1, <1>7 DEF Nowhere
    <3> QED BY <2>1, <3>1, <1>9, <1>14 DEF Nowhere
  <2> QED BY <2>1, <1>1, <1>4 DEF Ends
<1>17. WheelTypes' /\ HandTypes'
  BY <1>1, <1>4, <1>12, HandSame DEF WheelTypes
<1>18. AdderTypes'
  <2>1. AdderOK(p)'
    BY <1>1, <1>3, <1>4, <1>6 DEF AdderOK, AdderTypes
  <2> QED BY <1>1, <1>4, <1>6, <2>1, AddersKept
<1>19. Onward => Onward'
  <2>1. now \in Int /\ now' = now /\ now <= now
    BY <1>1, <1>4 DEF WheelTypes
  <2>2. \A r \in Adders : \A c \in Buckets : Offered(r, c)' => Offered(r, c)
    BY <1>6 DEF Offered
  <2> QED BY <1>1, <1>4, <2>1, <2>2, OnwardKept
<1>20. InTime => InTime'
  BY <1>4 DEF InTime
<1> QED BY <1>4, <1>15, <1>16, <1>17, <1>18, <1>19, <1>20 DEF WheelInv

LEMMA AddLoadKeeps == ASSUME WheelInv, NEW p \in Adders, AddLoad(p) PROVE WheelInv'
<1>1. WheelTypes /\ HandTypes /\ AdderTypes /\ OnePlace /\ Ends
  BY DEF WheelInv
<1>2. PICK t \in Timers : t = adder[p].timer
  BY <1>1 DEF AddLoad, AdderTypes, AdderOK
<1>3. PICK l \in Levels : l = adder[p].level
  BY <1>1 DEF AdderTypes, AdderStates
<1>4. adder[p].at = "load" /\ clock[l] # -1 /\ due[t] # -1 /\ Carries(p, t)
  BY <1>1, <1>2, <1>3 DEF AddLoad, AdderTypes, AdderOK, Carries
<1>5. PICK c \in Nat : c = clock[l]
  BY <1>1, <1>4 DEF WheelTypes, Times
<1>6. PICK d \in Nat : d = due[t] /\ d < Interval(WheelLevels)
  BY <1>1, <1>4 DEF WheelTypes, Times
<1>7. TickOf[l] \in Nat \ {0} /\ Interval(l) \in Nat \ {0} /\ Interval(l) >= TickOf[l]
  <2>1. TickOf[l] \in Nat \ {0} /\ Interval(l) \in Nat \ {0}
    BY TickFacts, IntervalFacts
  <2> QED BY <2>1, WheelSizes DEF Interval
<1>8. UNCHANGED <<now, exp, timers, due, pq, poll, runner, stopped>>
  BY DEF AddLoad
<1>9. \/ d < c + TickOf[l]
      \/ d >= c + TickOf[l] /\ d < c + Interval(l)
      \/ d >= c + Interval(l)
  BY <1>7
<1>10. CASE d < c + TickOf[l]
  <2>1. /\ ran' = [ran EXCEPT ![t] = now] /\ adder' = [adder EXCEPT ![p].at = "done"]
        /\ overtaken' = (overtaken \/ l > 1) /\ clock' = clock
    <3>1. ~(d >= c + TickOf[l] /\ d < c + Interval(l)) /\ ~(d >= c + Interval(l))
      BY <1>7, <1>10
    <3> QED BY <1>2, <1>3, <1>5, <1>6, <1>10, <3>1 DEF AddLoad
  <2>2. "done" \in AddStates
    BY DEF AddStates
  <2>3. adder' \in [Adders -> AdderStates] /\ adder'[p].at = "done" /\ \A q \in Adders : q # p => adder'[q] = adder[q]
    BY <1>1, <2>1, <2>2, Moves
  <2>4. AdderTypes'
    BY <1>1, <1>8, <2>1, <2>3, AddersKept DEF AdderOK
  <2>5. ran' \in [Timers -> Times] /\ ran'[t] = now /\ now \in Nat /\ \A u \in Timers : u # t => ran'[u] = ran[u]
    BY <1>1, <2>1 DEF WheelTypes, Times
  <2>6. WheelTypes' /\ HandTypes'
    BY <1>1, <1>8, <2>1, <2>5, HandSame DEF WheelTypes
  <2>7. (\A b \in Buckets : ~Lists(b, t)) /\ (\A q \in Adders : Carries(q, t) => q = p)
    BY <1>1, <1>4 DEF OnePlace
  <2>8. /\ \A q \in Adders : \A u \in Timers : Carries(q, u)' => Carries(q, u) /\ u # t
        /\ \A b \in Buckets : \A u \in Timers : Lists(b, u)' <=> Lists(b, u)
    BY <1>8, <2>3, <2>7 DEF Carries, Lists
  <2>9. OnePlace'
    BY <1>1, <1>8, <2>8 DEF OnePlace
  <2>10. Ends'
    <3>1. ASSUME NEW u \in Timers, Nowhere(u) \/ u = t PROVE Nowhere(u)'
      BY <3>1, <2>7, <2>8 DEF Nowhere
    <3>2. t \notin stopped
      BY <1>1, <1>4 DEF Ends, Nowhere
    <3> QED BY <1>1, <1>4, <1>8, <2>5, <3>1, <3>2 DEF Ends
  <2>11. Onward => Onward'
    <3>1. now \in Int /\ now' = now /\ now <= now
      BY <1>1, <1>8 DEF WheelTypes
    <3>2. \A r \in Adders : \A b \in Buckets : Offered(r, b)' => Offered(r, b)
      BY <2>3 DEF Offered
    <3> QED BY <1>1, <1>8, <3>1, <3>2, OnwardKept
  <2>12. ASSUME InTime, ~overtaken' PROVE InTime'
    <3>1. l = 1
      <4>1. ~(l > 1)
        BY <2>1, <2>12, Zenon
      <4>2. l \in Nat /\ l >= 1
        BY WheelSizes DEF Levels
      <4> QED BY <4>1, <4>2
    <3>2. d <= now
      <4>1. c <= now /\ now \in Nat /\ TickOf[l] = 1
        BY <1>1, <1>5, <2>5, <2>12, <3>1, TickFacts DEF InTime
      <4> QED BY <4>1, <1>10
    <3> QED BY <1>6, <1>8, <2>1, <2>5, <2>12, <3>2 DEF InTime
  <2> QED BY <2>1, <2>4, <2>6, <2>9, <2>10, <2>11, <2>12 DEF WheelInv
<1>11. CASE d >= c + TickOf[l] /\ d < c + Interval(l)
  <2> DEFINE b == <<l, (d \div TickOf[l]) % WheelSize>>
  <2>1. b \in Buckets
    BY SlotFacts
  <2>2. adder' = [adder EXCEPT ![p].at = "insert", ![p].bucket = b] /\ UNCHANGED <<ran, clock, overtaken>>
    <3>1. ~(d < c + TickOf[l]) /\ ~(d >= c + Interval(l))
      BY <1>7, <1>11
    <3> QED BY <1>2, <1>3, <1>5, <1>6, <1>11, <3>1 DEF AddLoad
  <2> HIDE DEF b
  <2>3. /\ adder' \in [Adders -> AdderStates] /\ \A q \in Adders : q # p => adder'[q] = adder[q]
        /\ adder'[p].at = "insert" /\ adder'[p].bucket = b /\ adder'[p].timer = t
    <3>1. adder \in [Adders -> AdderStates] /\ adder[p] \in AdderStates
      BY <1>1 DEF AdderTypes
    <3> DEFINE r == [adder[p] EXCEPT !.at = "insert", !.bucket = b]
    <3>2. r \in AdderStates /\ r.at = "insert" /\ r.bucket = b /\ r.timer = t
      BY <1>2, <2>1, <3>1 DEF AdderStates, AddStates
    <3>3. adder' = [adder EXCEPT ![p] = r]
      BY <2>2, <3>1
    <3> HIDE DEF r
    <3> QED BY <3>1, <3>2, <3>3
  <2>4. AdderTypes'
    <3>1. AdderOK(p)'
      BY <1>4, <1>8, <2>1, <2>3 DEF AdderOK
    <3> QED BY <1>1, <1>8, <2>2, <2>3, <3>1, AddersKept
  <2>5. \A q \in Adders : \A u \in Timers : Carries(q, u)' => Carries(q, u)
    BY <1>2, <1>4, <2>3 DEF Carries
  <2>6. \A q \in Adders : \A k \in Buckets : Offered(q, k)' => Offered(q, k)
    BY <2>3 DEF Offered
  <2> QED BY <1>8, <2>2, <2>4, <2>5, <2>6, InvKept
<1>12. CASE d >= c + Interval(l)
  <2>1. l # WheelLevels
    BY <1>6, <1>7, <1>12
  <2>2. l + 1 \in Levels /\ TickOf[l + 1] \in Nat \ {0}
    BY <2>1, LevelOne, TickFacts
  <2>3. /\ clock' = (IF clock[l + 1] # -1 THEN clock ELSE [clock EXCEPT ![l + 1] = Truncate(c, TickOf[l + 1])])
        /\ adder' = [adder EXCEPT ![p].level = l + 1] /\ UNCHANGED <<ran, overtaken>>
    <3>1. ~(d < c + TickOf[l]) /\ ~(d >= c + TickOf[l] /\ d < c + Interval(l))
      BY <1>7, <1>12
    <3> QED BY <1>2, <1>3, <1>5, <1>6, <1>12, <3>1 DEF AddLoad
  <2>4. /\ clock' \in [Levels -> Times] /\ clock'[l + 1] # -1
        /\ \A k \in Levels : clock[k] # -1 => clock'[k] = clock[k]
    <3>1. Truncate(c, TickOf[l + 1]) \in Nat
      BY <2>2, TruncateFacts
    <3>2. CASE clock[l + 1] # -1
      BY <3>2, <1>1, <2>3 DEF WheelTypes
    <3>3. CASE clock[l + 1] = -1
      <4>1. clock' = [clock EXCEPT ![l + 1] = Truncate(c, TickOf[l + 1])] /\ clock \in [Levels -> Times]
        BY <3>3, <1>1, <2>3 DEF WheelTypes
      <4> QED BY <3>1, <3>3, <4>1, <2>2 DEF Times
    <3> QED BY <3>2, <3>3
  <2>5. /\ adder' \in [Adders -> AdderStates] /\ \A q \in Adders : q # p => adder'[q] = adder[q]
        /\ adder'[p].at = "load" /\ adder'[p].timer = t /\ adder'[p].level = l + 1
    <3>1. adder \in [Adders -> AdderStates] /\ adder[p] \in AdderStates
      BY <1>1 DEF AdderTypes
    <3> DEFINE r == [adder[p] EXCEPT !.level = l + 1]
    <3>2. r \in AdderStates /\ r.at = "load" /\ r.timer = t /\ r.level = l + 1
      BY <1>2, <1>4, <2>2, <3>1 DEF AdderStates
    <3>3. adder' = [adder EXCEPT ![p] = r]
      BY <2>3, <3>1
    <3> HIDE DEF r
    <3> QED BY <3>1, <3>2, <3>3
  <2>6. AdderTypes'
    <3>1. AdderOK(p)'
      BY <1>4, <1>8, <2>4, <2>5 DEF AdderOK
    <3> QED BY <1>1, <1>8, <2>4, <2>5, <3>1, AddersKept
  <2>7. WheelTypes' /\ HandTypes'
    <3>1. clock'[1] # -1
      BY <1>1, <2>4, LevelOne DEF WheelTypes
    <3> QED BY <1>1, <1>8, <2>3, <2>4, <3>1, HandSame DEF WheelTypes
  <2>8. OnePlace' /\ Ends'
    <3>1. \A q \in Adders : \A u \in Timers : Carries(q, u)' => Carries(q, u)
      BY <1>2, <1>4, <2>5 DEF Carries
    <3> QED BY <1>1, <1>8, <2>3, <3>1, OnceKept
  <2>9. Onward => Onward'
    <3>1. now \in Int /\ now' = now /\ now <= now
      BY <1>1, <1>8 DEF WheelTypes
    <3>2. \A q \in Adders : \A k \in Buckets : Offered(q, k)' => Offered(q, k)
      BY <2>5 DEF Offered
    <3> QED BY <1>1, <1>8, <3>1, <3>2, OnwardKept
  <2>10. InTime => InTime'
    <3>1. clock'[1] = clock[1]
      BY <1>1, <2>4, LevelOne DEF WheelTypes
    <3> QED BY <1>8, <2>3, <3>1 DEF InTime
  <2> QED BY <2>3, <2>6, <2>7, <2>8, <2>9, <2>10 DEF WheelInv
<1> QED BY <1>9, <1>10, <1>11, <1>12

---------------------------------------------------------------------------
(* Flush, and the theorem                                                  *)

LEMMA RunnerFlushesKeeps == ASSUME WheelInv, RunnerFlushes PROVE WheelInv'
<1>1. WheelTypes /\ HandTypes /\ AdderTypes /\ OnePlace /\ Ends /\ Runner \in Adders
  BY DEF WheelInv, Adders
<1>2. PICK b \in Buckets : b = runner.bucket
  BY <1>1 DEF RunnerFlushes, HandTypes
<1>3. runner.at = "flush" /\ UNCHANGED <<now, clock, due, pq, poll, ran, stopped, overtaken>>
  BY DEF RunnerFlushes
<1>4. timers \in [Buckets -> Seq(Timers)] /\ timers[b] \in Seq(Timers)
  BY <1>1 DEF WheelTypes
<1>5. CASE timers[b] # <<>>
  <2> DEFINE q == timers[b]
  <2>1. /\ timers' = [timers EXCEPT ![b] = Tail(timers[b])]
        /\ adder' = [adder EXCEPT ![Runner] = [AtRest EXCEPT !.at = "load", !.timer = Head(timers[b])]]
        /\ UNCHANGED <<exp, runner>>
    BY <1>2, <1>5 DEF RunnerFlushes
  <2>2. /\ Len(q) \in Nat \ {0} /\ DOMAIN q = 1..Len(q) /\ Head(q) = q[1] /\ q[1] \in Timers
        /\ Tail(q) \in Seq(Timers) /\ DOMAIN Tail(q) = 1..(Len(q) - 1)
        /\ \A i \in 1..(Len(q) - 1) : Tail(q)[i] = q[i + 1]
    BY <1>4, <1>5, EmptySeq, HeadTailProperties
  <2>3. PICK t \in Timers : t = q[1]
    BY <2>2
  <2>4. Lists(b, t) /\ 1 \in DOMAIN q
    BY <2>2, <2>3 DEF Lists
  <2>5. /\ adder' \in [Adders -> AdderStates] /\ \A p \in Adders : p # Runner => adder'[p] = adder[p]
        /\ adder'[Runner].at = "load" /\ adder'[Runner].timer = t /\ adder'[Runner].level = 1
    <3> HIDE DEF q
    <3>1. adder' = [adder EXCEPT ![Runner] = [AtRest EXCEPT !.at = "load", !.timer = t]]
      BY <2>1, <2>2, <2>3 DEF q
    <3> QED BY <1>1, <3>1, LevelOne DEF AdderTypes, AdderStates, AddStates, AtRest
  <2>6. /\ timers' \in [Buckets -> Seq(Timers)] /\ timers'[b] = Tail(q)
        /\ \A c \in Buckets : c # b => timers'[c] = timers[c]
    BY <1>4, <2>1, <2>2
  <2>7. ASSUME NEW c \in Buckets, NEW i \in DOMAIN timers'[c]
        PROVE  \E j \in DOMAIN timers[c] : /\ timers'[c][i] = timers[c][j] /\ (c = b => j # 1)
                                           /\ j = IF c = b THEN i + 1 ELSE i
    <3>1. CASE c = b
      <4>1. i \in 1..(Len(q) - 1)
        BY <3>1, <2>2, <2>6
      <4>2. i + 1 \in DOMAIN timers[c] /\ timers'[c][i] = timers[c][i + 1] /\ i + 1 # 1
        BY <4>1, <3>1, <2>2, <2>6
      <4> QED BY <4>2, <3>1
    <3>2. CASE c # b
      BY <3>2, <2>6
    <3> QED BY <3>1, <3>2
  <2> HIDE DEF q
  <2>8. \A c \in Buckets : \A u \in Timers : Lists(c, u)' => Lists(c, u)
    BY <2>7 DEF Lists
  <2>9. \A c \in Buckets : ~Lists(c, t)'
    <3> SUFFICES ASSUME NEW c \in Buckets, NEW i \in DOMAIN timers'[c], timers'[c][i] = t PROVE FALSE
      BY DEF Lists
    <3>1. PICK j \in DOMAIN timers[c] : timers[c][j] = t /\ (c = b => j # 1)
      BY <2>7
    <3>2. timers[b][1] = t /\ 1 \in DOMAIN timers[b]
      BY <2>3, <2>4 DEF q
    <3>3. c = b /\ j = 1
      BY <3>1, <3>2, <1>1 DEF OnePlace
    <3> QED BY <3>1, <3>3
  <2>10. \A p \in Adders : ~Carries(p, t)
    BY <1>1, <2>4 DEF OnePlace
  <2>11. \A p \in Adders : \A u \in Timers : Carries(p, u)' <=> IF p = Runner THEN u = t ELSE Carries(p, u)
    BY <2>5 DEF Carries
  <2>12. OnePlace'
    <3>1. ASSUME NEW c \in Buckets, NEW d \in Buckets, NEW i \in DOMAIN timers'[c], NEW j \in DOMAIN timers'[d],
                 timers'[c][i] = timers'[d][j]
          PROVE  c = d /\ i = j
      <4>1. PICK m \in DOMAIN timers[c] : timers'[c][i] = timers[c][m] /\ m = IF c = b THEN i + 1 ELSE i
        BY <2>7
      <4>2. PICK n \in DOMAIN timers[d] : timers'[d][j] = timers[d][n] /\ n = IF d = b THEN j + 1 ELSE j
        BY <2>7
      <4>0. timers[c][m] = timers[d][n]
        BY <3>1, <4>1, <4>2
      <4>3. c = d /\ m = n
        BY <4>0, <1>1 DEF OnePlace
      <4>4. i \in Int /\ j \in Int
        BY <2>6, <4>3
      <4> QED BY <4>1, <4>2, <4>3, <4>4
    <3>2. ASSUME NEW p \in Adders, NEW u \in Timers, Carries(p, u)'
          PROVE  (\A c \in Buckets : ~Lists(c, u)') /\ (\A r \in Adders : Carries(r, u)' => r = p)
      <4>1. CASE u = t
        BY <4>1, <3>2, <2>9, <2>10, <2>11
      <4>2. CASE u # t
        BY <4>2, <3>2, <1>1, <2>8, <2>11 DEF OnePlace
      <4> QED BY <4>1, <4>2
    <3> QED BY <3>1, <3>2 DEF OnePlace
  <2>13. Ends'
    <3>1. ASSUME NEW u \in Timers, Nowhere(u) PROVE Nowhere(u)'
      <4>1. u # t
        BY <3>1, <2>4 DEF Nowhere
      <4> QED BY <3>1, <4>1, <2>8, <2>11 DEF Nowhere
    <3> QED BY <3>1, <1>1, <1>3 DEF Ends
  <2>14. WheelTypes' /\ HandTypes'
    BY <1>1, <1>3, <2>1, <2>6, HandSame DEF WheelTypes
  <2>15. AdderTypes'
    <3>1. due[t] # -1 /\ clock[1] # -1
      BY <1>1, <2>4 DEF Ends, Nowhere, WheelTypes
    <3>2. AdderOK(Runner)'
      BY <1>3, <2>5, <3>1 DEF AdderOK
    <3> QED BY <1>1, <1>3, <2>5, <3>2, AddersKept
  <2>16. Onward => Onward'
    <3>1. now \in Int /\ now' = now /\ now <= now
      BY <1>1, <1>3 DEF WheelTypes
    <3>2. \A r \in Adders : \A c \in Buckets : Offered(r, c)' => Offered(r, c)
      BY <2>5 DEF Offered
    <3> QED BY <1>1, <1>3, <2>1, <3>1, <3>2, OnwardKept
  <2>17. InTime => InTime'
    BY <1>3 DEF InTime
  <2> QED BY <1>3, <2>12, <2>13, <2>14, <2>15, <2>16, <2>17 DEF WheelInv
<1>6. CASE timers[b] = <<>>
  <2>1. /\ exp' = [exp EXCEPT ![b] = -1] /\ runner' = [at |-> "receive", bucket |-> NoBucket]
        /\ adder' = [adder EXCEPT ![Runner] = AtRest] /\ timers' = timers
    BY <1>2, <1>6 DEF RunnerFlushes
  <2>2. /\ adder' \in [Adders -> AdderStates] /\ \A p \in Adders : p # Runner => adder'[p] = adder[p]
        /\ adder'[Runner].at = "idle"
    BY <1>1, <2>1, RestType DEF AdderTypes, AtRest
  <2>3. exp' \in [Buckets -> Times] /\ \A c \in Buckets : c # b => exp'[c] = exp[c]
    BY <1>1, <2>1 DEF WheelTypes, Times
  <2>4. WheelTypes' /\ HandTypes'
    BY <1>1, <1>3, <2>1, <2>3 DEF WheelTypes, HandTypes
  <2>5. AdderTypes'
    BY <1>1, <1>3, <2>2, AddersKept DEF AdderOK
  <2>6. OnePlace' /\ Ends'
    <3>1. \A p \in Adders : \A u \in Timers : Carries(p, u)' => Carries(p, u)
      BY <2>2 DEF Carries
    <3> QED BY <1>1, <1>3, <2>1, <3>1, OnceKept
  <2>7. ASSUME Onward PROVE Onward'
    <3>1. Flushed(b) /\ ~Sent(b) /\ \A i \in pq : i.bucket # b
      BY <1>2, <1>3, <2>7 DEF Onward, Flushed
    <3>2. \A p \in Adders : ~Offered(p, b)
      BY <2>7, <3>1 DEF Onward
    <3>3. \A c \in Buckets : ~Flushed(c)' /\ (Sent(c)' <=> Sent(c)) /\ (Waits(c)' <=> Waits(c))
      BY <1>3, <2>1 DEF Flushed, Sent, Waits
    <3>4. \A p \in Adders : \A c \in Buckets : Offered(p, c)' => Offered(p, c) /\ c # b
      BY <2>2, <3>2 DEF Offered
    <3> SUFFICES ASSUME NEW c \in Buckets
        PROVE  (/\ \A q \in Adders : Offered(q, c) =>
                     /\ exp[c] # -1 /\ ~Waits(c) /\ ~Sent(c) /\ ~Flushed(c)
                     /\ \A r \in Adders : Offered(r, c) => r = q
                /\ \A i \in pq : i.bucket = c => i.prio = exp[c] /\ exp[c] # -1 /\ ~Sent(c) /\ ~Flushed(c)
                /\ Sent(c) => poll.prio = exp[c] /\ exp[c] # -1 /\ exp[c] <= now /\ ~Flushed(c)
                /\ Flushed(c) => exp[c] # -1 /\ exp[c] <= now)'
      BY DEF Onward
    <3>5. CASE c = b
      BY <3>5, <1>3, <3>1, <3>3, <3>4
    <3>6. CASE c # b
      BY <3>6, <1>3, <2>3, <2>7, <3>3, <3>4 DEF Onward
    <3> QED BY <3>5, <3>6
  <2>8. InTime => InTime'
    BY <1>3 DEF InTime
  <2> QED BY <1>3, <2>4, <2>5, <2>6, <2>7, <2>8 DEF WheelInv
<1> QED BY <1>5, <1>6

LEMMA WheelInvInit == WheelInit => WheelInv
<1> SUFFICES ASSUME WheelInit PROVE WheelInv
  OBVIOUS
<1>1. /\ now = 0 /\ clock = [l \in Levels |-> IF l = 1 THEN 0 ELSE -1]
      /\ exp = [b \in Buckets |-> -1] /\ timers = [b \in Buckets |-> <<>>]
      /\ due = [t \in Timers |-> -1] /\ ran = [t \in Timers |-> -1] /\ stopped = {}
      /\ adder = [p \in Timers \union {Runner} |-> AtRest] /\ pq = {}
      /\ poll = [at |-> "peek", bucket |-> NoBucket, prio |-> -1]
      /\ runner = [at |-> "receive", bucket |-> NoBucket]
  BY DEF WheelInit
<1>2. clock[1] = 0 /\ clock \in [Levels -> Times]
  BY <1>1, LevelOne DEF Times
<1>3. exp \in [Buckets -> Times] /\ due \in [Timers -> Times] /\ ran \in [Timers -> Times]
  BY <1>1 DEF Times
<1>4. timers \in [Buckets -> Seq(Timers)]
  <2>1. <<>> \in Seq(Timers)
    OBVIOUS
  <2> QED BY <1>1, <2>1
<1>5. WheelTypes
  <2>1. Interval(WheelLevels) \in Nat
    BY IntervalFacts, LevelOne
  <2>2. 0 \in 0..LastTime
    BY WheelSizes
  <2> QED BY <1>1, <1>2, <1>3, <1>4, <2>1, <2>2 DEF WheelTypes
<1>6. HandTypes
  BY <1>1 DEF HandTypes
<1>7. \A p \in Adders : adder[p] = AtRest /\ adder[p].at = "idle"
  BY <1>1 DEF Adders, AtRest
<1>8. AdderTypes
  <2>1. adder \in [Adders -> AdderStates]
    BY <1>1, RestType DEF Adders
  <2> QED BY <1>7, <2>1 DEF AdderTypes, AdderOK
<1>9. \A b \in Buckets : DOMAIN timers[b] = {}
  BY <1>1
<1>10. OnePlace /\ Ends
  BY <1>1, <1>7, <1>9 DEF OnePlace, Ends, Nowhere, Lists, Carries
<1>11. Onward
  BY <1>1, <1>7 DEF Onward, Offered, Waits, Sent, Flushed
<1>12. InTime
  BY <1>1, <1>2 DEF InTime
<1> QED BY <1>5, <1>6, <1>8, <1>10, <1>11, <1>12 DEF WheelInv

LEMMA WheelInvStep == WheelInv /\ [WheelNext]_wheelVars => WheelInv'
<1> SUFFICES ASSUME WheelInv, [WheelNext]_wheelVars PROVE WheelInv'
  OBVIOUS
<1>1. CASE UNCHANGED wheelVars
  BY <1>1, NothingKeeps DEF wheelVars
<1>2. ASSUME NEW p \in Adders, AddStep(p) PROVE WheelInv'
  BY <1>2, AddLoadKeeps, AddInsertKeeps, AddExpireKeeps, AddOfferKeeps DEF AddStep
<1>3. ASSUME NEW t \in Timers, CallerStep(t) PROVE WheelInv'
  BY <1>3, StopReadsKeeps, StopRemovesKeeps DEF CallerStep
<1>4. ASSUME PollStep PROVE WheelInv'
  BY <1>4, PollPeekKeeps, PollWokenKeeps, PollLeavesKeeps, PollSendsKeeps DEF PollStep
<1>5. ASSUME RunnerStep PROVE WheelInv'
  BY <1>5, RunnerAdvancesKeeps, RunnerMovesKeeps, RunnerFlushesKeeps DEF RunnerStep
<1>6. ASSUME WheelStop PROVE WheelInv'
  BY <1>6, NothingKeeps DEF WheelStop
<1> QED BY <1>1, <1>2, <1>3, <1>4, <1>5, <1>6, StopTimerKeeps, AfterFuncKeeps, WheelTickKeeps DEF WheelNext

LEMMA WheelInvImplies == WheelInv => TimersRunOnceInTime
<1> SUFFICES ASSUME WheelInv, NEW t \in Timers
    PROVE  /\ Cardinality(BucketsOf(t)) <= 1
           /\ ran[t] # -1 => BucketsOf(t) = {}
           /\ t \in stopped => ran[t] = -1 /\ (adder[t].at = "stopped" => BucketsOf(t) = {})
           /\ ran[t] # -1 /\ ~overtaken => ran[t] >= due[t]
  BY DEF TimersRunOnceInTime
<1>1. OnePlace /\ Ends
  BY DEF WheelInv
<1>2. Nowhere(t) => BucketsOf(t) = {}
  BY DEF Nowhere, Lists, BucketsOf
<1>3. Cardinality(BucketsOf(t)) <= 1
  <2>1. CASE BucketsOf(t) = {}
    <3>1. Cardinality({}) = 0
      BY FS_EmptySet
    <3> QED BY <2>1, <3>1
  <2>2. CASE BucketsOf(t) # {}
    <3>1. PICK b \in BucketsOf(t) : TRUE
      BY <2>2
    <3>2. BucketsOf(t) = {b}
      BY <1>1, <3>1 DEF BucketsOf, OnePlace
    <3>3. Cardinality({b}) = 1
      BY FS_Singleton
    <3> QED BY <3>2, <3>3
  <2> QED BY <2>1, <2>2
<1>4. ran[t] # -1 => BucketsOf(t) = {}
  BY <1>1, <1>2 DEF Ends
<1>5. t \in stopped => ran[t] = -1 /\ BucketsOf(t) = {}
  BY <1>1, <1>2 DEF Ends
<1>6. ran[t] # -1 /\ ~overtaken => ran[t] >= due[t]
  BY DEF WheelInv, InTime
<1> QED BY <1>3, <1>4, <1>5, <1>6

\* For any number of timers and callers, wheels of any size and any delays: a timer is in one
\* bucket at most, runs at most once and not after a Stop that returned true, and never before
\* its time unless an add was overtaken (timingwheel/timingwheel.go and bucket.go).
THEOREM TimersRunOnceInTimeHolds == WheelSpec => []TimersRunOnceInTime
<1>1. WheelInit => WheelInv
  BY WheelInvInit
<1>2. WheelInv /\ [WheelNext]_wheelVars => WheelInv'
  BY WheelInvStep
<1>3. WheelInv => TimersRunOnceInTime
  BY WheelInvImplies
<1> QED
  BY <1>1, <1>2, <1>3, PTL DEF WheelSpec

=============================================================================
