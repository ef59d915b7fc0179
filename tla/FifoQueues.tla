----------------------------- MODULE FifoQueues -----------------------------
(***************************************************************************)
(* utils/queues: the queues behind the processors.  bbqueue.BBQueue is a   *)
(* circular array that refuses or doubles when it is full, NNQueue a       *)
(* linked list with a sentinel and a list of free nodes of its own, and    *)
(* rbqueue.Queue a circular array whose head lies before the first item.   *)
(* The three are driven by the same calls, next to the sequence they       *)
(* stand for, so that every one is compared with it and with the others.   *)
(*                                                                         *)
(* An item is a number; BytesOf is the length of its buffer, which         *)
(* PopMany's limitBytes counts.                                            *)
(***************************************************************************)
EXTENDS Integers, Sequences, FiniteSets

CONSTANTS
    FifoSize,       \* size given to the constructors
    FifoItems,      \* items pushed in a behaviour
    FifoFreeMax     \* free nodes an NNQueue keeps (64 to 256 in the code)

ASSUME FifoSizes == FifoSize \in Nat \ {0} /\ FifoItems \in Nat /\ FifoFreeMax \in Nat

VARIABLES
    bb,             \* BBQueue: buf, head, tail, count
    nn,             \* NNQueue: next and data of every node, tail, free, count, freeCount
    rbq,            \* rbqueue.Queue: buffer, head, tail, mod, len
    strict,         \* isStrict of the first two
    fifo,           \* the items they hold, in order
    pushed,         \* items pushed so far
    popped          \* what the last pop of each returned

fifoVars == <<bb, nn, rbq, strict, fifo, pushed, popped>>

Nothing == 0
Nodes == 1..(FifoSize + FifoItems + 1)
HeadNode == 1                                       \* the sentinel
BytesOf(item) == 1 + (item % 2)
Lesser(m, n) == IF m < n THEN m ELSE n
Empties(n) == [i \in 0..(n - 1) |-> Nothing]

---------------------------------------------------------------------------
(* BBQueue *)
NewBBQueue == [buf |-> Empties(FifoSize), head |-> 0, tail |-> 0, count |-> 0]
BBCap(q) == Cardinality(DOMAIN q.buf)
BBGrow(q) ==
    LET at(i) == IF q.head < q.tail THEN q.buf[q.head + i]
                 ELSE IF q.head + i < BBCap(q) THEN q.buf[q.head + i]
                 ELSE q.buf[q.head + i - BBCap(q)]
    IN  [buf |-> [i \in 0..(2 * BBCap(q) - 1) |-> IF i < q.count THEN at(i) ELSE Nothing],
         head |-> 0, tail |-> q.count, count |-> q.count]
BBPush(q, item) ==
    LET g == IF q.count = BBCap(q) THEN BBGrow(q) ELSE q
    IN  IF q.count = BBCap(q) /\ strict THEN q
        ELSE [g EXCEPT !.buf[g.tail] = item, !.tail = (@ + 1) % BBCap(g), !.count = @ + 1]
BBPop(q) ==
    IF q.count = 0 THEN q
    ELSE LET r == [q EXCEPT !.buf[q.head] = Nothing, !.head = (@ + 1) % BBCap(q), !.count = @ - 1]
         IN  IF r.count = 0 THEN [r EXCEPT !.head = 0, !.tail = 0] ELSE r

(* PopMany: out is what it has popped, total their bytes.  The first item  *)
(* is popped whatever its length. *)
RECURSIVE BBPopMany(_, _, _, _, _)
BBPopMany(q, out, count, limit, total) ==
    IF Len(out) >= count \/ q.count = 0 THEN [q |-> q, out |-> out]
    ELSE LET item == q.buf[q.head]
             sum  == total + BytesOf(item)
         IN  IF limit > 0 /\ out # <<>> /\ sum > limit THEN [q |-> q, out |-> out]
             ELSE IF limit > 0 /\ sum >= limit THEN [q |-> BBPop(q), out |-> Append(out, item)]
             ELSE BBPopMany(BBPop(q), Append(out, item), count, limit, sum)

---------------------------------------------------------------------------
(* NNQueue; node 0 is nil. *)
NewNNQueue == [next |-> [n \in Nodes |-> 0], data |-> [n \in Nodes |-> Nothing],
               tail |-> HeadNode, free |-> 0, count |-> 0, freeCount |-> 0]

(* The nodes reachable from n. *)
RECURSIVE ChainFrom(_, _)
ChainFrom(q, n) == IF n = 0 THEN <<>> ELSE <<n>> \o ChainFrom(q, q.next[n])
InUse(q) == {ChainFrom(q, HeadNode)[i] : i \in 1..Len(ChainFrom(q, HeadNode))}
            \union {ChainFrom(q, q.free)[i] : i \in 1..Len(ChainFrom(q, q.free))}

(* A node of the free list, or one of the pool. *)
AcquireNode(q) ==
    IF q.free # 0 THEN q.free ELSE CHOOSE n \in Nodes : n \notin InUse(q)
Acquired(q) ==
    IF q.free = 0 THEN q ELSE [q EXCEPT !.free = q.next[q.free], !.freeCount = @ - 1]
RecycleNode(q, n) ==
    IF q.freeCount < FifoFreeMax
    THEN [q EXCEPT !.data[n] = Nothing, !.next[n] = q.free, !.free = n, !.freeCount = @ + 1]
    ELSE [q EXCEPT !.data[n] = Nothing, !.next[n] = 0]
NNPush(q, item) ==
    IF strict /\ q.count >= FifoSize THEN q
    ELSE LET n == AcquireNode(q)
         IN  [Acquired(q) EXCEPT !.data[n] = item, !.next[n] = 0, !.next[q.tail] = n,
                                 !.tail = n, !.count = @ + 1]
NNDetach(q, rest) ==
    [q EXCEPT !.next[HeadNode] = rest, !.tail = IF rest = 0 THEN HeadNode ELSE @]
NNPop(q) ==
    LET first == q.next[HeadNode] IN
    IF first = 0 THEN q
    ELSE RecycleNode([NNDetach(q, q.next[first]) EXCEPT !.count = @ - 1], first)

(* The nodes are recycled while the list is walked, and the sentinel is    *)
(* set once, at the end. *)
RECURSIVE NNPopMany(_, _, _, _, _, _)
NNPopMany(q, node, out, count, limit, total) ==
    LET stop == [q |-> NNDetach(q, node), out |-> out] IN
    IF Len(out) >= count \/ node = 0 THEN stop
    ELSE LET item == q.data[node]
             sum  == total + BytesOf(item)
             r    == [RecycleNode(q, node) EXCEPT !.count = @ - 1]
         IN  IF limit > 0 /\ out # <<>> /\ sum > limit THEN stop
             ELSE IF limit > 0 /\ sum >= limit
             THEN [q |-> NNDetach(r, q.next[node]), out |-> Append(out, item)]
             ELSE NNPopMany(r, q.next[node], Append(out, item), count, limit, sum)

---------------------------------------------------------------------------
(* rbqueue.Queue *)
NewRBQueue == [buffer |-> Empties(FifoSize), head |-> 0, tail |-> 0, mod |-> FifoSize, len |-> 0]
RBPush(q, item) ==
    LET tail == (q.tail + 1) % q.mod
        g == IF tail # q.head THEN [q EXCEPT !.tail = tail]
             ELSE [q EXCEPT !.buffer = [i \in 0..(2 * q.mod - 1) |->
                                            IF i < q.mod THEN q.buffer[(tail + i) % q.mod] ELSE Nothing],
                            !.head = 0, !.tail = q.mod, !.mod = 2 * q.mod]
    IN  [g EXCEPT !.buffer[g.tail] = item, !.len = @ + 1]
RBPop(q) ==
    IF q.len = 0 THEN q
    ELSE LET h == (q.head + 1) % q.mod
         IN  [q EXCEPT !.head = h, !.buffer[h] = Nothing, !.len = @ - 1]
RBPopMany(q, count0) ==
    LET count == Lesser(count0, q.len)
        at(i) == (q.head + 1 + i) % q.mod
        gone  == {at(i) : i \in 0..(count - 1)}
    IN  IF q.len = 0 \/ count0 <= 0 THEN [q |-> q, out |-> <<>>]
        ELSE [q |-> [q EXCEPT !.buffer = [i \in DOMAIN q.buffer |-> IF i \in gone THEN Nothing ELSE @[i]],
                              !.head = (q.head + count) % q.mod, !.len = @ - count],
              out |-> [i \in 1..count |-> q.buffer[at(i - 1)]]]

---------------------------------------------------------------------------
Same(out) == [bb |-> out, nn |-> out, rb |-> out]

FifoInit ==
    /\ bb = NewBBQueue /\ nn = NewNNQueue /\ rbq = NewRBQueue
    /\ strict = FALSE /\ fifo = <<>> /\ pushed = 0 /\ popped = Same(<<>>)

(* The queues are made strict, before their first use. *)
FifoStrict ==
    /\ pushed = 0 /\ ~strict /\ strict' = TRUE
    /\ UNCHANGED <<bb, nn, rbq, fifo, pushed, popped>>

FifoPush ==
    /\ pushed < FifoItems
    /\ LET item == pushed + 1
           accepted == ~strict \/ Len(fifo) < FifoSize
       IN  /\ bb' = BBPush(bb, item) /\ nn' = NNPush(nn, item)
           /\ rbq' = IF accepted THEN RBPush(rbq, item) ELSE rbq
           /\ fifo' = IF accepted THEN Append(fifo, item) ELSE fifo
    /\ pushed' = pushed + 1 /\ popped' = Same(<<>>)
    /\ UNCHANGED strict

FifoPop ==
    /\ fifo # <<>>
    /\ bb' = BBPop(bb) /\ nn' = NNPop(nn) /\ rbq' = RBPop(rbq)
    /\ popped' = [bb |-> <<bb.buf[bb.head]>>, nn |-> <<nn.data[nn.next[HeadNode]]>>,
                  rb |-> <<rbq.buffer[(rbq.head + 1) % rbq.mod]>>]
    /\ fifo' = Tail(fifo)
    /\ UNCHANGED <<strict, pushed>>

(* PopMany into an array of room items; rbqueue is asked for as many as    *)
(* the others gave, since it counts items only. *)
FifoPopMany(room, limit) ==
    /\ fifo # <<>>
    /\ LET count == Lesser(room, Len(fifo))
           b == BBPopMany(bb, <<>>, count, limit, 0)
           n == NNPopMany(nn, nn.next[HeadNode], <<>>, count, limit, 0)
           r == RBPopMany(rbq, Len(b.out))
       IN  /\ bb' = b.q /\ nn' = n.q /\ rbq' = r.q
           /\ popped' = [bb |-> b.out, nn |-> n.out, rb |-> r.out]
           /\ fifo' = SubSeq(fifo, Len(b.out) + 1, Len(fifo))
    /\ UNCHANGED <<strict, pushed>>

FifoNext ==
    \/ FifoStrict
    \/ FifoPush
    \/ FifoPop
    \/ \E room \in 1..3, limit \in {0, 1, 3} : FifoPopMany(room, limit)

FifoSpec == FifoInit /\ [][FifoNext]_fifoVars

---------------------------------------------------------------------------
BBContent(q) == [i \in 1..q.count |-> q.buf[(q.head + i - 1) % BBCap(q)]]
NNContent(q) == LET c == Tail(ChainFrom(q, HeadNode)) IN [i \in 1..Len(c) |-> q.data[c[i]]]
RBContent(q) == [i \in 1..q.len |-> q.buffer[(q.head + i) % q.mod]]


(* The three queues hold the same items in the order they were pushed,     *)
(* through every wrap, growth and reuse of a node; what one call pops is   *)
(* the same for all and never empty; no item outside a queue is kept alive *)
(* by it; and the nodes of an NNQueue are either in its list or free.      *)
QueuesAreFifo ==
    /\ BBContent(bb) = fifo /\ NNContent(nn) = fifo /\ RBContent(rbq) = fifo
    /\ popped.nn = popped.bb /\ popped.rb = popped.bb
    /\ nn.count = Len(fifo) /\ nn.tail = ChainFrom(nn, HeadNode)[Len(fifo) + 1]
    /\ nn.freeCount = Len(ChainFrom(nn, nn.free)) /\ nn.freeCount <= FifoFreeMax
    /\ Cardinality(InUse(nn)) = 1 + Len(fifo) + nn.freeCount
    /\ Cardinality({i \in DOMAIN bb.buf : bb.buf[i] # Nothing}) = Len(fifo)
    /\ Cardinality({i \in DOMAIN rbq.buffer : rbq.buffer[i] # Nothing}) = Len(fifo)
    /\ strict => Len(fifo) <= FifoSize
=============================================================================
