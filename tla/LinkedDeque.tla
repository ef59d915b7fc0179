----------------------------- MODULE LinkedDeque -----------------------------
(***************************************************************************)
(* utils/queues/dqueue: the double-ended queue behind the task queue.  Its *)
(* elements lie in one array and are linked by index, 0 being nil; a       *)
(* removed place goes to a stack and is given out again, and an emptied    *)
(* queue forgets all its places.  The caller keeps addresses and may       *)
(* insert at, move or remove an element in the middle.                     *)
(***************************************************************************)
EXTENDS Integers, Sequences

CONSTANTS
    DequeLength,    \* elements in the queue at most
    DequeValues     \* values pushed

VARIABLES
    dq,             \* the Deque: head, tail, length, stack, elements
    order           \* the addresses it stands for, front to back

dequeVars == <<dq, order>>

Nil == 0
Template == [prev |-> Nil, addr |-> Nil, next |-> Nil, value |-> 0]

(* elements[a] of the code is elements[a] here: place 0 is not used. *)
NewDeque == [head |-> Nil, tail |-> Nil, length |-> 0, stack |-> <<>>, elements |-> <<>>]
autoReset(d) == NewDeque

(* The place of a new element: the one freed last, or one more. *)
GetAddr(d) == IF d.stack # <<>> THEN d.stack[Len(d.stack)] ELSE Len(d.elements) + 1
getElement(d, v) ==
    LET a == GetAddr(d) IN
    IF d.stack # <<>>
    THEN [d EXCEPT !.stack = SubSeq(@, 1, Len(@) - 1), !.elements[a].addr = a, !.elements[a].value = v]
    ELSE [d EXCEPT !.elements = Append(@, [Template EXCEPT !.addr = a, !.value = v])]
putElement(d, a) == [d EXCEPT !.stack = Append(@, a), !.elements[a] = Template]

doPushFront(d, a) ==
    IF d.head = Nil THEN [d EXCEPT !.length = @ + 1, !.head = a, !.tail = a]
    ELSE [d EXCEPT !.length = @ + 1, !.elements[d.head].prev = a, !.elements[a].next = d.head, !.head = a]
doPushBack(d, a) ==
    IF d.tail = Nil THEN [d EXCEPT !.length = @ + 1, !.head = a, !.tail = a]
    ELSE [d EXCEPT !.length = @ + 1, !.elements[d.tail].next = a, !.elements[a].prev = d.tail, !.tail = a]

(* The neighbours of a are linked to each other; a keeps its own links. *)
doRemove(d, a) ==
    LET p == d.elements[a].prev
        n == d.elements[a].next
        r == [d EXCEPT !.length = @ - 1]
    IN  CASE p # Nil /\ n # Nil -> [r EXCEPT !.elements[p].next = n, !.elements[n].prev = p]
          [] p = Nil /\ n # Nil -> [r EXCEPT !.elements[n].prev = Nil, !.head = n]
          [] p # Nil /\ n = Nil -> [r EXCEPT !.elements[p].next = Nil, !.tail = p]
          [] p = Nil /\ n = Nil -> [r EXCEPT !.head = Nil, !.tail = Nil]
RemoveElement(d, a) ==
    LET r == putElement(doRemove(d, a), a) IN IF r.length = 0 THEN autoReset(r) ELSE r

InsertAfter(d0, v, mark) ==
    LET a == GetAddr(d0)
        d == getElement([d0 EXCEPT !.length = @ + 1], v)
        n == d.elements[mark].next
        e == [d EXCEPT !.elements[a].prev = mark, !.elements[a].next = n, !.elements[mark].next = a]
    IN  IF n # Nil THEN [e EXCEPT !.elements[n].prev = a] ELSE [e EXCEPT !.tail = a]
InsertBefore(d0, v, mark) ==
    LET a == GetAddr(d0)
        d == getElement([d0 EXCEPT !.length = @ + 1], v)
        p == d.elements[mark].prev
        e == [d EXCEPT !.elements[a].prev = p, !.elements[a].next = mark, !.elements[mark].prev = a]
    IN  IF p # Nil THEN [e EXCEPT !.elements[p].next = a] ELSE [e EXCEPT !.head = a]

Unlinked(d, a) ==
    LET r == doRemove(d, a) IN [r EXCEPT !.elements[a].prev = Nil, !.elements[a].next = Nil]

---------------------------------------------------------------------------
At(i) == order[i]
Without(i) == SubSeq(order, 1, i - 1) \o SubSeq(order, i + 1, Len(order))
With(i, a) == SubSeq(order, 1, i) \o <<a>> \o SubSeq(order, i + 1, Len(order))
DequeRoom == Len(order) < DequeLength

DequeInit == dq = NewDeque /\ order = <<>>

PushFront(v) ==
    /\ DequeRoom
    /\ dq' = doPushFront(getElement(dq, v), GetAddr(dq)) /\ order' = <<GetAddr(dq)>> \o order
PushBack(v) ==
    /\ DequeRoom
    /\ dq' = doPushBack(getElement(dq, v), GetAddr(dq)) /\ order' = Append(order, GetAddr(dq))
PopFront ==
    /\ dq.head # Nil
    /\ dq' = RemoveElement(dq, dq.head) /\ order' = Tail(order)
PopBack ==
    /\ dq.tail # Nil
    /\ dq' = RemoveElement(dq, dq.tail) /\ order' = SubSeq(order, 1, Len(order) - 1)
DequeInsert(v, i) ==
    /\ DequeRoom /\ i \in DOMAIN order
    /\ \/ dq' = InsertAfter(dq, v, At(i)) /\ order' = With(i, GetAddr(dq))
       \/ dq' = InsertBefore(dq, v, At(i)) /\ order' = With(i - 1, GetAddr(dq))
MoveToBack(i) ==
    /\ i \in DOMAIN order
    /\ dq' = doPushBack(Unlinked(dq, At(i)), At(i)) /\ order' = Append(Without(i), At(i))
MoveToFront(i) ==
    /\ i \in DOMAIN order
    /\ dq' = doPushFront(Unlinked(dq, At(i)), At(i)) /\ order' = <<At(i)>> \o Without(i)
DequeRemove(i) ==
    /\ i \in DOMAIN order
    /\ dq' = RemoveElement(dq, At(i)) /\ order' = Without(i)

DequeNext ==
    \/ \E v \in DequeValues : PushFront(v) \/ PushBack(v)
    \/ PopFront \/ PopBack
    \/ \E i \in 1..DequeLength :
          \/ \E v \in DequeValues : DequeInsert(v, i)
          \/ MoveToBack(i) \/ MoveToFront(i) \/ DequeRemove(i)

DequeSpec == DequeInit /\ [][DequeNext]_dequeVars

---------------------------------------------------------------------------
(* Following next from the head, and prev from the tail, visits exactly    *)
(* the live elements, in order; every other place is free, once, and       *)
(* carries no link into the list: an address the caller holds always names *)
(* its own element, and no place is given out twice or lost.               *)
DequeIsList ==
    LET n == Len(order)
        free == {dq.stack[i] : i \in DOMAIN dq.stack}
        live == {order[i] : i \in 1..n}
    IN  /\ dq.length = n
        /\ dq.head = IF n = 0 THEN Nil ELSE order[1]
        /\ dq.tail = IF n = 0 THEN Nil ELSE order[n]
        /\ \A i \in 1..n :
              /\ dq.elements[order[i]].addr = order[i]
              /\ dq.elements[order[i]].prev = IF i = 1 THEN Nil ELSE order[i - 1]
              /\ dq.elements[order[i]].next = IF i = n THEN Nil ELSE order[i + 1]
        /\ live \intersect free = {} /\ live \union free = DOMAIN dq.elements
        /\ Len(dq.stack) + n = Len(dq.elements)
        /\ \A a \in free : dq.elements[a] = Template
=============================================================================
