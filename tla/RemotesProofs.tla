---------------------------- MODULE RemotesProofs ----------------------------
(***************************************************************************)
(* Proofs about three parts of remotes: service discovery over NATS        *)
(* (NatsDiscovery), for any number of nodes, types and overlapping         *)
(* subscriptions; the requests of a cluster client (ClusterRequests), for  *)
(* any sets of requests and records, any number of starts and any losses   *)
(* of the connection; and the event buses (EventBus), for any topics,      *)
(* closures, codes and publications and any number of operations.          *)
(*                                                                         *)
(* Of discovery: typeMap is an index of members (Index), and the           *)
(* statistics and the listeners' calls add up to the table once no change  *)
(* is half done.  The second is not inductive: its strengthening (Told,    *)
(* Counted) adds the changes that are made and not yet notified, or not    *)
(* yet counted: a callback of recv between AddMember and the statistics,   *)
(* the checker between RemoveMember and the statistics.                    *)
(*                                                                         *)
(* Of the requests: only a record that Stop had freed can be put back twice *)
(* (Stopping), so until then each is held by one caller or by the table     *)
(* (Own), and every request has one end before it (Ends).  Of the buses:    *)
(* an array of listeners is never written again once a publication may      *)
(* read it (FreshIsFree), so the publication goes through the list it       *)
(* found (Called); no two listeners of a list share an id or a code, and    *)
(* kkevent gives no id twice (Listed, Given).                              *)
(***************************************************************************)
EXTENDS NatsDiscovery, ClusterRequests, EventBus, SequenceTheorems, FiniteSetTheorems, TLAPS

---------------------------------------------------------------------------
(* Discovery                                                               *)

\* A list of nodes without repetition whose elements are the set S.
Lists(q, S) ==
    /\ q \in Seq(Nodes)
    /\ RangeOf(q) = S
    /\ \A i, j \in DOMAIN q : q[i] = q[j] => i = j

Index == \A t \in Types : Lists(typeMap[t], {n \in Nodes : members[n] = t})

Members == {n \in Nodes : members[n] # NoType}

PendingAdds(n) == {r \in Receivers : recv[r].at = "notify" /\ recv[r].node = n}
Pending == {r \in Receivers : recv[r].at # "idle" /\ recv[r].new}
Removing == check.at \in {"notify", "forget", "count"}

Told ==
    \A n \in Nodes :
        told[n] + Cardinality(PendingAdds(n))
            = (IF n \in Members THEN 1 ELSE 0)
              + (IF check.at = "notify" /\ check.node = n THEN 1 ELSE 0)

Counted ==
    /\ memberCount + Cardinality(Pending) = Cardinality(Members) + (IF Removing THEN 1 ELSE 0)
    /\ \A r \in Receivers : recv[r].at = "count" => recv[r].new

IInv == TypeOK /\ Index /\ Told /\ Counted

-----------------------------------------------------------------------------
\* Lists

\* Appending a node that is not in the list.
LEMMA AppendLists ==
    ASSUME NEW q, NEW S, NEW n \in Nodes, Lists(q, S), n \notin S
    PROVE  Lists(Append(q, n), S \cup {n})
<1> DEFINE long == Append(q, n)
<1>1. /\ long \in Seq(Nodes) /\ Len(long) = Len(q) + 1 /\ Len(q) \in Nat
      /\ \A i \in 1..Len(q) : long[i] = q[i]
      /\ long[Len(q) + 1] = n
  BY AppendProperties, LenProperties DEF Lists
<1>2. DOMAIN q = 1..Len(q) /\ DOMAIN long = 1..(Len(q) + 1)
  BY <1>1, LenProperties DEF Lists
<1>3. \A i \in 1..Len(q) : q[i] \in S  BY <1>2 DEF Lists, RangeOf
<1>4. RangeOf(long) = S \cup {n}
  <2>1. RangeOf(long) \subseteq S \cup {n}  BY <1>1, <1>2, <1>3 DEF RangeOf
  <2>2. n \in RangeOf(long)  BY <1>1, <1>2 DEF RangeOf
  <2>3. \A x \in S : \E i \in 1..Len(q) : x = q[i]  BY <1>2 DEF Lists, RangeOf
  <2>4. S \subseteq RangeOf(long)  BY <2>3, <1>1, <1>2 DEF RangeOf
  <2> QED  BY <2>1, <2>2, <2>4
<1>5. ASSUME NEW i \in DOMAIN long, NEW j \in DOMAIN long, long[i] = long[j]  PROVE i = j
  <2>1. CASE i \in 1..Len(q) /\ j \in 1..Len(q)
    BY <2>1, <1>1, <1>2, <1>5 DEF Lists
  <2>2. CASE i \notin 1..Len(q) \/ j \notin 1..Len(q)
    BY <2>2, <1>1, <1>2, <1>3, <1>5
  <2> QED  BY <2>1, <2>2
<1> HIDE DEF long
<1> QED  BY <1>1, <1>4, <1>5 DEF Lists, long

\* Removing a node of the list.
LEMMA WithoutLists ==
    ASSUME NEW q, NEW S, NEW n \in S, Lists(q, S)
    PROVE  Lists(Without(q, n), S \ {n})
<1> DEFINE k == Place(q, n)
           left == SubSeq(q, 1, k - 1)
           right == SubSeq(q, k + 1, Len(q))
           short == left \o right
<1>1. Len(q) \in Nat /\ DOMAIN q = 1..Len(q) /\ \A i \in 1..Len(q) : q[i] \in Nodes
  BY LenProperties, ElementOfSeq DEF Lists
<1>2. k \in 1..Len(q) /\ q[k] = n
  <2>1. PICK i \in DOMAIN q : q[i] = n  BY DEF Lists, RangeOf
  <2>2. \A j \in 1..(i - 1) : q[j] # n  BY <1>1, <2>1 DEF Lists
  <2> QED  BY <1>1, <2>1, <2>2 DEF Place
<1>3. /\ left \in Seq(Nodes) /\ Len(left) = k - 1
      /\ \A i \in 1..(k - 1) : left[i] = q[i]
  <2>1. \A i \in 1..(k - 1) : q[i] \in Nodes  BY <1>1, <1>2
  <2>2. 1 \in Int /\ k - 1 \in Int  BY <1>1, <1>2
  <2> HIDE DEF k
  <2>3. /\ left \in Seq(Nodes) /\ Len(left) = IF 1 <= k - 1 THEN (k - 1) - 1 + 1 ELSE 0
        /\ \A i \in 1..((k - 1) - 1 + 1) : left[i] = q[1 + i - 1]
    BY <2>1, <2>2, SubSeqProperties
  <2> QED  BY <1>1, <1>2, <2>3
<1>4. /\ right \in Seq(Nodes) /\ Len(right) = Len(q) - k
      /\ \A i \in 1..(Len(q) - k) : right[i] = q[k + i]
  <2>1. \A i \in (k + 1)..Len(q) : q[i] \in Nodes  BY <1>1, <1>2
  <2>2. k + 1 \in Int /\ Len(q) \in Int  BY <1>1, <1>2
  <2> HIDE DEF k
  <2>3. /\ right \in Seq(Nodes)
        /\ Len(right) = IF k + 1 <= Len(q) THEN Len(q) - (k + 1) + 1 ELSE 0
        /\ \A i \in 1..(Len(q) - (k + 1) + 1) : right[i] = q[(k + 1) + i - 1]
    BY <2>1, <2>2, SubSeqProperties
  <2> QED  BY <1>1, <1>2, <2>3
<1> HIDE DEF left, right
<1>5. /\ short \in Seq(Nodes) /\ Len(short) = Len(q) - 1
      /\ \A i \in 1..(Len(q) - 1) : short[i] = IF i < k THEN q[i] ELSE q[i + 1]
  <2>1. /\ short \in Seq(Nodes) /\ Len(short) = Len(left) + Len(right)
        /\ \A i \in 1..(Len(left) + Len(right)) :
              short[i] = IF i <= Len(left) THEN left[i] ELSE right[i - Len(left)]
    BY <1>3, <1>4, ConcatProperties
  <2> HIDE DEF short, k
  <2>2. ASSUME NEW i \in 1..(Len(q) - 1)
        PROVE  short[i] = IF i < k THEN q[i] ELSE q[i + 1]
    <3>0. short[i] = IF i <= k - 1 THEN left[i] ELSE right[i - (k - 1)]
      <4>1. i \in 1..(Len(left) + Len(right))  BY <1>1, <1>2, <1>3, <1>4
      <4> QED  BY <1>3, <2>1, <4>1
    <3>1. CASE i < k
      <4>1. i \in 1..(k - 1) /\ i <= k - 1  BY <1>1, <1>2, <3>1
      <4> QED  BY <1>3, <3>0, <3>1, <4>1
    <3>2. CASE i >= k
      <4>1. i - (k - 1) \in 1..(Len(q) - k) /\ ~(i <= k - 1)  BY <1>1, <1>2, <3>2
      <4>2. k + (i - (k - 1)) = i + 1  BY <1>1, <1>2
      <4>3. right[i - (k - 1)] = q[i + 1]  BY <1>4, <4>1, <4>2
      <4> QED  BY <1>1, <1>2, <3>0, <3>2, <4>1, <4>3
    <3> QED  BY <1>1, <1>2, <3>1, <3>2
  <2> QED  BY <1>1, <1>2, <1>3, <1>4, <2>1, <2>2
<1>6. Without(q, n) = short  BY DEF Without, Lists, left, right
<1>7. DOMAIN short = 1..(Len(q) - 1)  BY <1>5, LenProperties
<1> HIDE DEF short, k
<1>8. RangeOf(short) = S \ {n}
  <2>1. ASSUME NEW i \in 1..(Len(q) - 1)  PROVE short[i] \in S \ {n}
    <3>1. CASE i < k  BY <1>1, <1>2, <1>5, <3>1, SMTT(60) DEF Lists, RangeOf
    <3>2. CASE i >= k  BY <1>1, <1>2, <1>5, <3>2, SMTT(60) DEF Lists, RangeOf
    <3> QED  BY <1>1, <1>2, <3>1, <3>2
  <2>2. ASSUME NEW x \in S \ {n}  PROVE \E i \in 1..(Len(q) - 1) : short[i] = x
    <3>1. PICK i \in 1..Len(q) : q[i] = x  BY <1>1 DEF Lists, RangeOf
    <3>2. CASE i < k  BY <1>1, <1>2, <1>5, <3>1, <3>2
    <3>3. CASE i > k
      <4>1. i - 1 \in 1..(Len(q) - 1) /\ ~(i - 1 < k) /\ (i - 1) + 1 = i
        BY <1>1, <1>2, <3>3
      <4> QED  BY <1>5, <3>1, <4>1
    <3> QED  BY <1>1, <1>2, <3>1, <3>2, <3>3
  <2> QED  BY <1>7, <2>1, <2>2 DEF RangeOf
<1>9. ASSUME NEW i \in DOMAIN short, NEW j \in DOMAIN short, short[i] = short[j]  PROVE i = j
  <2> DEFINE from(m) == IF m < k THEN m ELSE m + 1
  <2>1. from(i) \in 1..Len(q) /\ from(j) \in 1..Len(q)  BY <1>1, <1>2, <1>7, <1>9
  <2>2. q[from(i)] = q[from(j)]  BY <1>5, <1>7, <1>9
  <2>3. from(i) = from(j)  BY <1>1, <2>1, <2>2 DEF Lists
  <2> QED  BY <1>1, <1>2, <1>7, <1>9, <2>3
<1> QED  BY <1>5, <1>6, <1>8, <1>9 DEF Lists

-----------------------------------------------------------------------------
\* The locked sections of the table keep the index.

Of(t) == {n \in Nodes : members[n] = t}

LEMMA AddMemberIndex ==
    ASSUME TypeOK, Index, NEW n \in Nodes, NEW t \in Types, AddMember(n, t)
    PROVE  /\ members' \in [Nodes -> Types \cup {NoType}]
           /\ typeMap' \in [Types -> Seq(Nodes)]
           /\ Index'
<1>1. members' \in [Nodes -> Types \cup {NoType}]  BY DEF AddMember, TypeOK
<1>2. \A m \in Nodes : members'[m] = IF m = n THEN t ELSE members[m]
  BY DEF AddMember, TypeOK
<1>3. ASSUME NEW k \in Types  PROVE Lists(typeMap'[k], Of(k)')
  <2>1. Lists(typeMap[k], Of(k))  BY DEF Index, Of
  <2>2. typeMap'[k] = IF members[n] = t THEN typeMap[k]
                      ELSE IF k = t THEN Append(typeMap[k], n)
                      ELSE IF k = members[n] THEN Without(typeMap[k], n)
                      ELSE typeMap[k]
    BY DEF AddMember, Retyped
  <2>3. CASE members[n] = t
    <3>1. Of(k)' = Of(k)  BY <1>2, <2>3 DEF Of
    <3> QED  BY <2>1, <2>2, <2>3, <3>1
  <2>4. CASE members[n] # t /\ k = t
    <3>1. Of(k)' = Of(k) \cup {n} /\ n \notin Of(k)  BY <1>2, <2>4 DEF Of
    <3> QED  BY <2>1, <2>2, <2>4, <3>1, AppendLists
  <2>5. CASE members[n] # t /\ k # t /\ k = members[n]
    <3>1. Of(k)' = Of(k) \ {n} /\ n \in Of(k)  BY <1>2, <2>5 DEF Of
    <3> QED  BY <2>1, <2>2, <2>5, <3>1, WithoutLists
  <2>6. CASE members[n] # t /\ k # t /\ k # members[n]
    <3>1. Of(k)' = Of(k)  BY <1>2, <2>6 DEF Of
    <3> QED  BY <2>1, <2>2, <2>6, <3>1
  <2> QED  BY <2>3, <2>4, <2>5, <2>6
<1>4. typeMap' = [k \in Types |-> typeMap'[k]]  BY DEF AddMember, Retyped
<1>5. \A k \in Types : typeMap'[k] \in Seq(Nodes)  BY <1>3 DEF Lists
<1> QED  BY <1>1, <1>3, <1>4, <1>5 DEF Index, Of

LEMMA RemoveMemberIndex ==
    ASSUME TypeOK, Index, NEW n \in Nodes, members[n] # NoType, RemoveMember(n)
    PROVE  /\ members' \in [Nodes -> Types \cup {NoType}]
           /\ typeMap' \in [Types -> Seq(Nodes)]
           /\ Index'
<1>1. members' \in [Nodes -> Types \cup {NoType}]  BY DEF RemoveMember, TypeOK
<1>2. \A m \in Nodes : members'[m] = IF m = n THEN NoType ELSE members[m]
  BY DEF RemoveMember, TypeOK
<1>3. ASSUME NEW k \in Types  PROVE Lists(typeMap'[k], Of(k)')
  <2>1. Lists(typeMap[k], Of(k))  BY DEF Index, Of
  <2>2. typeMap'[k] = IF k = members[n] THEN Without(typeMap[k], n) ELSE typeMap[k]
    BY DEF RemoveMember, TypeOK
  <2>3. CASE k = members[n]
    <3>1. Of(k)' = Of(k) \ {n} /\ n \in Of(k)  BY <1>2, <2>3, NamesAssumption DEF Of
    <3> QED  BY <2>1, <2>2, <2>3, <3>1, WithoutLists
  <2>4. CASE k # members[n]
    <3>1. Of(k)' = Of(k)  BY <1>2, <2>4, NamesAssumption DEF Of
    <3> QED  BY <2>1, <2>2, <2>4, <3>1
  <2> QED  BY <2>3, <2>4
<1>4. typeMap' = [k \in Types |-> typeMap'[k]]  BY DEF RemoveMember, TypeOK
<1>5. \A k \in Types : typeMap'[k] \in Seq(Nodes)  BY <1>3 DEF Lists
<1> QED  BY <1>1, <1>3, <1>4, <1>5 DEF Index, Of

-----------------------------------------------------------------------------
\* Counting

LEMMA Finite ==
    /\ IsFiniteSet(Pending) /\ IsFiniteSet(Members)
    /\ Cardinality(Pending) \in Nat /\ Cardinality(Members) \in Nat
    /\ \A n : IsFiniteSet(PendingAdds(n)) /\ Cardinality(PendingAdds(n)) \in Nat
<1>1. Pending \subseteq Receivers /\ Members \subseteq Nodes  BY DEF Pending, Members
<1>2. \A n : PendingAdds(n) \subseteq Receivers  BY DEF PendingAdds
<1> QED  BY <1>1, <1>2, FiniteAssumption, FS_Subset, FS_CardinalityType

-----------------------------------------------------------------------------
\* Types and the index

RecvOK ==
    /\ recv \in [Receivers -> [at : {"idle", "notify", "time", "count"},
                               node : Nodes \cup {NoNode}, new : BOOLEAN]]
    /\ \A r \in Receivers : recv[r].at # "idle" => recv[r].node \in Nodes

CheckOK ==
    /\ check \in [at : {"idle", "remove", "notify", "forget", "count"},
                  node : Nodes \cup {NoNode}, toRemove : SUBSET Nodes]
    /\ check.at \in {"notify", "forget", "count"} => check.node \in Nodes

LEMMA InitIndex == Init => TypeOK /\ Index
<1> SUFFICES ASSUME Init  PROVE TypeOK /\ Index
  OBVIOUS
<1>1. \A t \in Types : typeMap[t] = <<>> /\ {n \in Nodes : members[n] = t} = {}
  BY NamesAssumption DEF Init
<1>2. <<>> \in Seq(Nodes) /\ RangeOf(<<>>) = {} /\ DOMAIN <<>> = {}
  BY DEF RangeOf
<1>3. Index  BY <1>1, <1>2 DEF Index, Lists
<1>4. typeMap \in [Types -> Seq(Nodes)] /\ members \in [Nodes -> Types \cup {NoType}]
  BY <1>2 DEF Init
<1>5. sub \in Receivers  BY FiniteAssumption DEF Init
<1>6. inbox \in Seq(Announcements)  BY DEF Init
<1> QED  BY <1>3, <1>4, <1>5, <1>6, BoundsAssumption DEF Init, TypeOK, Idle

LEMMA StepIndex == TypeOK /\ Index /\ [Next]_vars => TypeOK' /\ Index'
<1> SUFFICES ASSUME TypeOK, Index, [Next]_vars  PROVE TypeOK' /\ Index'
  OBVIOUS
<1> USE DEF tableVars, peerVars, statVars, natsVars
<1>0. RecvOK /\ CheckOK  BY DEF TypeOK, RecvOK, CheckOK
<1>1. ASSUME UNCHANGED tableVars  PROVE Index'
  BY <1>1 DEF Index
<1>2. ASSUME NEW n \in Nodes, Announce(n)  PROVE TypeOK' /\ Index'
  <2>1. inbox' \in Seq(Announcements)
    BY <1>2, AppendProperties DEF Announce, TypeOK, Announcements
  <2> QED  BY <1>1, <1>2, <2>1 DEF Announce, TypeOK
<1>3. ASSUME NEW n \in Nodes, Leave(n)  PROVE TypeOK' /\ Index'
  BY <1>1, <1>3 DEF Leave, TypeOK
<1>4. ASSUME NEW n \in Nodes, Restart(n)  PROVE TypeOK' /\ Index'
  BY <1>1, <1>4 DEF Restart, TypeOK
<1>5. ASSUME NEW n \in Nodes, Age(n)  PROVE TypeOK' /\ Index'
  BY <1>1, <1>5 DEF Age, TypeOK
<1>6. ASSUME NEW r \in Receivers, Resubscribe(r)  PROVE TypeOK' /\ Index'
  BY <1>1, <1>6 DEF Resubscribe, TypeOK
<1>7. ASSUME NEW r \in Receivers, RecvAdd(r)  PROVE TypeOK' /\ Index'
  <2>1. /\ Head(inbox) \in Announcements /\ Tail(inbox) \in Seq(Announcements)
    BY <1>7, HeadTailProperties DEF RecvAdd, TypeOK
  <2> DEFINE n == Head(inbox).node
             t == Head(inbox).type
  <2>2. n \in Nodes /\ t \in Types /\ AddMember(n, t)
    BY <1>7, <2>1 DEF RecvAdd, Announcements
  <2> HIDE DEF n, t
  <2>3. /\ members' \in [Nodes -> Types \cup {NoType}]
        /\ typeMap' \in [Types -> Seq(Nodes)] /\ Index'
    BY <2>2, AddMemberIndex
  <2>4. (members[n] = NoType) \in BOOLEAN
    OBVIOUS
  <2>5. RecvOK'  BY <1>0, <1>7, <2>2, <2>4 DEF RecvAdd, RecvOK, n
  <2> QED  BY <1>7, <2>1, <2>3, <2>5 DEF RecvAdd, TypeOK, RecvOK
<1>8. ASSUME NEW r \in Receivers, RecvNotify(r)  PROVE TypeOK' /\ Index'
  <2>1. RecvOK'  BY <1>0, <1>8 DEF RecvNotify, RecvGoes, RecvOK
  <2>2. told' \in [Nodes -> Int]  BY <1>8 DEF RecvNotify, TypeOK
  <2> QED  BY <1>1, <1>8, <2>1, <2>2 DEF RecvNotify, TypeOK, RecvOK
<1>9. ASSUME NEW r \in Receivers, RecvTime(r)  PROVE TypeOK' /\ Index'
  <2>1. ASSUME recv[r].new  PROVE RecvOK'
    BY <1>0, <2>1, <1>9 DEF RecvTime, RecvGoes, RecvOK
  <2>2. ASSUME ~recv[r].new  PROVE RecvOK'
    <3>1. recv' = [recv EXCEPT ![r] = Idle]  BY <2>2, <1>9 DEF RecvTime
    <3> QED  BY <1>0, <3>1 DEF RecvOK, Idle
  <2>3. RecvOK'  BY <2>1, <2>2
  <2> QED  BY <1>1, <1>9, <2>3 DEF RecvTime, TypeOK, RecvOK
<1>10. ASSUME NEW r \in Receivers, RecvCount(r)  PROVE TypeOK' /\ Index'
  <2>1. RecvOK'  BY <1>0, <1>10 DEF RecvCount, RecvOK, Idle
  <2> QED  BY <1>1, <1>10, <2>1 DEF RecvCount, TypeOK, RecvOK
<1>11. ASSUME CheckScan  PROVE TypeOK' /\ Index'
  <2>1. CheckOK'  BY <1>11 DEF CheckScan, CheckOK, Stale
  <2> QED  BY <1>1, <1>11, <2>1 DEF CheckScan, TypeOK, CheckOK
<1>12. ASSUME NEW n \in Nodes, CheckRemove(n)  PROVE TypeOK' /\ Index'
  <2>1. CheckOK'  BY <1>0, <1>12 DEF CheckRemove, CheckOK
  <2>2. /\ members' \in [Nodes -> Types \cup {NoType}]
        /\ typeMap' \in [Types -> Seq(Nodes)] /\ Index'
    BY <1>12, RemoveMemberIndex DEF CheckRemove
  <2> QED  BY <1>12, <2>1, <2>2 DEF CheckRemove, TypeOK, CheckOK
<1>13. ASSUME NEW n \in Nodes, CheckSkip(n)  PROVE TypeOK' /\ Index'
  <2>1. CheckOK'  BY <1>0, <1>13 DEF CheckSkip, CheckNext, CheckOK
  <2> QED  BY <1>1, <1>13, <2>1 DEF CheckSkip, TypeOK, CheckOK
<1>14. ASSUME CheckNotify  PROVE TypeOK' /\ Index'
  <2>1. CheckOK'  BY <1>0, <1>14 DEF CheckNotify, CheckGoes, CheckOK
  <2>2. told' \in [Nodes -> Int]  BY <1>14 DEF CheckNotify, TypeOK
  <2> QED  BY <1>1, <1>14, <2>1, <2>2 DEF CheckNotify, TypeOK, CheckOK
<1>15. ASSUME CheckForget  PROVE TypeOK' /\ Index'
  <2>1. CheckOK'  BY <1>0, <1>15 DEF CheckForget, CheckGoes, CheckOK
  <2> QED  BY <1>1, <1>15, <2>1 DEF CheckForget, TypeOK, CheckOK
<1>16. ASSUME CheckCount  PROVE TypeOK' /\ Index'
  <2>1. CheckOK'  BY <1>0, <1>16 DEF CheckCount, CheckNext, CheckOK
  <2> QED  BY <1>1, <1>16, <2>1 DEF CheckCount, TypeOK, CheckOK
<1>17. CASE UNCHANGED vars
  BY <1>1, <1>17 DEF vars, TypeOK
<1> QED
  BY <1>2, <1>3, <1>4, <1>5, <1>6, <1>7, <1>8, <1>9, <1>10, <1>11, <1>12, <1>13, <1>14,
     <1>15, <1>16, <1>17 DEF Next, Receiver, Checker

-----------------------------------------------------------------------------
\* Notifications and statistics

\* A step that touches neither the callbacks nor the checker, nor what they count.
LEMMA CountsStutter ==
    ASSUME Told, Counted, UNCHANGED <<members, told, memberCount, recv, check>>
    PROVE  Told' /\ Counted'
BY DEF Told, Counted, Members, PendingAdds, Pending, Removing

LEMMA InitCounts == Init => Told /\ Counted
<1> SUFFICES ASSUME Init  PROVE Told /\ Counted
  OBVIOUS
<1>1. Members = {} /\ Pending = {} /\ \A n : PendingAdds(n) = {}
  BY DEF Init, Members, Pending, PendingAdds, Idle
<1>2. Cardinality({}) = 0  BY FS_EmptySet
<1> QED  BY <1>1, <1>2 DEF Init, Told, Counted, Removing, Idle

\* The set of the changes that are not yet notified, or counted, with one more or
\* one less.
LEMMA OneMore ==
    ASSUME NEW S, NEW x, IsFiniteSet(S), x \notin S
    PROVE  Cardinality(S \cup {x}) = Cardinality(S) + 1
BY FS_AddElement

LEMMA OneLess ==
    ASSUME NEW S, NEW x, IsFiniteSet(S), x \in S
    PROVE  Cardinality(S \ {x}) = Cardinality(S) - 1
BY FS_RemoveElement

LEMMA RecvAddCounts ==
    ASSUME TypeOK, Told, Counted, NEW r \in Receivers, RecvAdd(r)
    PROVE  Told' /\ Counted'
<1>1. Head(inbox).node \in Nodes /\ Head(inbox).type \in Types
  <2>1. Head(inbox) \in Announcements  BY HeadTailProperties DEF RecvAdd, TypeOK
  <2> QED  BY <2>1 DEF Announcements
<1>2. PICK n \in Nodes, t \in Types, isNew \in BOOLEAN :
        /\ isNew <=> members[n] = NoType
        /\ recv[r].at = "idle"
        /\ recv' = [recv EXCEPT ![r] =
                      [at |-> IF isNew THEN "notify" ELSE "time", node |-> n, new |-> isNew]]
        /\ members' = [members EXCEPT ![n] = t]
        /\ UNCHANGED <<told, memberCount, check>>
  BY <1>1 DEF RecvAdd, AddMember, statVars
<1>3. recv \in [Receivers -> [at : {"idle", "notify", "time", "count"},
                             node : Nodes \cup {NoNode}, new : BOOLEAN]]
  BY DEF TypeOK
<1>4. \A q \in Receivers : q # r => recv'[q] = recv[q]  BY <1>2, <1>3
<1>5. /\ recv'[r].at = IF isNew THEN "notify" ELSE "time"
      /\ recv'[r].node = n
      /\ recv'[r].new <=> isNew
  BY <1>2, <1>3
<1>6. CASE isNew
  <2>1. Members' = Members \cup {n} /\ n \notin Members
    BY <1>1, <1>2, <1>6, NamesAssumption DEF Members, TypeOK
  <2>2. Pending' = Pending \cup {r} /\ r \notin Pending
    BY <1>2, <1>4, <1>5, <1>6 DEF Pending
  <2>3. PendingAdds(n)' = PendingAdds(n) \cup {r} /\ r \notin PendingAdds(n)
    BY <1>2, <1>4, <1>5, <1>6 DEF PendingAdds
  <2>4. \A m \in Nodes : m # n => PendingAdds(m)' = PendingAdds(m)
    BY <1>2, <1>4, <1>5, <1>6 DEF PendingAdds
  <2>5. Told'
    <3>1. ASSUME NEW m \in Nodes, m # n  PROVE
              told'[m] + Cardinality(PendingAdds(m)')
                = (IF m \in Members' THEN 1 ELSE 0)
                  + (IF check'.at = "notify" /\ check'.node = m THEN 1 ELSE 0)
      BY <1>2, <2>1, <2>4, <3>1 DEF Told
    <3>2. Cardinality(PendingAdds(n)') = Cardinality(PendingAdds(n)) + 1
      BY <2>3, Finite, OneMore
    <3>3. told[n] \in Int /\ Cardinality(PendingAdds(n)) \in Nat
      BY <1>1, Finite DEF TypeOK
    <3>4. told'[n] + Cardinality(PendingAdds(n)')
                = (IF n \in Members' THEN 1 ELSE 0)
                  + (IF check'.at = "notify" /\ check'.node = n THEN 1 ELSE 0)
      BY <1>1, <1>2, <2>1, <3>2, <3>3 DEF Told
    <3> QED  BY <3>1, <3>4 DEF Told
  <2>6. /\ Cardinality(Members') = Cardinality(Members) + 1
        /\ Cardinality(Pending') = Cardinality(Pending) + 1
    BY <2>1, <2>2, Finite, OneMore
  <2>7. Removing' <=> Removing  BY <1>2 DEF Removing
  <2>8. memberCount' + Cardinality(Pending')
            = Cardinality(Members') + (IF Removing' THEN 1 ELSE 0)
    BY <1>2, <2>6, <2>7, Finite DEF Counted, TypeOK
  <2> QED  BY <1>4, <1>5, <1>6, <2>5, <2>8 DEF Counted
<1>7. CASE ~isNew
  <2>1. Members' = Members
    BY <1>1, <1>2, <1>7, NamesAssumption DEF Members, TypeOK
  <2>2. Pending' = Pending
    BY <1>2, <1>4, <1>5, <1>7 DEF Pending
  <2>3. \A m \in Nodes : PendingAdds(m)' = PendingAdds(m)
    BY <1>2, <1>4, <1>5, <1>7 DEF PendingAdds
  <2>4. Told'  BY <1>2, <2>1, <2>3 DEF Told
  <2>5. Removing' <=> Removing  BY <1>2 DEF Removing
  <2>6. memberCount' + Cardinality(Pending')
            = Cardinality(Members') + (IF Removing' THEN 1 ELSE 0)
    BY <1>2, <2>1, <2>2, <2>5 DEF Counted
  <2> QED  BY <1>4, <1>5, <1>7, <2>4, <2>6 DEF Counted
<1> QED  BY <1>6, <1>7

LEMMA RecvNotifyCounts ==
    ASSUME TypeOK, Told, Counted, NEW r \in Receivers, RecvNotify(r)
    PROVE  Told' /\ Counted'
<1>1. PICK n \in Nodes :
        /\ recv[r].at = "notify" /\ recv[r].node = n
        /\ told' = [told EXCEPT ![n] = @ + 1]
        /\ recv' = [recv EXCEPT ![r].at = "time"]
        /\ UNCHANGED <<members, memberCount, check>>
  BY DEF RecvNotify, RecvGoes, tableVars, TypeOK
<1>2. recv \in [Receivers -> [at : {"idle", "notify", "time", "count"},
                             node : Nodes \cup {NoNode}, new : BOOLEAN]]
  BY DEF TypeOK
<1>3. \A q \in Receivers : q # r => recv'[q] = recv[q]  BY <1>1, <1>2
<1>4. recv'[r].at = "time" /\ recv'[r].node = n /\ (recv'[r].new <=> recv[r].new)
  BY <1>1, <1>2
<1>5. Members' = Members /\ (Removing' <=> Removing)  BY <1>1 DEF Members, Removing
<1>6. Pending' = Pending  BY <1>1, <1>3, <1>4 DEF Pending
<1>7. PendingAdds(n)' = PendingAdds(n) \ {r} /\ r \in PendingAdds(n)
  BY <1>1, <1>3, <1>4 DEF PendingAdds
<1>8. \A m \in Nodes : m # n => PendingAdds(m)' = PendingAdds(m)
  BY <1>1, <1>3, <1>4 DEF PendingAdds
<1>9. Told'
  <2>1. Cardinality(PendingAdds(n)') = Cardinality(PendingAdds(n)) - 1
    BY <1>7, Finite, OneLess
  <2>2. /\ told[n] \in Int /\ Cardinality(PendingAdds(n)) \in Nat /\ told'[n] = told[n] + 1
        /\ \A m \in Nodes : m # n => told'[m] = told[m]
    BY <1>1, Finite DEF TypeOK
  <2>3. ASSUME NEW m \in Nodes
        PROVE  told'[m] + Cardinality(PendingAdds(m)') = told[m] + Cardinality(PendingAdds(m))
    BY <1>8, <2>1, <2>2
  <2> QED  BY <1>1, <1>5, <2>3 DEF Told
<1> QED  BY <1>1, <1>3, <1>4, <1>5, <1>6, <1>9 DEF Counted

LEMMA RecvTimeCounts ==
    ASSUME TypeOK, Told, Counted, NEW r \in Receivers, RecvTime(r)
    PROVE  Told' /\ Counted'
<1>1. /\ recv[r].at = "time"
      /\ UNCHANGED <<members, told, memberCount, check>>
  BY DEF RecvTime, tableVars, statVars
<1>2. recv \in [Receivers -> [at : {"idle", "notify", "time", "count"},
                             node : Nodes \cup {NoNode}, new : BOOLEAN]]
  BY DEF TypeOK
<1>3. \A q \in Receivers : q # r => recv'[q] = recv[q]  BY <1>2 DEF RecvTime, RecvGoes
<1>4. /\ recv'[r].at # "notify"
      /\ recv'[r].at # "idle" /\ recv'[r].new <=> recv[r].new
      /\ recv'[r].at = "count" => recv'[r].new
  <2>1. ASSUME recv[r].new
        PROVE  recv'[r].at = "count" /\ (recv'[r].new <=> TRUE)
    BY <1>2, <2>1 DEF RecvTime, RecvGoes
  <2>2. ASSUME ~recv[r].new  PROVE recv'[r] = Idle
    BY <1>2, <2>2 DEF RecvTime
  <2> QED  BY <2>1, <2>2 DEF Idle
<1>5. Members' = Members /\ (Removing' <=> Removing)  BY <1>1 DEF Members, Removing
<1>6. Pending' = Pending  BY <1>1, <1>3, <1>4 DEF Pending
<1>7. \A m \in Nodes : PendingAdds(m)' = PendingAdds(m)
  BY <1>1, <1>3, <1>4 DEF PendingAdds
<1>8. Told'  BY <1>1, <1>5, <1>7 DEF Told
<1> QED  BY <1>1, <1>3, <1>4, <1>5, <1>6, <1>8 DEF Counted

LEMMA RecvCountCounts ==
    ASSUME TypeOK, Told, Counted, NEW r \in Receivers, RecvCount(r)
    PROVE  Told' /\ Counted'
<1>1. /\ recv[r].at = "count"
      /\ memberCount' = memberCount + 1
      /\ recv' = [recv EXCEPT ![r] = Idle]
      /\ UNCHANGED <<members, told, check>>
  BY DEF RecvCount, tableVars
<1>2. recv \in [Receivers -> [at : {"idle", "notify", "time", "count"},
                             node : Nodes \cup {NoNode}, new : BOOLEAN]]
  BY DEF TypeOK
<1>3. \A q \in Receivers : q # r => recv'[q] = recv[q]  BY <1>1, <1>2
<1>4. recv'[r].at = "idle"  BY <1>1, <1>2 DEF Idle
<1>5. Members' = Members /\ (Removing' <=> Removing)  BY <1>1 DEF Members, Removing
<1>6. r \in Pending  BY <1>1 DEF Counted, Pending
<1>7. Pending' = Pending \ {r}  BY <1>3, <1>4 DEF Pending
<1>8. Cardinality(Pending') = Cardinality(Pending) - 1  BY <1>6, <1>7, Finite, OneLess
<1>9. \A m \in Nodes : PendingAdds(m)' = PendingAdds(m)
  BY <1>1, <1>3, <1>4 DEF PendingAdds
<1>10. Told'  BY <1>1, <1>5, <1>9 DEF Told
<1>11. memberCount' + Cardinality(Pending')
           = Cardinality(Members') + (IF Removing' THEN 1 ELSE 0)
  <2>1. memberCount \in Int /\ Cardinality(Pending) \in Nat  BY Finite DEF TypeOK
  <2>2. memberCount + Cardinality(Pending) = Cardinality(Members) + (IF Removing THEN 1 ELSE 0)
    BY DEF Counted
  <2>3. memberCount' + Cardinality(Pending') = memberCount + Cardinality(Pending)
    BY <1>1, <1>8, <2>1
  <2> QED  BY <1>5, <2>2, <2>3
<1> QED  BY <1>3, <1>4, <1>10, <1>11 DEF Counted

LEMMA CheckRemoveCounts ==
    ASSUME TypeOK, Told, Counted, NEW n \in Nodes, CheckRemove(n)
    PROVE  Told' /\ Counted'
<1>1. /\ check.at = "remove" /\ check' = [check EXCEPT !.at = "notify", !.node = n]
      /\ members[n] # NoType /\ members' = [members EXCEPT ![n] = NoType]
      /\ UNCHANGED <<told, memberCount, recv>>
  BY DEF CheckRemove, RemoveMember, statVars
<1>2. check'.at = "notify" /\ check'.node = n  BY <1>1 DEF TypeOK
<1>3. Members' = Members \ {n} /\ n \in Members  BY <1>1 DEF Members, TypeOK
<1>4. Pending' = Pending /\ \A m \in Nodes : PendingAdds(m)' = PendingAdds(m)
  BY <1>1 DEF Pending, PendingAdds
<1>5. ~Removing /\ Removing'  BY <1>1, <1>2 DEF Removing
<1>6. Told'
  <2>1. ASSUME NEW m \in Nodes
        PROVE  (IF m \in Members' THEN 1 ELSE 0)
                  + (IF check'.at = "notify" /\ check'.node = m THEN 1 ELSE 0)
               = (IF m \in Members THEN 1 ELSE 0)
                  + (IF check.at = "notify" /\ check.node = m THEN 1 ELSE 0)
    BY <1>1, <1>2, <1>3
  <2> QED  BY <1>1, <1>4, <2>1 DEF Told
<1>7. Cardinality(Members') = Cardinality(Members) - 1  BY <1>3, Finite, OneLess
<1>8. Cardinality(Members) \in Nat  BY Finite
<1> QED  BY <1>1, <1>4, <1>5, <1>6, <1>7, <1>8 DEF Counted

LEMMA CheckNotifyCounts ==
    ASSUME TypeOK, Told, Counted, CheckNotify
    PROVE  Told' /\ Counted'
<1>1. PICK n \in Nodes :
        /\ check.at = "notify" /\ check.node = n
        /\ told' = [told EXCEPT ![n] = @ - 1]
        /\ check' = [check EXCEPT !.at = "forget"]
        /\ UNCHANGED <<members, memberCount, recv>>
  BY DEF CheckNotify, CheckGoes, tableVars, TypeOK
<1>2. check'.at = "forget"  BY <1>1 DEF TypeOK
<1>3. Members' = Members /\ (Removing' <=> Removing)  BY <1>1, <1>2 DEF Members, Removing
<1>4. Pending' = Pending /\ \A m \in Nodes : PendingAdds(m)' = PendingAdds(m)
  BY <1>1 DEF Pending, PendingAdds
<1>5. Told'
  <2>1. ASSUME NEW m \in Nodes
        PROVE  told'[m] + Cardinality(PendingAdds(m)')
                 = (IF m \in Members' THEN 1 ELSE 0)
                   + (IF check'.at = "notify" /\ check'.node = m THEN 1 ELSE 0)
    <3>1. /\ told[m] \in Int /\ Cardinality(PendingAdds(m)) \in Nat
          /\ told'[m] = IF m = n THEN told[m] - 1 ELSE told[m]
      BY <1>1, Finite DEF TypeOK
    <3>2. told[m] + Cardinality(PendingAdds(m))
            = (IF m \in Members THEN 1 ELSE 0) + (IF m = n THEN 1 ELSE 0)
      BY <1>1 DEF Told
    <3> QED  BY <1>2, <1>3, <1>4, <3>1, <3>2
  <2> QED  BY <2>1 DEF Told
<1> QED  BY <1>1, <1>3, <1>4, <1>5 DEF Counted

LEMMA CheckCountCounts ==
    ASSUME TypeOK, Told, Counted, CheckCount
    PROVE  Told' /\ Counted'
<1>1. /\ check.at = "count" /\ check'.at \in {"idle", "remove"}
      /\ memberCount' = memberCount - 1
      /\ UNCHANGED <<members, told, recv>>
  BY DEF CheckCount, CheckNext, tableVars
<1>2. Members' = Members /\ Removing /\ ~Removing'  BY <1>1 DEF Members, Removing
<1>3. Pending' = Pending /\ \A m \in Nodes : PendingAdds(m)' = PendingAdds(m)
  BY <1>1 DEF Pending, PendingAdds
<1>4. Told'  BY <1>1, <1>2, <1>3 DEF Told
<1>5. memberCount \in Int /\ Cardinality(Pending) \in Nat /\ Cardinality(Members) \in Nat
  BY Finite DEF TypeOK
<1> QED  BY <1>1, <1>2, <1>3, <1>4, <1>5 DEF Counted

\* The checker's steps that change neither the table nor a count.
LEMMA CheckQuietCounts ==
    ASSUME TypeOK, Told, Counted, UNCHANGED <<members, told, memberCount, recv>>,
           \/ check.at \in {"idle", "remove"} /\ check'.at \in {"idle", "remove"}
           \/ check.at = "forget" /\ check'.at = "count"
    PROVE  Told' /\ Counted'
<1>1. Members' = Members /\ (Removing' <=> Removing)  BY DEF Members, Removing
<1>2. Pending' = Pending /\ \A m \in Nodes : PendingAdds(m)' = PendingAdds(m)
  BY DEF Pending, PendingAdds
<1>3. Told'  BY <1>1, <1>2 DEF Told
<1> QED  BY <1>1, <1>2, <1>3 DEF Counted

LEMMA StepCounts == TypeOK /\ Told /\ Counted /\ [Next]_vars => Told' /\ Counted'
<1> SUFFICES ASSUME TypeOK, Told, Counted, [Next]_vars  PROVE Told' /\ Counted'
  OBVIOUS
<1> USE DEF tableVars, peerVars, statVars, natsVars
<1>1. ASSUME NEW n \in Nodes, Announce(n) \/ Leave(n) \/ Restart(n) \/ Age(n)
      PROVE  Told' /\ Counted'
  BY <1>1, CountsStutter DEF Announce, Leave, Restart, Age
<1>2. ASSUME NEW r \in Receivers, Resubscribe(r)  PROVE Told' /\ Counted'
  BY <1>2, CountsStutter DEF Resubscribe
<1>3. ASSUME NEW r \in Receivers, Receiver(r)  PROVE Told' /\ Counted'
  BY <1>3, RecvAddCounts, RecvNotifyCounts, RecvTimeCounts, RecvCountCounts DEF Receiver
<1>4. ASSUME CheckScan  PROVE Told' /\ Counted'
  BY <1>4, CheckQuietCounts DEF CheckScan
<1>5. ASSUME CheckForget  PROVE Told' /\ Counted'
  <2>1. check'.at = "count"  BY <1>5 DEF CheckForget, CheckGoes, TypeOK
  <2> QED  BY <1>5, <2>1, CheckQuietCounts DEF CheckForget
<1>6. ASSUME NEW n \in Nodes, CheckRemove(n) \/ CheckSkip(n)  PROVE Told' /\ Counted'
  <2>1. CASE CheckRemove(n)  BY <2>1, CheckRemoveCounts
  <2>2. CASE CheckSkip(n)
    <3>1. check'.at \in {"idle", "remove"}  BY <2>2 DEF CheckSkip, CheckNext
    <3> QED  BY <2>2, <3>1, CheckQuietCounts DEF CheckSkip
  <2> QED  BY <1>6, <2>1, <2>2
<1>7. CASE UNCHANGED vars  BY <1>7, CountsStutter DEF vars
<1> QED
  BY <1>1, <1>2, <1>3, <1>4, <1>5, <1>6, <1>7, CheckNotifyCounts, CheckCountCounts
  DEF Next, Checker

-----------------------------------------------------------------------------
\* The inductive invariant of the node table of service discovery: every step keeps it.
THEOREM Invariance == Spec => []IInv
<1>1. Init => IInv  BY InitIndex, InitCounts DEF IInv
<1>2. IInv /\ [Next]_vars => IInv'  BY StepIndex, StepCounts DEF IInv
<1> QED  BY <1>1, <1>2, PTL DEF Spec

\* Every variable keeps its type, the sequences of typeMap included (MemberMgr,
\* memberTimes, the callback and the checker).
THEOREM TypeCorrect == Spec => []TypeOK
<1>1. IInv => TypeOK  BY DEF IInv
<1> QED  BY <1>1, Invariance, PTL

\* typeMap lists every member once, under its type, and nobody else, whatever
\* types the nodes announce (AddMember, RemoveMember).
THEOREM IndexConsistentHolds == Spec => []IndexConsistent
<1>1. IInv => IndexConsistent  BY DEF IInv, Index, Lists, IndexConsistent
<1> QED  BY <1>1, Invariance, PTL

\* Once nobody is in the middle of a change, every node was told of exactly as often
\* as it is a member and memberCount is the size of the table, for any number of
\* callbacks that overlap with the checker (addMemberInfo, removeMember).
THEOREM CountsSettleHolds == Spec => []CountsSettle
<1>1. IInv => CountsSettle
  <2> SUFFICES ASSUME IInv  PROVE CountsSettle
    OBVIOUS
  <2> USE DEF IInv
  <2>1. Cardinality({}) = 0  BY FS_EmptySet
  <2>2. ASSUME NEW n \in Nodes, ~Touching(n)
        PROVE  told[n] = (IF members[n] # NoType THEN 1 ELSE 0)
    <3>1. PendingAdds(n) = {} /\ ~(check.at = "notify" /\ check.node = n)
      BY <2>2 DEF Touching, PendingAdds
    <3>2. told[n] \in Int  BY DEF TypeOK
    <3>3. told[n] + Cardinality(PendingAdds(n)) = (IF n \in Members THEN 1 ELSE 0) + 0
      BY <3>1 DEF Told
    <3>4. Cardinality(PendingAdds(n)) = 0  BY <2>1, <3>1
    <3>5. n \in Members <=> members[n] # NoType  BY DEF Members
    <3> QED  BY <3>2, <3>3, <3>4, <3>5
  <2>3. ASSUME \A n \in Nodes : ~Touching(n)  PROVE memberCount = Cardinality(Members)
    <3>1. Pending = {}  BY <2>3 DEF Touching, Pending, TypeOK
    <3>2. ~Removing  BY <2>3 DEF Touching, Removing, TypeOK
    <3>3. memberCount \in Int /\ Cardinality(Members) \in Nat  BY Finite DEF TypeOK
    <3> QED  BY <2>1, <3>1, <3>2, <3>3 DEF Counted
  <2> QED  BY <2>2, <2>3 DEF CountsSettle, Members
<1> QED  BY <1>1, Invariance, PTL

---------------------------------------------------------------------------
(* Requests and buses                                                      *)

\* The two ways to ask keep tables of their own, and of the requests made there are
\* finitely many.
ConstantsOK == /\ SyncReqs \cap AsyncReqs = {}
               /\ NoReq \notin Reqs
               /\ NoRecord \notin Records
               /\ IsFiniteSet(AsyncReqs)

-----------------------------------------------------------------------------
(* The inductive invariant *)

\* Places of a caller before its request is on the wire.
Unsent == {"idle", "checked", "publish", "undo"}

\* Stop has been called at least once.
StopHad == starts > 0 /\ (state = 2 \/ starts > 1)

\* There was no connection yet, so that no request got further than its first check.
Unused == conn = "nil" /\ late = {} /\ \A r \in Reqs : at[r] \in {"idle", "done"}

Stopping ==
  /\ starts = 0 \/ (starts = 1 /\ startAt = "connect") => Unused
  /\ state = 1 \/ startAt = "connect" => starts > 0
  /\ stopAt # "idle" => StopHad \/ (starts > 0 /\ Unused /\ startAt = "idle")
  /\ late # {} => StopHad
  /\ \A r \in AsyncReqs : at[r] \in {"publish", "undo"} /\ reqMap[r] = NoRecord => StopHad

\* Messages and timers come after the caller has published.
InTime ==
  /\ \A r \in asked \cup answers : at[r] \notin Unsent
  /\ \A r \in armed \cap AsyncReqs : at[r] \in {"attach", "done"}
  /\ \A r \in requestMap : at[r] \in {"publish", "arm", "wait", "undo"}
  /\ \A r \in AsyncReqs : at[r] \in {"publish", "undo"} => mine[r] \in Records
  /\ \A r \in AsyncReqs : result[r] = "error" => at[r] = "done"

\* The record of a request in reqMap is that request's alone.
Own(r) ==
  /\ cb[reqMap[r]] = r /\ timer[reqMap[r]] \in {r, NoReq}
  /\ reqMap[r] = mine[r] /\ reqMap[r] \in created /\ pool[reqMap[r]] = 0
  /\ r \in armed \/ at[r] \in {"publish", "arm", "undo"}

Once(r) ==
  /\ Calls(r) <= 1
  /\ at[r] \in {"idle", "checked"} \/ result[r] = "error" \/ reqMap[r] # NoRecord => Calls(r) = 0
  /\ at[r] \in {"idle", "checked"} \/ result[r] = "error" => reqMap[r] = NoRecord
  /\ reqMap[r] # NoRecord => Own(r)

Pooled(o) == pool[o] <= 1 /\ (o \notin created => pool[o] = 0)

Ends == late = {} => (\A r \in AsyncReqs : Once(r)) /\ (\A o \in Records : Pooled(o))

ClusterType ==
  /\ state \in 0 .. 2 /\ starts \in Nat
  /\ at \in [Reqs -> {"idle", "checked", "publish", "arm", "attach", "undo", "wait", "done"}]
  /\ result \in [Reqs -> {"none", "ok", "error", "accepted", "timeout", "closed"}]
  /\ chan \in [SyncReqs -> {"empty", "ok", "closed"}]
  /\ requestMap \subseteq SyncReqs /\ armed \subseteq Reqs
  /\ asked \subseteq Reqs /\ answers \subseteq Reqs /\ late \subseteq AsyncReqs
  /\ reqMap \in [AsyncReqs -> Records \cup {NoRecord}]
  /\ mine \in [AsyncReqs -> Records \cup {NoRecord}]
  /\ cb \in [Records -> AsyncReqs \cup {NoReq}] /\ timer \in [Records -> AsyncReqs \cup {NoReq}]
  /\ pool \in [Records -> Nat] /\ created \subseteq Records
  /\ called \in [AsyncReqs -> [Codes -> Nat]]

ClusterInv == ClusterType /\ Stopping /\ InTime /\ Ends

-----------------------------------------------------------------------------
(* Types *)

LEMMA CompleteType ==
  ASSUME ConstantsOK, ClusterType, NEW r \in AsyncReqs, reqMap[r] # NoRecord,
         NEW code \in Codes, Complete(r, reqMap[r], code)
  PROVE  /\ reqMap' \in [AsyncReqs -> Records \cup {NoRecord}]
         /\ cb' \in [Records -> AsyncReqs \cup {NoReq}]
         /\ timer' \in [Records -> AsyncReqs \cup {NoReq}]
         /\ pool' \in [Records -> Nat]
         /\ called' \in [AsyncReqs -> [Codes -> Nat]]
<1> USE DEF ConstantsOK, ClusterType
<1>1. reqMap[r] \in Records /\ pool[reqMap[r]] + 1 \in Nat
  OBVIOUS
<1>2. called' \in [AsyncReqs -> [Codes -> Nat]]
  <2>1. CASE cb[reqMap[r]] = NoReq
    BY <2>1 DEF Complete
  <2>2. CASE cb[reqMap[r]] # NoReq
    <3>1. cb[reqMap[r]] \in AsyncReqs
      BY <1>1, <2>2
    <3>2. called[cb[reqMap[r]]] \in [Codes -> Nat]
      BY <3>1
    <3>3. [called[cb[reqMap[r]]] EXCEPT ![code] = @ + 1] \in [Codes -> Nat]
      BY <3>2
    <3> QED
      BY <2>2, <3>1, <3>3 DEF Complete
  <2> QED
    BY <2>1, <2>2
<1> QED
  BY <1>1, <1>2 DEF Complete

Waiting    == {r \in AsyncReqs : reqMap[r] # NoRecord}
Sharing(o) == {r \in Waiting : reqMap[r] = o}
Owners(c)  == {r \in Waiting : cb[reqMap[r]] = c}

\* What the second critical section of closeAllPendingRequests does, in these words.
LEMMA StopFrees ==
  ASSUME StopFreesAsync
  PROVE  /\ reqMap' = [r \in AsyncReqs |-> NoRecord]
         /\ called' = [c \in AsyncReqs |-> IF Owners(c) # {} THEN [called[c] EXCEPT !["closed"] = @ + 1]
                                           ELSE called[c]]
         /\ cb' = [o \in Records |-> IF \E r \in Waiting : reqMap[r] = o THEN NoReq ELSE cb[o]]
         /\ timer' = [o \in Records |-> IF \E r \in Waiting : reqMap[r] = o THEN NoReq ELSE timer[o]]
         /\ pool' = [o \in Records |-> pool[o] + Cardinality(Sharing(o))]
         /\ armed' = armed \ {timer[reqMap[r]] : r \in Waiting}
BY DEF StopFreesAsync, Waiting, Sharing, Owners

LEMMA TypeStep == ASSUME ConstantsOK, ClusterType, InTime, ClusterNext PROVE ClusterType'
<1> USE DEF ConstantsOK, ClusterType, tables, records, wires, link, outcomes
<1>1. ASSUME NEW r \in Reqs, Caller(r) PROVE ClusterType'
  <2>1. CASE ReqBegin(r)
    BY <2>1 DEF ReqBegin, ReqEnds
  <2>2. CASE ReqPublish(r)
    BY <2>2 DEF ReqPublish
  <2>3. CASE ReqArm(r)
    BY <2>3 DEF ReqArm
  <2>4. CASE r \in SyncReqs /\ SyncRegister(r)
    BY <2>4 DEF SyncRegister, ReqEnds
  <2>5. CASE r \in SyncReqs /\ SyncUndo(r)
    BY <2>5 DEF SyncUndo, ReqEnds
  <2>6. CASE r \in SyncReqs /\ SyncGets(r)
    BY <2>6 DEF SyncGets, ReqEnds
  <2>7. CASE r \in AsyncReqs /\ AsyncRegister(r)
    <3>1. CASE conn = "up"
      <4>1. PICK o \in Records :
                     /\ pool' = [pool EXCEPT ![o] = IF @ > 0 THEN @ - 1 ELSE 0]
                     /\ created' = created \union {o}
                     /\ mine' = [mine EXCEPT ![r] = o]
                     /\ reqMap' = [reqMap EXCEPT ![r] = o]
                     /\ cb' = [cb EXCEPT ![o] = r] /\ timer' = [timer EXCEPT ![o] = NoReq]
        BY <2>7, <3>1 DEF AsyncRegister
      <4>2. /\ at' = [at EXCEPT ![r] = "publish"]
            /\ UNCHANGED <<result, requestMap, chan, asked, answers, state, starts, armed, called, late>>
        BY <2>7, <3>1 DEF AsyncRegister
      <4>3. pool' \in [Records -> Nat]
        BY <4>1
      <4> QED
        BY <2>7, <4>1, <4>2, <4>3
    <3>2. CASE conn # "up"
      BY <2>7, <3>2 DEF AsyncRegister, ReqEnds
    <3> QED
      BY <3>1, <3>2
  <2>8. CASE r \in AsyncReqs /\ AsyncAttach(r)
    BY <2>8 DEF AsyncAttach, ReqEnds
  <2>9. CASE r \in AsyncReqs /\ AsyncUndo(r)
    <3>1. mine[r] \in Records /\ pool[mine[r]] + 1 \in Nat
      BY <2>9 DEF AsyncUndo, InTime
    <3> QED
      BY <2>9, <3>1 DEF AsyncUndo, ReqEnds
  <2> QED
    BY <1>1, <2>1, <2>2, <2>3, <2>4, <2>5, <2>6, <2>7, <2>8, <2>9 DEF Caller
<1>2. ASSUME NEW r \in Reqs, r \in SyncReqs /\ SyncTimesOut(r) PROVE ClusterType'
  BY <1>2 DEF SyncTimesOut, ReqEnds
<1>3. ASSUME NEW r \in Reqs, AsyncTimesOut(r) PROVE ClusterType'
  BY <1>3, CompleteType DEF AsyncTimesOut, Codes
<1>4. ASSUME NEW r \in Reqs, HandleResponse(r) PROVE ClusterType'
  <2>1. CASE r \in SyncReqs
    BY <1>4, <2>1 DEF HandleResponse
  <2>2. CASE r \in AsyncReqs
    BY <1>4, <2>2, CompleteType DEF HandleResponse, Codes
  <2> QED
    BY <2>1, <2>2 DEF Reqs
<1>5. ASSUME NEW r \in Reqs, HandleRequest(r) PROVE ClusterType'
  BY <1>5 DEF HandleRequest
<1>6. ASSUME StopFreesAsync PROVE ClusterType'
  <2>1. pool' \in [Records -> Nat]
    <3>1. \A o \in Records : Cardinality(Sharing(o)) \in Nat
      BY FS_Subset, FS_CardinalityType DEF Sharing, Waiting
    <3> QED
      BY <1>6, <3>1, StopFrees
  <2>2. called' \in [AsyncReqs -> [Codes -> Nat]]
    <3>1. \A c \in AsyncReqs : [called[c] EXCEPT !["closed"] = @ + 1] \in [Codes -> Nat]
      BY DEF Codes
    <3> QED
      BY <1>6, <3>1, StopFrees
  <2>3. /\ cb' \in [Records -> AsyncReqs \cup {NoReq}]
        /\ timer' \in [Records -> AsyncReqs \cup {NoReq}]
        /\ reqMap' \in [AsyncReqs -> Records \cup {NoRecord}] /\ armed' \subseteq Reqs
    BY <1>6, StopFrees
  <2>4. UNCHANGED <<requestMap, chan, mine, created, asked, answers, state, starts, at, result, late>>
    BY <1>6 DEF StopFreesAsync
  <2> QED
    BY <2>1, <2>2, <2>3, <2>4
<1>7. ASSUME ClusterStart \/ StartConnects \/ ResubscribeResponses \/ LinkLost \/ LinkBack \/ StopBegins
             \/ StopUnsubscribes \/ StopFreesSync \/ StopCloses \/ StopForgets
      PROVE  ClusterType'
  BY <1>7 DEF ClusterStart, StartConnects, ResubscribeResponses, LinkLost, LinkBack, StopBegins,
     StopUnsubscribes, StopFreesSync, StopCloses, StopForgets
<1> QED
  BY <1>1, <1>2, <1>3, <1>4, <1>5, <1>6, <1>7 DEF ClusterNext, Expires, Starter, Stopper

-----------------------------------------------------------------------------
(* Stop has been called where its effects are seen *)

LEMMA StoppingStep == ASSUME ConstantsOK, ClusterInv, ClusterNext PROVE Stopping'
<1> USE DEF ConstantsOK, ClusterType, ClusterInv
<1>1. ASSUME NEW r \in Reqs, Caller(r) PROVE Stopping'
  <2>1. UNCHANGED <<state, conn, stopAt, startAt, starts>>
    BY <1>1 DEF Caller, ReqBegin, ReqPublish, ReqArm, SyncRegister, SyncUndo, SyncGets,
       AsyncRegister, AsyncAttach, AsyncUndo, link
  <2>2. \E p \in {"checked", "publish", "arm", "attach", "undo", "wait", "done"} :
           at' = [at EXCEPT ![r] = p] \/ at' = at
    BY <1>1 DEF Caller, ReqBegin, ReqPublish, ReqArm, SyncRegister, SyncUndo, SyncGets,
       AsyncRegister, AsyncAttach, AsyncUndo, ReqEnds
  <2>3. \/ at' = at
        \/ at' = [at EXCEPT ![r] = "done"]
        \/ conn # "nil"
        \/ at[r] \notin {"idle", "done"}
    BY <1>1 DEF Caller, ReqBegin, ReqPublish, ReqArm, SyncRegister, SyncUndo, SyncGets,
       AsyncRegister, AsyncAttach, AsyncUndo, ReqEnds
  <2>4. late' = late \/ (at[r] = "undo" /\ r \in AsyncReqs /\ reqMap[r] = NoRecord)
    BY <1>1 DEF Caller, ReqBegin, ReqPublish, ReqArm, SyncRegister, SyncUndo, SyncGets,
       AsyncRegister, AsyncAttach, AsyncUndo
  <2>5. \A q \in AsyncReqs : at'[q] \in {"publish", "undo"} /\ reqMap'[q] = NoRecord
                             => at[q] \in {"publish", "undo"} /\ reqMap[q] = NoRecord
    <3>1. CASE ReqBegin(r) \/ ReqPublish(r) \/ ReqArm(r)
      BY <3>1 DEF ReqBegin, ReqPublish, ReqArm, ReqEnds, tables, Reqs
    <3>2. CASE r \in SyncReqs /\ (SyncRegister(r) \/ SyncUndo(r) \/ SyncGets(r))
      BY <3>2 DEF SyncRegister, SyncUndo, SyncGets, ReqEnds, tables, Reqs
    <3>3. CASE r \in AsyncReqs /\ AsyncRegister(r)
      BY <3>3 DEF AsyncRegister, ReqEnds, Reqs
    <3>4. CASE r \in AsyncReqs /\ (AsyncAttach(r) \/ AsyncUndo(r))
      BY <3>4 DEF AsyncAttach, AsyncUndo, ReqEnds, tables, Reqs
    <3> QED
      BY <1>1, <3>1, <3>2, <3>3, <3>4 DEF Caller
  <2>6. Unused => Unused'
    BY <2>1, <2>2, <2>3, <2>4 DEF Unused, Reqs
  <2>7. StopHad' <=> StopHad
    BY <2>1 DEF StopHad
  <2> QED
    BY <2>1, <2>4, <2>5, <2>6, <2>7 DEF Stopping
<1>2. ASSUME NEW r \in Reqs, Expires(r) \/ HandleResponse(r) \/ HandleRequest(r) PROVE Stopping'
  <2>1. UNCHANGED <<state, conn, stopAt, startAt, starts, late>>
    BY <1>2 DEF Expires, SyncTimesOut, AsyncTimesOut, HandleResponse, HandleRequest, link
  <2>2. at' = at \/ (at[r] = "wait" /\ at' = [at EXCEPT ![r] = "done"])
    BY <1>2 DEF Expires, SyncTimesOut, AsyncTimesOut, HandleResponse, HandleRequest, ReqEnds
  <2>3. reqMap' = reqMap \/ (at[r] \notin Unsent /\ r \in AsyncReqs
                             /\ reqMap' = [reqMap EXCEPT ![r] = NoRecord] /\ at' = at)
    <3>1. CASE r \in SyncReqs /\ SyncTimesOut(r)
      BY <3>1 DEF SyncTimesOut
    <3>2. CASE AsyncTimesOut(r)
      BY <3>2 DEF AsyncTimesOut, Complete, InTime, Unsent
    <3>3. CASE HandleResponse(r)
      <4>1. at[r] \notin Unsent
        BY <3>3 DEF HandleResponse, InTime
      <4> QED
        BY <3>3, <4>1 DEF HandleResponse, Complete, Reqs
    <3>4. CASE HandleRequest(r)
      BY <3>4 DEF HandleRequest, tables
    <3> QED
      BY <1>2, <3>1, <3>2, <3>3, <3>4 DEF Expires
  <2>4. \A q \in AsyncReqs : at'[q] \in {"publish", "undo"} /\ reqMap'[q] = NoRecord
                             => at[q] \in {"publish", "undo"} /\ reqMap[q] = NoRecord
    BY <2>2, <2>3 DEF Unsent, Reqs
  <2>5. Unused => Unused'
    BY <2>1, <2>2 DEF Unused
  <2>6. StopHad' <=> StopHad
    BY <2>1 DEF StopHad
  <2> QED
    BY <2>1, <2>4, <2>5, <2>6 DEF Stopping
<1>3. CASE StopFreesAsync
  <2>1. UNCHANGED <<state, conn, startAt, starts, late, at>> /\ stopAt = "async"
    BY <1>3 DEF StopFreesAsync
  <2> QED
    BY <2>1 DEF Stopping, StopHad, Unused, Reqs
<1>4. ASSUME ClusterStart \/ StartConnects \/ ResubscribeResponses \/ LinkLost \/ LinkBack \/ StopBegins
             \/ StopUnsubscribes \/ StopFreesSync \/ StopCloses \/ StopForgets
      PROVE  Stopping'
  <2>1. UNCHANGED <<reqMap, late, at>>
    BY <1>4 DEF ClusterStart, StartConnects, ResubscribeResponses, LinkLost, LinkBack, StopBegins,
       StopUnsubscribes, StopFreesSync, StopCloses, StopForgets, tables
  <2>2. CASE ClusterStart
    BY <2>1, <2>2 DEF ClusterStart, Stopping, StopHad, Unused
  <2>3. CASE StartConnects
    BY <2>1, <2>3 DEF StartConnects, Stopping, StopHad, Unused, Reqs
  <2>4. CASE ResubscribeResponses \/ LinkLost \/ LinkBack
    BY <2>1, <2>4 DEF ResubscribeResponses, LinkLost, LinkBack, Stopping, StopHad, Unused
  <2>5. CASE StopBegins
    BY <2>1, <2>5 DEF StopBegins, Stopping, StopHad, Unused
  <2>6. CASE StopUnsubscribes \/ StopFreesSync \/ StopCloses \/ StopForgets
    BY <2>1, <2>6 DEF StopUnsubscribes, StopFreesSync, StopCloses, StopForgets, Stopping, StopHad, Unused
  <2> QED
    BY <1>4, <2>2, <2>3, <2>4, <2>5, <2>6
<1> QED
  BY <1>1, <1>2, <1>3, <1>4 DEF ClusterNext, Starter, Stopper

-----------------------------------------------------------------------------
(* Messages and timers come after the caller has published *)

LEMMA InTimeStep == ASSUME ConstantsOK, ClusterInv, ClusterNext PROVE InTime'
<1> USE DEF ConstantsOK, ClusterType, ClusterInv, tables, records, wires, link, outcomes
<1>1. ASSUME NEW r \in Reqs, Caller(r) PROVE InTime'
  <2>1. CASE ReqBegin(r)
    BY <2>1 DEF ReqBegin, ReqEnds, InTime, Unsent, Reqs
  <2>2. CASE ReqPublish(r)
    <3>1. CASE at' = [at EXCEPT ![r] = "arm"]
      BY <2>2, <3>1 DEF ReqPublish, InTime, Unsent, Reqs
    <3>2. CASE at' = [at EXCEPT ![r] = "undo"]
      BY <2>2, <3>2 DEF ReqPublish, InTime, Unsent, Reqs
    <3> QED
      BY <2>2, <3>1, <3>2 DEF ReqPublish
  <2>3. CASE ReqArm(r)
    BY <2>3 DEF ReqArm, InTime, Unsent, Reqs
  <2>4. CASE r \in SyncReqs /\ SyncRegister(r)
    <3>1. CASE conn = "up"
      BY <2>4, <3>1 DEF SyncRegister, InTime, Unsent, Reqs
    <3>2. CASE conn = "nil"
      BY <2>4, <3>2 DEF SyncRegister, InTime
    <3>3. CASE conn \notin {"up", "nil"}
      <4>1. /\ UNCHANGED <<requestMap, asked, answers, armed, mine>> /\ at[r] = "checked"
            /\ at' = [at EXCEPT ![r] = "done"] /\ result' = [result EXCEPT ![r] = "error"]
        BY <2>4, <3>3 DEF SyncRegister, ReqEnds
      <4> QED
        BY <4>1 DEF InTime, Unsent, Reqs
    <3> QED
      BY <3>1, <3>2, <3>3
  <2>5. CASE r \in SyncReqs /\ (SyncUndo(r) \/ SyncGets(r))
    BY <2>5 DEF SyncUndo, SyncGets, ReqEnds, InTime, Unsent, Reqs
  <2>6. CASE r \in AsyncReqs /\ AsyncRegister(r)
    <3>1. CASE conn = "up"
      <4>1. UNCHANGED <<result, requestMap, asked, answers, armed>> /\ at[r] = "checked"
            /\ at' = [at EXCEPT ![r] = "publish"] /\ \E o \in Records : mine' = [mine EXCEPT ![r] = o]
        BY <2>6, <3>1 DEF AsyncRegister
      <4> QED
        BY <2>6, <4>1 DEF InTime, Unsent, Reqs
    <3>2. CASE conn = "nil"
      BY <2>6, <3>2 DEF AsyncRegister, InTime
    <3>3. CASE conn \notin {"up", "nil"}
      <4>1. /\ UNCHANGED <<requestMap, asked, answers, armed, mine>> /\ at[r] = "checked"
            /\ at' = [at EXCEPT ![r] = "done"] /\ result' = [result EXCEPT ![r] = "error"]
        BY <2>6, <3>3 DEF AsyncRegister, ReqEnds
      <4> QED
        BY <4>1 DEF InTime, Unsent, Reqs
    <3> QED
      BY <3>1, <3>2, <3>3
  <2>7. CASE r \in AsyncReqs /\ (AsyncAttach(r) \/ AsyncUndo(r))
    <3>1. /\ UNCHANGED <<requestMap, asked, answers, armed, mine>> /\ at[r] \in {"attach", "undo"}
          /\ at' = [at EXCEPT ![r] = "done"]
          /\ \E code \in {"accepted", "error"} : result' = [result EXCEPT ![r] = code]
      BY <2>7 DEF AsyncAttach, AsyncUndo, ReqEnds
    <3> QED
      BY <2>7, <3>1 DEF InTime, Unsent, Reqs
  <2> QED
    BY <1>1, <2>1, <2>2, <2>3, <2>4, <2>5, <2>6, <2>7 DEF Caller
<1>2. ASSUME NEW r \in Reqs, Expires(r) \/ HandleResponse(r) \/ HandleRequest(r) PROVE InTime'
  <2>1. CASE r \in SyncReqs /\ SyncTimesOut(r)
    BY <2>1 DEF SyncTimesOut, ReqEnds, InTime, Unsent, Reqs
  <2>2. CASE AsyncTimesOut(r)
    BY <2>2 DEF AsyncTimesOut, InTime
  <2>3. CASE HandleResponse(r)
    <3>1. armed' \subseteq armed /\ answers' \subseteq answers
          /\ UNCHANGED <<at, asked, requestMap, mine, result>>
      BY <2>3 DEF HandleResponse
    <3> QED
      BY <3>1 DEF InTime
  <2>4. CASE HandleRequest(r)
    BY <2>4 DEF HandleRequest, InTime
  <2> QED
    BY <1>2, <2>1, <2>2, <2>3, <2>4 DEF Expires
<1>3. CASE StopFreesAsync
  <2>1. armed' \subseteq armed /\ UNCHANGED <<at, asked, answers, requestMap, mine, result>>
    BY <1>3 DEF StopFreesAsync
  <2> QED
    BY <2>1 DEF InTime
<1>4. ASSUME ClusterStart \/ StartConnects \/ ResubscribeResponses \/ LinkLost \/ LinkBack \/ StopBegins
             \/ StopUnsubscribes \/ StopFreesSync \/ StopCloses \/ StopForgets
      PROVE  InTime'
  BY <1>4 DEF ClusterStart, StartConnects, ResubscribeResponses, LinkLost, LinkBack, StopBegins,
     StopUnsubscribes, StopFreesSync, StopCloses, StopForgets, InTime
<1> QED
  BY <1>1, <1>2, <1>3, <1>4 DEF ClusterNext, Starter, Stopper

-----------------------------------------------------------------------------
(* Every asynchronous request ends once *)

Settled == (\A r \in AsyncReqs : Once(r)) /\ (\A o \in Records : Pooled(o))

\* A record in reqMap belongs to a single request.
LEMMA NotShared ==
  ASSUME Settled, NEW q \in AsyncReqs, NEW r \in AsyncReqs, reqMap[r] # NoRecord, reqMap[q] = reqMap[r]
  PROVE  q = r
BY DEF Settled, Once, Own

LEMMA CallsCount ==
  ASSUME ClusterType, NEW r \in AsyncReqs, NEW code \in Codes,
         called' = [called EXCEPT ![r][code] = @ + 1]
  PROVE  /\ Calls(r)' = Calls(r) + 1
         /\ \A q \in AsyncReqs \ {r} : called'[q] = called[q]
<1>1. called \in [AsyncReqs -> [Codes -> Nat]]
  BY DEF ClusterType
<1>2. called[r] \in [Codes -> Nat]
  BY <1>1
<1>3. called'[r] = [called[r] EXCEPT ![code] = @ + 1]
  BY <1>1
<1> DEFINE n == called[r]
           m == called'[r]
<1>4. n["ok"] \in Nat /\ n["timeout"] \in Nat /\ n["closed"] \in Nat
  BY <1>2 DEF Codes
<1>5. m["ok"] + m["timeout"] + m["closed"] = n["ok"] + n["timeout"] + n["closed"] + 1
  <2>1. CASE code = "ok"
    BY <1>2, <1>3, <1>4, <2>1 DEF Codes
  <2>2. CASE code = "timeout"
    BY <1>2, <1>3, <1>4, <2>2 DEF Codes
  <2>3. CASE code = "closed"
    BY <1>2, <1>3, <1>4, <2>3 DEF Codes
  <2> QED
    BY <2>1, <2>2, <2>3 DEF Codes
<1> QED
  BY <1>1, <1>5 DEF Calls

LEMMA CallsNat == ASSUME ClusterType, NEW r \in AsyncReqs PROVE Calls(r) \in Nat
<1>1. called[r] \in [Codes -> Nat]
  BY DEF ClusterType
<1> QED
  BY <1>1 DEF Calls, Codes

\* What keeps a request as it is.
LEMMA OnceKept ==
  ASSUME NEW q \in AsyncReqs, Once(q), called'[q] = called[q], at'[q] = at[q], result'[q] = result[q],
         reqMap'[q] = reqMap[q], mine'[q] = mine[q], created \subseteq created',
         reqMap[q] # NoRecord => /\ cb'[reqMap[q]] = cb[reqMap[q]]
                                 /\ timer'[reqMap[q]] = timer[reqMap[q]]
                                 /\ pool'[reqMap[q]] = pool[reqMap[q]]
                                 /\ q \in armed => q \in armed'
  PROVE  Once(q)'
BY DEF Once, Own, Calls

\* The end of a request: its callback has been called for it alone.
LEMMA Completed ==
  ASSUME ConstantsOK, ClusterType, Settled, NEW r \in AsyncReqs, reqMap[r] # NoRecord,
         NEW code \in Codes, Complete(r, reqMap[r], code), at[r] \notin Unsent,
         armed' \subseteq armed, armed \ {r} \subseteq armed',
         UNCHANGED <<mine, created, at, result>>
  PROVE  Settled'
<1> USE DEF ConstantsOK, ClusterType
<1> DEFINE o == reqMap[r]
<1>1. Once(r) /\ o \in Records /\ Pooled(o) /\ cb[o] = r /\ pool[o] = 0 /\ o \in created
  BY DEF Settled, Once, Own
<1>2. called' = [called EXCEPT ![r][code] = @ + 1]
  BY <1>1 DEF Complete, Reqs
<1>3. Calls(r)' = 1 /\ \A q \in AsyncReqs \ {r} : called'[q] = called[q]
  <2>1. Calls(r) = 0
    BY <1>1 DEF Once
  <2>2. Calls(r)' = Calls(r) + 1 /\ \A q \in AsyncReqs \ {r} : called'[q] = called[q]
    BY <1>2, CallsCount
  <2> QED
    BY <2>1, <2>2
<1>4. reqMap'[r] = NoRecord /\ \A q \in AsyncReqs \ {r} : reqMap'[q] = reqMap[q]
  BY DEF Complete
<1>5. \A p \in Records \ {o} : cb'[p] = cb[p] /\ timer'[p] = timer[p] /\ pool'[p] = pool[p]
  BY DEF Complete
<1>6. pool'[o] = 1
  BY <1>1 DEF Complete
<1>7. Once(r)'
  BY <1>1, <1>3, <1>4 DEF Once, Unsent
<1>8. ASSUME NEW q \in AsyncReqs \ {r} PROVE Once(q)'
  <2>1. Once(q) /\ (reqMap[q] # NoRecord => reqMap[q] \in Records \ {o})
    BY NotShared DEF Settled
  <2> QED
    BY <1>3, <1>4, <1>5, <2>1, OnceKept
<1>9. \A p \in Records : Pooled(p)'
  BY <1>1, <1>5, <1>6 DEF Pooled, Settled
<1> QED
  BY <1>7, <1>8, <1>9 DEF Settled

LEMMA RegisterSettles ==
  ASSUME ConstantsOK, ClusterInv, Settled, NEW r \in AsyncReqs, AsyncRegister(r)
  PROVE  Settled'
<1> USE DEF ConstantsOK, ClusterType, ClusterInv
<1>1. CASE conn = "up"
  <2>1. PICK o \in Records :
           /\ pool[o] > 0 \/ o \notin created
           /\ pool' = [pool EXCEPT ![o] = IF @ > 0 THEN @ - 1 ELSE 0]
           /\ created' = created \union {o}
           /\ mine' = [mine EXCEPT ![r] = o]
           /\ reqMap' = [reqMap EXCEPT ![r] = o]
           /\ cb' = [cb EXCEPT ![o] = r] /\ timer' = [timer EXCEPT ![o] = NoReq]
    BY <1>1 DEF AsyncRegister
  <2>2. at[r] = "checked" /\ at' = [at EXCEPT ![r] = "publish"] /\ UNCHANGED <<result, called, armed>>
    BY <1>1 DEF AsyncRegister
  <2>3. Once(r) /\ Pooled(o) /\ result[r] # "error"
    BY <2>2 DEF Settled, InTime
  <2>4. pool'[o] = 0
    BY <2>1, <2>3 DEF Pooled
  <2>5. Once(r)'
    <3>1. reqMap'[r] = o /\ mine'[r] = o /\ cb'[o] = r /\ timer'[o] = NoReq /\ o \in created'
          /\ at'[r] = "publish" /\ result'[r] # "error" /\ Calls(r)' = Calls(r)
      BY <2>1, <2>2, <2>3 DEF Calls, Reqs
    <3> QED
      BY <2>2, <2>3, <2>4, <3>1 DEF Once, Own
  <2>6. ASSUME NEW q \in AsyncReqs \ {r} PROVE Once(q)'
    <3>1. Once(q) /\ (reqMap[q] # NoRecord => reqMap[q] \in Records \ {o})
      BY <2>1 DEF Settled, Once, Own
    <3>2. called'[q] = called[q] /\ at'[q] = at[q] /\ result'[q] = result[q] /\ reqMap'[q] = reqMap[q]
          /\ mine'[q] = mine[q]
      BY <2>1, <2>2 DEF Reqs
    <3>3. reqMap[q] # NoRecord => /\ cb'[reqMap[q]] = cb[reqMap[q]]
                                  /\ timer'[reqMap[q]] = timer[reqMap[q]]
                                  /\ pool'[reqMap[q]] = pool[reqMap[q]]
      BY <2>1, <3>1
    <3> QED
      BY <2>1, <2>2, <3>1, <3>2, <3>3, OnceKept
  <2>7. \A p \in Records : Pooled(p)'
    BY <2>1, <2>4 DEF Pooled, Settled
  <2> QED
    BY <2>5, <2>6, <2>7 DEF Settled
<1>2. CASE conn # "up"
  <2>1. UNCHANGED <<reqMap, mine, cb, timer, pool, created, armed, called>> /\ at[r] = "checked"
    BY <1>2 DEF AsyncRegister, records
  <2>2. UNCHANGED <<at, result>> \/ ReqEnds(r, "error")
    BY <1>2 DEF AsyncRegister
  <2>3. Once(r)'
    BY <2>1, <2>2 DEF ReqEnds, Once, Own, Calls, Settled, Reqs
  <2>4. ASSUME NEW q \in AsyncReqs \ {r} PROVE Once(q)'
    <3>1. at'[q] = at[q] /\ result'[q] = result[q]
      BY <2>2 DEF ReqEnds, Reqs
    <3> QED
      BY <2>1, <3>1, OnceKept DEF Settled
  <2> QED
    BY <2>1, <2>3, <2>4 DEF Settled, Pooled
<1> QED
  BY <1>1, <1>2

LEMMA Attached ==
  ASSUME ConstantsOK, ClusterInv, Settled, NEW r \in AsyncReqs, AsyncAttach(r)
  PROVE  Settled'
<1> USE DEF ConstantsOK, ClusterType, ClusterInv
<1>1. /\ at[r] = "attach" /\ at' = [at EXCEPT ![r] = "done"] /\ result' = [result EXCEPT ![r] = "accepted"]
      /\ timer' = IF reqMap[r] # NoRecord THEN [timer EXCEPT ![reqMap[r]] = r] ELSE timer
      /\ UNCHANGED <<reqMap, mine, cb, pool, created, armed, called>>
  BY DEF AsyncAttach, ReqEnds, tables
<1>2. Once(r)'
  <2>1. at'[r] = "done" /\ result'[r] = "accepted" /\ Once(r)
    BY <1>1 DEF Settled, Reqs
  <2>2. reqMap[r] # NoRecord => timer'[reqMap[r]] = r
    BY <1>1
  <2> QED
    BY <1>1, <2>1, <2>2 DEF Once, Own, Calls
<1>3. ASSUME NEW q \in AsyncReqs \ {r} PROVE Once(q)'
  <2>1. Once(q) /\ (reqMap[q] # NoRecord => reqMap[q] \in Records /\ reqMap[q] # reqMap[r])
    BY NotShared DEF Settled
  <2>2. reqMap[q] # NoRecord => timer'[reqMap[q]] = timer[reqMap[q]]
    BY <1>1, <2>1
  <2>3. at'[q] = at[q] /\ result'[q] = result[q]
    BY <1>1 DEF Reqs
  <2> QED
    BY <1>1, <2>1, <2>2, <2>3, OnceKept
<1> QED
  BY <1>1, <1>2, <1>3 DEF Settled, Pooled

\* A request whose publishing failed takes its own record out and gives it back.
LEMMA Undone ==
  ASSUME ConstantsOK, ClusterInv, Settled, NEW r \in AsyncReqs, AsyncUndo(r), late' = {}
  PROVE  Settled'
<1> USE DEF ConstantsOK, ClusterType, ClusterInv
<1> DEFINE o == reqMap[r]
<1>1. o # NoRecord /\ at[r] = "undo"
  BY DEF AsyncUndo
<1>2. Once(r) /\ o = mine[r] /\ o \in Records /\ pool[o] = 0 /\ o \in created
  BY <1>1 DEF Settled, Once, Own
<1>3. /\ at' = [at EXCEPT ![r] = "done"] /\ result' = [result EXCEPT ![r] = "error"]
      /\ reqMap' = [reqMap EXCEPT ![r] = NoRecord]
      /\ cb' = [cb EXCEPT ![o] = NoReq] /\ timer' = [timer EXCEPT ![o] = NoReq]
      /\ pool' = [pool EXCEPT ![o] = @ + 1] /\ UNCHANGED <<mine, created, armed, called>>
  BY <1>2 DEF AsyncUndo, ReqEnds
<1>4. pool'[o] = 1
  BY <1>2, <1>3
<1>5. Once(r)'
  <2>1. reqMap'[r] = NoRecord /\ Calls(r)' = Calls(r)
    BY <1>3 DEF Calls
  <2> QED
    BY <1>1, <1>2, <2>1 DEF Once
<1>6. ASSUME NEW q \in AsyncReqs \ {r} PROVE Once(q)'
  <2>1. Once(q) /\ (reqMap[q] # NoRecord => reqMap[q] \in Records \ {o})
    BY <1>1, NotShared DEF Settled
  <2>2. reqMap[q] # NoRecord => /\ cb'[reqMap[q]] = cb[reqMap[q]]
                                /\ timer'[reqMap[q]] = timer[reqMap[q]]
                                /\ pool'[reqMap[q]] = pool[reqMap[q]]
    BY <1>3, <2>1
  <2>3. at'[q] = at[q] /\ result'[q] = result[q] /\ reqMap'[q] = reqMap[q]
    BY <1>3 DEF Reqs
  <2> QED
    BY <1>3, <2>1, <2>2, <2>3, OnceKept
<1>7. \A p \in Records : Pooled(p)'
  BY <1>2, <1>3, <1>4 DEF Pooled, Settled
<1> QED
  BY <1>5, <1>6, <1>7 DEF Settled

\* Stop ends every request that still waits, each by its own callback.
LEMMA AllFreed ==
  ASSUME ConstantsOK, ClusterInv, Settled, StopFreesAsync
  PROVE  Settled'
<1> USE DEF ConstantsOK, ClusterType, ClusterInv
<1>1. UNCHANGED <<mine, created, at, result>> /\ \A r \in AsyncReqs : reqMap'[r] = NoRecord
  BY StopFrees DEF StopFreesAsync
<1>2. ASSUME NEW r \in AsyncReqs PROVE Once(r)'
  <2>1. Once(r) /\ Calls(r) \in Nat
    BY CallsNat DEF Settled
  <2>2. CASE reqMap[r] = NoRecord
    <3>1. Owners(r) = {}
      BY <2>2 DEF Owners, Waiting, Settled, Once, Own
    <3>2. called'[r] = called[r]
      BY <3>1, StopFrees
    <3> QED
      BY <1>1, <2>1, <2>2, <3>2 DEF Once, Calls
  <2>3. CASE reqMap[r] # NoRecord
    <3>1. r \in Owners(r) /\ Calls(r) = 0
      BY <2>1, <2>3 DEF Owners, Waiting, Once, Own
    <3>2. called'[r] = [called[r] EXCEPT !["closed"] = @ + 1]
      BY <3>1, StopFrees
    <3>3. Calls(r)' = 1
      <4>1. called[r] \in [Codes -> Nat]
        OBVIOUS
      <4> DEFINE n == called[r]
                 m == called'[r]
      <4>2. n["ok"] \in Nat /\ n["timeout"] \in Nat /\ n["closed"] \in Nat
        BY <4>1 DEF Codes
      <4>3. m["ok"] + m["timeout"] + m["closed"] = n["ok"] + n["timeout"] + n["closed"] + 1
        BY <3>2, <4>1, <4>2 DEF Codes
      <4> QED
        BY <3>1, <4>2, <4>3 DEF Calls
    <3> QED
      BY <1>1, <2>1, <2>3, <3>3 DEF Once
  <2> QED
    BY <2>2, <2>3
<1>3. ASSUME NEW o \in Records PROVE Pooled(o)'
  <2>1. Pooled(o) /\ pool'[o] = pool[o] + Cardinality(Sharing(o))
    BY StopFrees DEF Settled
  <2>2. CASE Sharing(o) = {}
    <3>1. Cardinality(Sharing(o)) = 0
      BY <2>2, FS_EmptySet
    <3> QED
      BY <1>1, <2>1, <3>1 DEF Pooled
  <2>3. CASE Sharing(o) # {}
    <3>1. PICK r \in AsyncReqs : reqMap[r] # NoRecord /\ reqMap[r] = o
      BY <2>3 DEF Sharing, Waiting
    <3>2. Sharing(o) = {r}
      BY <3>1, NotShared DEF Sharing, Waiting
    <3>3. pool[o] = 0 /\ o \in created
      BY <3>1 DEF Settled, Once, Own
    <3>4. Cardinality(Sharing(o)) = 1
      BY <3>2, FS_Singleton
    <3> QED
      BY <1>1, <2>1, <3>3, <3>4 DEF Pooled
  <2> QED
    BY <2>2, <2>3
<1> QED
  BY <1>2, <1>3 DEF Settled

LEMMA EndsStep == ASSUME ConstantsOK, ClusterInv, ClusterNext PROVE Ends'
<1> USE DEF ConstantsOK, ClusterType, ClusterInv
<1> SUFFICES ASSUME late' = {} PROVE Settled'
  BY DEF Ends, Settled
<1>1. late = {}
  BY DEF ClusterNext, Caller, Expires, Starter, Stopper, ReqBegin, ReqPublish, ReqArm, SyncRegister,
     SyncUndo, SyncGets, AsyncRegister, AsyncAttach, AsyncUndo, SyncTimesOut, AsyncTimesOut,
     HandleResponse, HandleRequest, ClusterStart, StartConnects, ResubscribeResponses, LinkLost, LinkBack,
     StopBegins, StopUnsubscribes, StopFreesSync, StopFreesAsync, StopCloses, StopForgets
<1>2. Settled
  BY <1>1 DEF Ends, Settled
<1>3. ASSUME UNCHANGED <<reqMap, records, called>>,
             \A q \in AsyncReqs : /\ q \in armed => q \in armed'
                                  /\ at'[q] = at[q] /\ result'[q] = result[q]
      PROVE  Settled'
  <2>1. \A q \in AsyncReqs : Once(q)'
    BY <1>2, <1>3, OnceKept DEF Settled, records
  <2> QED
    BY <1>2, <1>3, <2>1 DEF Settled, Pooled, records
<1>4. ASSUME NEW r \in Reqs, Caller(r) PROVE Settled'
  <2>1. CASE ReqBegin(r)
    <3>1. UNCHANGED <<reqMap, mine, cb, timer, pool, created, armed, called>> /\ at[r] = "idle"
      BY <2>1 DEF ReqBegin, tables, records
    <3>2. ReqEnds(r, "error") \/ (at' = [at EXCEPT ![r] = "checked"] /\ result' = result)
      BY <2>1 DEF ReqBegin
    <3>3. ASSUME NEW q \in AsyncReqs PROVE Once(q)'
      <4>1. Once(q)
        BY <1>2 DEF Settled
      <4>2. CASE q = r
        <5>1. Calls(q)' = Calls(q) /\ Calls(q) = 0 /\ reqMap'[q] = NoRecord
          BY <3>1, <4>1, <4>2 DEF Calls, Once
        <5> QED
          BY <5>1 DEF Once
      <4>3. CASE q # r
        BY <3>1, <3>2, <4>1, <4>3, OnceKept DEF ReqEnds, Reqs
      <4> QED
        BY <4>2, <4>3
    <3> QED
      BY <1>2, <3>1, <3>3 DEF Settled, Pooled
  <2>2. CASE ReqPublish(r) \/ ReqArm(r)
    <3>1. /\ UNCHANGED <<reqMap, mine, cb, timer, pool, created, result, called>>
          /\ armed \subseteq armed' /\ at[r] \in {"publish", "arm"}
      BY <2>2 DEF ReqPublish, ReqArm, tables, records, outcomes
    <3>2. \/ at' = [at EXCEPT ![r] = "arm"] \/ at' = [at EXCEPT ![r] = "undo"]
          \/ at' = [at EXCEPT ![r] = "wait"] /\ r \in SyncReqs
          \/ at' = [at EXCEPT ![r] = "attach"] /\ r \in armed'
      BY <2>2 DEF ReqPublish, ReqArm
    <3>3. ASSUME NEW q \in AsyncReqs PROVE Once(q)'
      <4>1. Once(q)
        BY <1>2 DEF Settled
      <4>2. CASE q = r
        <5>1. Calls(q)' = Calls(q) /\ at[q] \in {"publish", "arm"}
              /\ (at'[q] \in {"arm", "undo"} \/ (at'[q] = "attach" /\ q \in armed'))
          BY <3>1, <3>2, <4>2 DEF Calls, Reqs
        <5> QED
          BY <3>1, <4>1, <5>1 DEF Once, Own
      <4>3. CASE q # r
        BY <3>1, <3>2, <4>1, <4>3, OnceKept DEF Reqs
      <4> QED
        BY <4>2, <4>3
    <3> QED
      BY <1>2, <3>1, <3>3 DEF Settled, Pooled
  <2>3. CASE r \in SyncReqs /\ (SyncRegister(r) \/ SyncUndo(r) \/ SyncGets(r))
    <3>1. UNCHANGED <<reqMap, records, called>> /\ armed \ {r} \subseteq armed'
      BY <2>3 DEF SyncRegister, SyncUndo, SyncGets, tables
    <3>2. \A q \in Reqs \ {r} : at'[q] = at[q] /\ result'[q] = result[q]
      BY <2>3 DEF SyncRegister, SyncUndo, SyncGets, ReqEnds, Reqs
    <3> QED
      BY <1>3, <2>3, <3>1, <3>2 DEF Reqs
  <2>4. CASE r \in AsyncReqs /\ AsyncRegister(r)
    BY <1>2, <2>4, RegisterSettles
  <2>5. CASE r \in AsyncReqs /\ AsyncAttach(r)
    BY <1>2, <2>5, Attached
  <2>6. CASE r \in AsyncReqs /\ AsyncUndo(r)
    BY <1>2, <2>6, Undone
  <2> QED
    BY <1>4, <2>1, <2>2, <2>3, <2>4, <2>5, <2>6 DEF Caller
<1>5. ASSUME NEW r \in Reqs, r \in SyncReqs, SyncTimesOut(r) PROVE Settled'
  <2>1. UNCHANGED <<reqMap, records, called>> /\ armed \ {r} \subseteq armed'
    BY <1>5 DEF SyncTimesOut
  <2>2. \A q \in Reqs \ {r} : at'[q] = at[q] /\ result'[q] = result[q]
    BY <1>5 DEF SyncTimesOut, ReqEnds, Reqs
  <2> QED
    BY <1>3, <1>5, <2>1, <2>2 DEF Reqs
<1>6. ASSUME NEW r \in Reqs, AsyncTimesOut(r) PROVE Settled'
  <2>1. r \in AsyncReqs /\ armed' = armed \ {r} /\ UNCHANGED <<mine, created, at, result>>
        /\ at[r] \notin Unsent
    BY <1>6 DEF AsyncTimesOut, InTime, Unsent
  <2>2. CASE reqMap[r] = NoRecord
    <3>1. UNCHANGED <<reqMap, called, cb, timer, pool>>
      BY <1>6, <2>2 DEF AsyncTimesOut
    <3>2. ASSUME NEW q \in AsyncReqs PROVE Once(q)'
      BY <1>2, <2>1, <2>2, <3>1, OnceKept DEF Settled
    <3> QED
      BY <1>2, <2>1, <3>1, <3>2 DEF Settled, Pooled
  <2>3. CASE reqMap[r] # NoRecord
    <3>1. Complete(r, reqMap[r], "timeout")
      BY <1>6, <2>3 DEF AsyncTimesOut
    <3> QED
      BY <1>2, <2>1, <2>3, <3>1, Completed DEF Codes
  <2> QED
    BY <2>2, <2>3
<1>7. ASSUME NEW r \in Reqs, HandleResponse(r) PROVE Settled'
  <2>1. UNCHANGED <<mine, created, at, result>> /\ at[r] \notin Unsent
    BY <1>7 DEF HandleResponse, InTime
  <2>2. CASE r \in SyncReqs \/ reqMap[r] = NoRecord
    <3>1. UNCHANGED <<called, cb, timer, pool, armed, reqMap>>
      BY <1>7, <2>2 DEF HandleResponse, Reqs
    <3> QED
      BY <1>3, <2>1, <3>1 DEF records
  <2>3. CASE r \in AsyncReqs /\ reqMap[r] # NoRecord
    <3>1. cb[reqMap[r]] = r /\ timer[reqMap[r]] \in {r, NoReq}
      BY <1>2, <2>3 DEF Settled, Once, Own
    <3>2. Complete(r, reqMap[r], "ok") /\ armed' = armed \ {timer[reqMap[r]]}
      BY <1>7, <2>3, <3>1 DEF HandleResponse
    <3>3. armed \ {r} \subseteq armed' /\ armed' \subseteq armed
      BY <3>1, <3>2
    <3> QED
      BY <1>2, <2>1, <2>3, <3>2, <3>3, Completed DEF Codes
  <2> QED
    BY <2>2, <2>3 DEF Reqs
<1>8. ASSUME NEW r \in Reqs, HandleRequest(r) PROVE Settled'
  BY <1>3, <1>8 DEF HandleRequest, tables, outcomes
<1>9. CASE StopFreesAsync
  BY <1>2, <1>9, AllFreed
<1>10. ASSUME ClusterStart \/ StartConnects \/ ResubscribeResponses \/ LinkLost \/ LinkBack \/ StopBegins
              \/ StopUnsubscribes \/ StopFreesSync \/ StopCloses \/ StopForgets
       PROVE  Settled'
  <2>1. UNCHANGED <<reqMap, records, at, result, called, armed>>
    BY <1>10 DEF ClusterStart, StartConnects, ResubscribeResponses, LinkLost, LinkBack, StopBegins,
       StopUnsubscribes, StopFreesSync, StopCloses, StopForgets, tables, outcomes
  <2> QED
    BY <1>3, <2>1
<1> QED
  BY <1>4, <1>5, <1>6, <1>7, <1>8, <1>9, <1>10 DEF ClusterNext, Expires, Starter, Stopper

-----------------------------------------------------------------------------
(* The theorem *)

LEMMA ClusterStarts == ASSUME ConstantsOK, ClusterInit PROVE ClusterInv
<1> USE DEF ConstantsOK, ClusterInit
<1>1. ClusterType
  BY DEF ClusterType, Reqs, Codes
<1>2. Stopping /\ InTime
  BY DEF Stopping, InTime, Unused, Reqs
<1>3. Ends
  BY DEF Ends, Once, Pooled, Calls, Codes
<1> QED
  BY <1>1, <1>2, <1>3 DEF ClusterInv

LEMMA ClusterStep == ASSUME ConstantsOK, ClusterInv, [ClusterNext]_clusterVars PROVE ClusterInv'
<1>1. CASE ClusterNext
  BY <1>1, TypeStep, StoppingStep, InTimeStep, EndsStep DEF ClusterInv
<1>2. CASE UNCHANGED clusterVars
  BY <1>2 DEF clusterVars, ClusterInv, ClusterType, Stopping, StopHad, Unused, InTime, Ends, Once, Own,
     Calls, Pooled
<1> QED
  BY <1>1, <1>2

LEMMA ClusterInvImplies == ASSUME ConstantsOK, ClusterInv PROVE ClusterEndsOnce
<1> USE DEF ConstantsOK, ClusterType, ClusterInv
<1>1. late # {} => starts > 0 /\ (state = 2 \/ starts > 1)
  BY DEF Stopping, StopHad
<1>2. \A r \in SyncReqs : r \in requestMap => at[r] \in {"publish", "arm", "wait", "undo"}
  BY DEF InTime
<1>3. ASSUME late = {} PROVE Settled
  BY <1>3 DEF Ends, Settled
<1>4. ASSUME late = {}, NEW r \in AsyncReqs
      PROVE  /\ Calls(r) <= 1 /\ (result[r] = "error" => Calls(r) = 0)
             /\ reqMap[r] # NoRecord => r \in armed \/ at[r] \in {"publish", "arm", "undo"}
  BY <1>3, <1>4 DEF Settled, Once, Own
<1>5. ASSUME late = {}, NEW o \in Records
      PROVE  pool[o] + Cardinality({r \in AsyncReqs : reqMap[r] = o}) <= 1
  <2>1. {r \in AsyncReqs : reqMap[r] = o} = Sharing(o)
    BY DEF Sharing, Waiting
  <2>2. CASE Sharing(o) = {}
    <3>1. Cardinality({r \in AsyncReqs : reqMap[r] = o}) = 0
      BY <2>1, <2>2, FS_EmptySet
    <3>2. pool[o] <= 1 /\ pool[o] \in Nat
      BY <1>3, <1>5 DEF Settled, Pooled
    <3> QED
      BY <3>1, <3>2
  <2>3. CASE Sharing(o) # {}
    <3>1. PICK r \in AsyncReqs : reqMap[r] # NoRecord /\ reqMap[r] = o
      BY <2>3 DEF Sharing, Waiting
    <3>2. Sharing(o) = {r}
      BY <1>3, <1>5, <3>1, NotShared DEF Sharing, Waiting
    <3>3. pool[o] = 0
      BY <1>3, <1>5, <3>1 DEF Settled, Once, Own
    <3>4. Cardinality({q \in AsyncReqs : reqMap[q] = o}) = 1
      BY <2>1, <3>2, FS_Singleton
    <3> QED
      BY <3>3, <3>4
  <2> QED
    BY <2>2, <2>3
<1> QED
  BY <1>1, <1>2, <1>4, <1>5 DEF ClusterEndsOnce

\* Whoever ends a request first ends it, for any number of requests and records: its callback
\* is called once at most, its record is in the pool or in reqMap but not in both, and what is
\* in reqMap still has a caller or a timer that takes it out, as long as no request found its
\* publishing refused after Stop had ended it (cnats RequestAsync, handleResponse,
\* closeAllPendingRequests).
THEOREM RequestsEndOnce == ASSUME ConstantsOK PROVE ClusterSpec => []ClusterEndsOnce
<1>1. ClusterInit => ClusterInv
  BY ClusterStarts
<1>2. ClusterInv /\ [ClusterNext]_clusterVars => ClusterInv'
  BY ClusterStep
<1>3. ClusterInv => ClusterEndsOnce
  BY ClusterInvImplies
<1> QED
  BY <1>1, <1>2, <1>3, PTL DEF ClusterSpec

-----------------------------------------------------------------------------
(* Event buses: what may be subscribed to and published.  Code may give     *)
(* closures the same code, and Registered leave topics without a type.      *)

BusOK == /\ BusKinds \subseteq {"events", "local", "nats"}
         /\ IsFiniteSet(Topics) /\ IsFiniteSet(Events)

-----------------------------------------------------------------------------
Listener == [gid : Nat, cb : Handlers]

\* No two listeners of a list have the same id or the same code.
Distinct(s) == \A i, j \in DOMAIN s : s[i].gid = s[j].gid \/ Code[s[i].cb] = Code[s[j].cb] => i = j

\* The list of a topic, and the consumer and the subscription that go with it.
Listed(t) ==
  /\ list[t] = 0 <=> Listeners(t) = <<>>
  /\ Distinct(Listeners(t))
  /\ \A i \in DOMAIN Listeners(t) : Listeners(t)[i].gid \in 1 .. autoID[t]
  /\ IsBus /\ list[t] # 0 => t \in consumers

\* kkevent never gives an id again, so that one given back late is nobody else's.
Given(h, t) ==
  /\ ids[h][t] <= autoID[t]
  /\ \A i \in DOMAIN Listeners(t) : Listeners(t)[i].gid = ids[h][t] => Code[Listeners(t)[i].cb] = Code[h]

\* The listeners a publication has reached so far.
Reached(e) == IF events[e].at = "loop" THEN events[e].i - 1 ELSE Len(owed[e])
TasksOf(e) == {c \in tasks : c[1] = e}
Owed(e) == {owed[e][j].gid : j \in 1 .. Reached(e)}

\* Each of them was called or is about to be, once.
Called(e) ==
  /\ events[e].at \in {"idle", "wire"} => owed[e] = <<>>
  /\ events[e].at = "loop" => arrays[events[e].arr] = owed[e] /\ events[e].i \in 1 .. Len(owed[e]) + 1
  /\ Distinct(owed[e])
  /\ IsInjective(ran[e])
  /\ \A j \in DOMAIN ran[e] : ran[e][j] \in Owed(e) /\ <<e, ran[e][j]>> \notin tasks
  /\ \A c \in TasksOf(e) : c[2] \in Owed(e)
  /\ Len(ran[e]) + Cardinality(TasksOf(e)) = Reached(e)
  /\ kind = "events" => TasksOf(e) = {} /\ \A j \in DOMAIN ran[e] : ran[e][j] = owed[e][j].gid

Event == [at : {"idle", "wire", "loop", "done"}, topic : Topics \cup {""}, inst : Nat, arr : Arrays, i : Nat]

BusType ==
  /\ kind \in {"events", "local", "nats"}
  /\ arrays \in [Arrays -> Seq(Listener)] /\ list \in [Topics -> Arrays]
  /\ consumers \subseteq Topics /\ consumersMade \in [Topics -> Nat] /\ autoID \in [Topics -> Nat]
  /\ subs \subseteq Topics \X Nat
  /\ ids \in [Handlers -> [Topics -> Nat]]
  /\ events \in [Events -> Event]
  /\ owed \in [Events -> Seq(Listener)] /\ ran \in [Events -> Seq(Nat)]
  /\ tasks \subseteq Events \X Nat /\ IsFiniteSet(tasks)

BusLists ==
  /\ arrays[0] = <<>> /\ \A t \in Topics : Listed(t)
  /\ kind = "events" => ~hurt /\ \A h \in Handlers, t \in Topics : Given(h, t)

BusCalls == \A e \in Events : Called(e)

BusInv == BusType /\ BusLists /\ BusCalls

-----------------------------------------------------------------------------
(* There is always an array that nobody reads. *)

LEMMA FreshIsFree ==
  ASSUME BusOK, BusType
  PROVE  Fresh \in Arrays /\ Fresh \notin InUse /\ 0 \in Arrays /\ 0 \in InUse
<1> USE DEF BusOK
<1> DEFINE L == {list[t] : t \in Topics}
           D == {d \in Events : events[d].at = "loop"}
           R == {events[e].arr : e \in D}
           g == [e \in D |-> events[e].arr]
<1>1. IsFiniteSet(L) /\ Cardinality(L) <= Cardinality(Topics)
  <2>1. list \in Surjection(Topics, L)
    BY DEF Surjection, BusType
  <2> QED
    BY <2>1, FS_Surjection
<1>2. IsFiniteSet(R) /\ Cardinality(R) <= Cardinality(Events)
  <2>1. g \in Surjection(D, R)
    BY DEF Surjection
  <2>2. IsFiniteSet(D) /\ Cardinality(D) <= Cardinality(Events)
    BY FS_Subset
  <2>3. IsFiniteSet(R) /\ Cardinality(R) <= Cardinality(D)
    BY <2>1, <2>2, FS_Surjection
  <2> QED
    BY <2>2, <2>3, FS_CardinalityType
<1>3. IsFiniteSet(InUse) /\ Cardinality(InUse) <= Cardinality(Topics) + Cardinality(Events) + 1
  <2>1. InUse = (L \cup R) \cup {0}
    BY DEF InUse
  <2>2. IsFiniteSet(L \cup R) /\ Cardinality(L \cup R) = Cardinality(L) + Cardinality(R) - Cardinality(L \cap R)
    BY <1>1, <1>2, FS_Union
  <2>3. Cardinality(L \cap R) \in Nat
    BY <1>1, FS_Intersection, FS_CardinalityType
  <2>4. /\ IsFiniteSet(InUse)
        /\ Cardinality(InUse) = IF 0 \in L \cup R THEN Cardinality(L \cup R) ELSE Cardinality(L \cup R) + 1
    BY <2>1, <2>2, FS_AddElement
  <2>5. /\ Cardinality(L) \in Nat /\ Cardinality(R) \in Nat /\ Cardinality(L \cup R) \in Nat
        /\ Cardinality(Topics) \in Nat /\ Cardinality(Events) \in Nat
    BY <1>1, <1>2, <2>2, FS_CardinalityType
  <2> HIDE DEF L, R
  <2>6. Cardinality(InUse) <= Cardinality(L \cup R) + 1
    BY <2>4, <2>5
  <2>7. Cardinality(L \cup R) <= Cardinality(L) + Cardinality(R)
    BY <2>2, <2>3, <2>5
  <2>8. IsFiniteSet(InUse) /\ Cardinality(InUse) \in Nat
    BY <2>4, FS_CardinalityType
  <2> QED
    BY <1>1, <1>2, <2>5, <2>6, <2>7, <2>8
<1>4. IsFiniteSet(Arrays) /\ Cardinality(Arrays) = Cardinality(Topics) + Cardinality(Events) + 2
  <2> DEFINE n == Cardinality(Topics) + Cardinality(Events) + 1
  <2>1. Cardinality(Topics) \in Nat /\ Cardinality(Events) \in Nat
    BY FS_CardinalityType
  <2>2. n \in Int /\ 0 \in Int /\ ~(0 > n) /\ Arrays = 0 .. n
    BY <2>1 DEF Arrays
  <2> HIDE DEF n
  <2>3. IsFiniteSet(0 .. n) /\ Cardinality(0 .. n) = n + 1
    BY <2>2, FS_Interval
  <2> QED
    BY <2>1, <2>2, <2>3 DEF n
<1>5. \E a \in Arrays : a \notin InUse
  <2>1. SUFFICES ASSUME Arrays \subseteq InUse PROVE FALSE
    OBVIOUS
  <2>2. Cardinality(Arrays) <= Cardinality(InUse)
    BY <1>3, <2>1, FS_Subset
  <2>3. Cardinality(Topics) \in Nat /\ Cardinality(Events) \in Nat /\ Cardinality(InUse) \in Nat
    BY <1>3, FS_CardinalityType
  <2> QED
    BY <1>3, <1>4, <2>2, <2>3
<1>6. Fresh \in Arrays /\ Fresh \notin InUse
  BY <1>5 DEF Fresh
<1>7. 0 \in Arrays /\ 0 \in InUse
  <2>1. Cardinality(Topics) \in Nat /\ Cardinality(Events) \in Nat
    BY FS_CardinalityType
  <2> QED
    BY <2>1 DEF Arrays, InUse
<1> QED
  BY <1>6, <1>7

\* A list is exchanged as a whole: nobody who reads an array sees it change.
LEMMA ListChanged ==
  ASSUME BusOK, BusType, arrays[0] = <<>>, NEW t \in Topics, NEW s \in Seq(Listener), Replace(t, s)
  PROVE  /\ arrays' \in [Arrays -> Seq(Listener)] /\ list' \in [Topics -> Arrays]
         /\ arrays'[0] = <<>> /\ Listeners(t)' = s /\ (list'[t] = 0 <=> s = <<>>)
         /\ \A u \in Topics \ {t} : Listeners(u)' = Listeners(u) /\ list'[u] = list[u]
         /\ \A e \in Events : events[e].at = "loop" => arrays'[events[e].arr] = arrays[events[e].arr]
<1> USE DEF BusType
<1> DEFINE a == IF s = <<>> THEN 0 ELSE Fresh
<1>1. a \in Arrays /\ 0 \in Arrays /\ (a = 0 <=> s = <<>>) /\ (a # 0 => a \notin InUse)
  BY FreshIsFree
<1>2. /\ list' = [list EXCEPT ![t] = a]
      /\ arrays' = [b \in Arrays |-> CASE b = 0 -> <<>> [] b = a -> s
                                       [] b \in InUse -> arrays[b] [] OTHER -> <<>>]
  BY DEF Replace
<1> HIDE DEF a
<1>3. \A b \in InUse \cap Arrays : arrays'[b] = arrays[b]
  BY <1>1, <1>2
<1>4. arrays'[0] = <<>> /\ arrays'[a] = s
  BY <1>1, <1>2
<1>5. arrays' \in [Arrays -> Seq(Listener)]
  <2> DEFINE G(b) == CASE b = 0 -> <<>> [] b = a -> s [] b \in InUse -> arrays[b] [] OTHER -> <<>>
  <2>1. ASSUME NEW b \in Arrays PROVE G(b) \in Seq(Listener)
    <3>1. <<>> \in Seq(Listener)
      BY EmptySeq
    <3>2. arrays[b] \in Seq(Listener)
      OBVIOUS
    <3>3. G(b) \in {<<>>, s, arrays[b]}
      OBVIOUS
    <3> QED
      BY <3>1, <3>2, <3>3
  <2>2. arrays' = [b \in Arrays |-> G(b)]
    BY <1>2
  <2> HIDE DEF G
  <2> QED
    BY <2>1, <2>2
<1>6. Listeners(t)' = s /\ (list'[t] = 0 <=> s = <<>>) /\ list' \in [Topics -> Arrays]
  BY <1>1, <1>2, <1>4 DEF Listeners
<1>7. \A u \in Topics \ {t} : Listeners(u)' = Listeners(u) /\ list'[u] = list[u]
  BY <1>2, <1>3 DEF Listeners, InUse
<1>8. \A e \in Events : events[e].at = "loop" => events[e].arr \in InUse \cap Arrays
  BY DEF InUse, Event
<1> QED
  BY <1>3, <1>4, <1>5, <1>6, <1>7, <1>8

-----------------------------------------------------------------------------
(* Lists without a listener, or with one more *)

LEMMA RemovedIs ==
  ASSUME NEW s \in Seq(Listener), NEW i \in DOMAIN s
  PROVE  /\ Removed(s, i) \in Seq(Listener)
         /\ \A j \in DOMAIN Removed(s, i) :
               \E k \in DOMAIN s : Removed(s, i)[j] = s[k] /\ k # i /\ ((k = j /\ j < i) \/ (k = j + 1 /\ j >= i))
<1> DEFINE p == SubSeq(s, 1, i - 1)
           q == SubSeq(s, i + 1, Len(s))
<1>1. i \in 1 .. Len(s) /\ Len(s) \in Nat /\ \A j \in 1 .. Len(s) : s[j] \in Listener
  BY LenProperties
<1>2. p \in Seq(Listener) /\ Len(p) = i - 1 /\ \A j \in 1 .. i - 1 : p[j] = s[j]
  BY <1>1, SubSeqProperties
<1>3. q \in Seq(Listener) /\ Len(q) = Len(s) - i /\ \A j \in 1 .. Len(s) - i : q[j] = s[j + i]
  BY <1>1, SubSeqProperties
<1> HIDE DEF p, q
<1>4. /\ p \o q \in Seq(Listener) /\ Len(p \o q) = Len(p) + Len(q)
      /\ \A j \in 1 .. Len(p) + Len(q) : (p \o q)[j] = IF j <= Len(p) THEN p[j] ELSE q[j - Len(p)]
  BY <1>2, <1>3, ConcatProperties
<1>5. Removed(s, i) = p \o q
  BY DEF Removed, p, q
<1>6. DOMAIN (p \o q) = 1 .. Len(s) - 1
  <2>1. Len(p) + Len(q) = Len(s) - 1
    BY <1>1, <1>2, <1>3
  <2> QED
    BY <1>4, <2>1, LenProperties
<1>7. ASSUME NEW j \in 1 .. Len(s) - 1
      PROVE  \E k \in 1 .. Len(s) : (p \o q)[j] = s[k] /\ k # i /\ ((k = j /\ j < i) \/ (k = j + 1 /\ j >= i))
  <2>0. (p \o q)[j] = IF j <= Len(p) THEN p[j] ELSE q[j - Len(p)]
    <3>1. j \in 1 .. Len(p) + Len(q)
      BY <1>1, <1>2, <1>3
    <3> QED
      BY <1>4, <3>1
  <2>1. CASE j <= i - 1
    <3>1. j \in 1 .. i - 1 /\ j \in 1 .. Len(s) /\ j # i /\ j < i
      BY <1>1, <2>1
    <3>2. (p \o q)[j] = s[j]
      BY <1>2, <2>0, <2>1, <3>1
    <3> QED
      BY <3>1, <3>2
  <2>2. CASE j > i - 1
    <3>1. /\ ~(j <= i - 1) /\ j - (i - 1) \in 1 .. Len(s) - i /\ (j - (i - 1)) + i = j + 1
          /\ j + 1 \in 1 .. Len(s) /\ j + 1 # i /\ j >= i
      BY <1>1, <2>2
    <3>2. (p \o q)[j] = q[j - (i - 1)]
      BY <1>2, <2>0, <3>1
    <3>3. (p \o q)[j] = s[j + 1]
      BY <1>3, <3>1, <3>2
    <3> QED
      BY <3>1, <3>3
  <2>3. j <= i - 1 \/ j > i - 1
    BY <1>1
  <2> QED
    BY <2>1, <2>2, <2>3
<1>8. DOMAIN s = 1 .. Len(s)
  BY LenProperties
<1> QED
  BY <1>4, <1>5, <1>6, <1>7, <1>8

LEMMA RemovedDistinct ==
  ASSUME NEW s \in Seq(Listener), NEW i \in DOMAIN s, Distinct(s)
  PROVE  Distinct(Removed(s, i))
<1>1. SUFFICES ASSUME NEW a \in DOMAIN Removed(s, i), NEW b \in DOMAIN Removed(s, i),
                      \/ Removed(s, i)[a].gid = Removed(s, i)[b].gid
                      \/ Code[Removed(s, i)[a].cb] = Code[Removed(s, i)[b].cb]
               PROVE  a = b
  BY DEF Distinct
<1>2. PICK k \in DOMAIN s : Removed(s, i)[a] = s[k] /\ k # i /\ ((k = a /\ a < i) \/ (k = a + 1 /\ a >= i))
  BY RemovedIs
<1>3. PICK l \in DOMAIN s : Removed(s, i)[b] = s[l] /\ l # i /\ ((l = b /\ b < i) \/ (l = b + 1 /\ b >= i))
  BY RemovedIs
<1>4. k = l
  BY <1>1, <1>2, <1>3 DEF Distinct
<1>5. DOMAIN s = 1 .. Len(s) /\ DOMAIN Removed(s, i) = 1 .. Len(Removed(s, i)) /\ Len(s) \in Nat /\ Len(Removed(s, i)) \in Nat
  BY RemovedIs, LenProperties
<1>6. a \in Int /\ b \in Int /\ i \in Int /\ k \in Int
  BY <1>5
<1>7. k # i /\ ((k = a /\ a < i) \/ (k = a + 1 /\ a >= i))
  BY <1>2
<1>8. (l = b /\ b < i) \/ (l = b + 1 /\ b >= i)
  BY <1>3
<1> QED
  BY <1>4, <1>6, <1>7, <1>8

\* At most one listener has an id or a code, so that the first one is the one.
LEMMA FirstIs ==
  ASSUME NEW I, NEW i \in I, \A j \in I : j = i, i \in Nat
  PROVE  First(I) = i
<1>1. \A j \in I : i <= j
  <2>1. i <= i
    OBVIOUS
  <2> QED
    BY <2>1
<1>2. \E x \in I : \A j \in I : x <= j
  BY <1>1
<1>3. First(I) \in I
  BY <1>2 DEF First
<1> QED
  BY <1>3

\* A listener whose code is new is put at the end.
LEMMA AppendDistinct ==
  ASSUME NEW s \in Seq(Listener), NEW l \in Listener, Distinct(s),
         \A i \in DOMAIN s : s[i].gid # l.gid /\ Code[s[i].cb] # Code[l.cb]
  PROVE  /\ Append(s, l) \in Seq(Listener) /\ Append(s, l) # <<>> /\ Distinct(Append(s, l))
         /\ \A i \in DOMAIN Append(s, l) : Append(s, l)[i] = l \/ \E k \in DOMAIN s : Append(s, l)[i] = s[k]
<1> DEFINE r == Append(s, l)
<1>1. /\ r \in Seq(Listener) /\ Len(r) = Len(s) + 1
      /\ \A i \in 1 .. Len(s) : r[i] = s[i] /\ r[Len(s) + 1] = l
  BY AppendProperties
<1>2. DOMAIN s = 1 .. Len(s) /\ DOMAIN r = 1 .. Len(r) /\ Len(s) \in Nat
  BY <1>1, LenProperties
<1>3. r[Len(s) + 1] = l
  BY AppendProperties
<1> HIDE DEF r
<1>4. \A i \in DOMAIN r : (i \in DOMAIN s /\ r[i] = s[i]) \/ (i = Len(s) + 1 /\ r[i] = l)
  BY <1>1, <1>2, <1>3
<1>5. Distinct(r)
  BY <1>4 DEF Distinct
<1>6. r # <<>>
  BY <1>1, <1>2, EmptySeq
<1> QED
  BY <1>1, <1>4, <1>5, <1>6 DEF r

-----------------------------------------------------------------------------
(* Subscribing and unsubscribing *)

\* While the list of a topic is exchanged, the publications go on as they were.
LEMMA CallsGoOn ==
  ASSUME BusCalls, UNCHANGED <<kind, events, owed, ran, tasks>>,
         \A e \in Events : events[e].at = "loop" => arrays'[events[e].arr] = arrays[events[e].arr]
  PROVE  BusCalls'
<1>1. SUFFICES ASSUME NEW e \in Events PROVE Called(e)'
  BY DEF BusCalls
<1>2. Called(e)
  BY DEF BusCalls
<1>3. Owed(e)' = Owed(e) /\ TasksOf(e)' = TasksOf(e) /\ Reached(e)' = Reached(e)
  BY DEF Owed, TasksOf, Reached
<1> QED
  BY <1>2, <1>3 DEF Called

\* What an operation on topic t has to show of the list s it leaves.
LEMMA ListSet ==
  ASSUME BusOK, BusInv, NEW t \in Topics, NEW s \in Seq(Listener),
         Replace(t, s) \/ (UNCHANGED <<arrays, list>> /\ s = Listeners(t)),
         UNCHANGED <<kind, events, owed, ran, tasks>>,
         Distinct(s), \A i \in DOMAIN s : s[i].gid \in 1 .. autoID'[t],
         \A u \in Topics \ {t} : autoID'[u] = autoID[u] /\ (u \in consumers' <=> u \in consumers),
         IsBus /\ s # <<>> => t \in consumers'
  PROVE  /\ arrays' \in [Arrays -> Seq(Listener)] /\ list' \in [Topics -> Arrays]
         /\ arrays'[0] = <<>> /\ (\A u \in Topics : Listed(u)') /\ BusCalls'
         /\ Listeners(t)' = s /\ \A u \in Topics \ {t} : Listeners(u)' = Listeners(u)
<1> USE DEF BusInv, BusLists
<1>1. /\ arrays' \in [Arrays -> Seq(Listener)] /\ list' \in [Topics -> Arrays]
      /\ arrays'[0] = <<>> /\ Listeners(t)' = s /\ (list'[t] = 0 <=> s = <<>>)
      /\ \A u \in Topics \ {t} : Listeners(u)' = Listeners(u) /\ list'[u] = list[u]
      /\ \A e \in Events : events[e].at = "loop" => arrays'[events[e].arr] = arrays[events[e].arr]
  <2>1. CASE Replace(t, s)
    BY <2>1, ListChanged
  <2>2. CASE UNCHANGED <<arrays, list>> /\ s = Listeners(t)
    <3>1. Listed(t)
      OBVIOUS
    <3>2. \A u \in Topics : Listeners(u)' = Listeners(u)
      BY <2>2 DEF Listeners
    <3> QED
      BY <2>2, <3>1, <3>2 DEF BusType, Listed
  <2> QED
    BY <2>1, <2>2
<1>2. BusCalls'
  BY <1>1, CallsGoOn
<1>3. IsBus' = IsBus
  BY DEF IsBus
<1>4. Listed(t)'
  <2>1. IsBus /\ list'[t] # 0 => t \in consumers'
    BY <1>1
  <2> QED
    BY <1>1, <1>3, <2>1 DEF Listed
<1>5. ASSUME NEW u \in Topics \ {t} PROVE Listed(u)'
  <2>1. Listed(u)
    OBVIOUS
  <2> QED
    BY <1>1, <1>3, <2>1 DEF Listed
<1> QED
  BY <1>1, <1>2, <1>4, <1>5

LEMMA ListIs ==
  ASSUME BusInv, NEW t \in Topics
  PROVE  /\ Listeners(t) \in Seq(Listener) /\ Listed(t) /\ Distinct(Listeners(t))
         /\ Len(Listeners(t)) \in Nat /\ DOMAIN Listeners(t) = 1 .. Len(Listeners(t))
         /\ \A i \in DOMAIN Listeners(t) :
               Listeners(t)[i] \in Listener /\ Listeners(t)[i].gid \in Nat /\ Listeners(t)[i].gid \in 1 .. autoID[t]
<1>1. Listed(t) /\ Distinct(Listeners(t)) /\ \A i \in DOMAIN Listeners(t) : Listeners(t)[i].gid \in 1 .. autoID[t]
  BY DEF BusInv, BusLists, Listed
<1>2. Listeners(t) \in Seq(Listener)
  BY DEF BusInv, BusType, Listeners
<1>3. Len(Listeners(t)) \in Nat /\ DOMAIN Listeners(t) = 1 .. Len(Listeners(t))
  BY <1>2, LenProperties
<1>4. \A i \in DOMAIN Listeners(t) : Listeners(t)[i] \in Listener
  BY <1>2, <1>3, ElementOfSeq
<1>5. \A i \in DOMAIN Listeners(t) : Listeners(t)[i].gid \in Nat
  BY <1>4 DEF Listener
<1> QED
  BY <1>1, <1>2, <1>3, <1>4, <1>5

LEMMA HandlerIs ==
  ASSUME BusInv, NEW t \in Topics, NEW h, getHandlerIdx(t, h) # {}
  PROVE  First(getHandlerIdx(t, h)) \in DOMAIN Listeners(t) /\ Code[Listeners(t)[First(getHandlerIdx(t, h))].cb] = Code[h]
<1>1. PICK i \in getHandlerIdx(t, h) : TRUE
  OBVIOUS
<1>2. i \in DOMAIN Listeners(t) /\ Code[Listeners(t)[i].cb] = Code[h] /\ i \in Nat
  BY <1>1, ListIs DEF getHandlerIdx
<1>3. \A j \in getHandlerIdx(t, h) : j = i
  BY <1>2, ListIs DEF getHandlerIdx, Distinct
<1> QED
  BY <1>2, <1>3, FirstIs

LEMMA IdIs ==
  ASSUME BusInv, NEW t \in Topics, NEW id, idIdx(t, id) # {}
  PROVE  First(idIdx(t, id)) \in DOMAIN Listeners(t) /\ Listeners(t)[First(idIdx(t, id))].gid = id
<1>1. PICK i \in idIdx(t, id) : TRUE
  OBVIOUS
<1>2. i \in DOMAIN Listeners(t) /\ Listeners(t)[i].gid = id /\ i \in Nat
  BY <1>1, ListIs DEF idIdx
<1>3. \A j \in idIdx(t, id) : j = i
  BY <1>2, ListIs DEF idIdx, Distinct
<1> QED
  BY <1>2, <1>3, FirstIs

LEMMA SubscribeKeeps ==
  ASSUME BusOK, BusInv, NEW t \in Topics, NEW h \in Handlers, Subscribe(t, h)
  PROVE  BusInv'
<1> DEFINE new == IsBus /\ t \notin consumers
           last == IF new THEN 0 ELSE autoID[t]
           I == getHandlerIdx(t, h)
           gid == IF I # {} THEN Listeners(t)[First(I)].gid ELSE last + 1
           s == IF I # {} THEN Listeners(t) ELSE Append(Listeners(t), [gid |-> gid, cb |-> h])
<1>1. /\ consumers' = IF IsBus THEN consumers \union {t} ELSE consumers
      /\ consumersMade' = IF new THEN [consumersMade EXCEPT ![t] = @ + 1] ELSE consumersMade
      /\ subs' = IF new /\ kind = "nats" THEN subs \union {<<t, consumersMade[t] + 1>>} ELSE subs
      /\ I # {} => UNCHANGED <<arrays, list, autoID>>
      /\ I = {} => Replace(t, s) /\ autoID' = [autoID EXCEPT ![t] = gid]
      /\ ids' = [ids EXCEPT ![h][t] = gid]
      /\ UNCHANGED <<kind, events, owed, ran, tasks, hurt>>
  BY DEF Subscribe, NewConsumer, published
<1>2. /\ consumersMade \in [Topics -> Nat] /\ autoID \in [Topics -> Nat] /\ ids \in [Handlers -> [Topics -> Nat]]
      /\ consumers \subseteq Topics /\ subs \subseteq Topics \X Nat
  BY DEF BusInv, BusType
<1>3. I # {} => First(I) \in DOMAIN Listeners(t) /\ Code[Listeners(t)[First(I)].cb] = Code[h]
  BY HandlerIs
<1>4. last \in Nat /\ gid \in Nat /\ (I = {} => gid = last + 1)
  BY <1>2, <1>3, ListIs
<1>5. new => Listeners(t) = <<>> /\ I = {}
  <2>1. new => list[t] = 0 /\ Listeners(t) = <<>>
    BY ListIs DEF Listed
  <2>2. Listeners(t) = <<>> => I = {}
    BY ListIs, EmptySeq DEF getHandlerIdx
  <2> QED
    BY <2>1, <2>2
<1>6. I = {} => \A i \in DOMAIN Listeners(t) : Listeners(t)[i].gid # gid /\ Code[Listeners(t)[i].cb] # Code[h]
  <2> SUFFICES ASSUME I = {}, NEW i \in DOMAIN Listeners(t)
               PROVE  Listeners(t)[i].gid # gid /\ Code[Listeners(t)[i].cb] # Code[h]
    OBVIOUS
  <2>1. Code[Listeners(t)[i].cb] # Code[h]
    BY DEF getHandlerIdx
  <2>2. ~new
    BY <1>5, ListIs, EmptySeq
  <2>3. Listeners(t)[i].gid \in 1 .. autoID[t] /\ gid = autoID[t] + 1
    BY <1>4, <2>2, ListIs
  <2> QED
    BY <1>2, <2>1, <2>3
<1> HIDE DEF new, last, I, gid
<1>7. /\ s \in Seq(Listener) /\ Distinct(s) /\ s # <<>>
      /\ \A i \in DOMAIN s : \/ I = {} /\ s[i] = [gid |-> gid, cb |-> h]
                             \/ \E k \in DOMAIN Listeners(t) : s[i] = Listeners(t)[k]
  <2>1. CASE I # {}
    BY <1>3, <2>1, ListIs, EmptySeq
  <2>2. CASE I = {}
    <3> DEFINE l == [gid |-> gid, cb |-> h]
    <3>1. l \in Listener /\ l.gid = gid /\ l.cb = h
      BY <1>4 DEF Listener
    <3> HIDE DEF l
    <3>2. \A i \in DOMAIN Listeners(t) : Listeners(t)[i].gid # l.gid /\ Code[Listeners(t)[i].cb] # Code[l.cb]
      BY <1>6, <2>2, <3>1
    <3>3. s = Append(Listeners(t), l)
      BY <2>2 DEF l
    <3> QED
      BY <2>2, <3>1, <3>2, <3>3, AppendDistinct, ListIs DEF l
  <2> QED
    BY <2>1, <2>2
<1>8. \A i \in DOMAIN s : s[i].gid \in 1 .. autoID'[t]
  <2>1. I = {} => autoID'[t] = gid /\ gid \in 1 .. gid
    <3>1. I = {} => gid \in Nat /\ gid >= 1
      BY <1>4
    <3> QED
      BY <1>1, <1>2, <3>1
  <2>2. \A k \in DOMAIN Listeners(t) : Listeners(t)[k].gid \in 1 .. autoID'[t]
    <3>1. CASE I # {}
      BY <1>1, <3>1, ListIs
    <3>2. CASE I = {} /\ Listeners(t) # <<>>
      <4>1. gid = autoID[t] + 1 /\ autoID[t] \in Nat
        BY <1>2, <1>4, <1>5, <3>2 DEF last
      <4>2. \A k \in DOMAIN Listeners(t) : Listeners(t)[k].gid \in 1 .. autoID[t]
        BY ListIs
      <4> QED
        BY <2>1, <3>2, <4>1, <4>2
    <3>3. CASE Listeners(t) = <<>>
      BY <3>3, ListIs, EmptySeq
    <3> QED
      BY <3>1, <3>2, <3>3
  <2>3. ASSUME NEW i \in DOMAIN s, I = {}, s[i] = [gid |-> gid, cb |-> h] PROVE s[i].gid \in 1 .. autoID'[t]
    BY <2>1, <2>3
  <2> HIDE DEF s
  <2> QED
    BY <1>7, <2>2, <2>3
<1>9. \A u \in Topics \ {t} : autoID'[u] = autoID[u] /\ (u \in consumers' <=> u \in consumers)
  BY <1>1, <1>2
<1>10. IsBus /\ s # <<>> => t \in consumers'
  BY <1>1
<1>11. /\ arrays' \in [Arrays -> Seq(Listener)] /\ list' \in [Topics -> Arrays]
       /\ arrays'[0] = <<>> /\ (\A u \in Topics : Listed(u)') /\ BusCalls'
       /\ Listeners(t)' = s /\ \A u \in Topics \ {t} : Listeners(u)' = Listeners(u)
  <2>1. Replace(t, s) \/ (UNCHANGED <<arrays, list>> /\ s = Listeners(t))
    BY <1>1
  <2> HIDE DEF s
  <2> QED
    BY <1>1, <1>7, <1>8, <1>9, <1>10, <2>1, ListSet
<1>12. BusType'
  <2>1. consumersMade' \in [Topics -> Nat] /\ consumers' \subseteq Topics /\ subs' \subseteq Topics \X Nat
    BY <1>1, <1>2
  <2>2. autoID' \in [Topics -> Nat] /\ ids' \in [Handlers -> [Topics -> Nat]]
    BY <1>1, <1>2, <1>4
  <2> HIDE DEF s
  <2> QED
    BY <1>1, <1>11, <2>1, <2>2 DEF BusInv, BusType
<1>13. kind' = "events" => ~hurt' /\ \A g \in Handlers, u \in Topics : Given(g, u)'
  <2> SUFFICES ASSUME kind = "events" PROVE ~hurt' /\ \A g \in Handlers, u \in Topics : Given(g, u)'
    BY <1>1
  <2>1. ~hurt /\ \A g \in Handlers, u \in Topics : Given(g, u)
    BY DEF BusInv, BusLists
  <2>2. ~new /\ last = autoID[t]
    BY DEF new, last, IsBus
  <2>3. ASSUME NEW g \in Handlers, NEW u \in Topics \ {t} PROVE Given(g, u)'
    <3>1. Listeners(u)' = Listeners(u) /\ ids'[g][u] = ids[g][u] /\ autoID'[u] = autoID[u]
      BY <1>1, <1>2, <1>9, <1>11
    <3> QED
      BY <2>1, <3>1 DEF Given
  <2>4. ASSUME NEW g \in Handlers PROVE Given(g, t)'
    <3>0. Listeners(t)' = s /\ Given(g, t) /\ autoID[t] \in Nat /\ ids[g][t] \in Nat
      BY <1>2, <1>11, <2>1
    <3>1. CASE I # {} /\ g # h
      <4>1. ids'[g][t] = ids[g][t] /\ autoID'[t] = autoID[t] /\ s = Listeners(t)
        BY <1>1, <1>2, <3>1
      <4> QED
        BY <3>0, <4>1 DEF Given
    <3>2. CASE I # {} /\ g = h
      <4>1. ids'[g][t] = gid /\ autoID'[t] = autoID[t] /\ s = Listeners(t) /\ gid = Listeners(t)[First(I)].gid
        BY <1>1, <1>2, <3>2 DEF gid
      <4>2. gid <= autoID[t]
        BY <1>3, <3>0, <3>2, <4>1, ListIs
      <4>3. \A i \in DOMAIN Listeners(t) : Listeners(t)[i].gid = gid => Code[Listeners(t)[i].cb] = Code[g]
        <5>1. \A i \in DOMAIN Listeners(t) : Listeners(t)[i].gid = gid => i = First(I)
          BY <1>3, <3>2, <4>1, ListIs DEF Distinct
        <5> QED
          BY <1>3, <3>2, <5>1
      <4> HIDE DEF s
      <4> QED
        BY <3>0, <4>1, <4>2, <4>3 DEF Given
    <3>3. CASE I = {} /\ g # h
      <4>1. ids'[g][t] = ids[g][t] /\ autoID'[t] = gid /\ gid = autoID[t] + 1
        BY <1>1, <1>2, <1>4, <2>2, <3>3
      <4>2. ids[g][t] <= autoID[t]
        BY <3>0 DEF Given
      <4>3. ids[g][t] <= gid /\ ids[g][t] # gid
        BY <3>0, <4>1, <4>2
      <4>4. ASSUME NEW i \in DOMAIN s, s[i].gid = ids[g][t] PROVE Code[s[i].cb] = Code[g]
        <5>1. s[i] # [gid |-> gid, cb |-> h]
          BY <4>3, <4>4
        <5>2. PICK k \in DOMAIN Listeners(t) : s[i] = Listeners(t)[k]
          BY <1>7, <5>1
        <5> QED
          BY <3>0, <4>4, <5>2 DEF Given
      <4> HIDE DEF s
      <4> QED
        BY <3>0, <4>1, <4>3, <4>4 DEF Given
    <3>4. CASE I = {} /\ g = h
      <4>1. ids'[g][t] = gid /\ autoID'[t] = gid /\ gid = autoID[t] + 1
        BY <1>1, <1>2, <1>4, <2>2, <3>4
      <4>2. ASSUME NEW i \in DOMAIN s, s[i].gid = gid PROVE Code[s[i].cb] = Code[g]
        <5>1. CASE s[i] = [gid |-> gid, cb |-> h]
          BY <3>4, <5>1
        <5>2. CASE s[i] # [gid |-> gid, cb |-> h]
          <6>1. PICK k \in DOMAIN Listeners(t) : s[i] = Listeners(t)[k]
            BY <1>7, <5>2
          <6> QED
            BY <1>6, <3>4, <4>2, <6>1
        <5> QED
          BY <5>1, <5>2
      <4> HIDE DEF s
      <4> QED
        BY <1>4, <3>0, <4>1, <4>2 DEF Given
    <3> QED
      BY <3>1, <3>2, <3>3, <3>4
  <2> QED
    BY <1>1, <2>1, <2>3, <2>4
<1> HIDE DEF s
<1> QED
  BY <1>11, <1>12, <1>13 DEF BusInv, BusLists

\* Whoever takes listeners away leaves the rest as they were.
LEMMA DropKeeps ==
  ASSUME BusOK, BusInv, NEW t \in Topics, NEW s \in Seq(Listener), Distinct(s),
         \A i \in DOMAIN s : \E k \in DOMAIN Listeners(t) : s[i] = Listeners(t)[k],
         Replace(t, s) \/ (UNCHANGED <<arrays, list>> /\ s = Listeners(t)), DropConsumer(t, s),
         UNCHANGED <<kind, consumersMade, autoID, events, owed, ran, tasks>>,
         ids' \in [Handlers -> [Topics -> Nat]],
         \A g \in Handlers, u \in Topics : ids'[g][u] \in {0, ids[g][u]},
         kind = "events" => ~hurt'
  PROVE  BusInv'
<1>1. /\ consumers \subseteq Topics /\ consumersMade \in [Topics -> Nat] /\ (IsBus /\ Listeners(t) # <<>> => t \in consumers)
      /\ subs \subseteq Topics \X Nat
      /\ kind = "events" => \A g \in Handlers, u \in Topics : Given(g, u)
  BY ListIs DEF BusInv, BusType, BusLists, Listed
<1>2. \A i \in DOMAIN s : s[i].gid \in 1 .. autoID'[t] /\ s[i].gid # 0
  BY ListIs
<1>3. Listeners(t) = <<>> => s = <<>>
  <2>1. s # <<>> => 1 \in DOMAIN s
    BY EmptySeq, LenProperties
  <2>2. Listeners(t) = <<>> => DOMAIN Listeners(t) = {}
    BY ListIs, EmptySeq
  <2> QED
    BY <2>1, <2>2
<1>4. /\ consumers' \subseteq consumers /\ \A u \in Topics \ {t} : u \in consumers' <=> u \in consumers
      /\ IsBus /\ s # <<>> => t \in consumers'
      /\ subs' \subseteq subs
  BY <1>1, <1>3 DEF DropConsumer
<1>5. /\ arrays' \in [Arrays -> Seq(Listener)] /\ list' \in [Topics -> Arrays]
      /\ arrays'[0] = <<>> /\ (\A u \in Topics : Listed(u)') /\ BusCalls'
      /\ Listeners(t)' = s /\ \A u \in Topics \ {t} : Listeners(u)' = Listeners(u)
  BY <1>2, <1>4, ListSet
<1>6. BusType'
  BY <1>1, <1>4, <1>5 DEF BusInv, BusType
<1>7. kind = "events" => \A g \in Handlers, u \in Topics : Given(g, u)'
  <2> SUFFICES ASSUME kind = "events", NEW g \in Handlers, NEW u \in Topics PROVE Given(g, u)'
    OBVIOUS
  <2>1. Given(g, u) /\ autoID'[u] = autoID[u] /\ autoID[u] \in Nat
    BY <1>1 DEF BusInv, BusType
  <2>2. ids'[g][u] \in Nat /\ ids'[g][u] <= autoID[u] /\ (ids'[g][u] = 0 \/ ids'[g][u] = ids[g][u])
    BY <2>1 DEF Given
  <2>3. CASE u = t
    <3>1. ASSUME NEW i \in DOMAIN s, s[i].gid = ids'[g][u] PROVE Code[s[i].cb] = Code[g]
      <4>1. PICK k \in DOMAIN Listeners(t) : s[i] = Listeners(t)[k]
        OBVIOUS
      <4>2. ids'[g][u] = ids[g][u]
        BY <1>2, <2>2, <3>1
      <4> QED
        BY <2>1, <2>3, <3>1, <4>1, <4>2 DEF Given
    <3> QED
      BY <1>5, <2>1, <2>2, <2>3, <3>1 DEF Given
  <2>4. CASE u # t
    <3>1. Listeners(u)' = Listeners(u)
      BY <1>5, <2>4
    <3>2. \A i \in DOMAIN Listeners(u) : Listeners(u)[i].gid # 0
      BY ListIs
    <3> QED
      BY <2>1, <2>2, <3>1, <3>2 DEF Given
  <2> QED
    BY <2>3, <2>4
<1> QED
  BY <1>5, <1>6, <1>7 DEF BusInv, BusLists

\* What is left of a list without the listener at i.
LEMMA RemovedKeeps ==
  ASSUME BusInv, NEW t \in Topics, NEW i, i \in DOMAIN Listeners(t)
  PROVE  /\ Removed(Listeners(t), i) \in Seq(Listener) /\ Distinct(Removed(Listeners(t), i))
         /\ \A j \in DOMAIN Removed(Listeners(t), i) :
               \E k \in DOMAIN Listeners(t) : Removed(Listeners(t), i)[j] = Listeners(t)[k]
<1>1. Listeners(t) \in Seq(Listener) /\ Distinct(Listeners(t))
  BY ListIs
<1>2. Distinct(Removed(Listeners(t), i))
  BY <1>1, RemovedDistinct
<1> QED
  BY <1>1, <1>2, RemovedIs

LEMMA UnsubscribeKeeps ==
  ASSUME BusOK, BusInv, NEW t \in Topics, NEW h \in Handlers, Unsubscribe(t, h)
  PROVE  BusInv'
<1> DEFINE I == getHandlerIdx(t, h)
           s == IF I = {} THEN Listeners(t) ELSE Removed(Listeners(t), First(I))
<1>1. /\ I = {} => UNCHANGED <<arrays, list>>
      /\ I # {} => Replace(t, s)
      /\ DropConsumer(t, s) /\ ids' = [ids EXCEPT ![h][t] = 0]
      /\ UNCHANGED <<kind, consumersMade, autoID, events, owed, ran, tasks, hurt>>
  BY DEF Unsubscribe, published
<1>2. /\ s \in Seq(Listener) /\ Distinct(s)
      /\ \A i \in DOMAIN s : \E k \in DOMAIN Listeners(t) : s[i] = Listeners(t)[k]
  BY ListIs, HandlerIs, RemovedKeeps
<1>3. ids \in [Handlers -> [Topics -> Nat]] /\ (kind = "events" => ~hurt)
  BY DEF BusInv, BusType, BusLists
<1>4. /\ ids' \in [Handlers -> [Topics -> Nat]]
      /\ \A g \in Handlers, u \in Topics : ids'[g][u] \in {0, ids[g][u]}
  BY <1>1, <1>3
<1>5. Replace(t, s) \/ (UNCHANGED <<arrays, list>> /\ s = Listeners(t))
  BY <1>1
<1> HIDE DEF s
<1> QED
  BY <1>1, <1>2, <1>3, <1>4, <1>5, DropKeeps

LEMMA UnsubscribeByIDKeeps ==
  ASSUME BusOK, BusInv, NEW t \in Topics, NEW h \in Handlers, UnsubscribeByID(t, h)
  PROVE  BusInv'
<1> DEFINE I == idIdx(t, ids[h][t])
           s == IF I = {} THEN Listeners(t) ELSE Removed(Listeners(t), First(I))
<1>1. /\ I = {} => UNCHANGED <<arrays, list>>
      /\ I # {} => Replace(t, s)
      /\ DropConsumer(t, s) /\ ids' = [ids EXCEPT ![h][t] = 0]
      /\ UNCHANGED <<kind, consumersMade, autoID, events, owed, ran, tasks>>
  BY DEF UnsubscribeByID, published
<1>2. /\ s \in Seq(Listener) /\ Distinct(s)
      /\ \A i \in DOMAIN s : \E k \in DOMAIN Listeners(t) : s[i] = Listeners(t)[k]
  BY ListIs, IdIs, RemovedKeeps
<1>3. ids \in [Handlers -> [Topics -> Nat]] /\ (kind = "events" => ~hurt /\ Given(h, t))
  BY DEF BusInv, BusType, BusLists
<1>4. /\ ids' \in [Handlers -> [Topics -> Nat]]
      /\ \A g \in Handlers, u \in Topics : ids'[g][u] \in {0, ids[g][u]}
  BY <1>1, <1>3
<1>5. Replace(t, s) \/ (UNCHANGED <<arrays, list>> /\ s = Listeners(t))
  BY <1>1
<1>6. kind = "events" => ~hurt'
  <2>1. kind = "events" => ~(I # {} /\ Code[Listeners(t)[First(I)].cb] # Code[h])
    BY <1>3, IdIs DEF Given
  <2>2. hurt' = (hurt \/ (I # {} /\ Code[Listeners(t)[First(I)].cb] # Code[h]))
    BY DEF UnsubscribeByID
  <2> QED
    BY <1>3, <2>1, <2>2, Zenon
<1> HIDE DEF s
<1> QED
  BY <1>1, <1>2, <1>4, <1>5, <1>6, DropKeeps

LEMMA UnsubscribeKeyKeeps ==
  ASSUME BusOK, BusInv, NEW t \in Topics, UnsubscribeKey(t)
  PROVE  BusInv'
<1>1. ~IsBus /\ Replace(t, <<>>) /\ UNCHANGED <<kind, consumers, consumersMade, subs, failed, autoID, ids, events, owed, ran, tasks, hurt>>
  BY DEF UnsubscribeKey, published
<1>2. DropConsumer(t, <<>>)
  BY <1>1 DEF DropConsumer
<1>3. <<>> \in Seq(Listener) /\ DOMAIN <<>> = {}
  BY EmptySeq, LenProperties
<1>4. Distinct(<<>>)
  BY <1>3 DEF Distinct
<1>5. ids \in [Handlers -> [Topics -> Nat]] /\ (kind = "events" => ~hurt)
  BY DEF BusInv, BusType, BusLists
<1>6. ids' \in [Handlers -> [Topics -> Nat]] /\ (\A g \in Handlers, u \in Topics : ids'[g][u] \in {0, ids[g][u]})
      /\ (kind = "events" => ~hurt')
  BY <1>1, <1>5
<1> QED
  BY <1>1, <1>2, <1>3, <1>4, <1>6, DropKeeps

LEMMA UnsubscribeAllKeeps ==
  ASSUME BusOK, BusInv, UnsubscribeAll
  PROVE  BusInv'
<1>1. /\ IsBus /\ list' = [t \in Topics |-> 0]
      /\ arrays' = [a \in Arrays |-> IF a \in InUse THEN arrays[a] ELSE <<>>]
      /\ consumers' = {} /\ subs' \subseteq subs
      /\ UNCHANGED <<kind, consumersMade, autoID, ids, events, owed, ran, tasks, hurt>>
  BY DEF UnsubscribeAll, published
<1>2. arrays \in [Arrays -> Seq(Listener)] /\ arrays[0] = <<>> /\ 0 \in Arrays /\ 0 \in InUse
  BY FreshIsFree DEF BusInv, BusType, BusLists
<1>3. arrays'[0] = <<>> /\ \A e \in Events : events[e].at = "loop" => arrays'[events[e].arr] = arrays[events[e].arr]
  <2>1. \A e \in Events : events[e].at = "loop" => events[e].arr \in InUse /\ events[e].arr \in Arrays
    BY DEF InUse, BusInv, BusType, Event
  <2> QED
    BY <1>1, <1>2, <2>1
<1>4. arrays' \in [Arrays -> Seq(Listener)]
  <2>1. <<>> \in Seq(Listener)
    BY EmptySeq
  <2>2. \A a \in Arrays : arrays[a] \in Seq(Listener)
    BY <1>2
  <2> QED
    BY <1>1, <2>1, <2>2
<1>5. BusCalls'
  BY <1>1, <1>3, CallsGoOn DEF BusInv
<1>6. ASSUME NEW t \in Topics PROVE Listed(t)'
  <2>1. Listeners(t)' = <<>> /\ list'[t] = 0 /\ t \notin consumers'
    BY <1>1, <1>3 DEF Listeners
  <2>2. DOMAIN <<>> = {}
    BY EmptySeq, LenProperties
  <2> QED
    BY <2>1, <2>2 DEF Listed, Distinct
<1>7. BusType'
  <2>1. list' \in [Topics -> Arrays]
    BY <1>1, <1>2
  <2> QED
    BY <1>1, <1>4, <2>1 DEF BusInv, BusType
<1>8. kind' # "events"
  BY <1>1 DEF IsBus
<1> QED
  BY <1>3, <1>5, <1>6, <1>7, <1>8 DEF BusInv, BusLists

-----------------------------------------------------------------------------
(* Publishing *)

\* A publication's own step leaves the lists and the other publications alone.
LEMMA CallSteps ==
  ASSUME BusInv, NEW e \in Events,
         UNCHANGED <<kind, arrays, list, consumers, consumersMade, subs, autoID, ids, hurt>>,
         \A f \in Events \ {e} : /\ events'[f] = events[f] /\ owed'[f] = owed[f] /\ ran'[f] = ran[f]
                                 /\ TasksOf(f)' = TasksOf(f),
         BusType', Called(e)'
  PROVE  BusInv'
<1>1. BusLists'
  <2>1. \A t \in Topics : Listeners(t)' = Listeners(t)
    BY DEF Listeners
  <2>2. IsBus' = IsBus
    BY DEF IsBus
  <2>3. \A t \in Topics : Listed(t)'
    BY <2>1, <2>2 DEF BusInv, BusLists, Listed
  <2>4. kind = "events" => \A g \in Handlers, t \in Topics : Given(g, t)'
    BY <2>1 DEF BusInv, BusLists, Given
  <2>5. /\ arrays'[0] = <<>> /\ (kind' = "events" => ~hurt')
    BY DEF BusInv, BusLists
  <2> QED
    BY <2>3, <2>4, <2>5 DEF BusLists
<1>2. ASSUME NEW f \in Events \ {e} PROVE Called(f)'
  <2>1. Called(f)
    BY DEF BusInv, BusCalls
  <2>2. Reached(f)' = Reached(f) /\ Owed(f)' = Owed(f)
    BY DEF Reached, Owed
  <2>3. \A c : c \in TasksOf(f) <=> c \in tasks /\ c[1] = f
    BY DEF TasksOf
  <2>4. \A n : <<f, n>> \in tasks' <=> <<f, n>> \in tasks
    <3>1. \A n : <<f, n>> \in tasks' <=> <<f, n>> \in TasksOf(f)'
      BY DEF TasksOf
    <3> QED
      BY <2>3, <3>1
  <2> QED
    BY <2>1, <2>2, <2>4 DEF Called
<1> QED
  BY <1>1, <1>2 DEF BusInv, BusCalls

LEMMA NoListener ==
  <<>> \in Seq(Listener) /\ DOMAIN <<>> = {} /\ Distinct(<<>>) /\ IsInjective(<<>>)
<1>1. <<>> \in Seq(Listener) /\ Len(<<>>) = 0
  BY EmptySeq
<1>2. DOMAIN <<>> = {}
  BY <1>1, LenProperties
<1> QED
  BY <1>1, <1>2 DEF Distinct, IsInjective

\* A publication that has found no listener has called none.
LEMMA NothingOwed ==
  ASSUME BusInv, NEW e \in Events, events[e].at \in {"idle", "wire"}
  PROVE  owed[e] = <<>> /\ ran[e] = <<>> /\ TasksOf(e) = {} /\ Len(<<>>) = 0 /\ Cardinality({}) = 0
<1>1. Called(e) /\ ran \in [Events -> Seq(Nat)] /\ tasks \subseteq Events \X Nat /\ IsFiniteSet(tasks)
  BY DEF BusInv, BusCalls, BusType
<1>2. owed[e] = <<>> /\ Len(<<>>) = 0
  BY <1>1, EmptySeq DEF Called
<1>3. Reached(e) = 0
  BY <1>2 DEF Reached
<1>4. IsFiniteSet(TasksOf(e)) /\ Cardinality(TasksOf(e)) \in Nat
  BY <1>1, FS_Subset, FS_CardinalityType DEF TasksOf
<1>5. ran[e] \in Seq(Nat) /\ Len(ran[e]) \in Nat
  BY <1>1, LenProperties
<1>6. Len(ran[e]) + Cardinality(TasksOf(e)) = 0
  BY <1>1, <1>3 DEF Called
<1>7. Len(ran[e]) = 0 /\ Cardinality(TasksOf(e)) = 0
  BY <1>4, <1>5, <1>6
<1>8. TasksOf(e) = {} /\ Cardinality({}) = 0
  BY <1>4, <1>7, FS_EmptySet
<1>9. ran[e] = <<>>
  BY <1>5, <1>7, EmptySeq
<1> QED
  BY <1>2, <1>8, <1>9

\* A publication starts on the list of a topic, waits on the wire or ends
\* before it has found a listener.
EventStarts(e, t, n) ==
  /\ events[e].at \in {"idle", "wire"} /\ t \in Topics \cup {""} /\ n \in Nat
  /\ \/ t \in Topics /\ Snapshot(e, t)
     \/ Finish(e) /\ UNCHANGED owed
     \/ /\ events' = [events EXCEPT ![e] = [IdleEvent EXCEPT !.at = "wire", !.topic = t, !.inst = n]]
        /\ UNCHANGED owed

LEMMA StartKeeps ==
  ASSUME BusOK, BusInv, NEW e \in Events, NEW t, NEW n, EventStarts(e, t, n),
         UNCHANGED <<kind, arrays, list, consumers, consumersMade, subs, autoID, ids, ran, tasks, hurt>>
  PROVE  BusInv'
<1>1. /\ events \in [Events -> Event]
      /\ owed \in [Events -> Seq(Listener)] /\ consumersMade \in [Topics -> Nat] /\ list \in [Topics -> Arrays]
      /\ 0 \in Arrays
  BY FreshIsFree DEF BusInv, BusType
<1>2. owed[e] = <<>> /\ ran[e] = <<>> /\ TasksOf(e) = {} /\ Len(<<>>) = 0 /\ Cardinality({}) = 0
  BY NothingOwed DEF EventStarts
<1>3. PICK ev, o : /\ events' = [events EXCEPT ![e] = ev] /\ owed' = [owed EXCEPT ![e] = o]
                   /\ ev \in Event
                   /\ o \in Seq(Listener) /\ Distinct(o)
                   /\ \/ ev.at = "loop" /\ arrays[ev.arr] = o /\ ev.i = 1
                      \/ ev.at \in {"wire", "done"} /\ o = <<>>
  <2>0. t \in Topics \cup {""} /\ n \in Nat
    BY DEF EventStarts
  <2>1. CASE t \in Topics /\ Snapshot(e, t)
    <3> DEFINE ev == [at |-> "loop", topic |-> t, inst |-> consumersMade[t], arr |-> list[t], i |-> 1]
    <3>1. events' = [events EXCEPT ![e] = ev] /\ owed' = [owed EXCEPT ![e] = Listeners(t)]
      BY <2>1 DEF Snapshot
    <3>2. /\ ev \in Event
          /\ ev.at = "loop" /\ ev.arr = list[t] /\ ev.i = 1
      BY <1>1, <2>1 DEF Event
    <3> HIDE DEF ev
    <3>3. Listeners(t) \in Seq(Listener) /\ Distinct(Listeners(t)) /\ Listeners(t) = arrays[list[t]]
      BY <2>1, ListIs DEF Listeners
    <3> QED
      BY <3>1, <3>2, <3>3
  <2>2. CASE UNCHANGED owed /\ (Finish(e) \/ events' = [events EXCEPT ![e] = [IdleEvent EXCEPT !.at = "wire", !.topic = t, !.inst = n]])
    <3>1. owed' = [owed EXCEPT ![e] = <<>>] /\ Distinct(<<>>) /\ <<>> \in Seq(Listener)
      BY <1>1, <1>2, <2>2, NoListener
    <3>2. CASE Finish(e)
      <4> DEFINE ev == [IdleEvent EXCEPT !.at = "done"]
      <4>1. events' = [events EXCEPT ![e] = ev]
        BY <3>2 DEF Finish
      <4>2. /\ ev \in Event
            /\ ev.at = "done"
        BY <1>1 DEF IdleEvent, Event
      <4> HIDE DEF ev
      <4> QED
        BY <3>1, <4>1, <4>2
    <3>3. CASE events' = [events EXCEPT ![e] = [IdleEvent EXCEPT !.at = "wire", !.topic = t, !.inst = n]]
      <4> DEFINE ev == [IdleEvent EXCEPT !.at = "wire", !.topic = t, !.inst = n]
      <4>1. /\ ev \in Event
            /\ ev.at = "wire"
        BY <1>1, <2>0 DEF IdleEvent, Event
      <4>2. events' = [events EXCEPT ![e] = ev]
        BY <3>3
      <4> HIDE DEF ev
      <4> QED
        BY <3>1, <4>1, <4>2
    <3> QED
      BY <2>2, <3>2, <3>3
  <2> QED
    BY <2>1, <2>2 DEF EventStarts
<1>4. events'[e] = ev /\ owed'[e] = o /\ ran'[e] = <<>> /\ TasksOf(e)' = {}
  BY <1>1, <1>2, <1>3 DEF TasksOf
<1>5. Called(e)'
  <2>1. Len(o) \in Nat
    BY <1>3, LenProperties
  <2>2. events'[e].at = ev.at /\ events'[e].i = ev.i /\ events'[e].arr = ev.arr /\ ev.i \in Nat
    BY <1>3, <1>4 DEF Event
  <2>3. Reached(e)' = 0
    <3>1. CASE ev.at = "loop"
      <4>1. ev.i = 1
        BY <1>3, <3>1
      <4>2. 1 - 1 = 0
        OBVIOUS
      <4>3. events'[e].i = 1
        BY <2>2, <4>1
      <4>4. Reached(e)' = events'[e].i - 1
        BY <2>2, <3>1 DEF Reached
      <4> QED
        BY <4>2, <4>3, <4>4
    <3>2. CASE ev.at # "loop"
      <4>1. Len(owed'[e]) = 0
        BY <1>2, <1>3, <1>4, <3>2
      <4> QED
        BY <2>2, <3>2, <4>1 DEF Reached
    <3> QED
      BY <3>1, <3>2
  <2>4. events'[e].at \in {"idle", "wire"} => owed'[e] = <<>>
    BY <1>3, <1>4, <2>2
  <2>5. events'[e].at = "loop" => arrays'[events'[e].arr] = owed'[e] /\ events'[e].i \in 1 .. Len(owed'[e]) + 1
    <3>1. 1 \in 1 .. Len(o) + 1
      BY <2>1
    <3> QED
      BY <1>3, <1>4, <2>2, <3>1
  <2>6. Distinct(owed'[e]) /\ IsInjective(ran'[e]) /\ DOMAIN ran'[e] = {}
    BY <1>3, <1>4, NoListener
  <2>7. Len(ran'[e]) + Cardinality(TasksOf(e)') = Reached(e)'
    BY <1>2, <1>4, <2>3
  <2> QED
    BY <1>4, <2>4, <2>5, <2>6, <2>7, Zenon DEF Called
<1>6. BusType'
  <2>1. events' \in [Events -> Event]
    BY <1>1, <1>3
  <2>2. owed' \in [Events -> Seq(Listener)]
    BY <1>1, <1>3
  <2> QED
    BY <2>1, <2>2 DEF BusInv, BusType
<1>7. \A f \in Events \ {e} : /\ events'[f] = events[f] /\ owed'[f] = owed[f] /\ ran'[f] = ran[f]
                              /\ TasksOf(f)' = TasksOf(f)
  BY <1>1, <1>3 DEF TasksOf
<1> QED
  BY <1>5, <1>6, <1>7, CallSteps

LEMMA PublishKeeps ==
  ASSUME BusOK, BusInv, NEW e \in Events, NEW t \in Topics, Publish(e, t)
  PROVE  BusInv'
<1>1. /\ events[e].at = "idle" /\ consumersMade[t] \in Nat
      /\ UNCHANGED <<kind, arrays, list, consumers, consumersMade, subs, autoID, ids, ran, tasks, hurt>>
  BY DEF Publish, BusInv, BusType
<1>2. \E n \in Nat :
         \/ Snapshot(e, t)
         \/ UNCHANGED owed /\ Finish(e)
         \/ /\ UNCHANGED owed
            /\ events' = [events EXCEPT ![e] = [IdleEvent EXCEPT !.at = "wire", !.topic = t, !.inst = n]]
  <2>1. kind \in {"events", "local", "nats"} /\ subs \subseteq Topics \X Nat
    BY DEF BusInv, BusType
  <2>2. CASE kind = "events"
    BY <2>2 DEF Publish
  <2>3. CASE kind = "local"
    BY <2>3 DEF Publish
  <2>4. CASE kind = "nats"
    <3>1. UNCHANGED owed /\ (Finish(e) \/ \E x \in subs : x[1] = t /\ Sent(e, x))
      BY <2>4 DEF Publish
    <3>2. ASSUME NEW x \in subs, x[1] = t, Sent(e, x)
          PROVE  /\ x[2] \in Nat
                 /\ events' = [events EXCEPT ![e] = [IdleEvent EXCEPT !.at = "wire", !.topic = t, !.inst = x[2]]]
      BY <2>1, <3>2 DEF Sent
    <3> QED
      BY <3>1, <3>2
  <2> QED
    BY <2>1, <2>2, <2>3, <2>4
<1>3. \E n \in Nat : EventStarts(e, t, n)
  BY <1>1, <1>2 DEF EventStarts
<1> QED
  BY <1>1, <1>3, StartKeeps

LEMMA DispatchKeeps ==
  ASSUME BusOK, BusInv, NEW e \in Events, Dispatch(e)
  PROVE  BusInv'
<1> DEFINE t == events[e].topic
<1>1. /\ events[e].at = "wire" /\ t \in Topics \cup {""} /\ consumers \subseteq Topics
      /\ UNCHANGED <<kind, arrays, list, consumers, consumersMade, subs, autoID, ids, ran, tasks, hurt>>
  BY DEF Dispatch, BusInv, BusType, Event
<1>2. (t \in Topics /\ Snapshot(e, t)) \/ (UNCHANGED owed /\ Finish(e))
  BY <1>1 DEF Dispatch
<1> HIDE DEF t
<1> QED
  BY <1>1, <1>2, StartKeeps DEF EventStarts

LEMMA CallIs ==
  ASSUME BusInv, NEW e \in Events
  PROVE  /\ Called(e) /\ owed[e] \in Seq(Listener) /\ Len(owed[e]) \in Nat /\ DOMAIN owed[e] = 1 .. Len(owed[e])
         /\ \A i \in DOMAIN owed[e] : owed[e][i].gid \in Nat
         /\ ran[e] \in Seq(Nat) /\ Len(ran[e]) \in Nat /\ DOMAIN ran[e] = 1 .. Len(ran[e])
         /\ IsFiniteSet(TasksOf(e)) /\ Cardinality(TasksOf(e)) \in Nat
         /\ \A c \in TasksOf(e) : c = <<e, c[2]>> /\ c[2] \in Nat
<1>1. Called(e) /\ owed[e] \in Seq(Listener) /\ ran[e] \in Seq(Nat) /\ tasks \subseteq Events \X Nat /\ IsFiniteSet(tasks)
  BY DEF BusInv, BusCalls, BusType
<1>2. /\ Len(owed[e]) \in Nat /\ DOMAIN owed[e] = 1 .. Len(owed[e])
      /\ Len(ran[e]) \in Nat /\ DOMAIN ran[e] = 1 .. Len(ran[e])
  BY <1>1, LenProperties
<1>3. \A i \in DOMAIN owed[e] : owed[e][i].gid \in Nat
  <2>1. \A i \in DOMAIN owed[e] : owed[e][i] \in Listener
    BY <1>1, <1>2, ElementOfSeq
  <2> QED
    BY <2>1 DEF Listener
<1>4. IsFiniteSet(TasksOf(e)) /\ Cardinality(TasksOf(e)) \in Nat
  BY <1>1, FS_Subset, FS_CardinalityType DEF TasksOf
<1>5. \A c \in TasksOf(e) : c = <<e, c[2]>> /\ c[2] \in Nat
  BY <1>1 DEF TasksOf
<1> QED
  BY <1>1, <1>2, <1>3, <1>4, <1>5

\* The listener a publication reaches next has not been reached before.
LEMMA NextIsNew ==
  ASSUME BusInv, NEW e \in Events, NEW i, i = events[e].i, events[e].at = "loop", i <= Len(owed[e])
  PROVE  /\ i \in DOMAIN owed[e] /\ i \in Nat /\ Reached(e) = i - 1
         /\ owed[e][i].gid \notin Owed(e) /\ <<e, owed[e][i].gid>> \notin tasks
         /\ \A j \in DOMAIN ran[e] : ran[e][j] # owed[e][i].gid
<1>1. i \in DOMAIN owed[e] /\ i \in Nat /\ Reached(e) = i - 1
  BY CallIs DEF Called, Reached
<1>2. owed[e][i].gid \notin Owed(e)
  <2>1. SUFFICES ASSUME NEW j \in 1 .. i - 1 PROVE owed[e][j].gid # owed[e][i].gid
    BY <1>1 DEF Owed
  <2>2. j \in DOMAIN owed[e] /\ j # i
    BY <1>1, CallIs
  <2> QED
    BY <1>1, <2>2, CallIs DEF Called, Distinct
<1>3. <<e, owed[e][i].gid>> \notin tasks
  <2>1. SUFFICES ASSUME <<e, owed[e][i].gid>> \in tasks PROVE FALSE
    OBVIOUS
  <2>2. <<e, owed[e][i].gid>> \in TasksOf(e)
    BY <2>1 DEF TasksOf
  <2> QED
    BY <1>2, <2>2, CallIs DEF Called
<1> QED
  BY <1>1, <1>2, <1>3, CallIs DEF Called

LEMMA RanOneMore ==
  ASSUME BusInv, NEW e \in Events, NEW g \in Nat, \A j \in DOMAIN ran[e] : ran[e][j] # g,
         ran'[e] = Append(ran[e], g)
  PROVE  /\ ran'[e] \in Seq(Nat) /\ Len(ran'[e]) = Len(ran[e]) + 1 /\ IsInjective(ran'[e])
         /\ \A j \in DOMAIN ran'[e] : (j \in DOMAIN ran[e] /\ ran'[e][j] = ran[e][j])
                                         \/ (j = Len(ran[e]) + 1 /\ ran'[e][j] = g)
<1>1. PICK s, r : s = ran[e] /\ r = ran'[e]
  OBVIOUS
<1>2. s \in Seq(Nat) /\ IsInjective(s) /\ (\A j \in DOMAIN s : s[j] # g) /\ r = Append(s, g)
  BY <1>1, CallIs DEF Called
<1>3. r \in Seq(Nat) /\ Len(r) = Len(s) + 1 /\ (\A j \in 1 .. Len(s) : r[j] = s[j]) /\ r[Len(s) + 1] = g
  BY <1>2, AppendProperties
<1>4. DOMAIN s = 1 .. Len(s) /\ DOMAIN r = 1 .. Len(r) /\ Len(s) \in Nat
  BY <1>2, <1>3, LenProperties
<1>5. \A j \in DOMAIN r : (j \in DOMAIN s /\ r[j] = s[j]) \/ (j = Len(s) + 1 /\ r[j] = g)
  BY <1>3, <1>4
<1>6. IsInjective(r)
  BY <1>2, <1>5 DEF IsInjective
<1> QED
  BY <1>1, <1>3, <1>5, <1>6

\* It has called or handed over all of them.
LEMMA CallEnds ==
  ASSUME BusOK, BusInv, NEW e \in Events, NEW i \in Nat, i = events[e].i, CallNext(e), i > Len(owed[e])
  PROVE  BusInv'
<1> DEFINE ev == [IdleEvent EXCEPT !.at = "done"]
<1>1. /\ events[e].at = "loop" /\ events \in [Events -> Event] /\ 0 \in Arrays
      /\ events' = [events EXCEPT ![e] = ev]
      /\ UNCHANGED <<kind, arrays, list, consumers, consumersMade, subs, autoID, ids, owed, hurt, ran, tasks>>
  BY FreshIsFree DEF CallNext, Finish, BusInv, BusType
<1>2. ev \in Event /\ ev.at = "done"
  BY <1>1 DEF IdleEvent, Event
<1> HIDE DEF ev
<1>3. events' \in [Events -> Event] /\ events'[e].at = "done"
  BY <1>1, <1>2
<1>4. i - 1 = Len(owed[e])
  <2>1. i \in 1 .. Len(owed[e]) + 1 /\ Len(owed[e]) \in Nat
    BY <1>1, CallIs DEF Called
  <2> QED
    BY <2>1
<1>5. TasksOf(e)' = TasksOf(e) /\ Reached(e)' = Reached(e) /\ Owed(e)' = Owed(e)
  <2>1. Reached(e)' = Reached(e)
    BY <1>1, <1>3, <1>4 DEF Reached
  <2> QED
    BY <1>1, <2>1 DEF TasksOf, Owed
<1>6. Called(e)'
  <2>1. /\ events'[e].at \notin {"idle", "wire"} /\ events'[e].at # "loop"
        /\ kind' = kind /\ arrays' = arrays /\ owed' = owed /\ ran' = ran /\ tasks' = tasks
    BY <1>1, <1>3
  <2>2. Called(e)
    BY CallIs
  <2> QED
    BY <1>5, <2>1, <2>2 DEF Called
<1>7. BusType'
  BY <1>1, <1>3 DEF BusInv, BusType
<1>8. \A f \in Events \ {e} : /\ events'[f] = events[f] /\ owed'[f] = owed[f] /\ ran'[f] = ran[f]
                              /\ TasksOf(f)' = TasksOf(f)
  BY <1>1 DEF TasksOf
<1> QED
  BY <1>1, <1>6, <1>7, <1>8, CallSteps

\* It reaches the next one: kkevent calls it, a bus hands it to a goroutine.
LEMMA CallReaches ==
  ASSUME BusInv, NEW e \in Events, NEW i \in Nat, i = events[e].i, CallNext(e), i <= Len(owed[e]),
         NEW g, g = owed[e][i].gid
  PROVE  /\ events' = [events EXCEPT ![e].i = i + 1]
         /\ events' \in [Events -> Event] /\ events'[e].at = "loop"
         /\ events'[e].i = i + 1 /\ events'[e].arr = events[e].arr
         /\ Reached(e) = i - 1 /\ Reached(e)' = i /\ Owed(e)' = Owed(e) \cup {g}
         /\ \/ kind = "events" /\ ran' = [ran EXCEPT ![e] = Append(ran[e], g)] /\ UNCHANGED tasks
            \/ kind # "events" /\ tasks' = tasks \cup {<<e, g>>} /\ UNCHANGED ran
         /\ UNCHANGED <<kind, arrays, list, consumers, consumersMade, subs, autoID, ids, owed, hurt>>
         /\ arrays[events[e].arr] = owed[e] /\ i + 1 \in 1 .. Len(owed[e]) + 1
<1>1. /\ events[e].at = "loop" /\ events \in [Events -> Event] /\ ran \in [Events -> Seq(Nat)]
      /\ UNCHANGED <<kind, arrays, list, consumers, consumersMade, subs, autoID, ids, owed, hurt>>
  BY DEF CallNext, BusInv, BusType
<1>2. arrays[events[e].arr] = owed[e] /\ i \in 1 .. Len(owed[e]) + 1 /\ Len(owed[e]) \in Nat /\ i \in DOMAIN owed[e]
  BY <1>1, CallIs, NextIsNew DEF Called
<1>3. ~(i > Len(owed[e]))
  BY <1>2
<1>4. /\ events' = [events EXCEPT ![e].i = i + 1]
      /\ \/ kind = "events" /\ ran' = [ran EXCEPT ![e] = Append(ran[e], g)] /\ UNCHANGED tasks
         \/ kind # "events" /\ tasks' = tasks \cup {<<e, g>>} /\ UNCHANGED ran
  <2>1. events' = [events EXCEPT ![e].i = i + 1]
    BY <1>1, <1>3 DEF CallNext
  <2>2. CASE kind = "events"
    BY <1>1, <1>2, <1>3, <2>2 DEF CallNext
  <2>3. CASE kind # "events"
    BY <1>1, <1>2, <1>3, <2>3 DEF CallNext
  <2> QED
    BY <2>1, <2>2, <2>3
<1>5. i + 1 \in Nat /\ i + 1 \in 1 .. Len(owed[e]) + 1 /\ (i + 1) - 1 = i
  BY <1>2
<1>6. events' \in [Events -> Event] /\ events'[e].at = "loop" /\ events'[e].i = i + 1 /\ events'[e].arr = events[e].arr
  BY <1>1, <1>4, <1>5 DEF Event
<1>7. Reached(e)' = i
  <2>1. Reached(e)' = events'[e].i - 1
    BY <1>6 DEF Reached
  <2> QED
    BY <1>5, <1>6, <2>1
<1>8. Reached(e) = i - 1
  BY <1>1 DEF Reached
<1>9. Owed(e)' = Owed(e) \cup {g}
  <2>1. 1 .. i = (1 .. i - 1) \cup {i}
    BY <1>2
  <2>2. Owed(e)' = {owed[e][j].gid : j \in 1 .. i} /\ Owed(e) = {owed[e][j].gid : j \in 1 .. i - 1}
    BY <1>1, <1>7, <1>8 DEF Owed
  <2> QED
    BY <2>1, <2>2
<1> QED
  BY <1>1, <1>2, <1>4, <1>5, <1>6, <1>7, <1>8, <1>9

LEMMA CallsOn ==
  ASSUME BusOK, BusInv, NEW e \in Events, NEW i \in Nat, i = events[e].i, CallNext(e), i <= Len(owed[e])
  PROVE  BusInv'
<1>0. PICK g : g = owed[e][i].gid
  OBVIOUS
<1>1. /\ events' = [events EXCEPT ![e].i = i + 1]
      /\ events' \in [Events -> Event] /\ events'[e].at = "loop"
      /\ events'[e].i = i + 1 /\ events'[e].arr = events[e].arr
      /\ Reached(e) = i - 1 /\ Reached(e)' = i /\ Owed(e)' = Owed(e) \cup {g}
      /\ \/ kind = "events" /\ ran' = [ran EXCEPT ![e] = Append(ran[e], g)] /\ UNCHANGED tasks
         \/ kind # "events" /\ tasks' = tasks \cup {<<e, g>>} /\ UNCHANGED ran
      /\ UNCHANGED <<kind, arrays, list, consumers, consumersMade, subs, autoID, ids, owed, hurt>>
      /\ arrays[events[e].arr] = owed[e] /\ i + 1 \in 1 .. Len(owed[e]) + 1
  BY <1>0, CallReaches
<1>2. /\ i \in DOMAIN owed[e] /\ g \in Nat /\ g \notin Owed(e) /\ <<e, g>> \notin tasks
      /\ \A j \in DOMAIN ran[e] : ran[e][j] # g
  <2>1. events[e].at = "loop"
    BY DEF CallNext
  <2> QED
    BY <1>0, <2>1, NextIsNew, CallIs
<1>3. ran \in [Events -> Seq(Nat)] /\ tasks \subseteq Events \X Nat /\ IsFiniteSet(tasks) /\ events \in [Events -> Event]
  BY DEF BusInv, BusType
<1>4. Len(ran[e]) + Cardinality(TasksOf(e)) = i - 1
  BY <1>1, CallIs DEF Called
<1>5. /\ events'[e].at \in {"idle", "wire"} => owed'[e] = <<>>
      /\ events'[e].at = "loop" => arrays'[events'[e].arr] = owed'[e] /\ events'[e].i \in 1 .. Len(owed'[e]) + 1
      /\ Distinct(owed'[e])
  <2>1. Distinct(owed[e]) /\ owed' = owed /\ arrays' = arrays
    BY <1>1, CallIs DEF Called
  <2> QED
    BY <1>1, <2>1
<1>6. \A f \in Events \ {e} : events'[f] = events[f] /\ owed'[f] = owed[f]
  BY <1>1, <1>3
<1>7. CASE kind = "events"
  <2>1. ran' = [ran EXCEPT ![e] = Append(ran[e], g)] /\ tasks' = tasks /\ TasksOf(e) = {}
    BY <1>1, <1>7, CallIs DEF Called
  <2>2. /\ ran'[e] = Append(ran[e], g) /\ \A f \in Events : TasksOf(f)' = TasksOf(f)
        /\ \A f \in Events \ {e} : ran'[f] = ran[f]
    BY <1>3, <2>1 DEF TasksOf
  <2>3. /\ ran'[e] \in Seq(Nat) /\ Len(ran'[e]) = Len(ran[e]) + 1 /\ IsInjective(ran'[e])
        /\ \A j \in DOMAIN ran'[e] : (j \in DOMAIN ran[e] /\ ran'[e][j] = ran[e][j])
                                        \/ (j = Len(ran[e]) + 1 /\ ran'[e][j] = g)
    BY <1>2, <2>2, RanOneMore
  <2>4. Len(ran[e]) = i - 1 /\ Cardinality(TasksOf(e)) = 0
    <3>1. Cardinality(TasksOf(e)) = 0
      BY <2>1, FS_EmptySet
    <3> QED
      BY <1>4, <3>1, CallIs
  <2>5. (i - 1) + 1 = i /\ i + 0 = i
    OBVIOUS
  <2>6. ASSUME NEW j \in DOMAIN ran'[e]
        PROVE  ran'[e][j] \in Owed(e)' /\ <<e, ran'[e][j]>> \notin tasks' /\ ran'[e][j] = owed'[e][j].gid
    <3>0. owed' = owed
      BY <1>1
    <3>1. CASE j \in DOMAIN ran[e] /\ ran'[e][j] = ran[e][j]
      BY <1>1, <1>7, <2>1, <3>0, <3>1, CallIs DEF Called
    <3>2. CASE j = Len(ran[e]) + 1 /\ ran'[e][j] = g
      <4>1. j = i
        BY <2>4, <2>5, <3>2
      <4> QED
        BY <1>0, <1>1, <1>2, <2>1, <3>0, <3>2, <4>1
    <3> QED
      BY <2>3, <3>1, <3>2
  <2>7. Len(ran'[e]) + Cardinality(TasksOf(e)') = Reached(e)'
    <3>1. Cardinality(TasksOf(e)') = 0 /\ Len(ran'[e]) = i
      BY <2>2, <2>3, <2>4, <2>5
    <3> QED
      BY <1>1, <2>5, <3>1
  <2>8. Called(e)'
    <3>1. kind' = kind /\ TasksOf(e)' = {}
      BY <1>1, <2>1, <2>2
    <3> QED
      BY <1>5, <2>3, <2>6, <2>7, <3>1 DEF Called
  <2>9. BusType'
    <3>1. ran' \in [Events -> Seq(Nat)]
      BY <1>3, <2>1, <2>2, <2>3
    <3> QED
      BY <1>1, <2>1, <3>1 DEF BusInv, BusType
  <2> QED
    BY <1>1, <1>6, <2>2, <2>8, <2>9, CallSteps
<1>8. CASE kind # "events"
  <2>1. tasks' = tasks \cup {<<e, g>>} /\ ran' = ran /\ kind' # "events"
    BY <1>1, <1>8
  <2>2. TasksOf(e)' = TasksOf(e) \cup {<<e, g>>} /\ \A f \in Events \ {e} : TasksOf(f)' = TasksOf(f)
    BY <2>1 DEF TasksOf
  <2>3. <<e, g>> \notin TasksOf(e)
    BY <1>2 DEF TasksOf
  <2>4. Cardinality(TasksOf(e)') = Cardinality(TasksOf(e)) + 1
    BY <2>2, <2>3, CallIs, FS_AddElement
  <2>5. Len(ran'[e]) + Cardinality(TasksOf(e)') = Reached(e)'
    <3>1. Len(ran[e]) \in Nat /\ Cardinality(TasksOf(e)) \in Nat
      BY CallIs
    <3>2. Len(ran'[e]) = Len(ran[e]) /\ Reached(e)' = i
      BY <1>1, <2>1
    <3>3. Len(ran[e]) + Cardinality(TasksOf(e)) + 1 = i
      BY <1>4, <3>1
    <3> QED
      BY <2>4, <3>1, <3>2, <3>3
  <2>6. \A j \in DOMAIN ran'[e] : ran'[e][j] \in Owed(e)' /\ <<e, ran'[e][j]>> \notin tasks'
    BY <1>1, <1>2, <2>1, CallIs DEF Called
  <2>7. \A c \in TasksOf(e)' : c[2] \in Owed(e)'
    BY <1>1, <2>2, CallIs DEF Called
  <2>8. IsInjective(ran'[e])
    BY <2>1, CallIs DEF Called
  <2>9. Called(e)'
    BY <1>5, <2>1, <2>5, <2>6, <2>7, <2>8 DEF Called
  <2>10. BusType'
    <3>1. tasks' \subseteq Events \X Nat
      BY <1>2, <1>3, <2>1
    <3>2. IsFiniteSet(tasks')
      BY <1>3, <2>1, FS_AddElement
    <3> QED
      BY <1>1, <2>1, <3>1, <3>2 DEF BusInv, BusType
  <2>11. \A f \in Events \ {e} : ran'[f] = ran[f]
    BY <2>1
  <2> QED
    BY <1>1, <1>6, <2>2, <2>9, <2>10, <2>11, CallSteps
<1> QED
  BY <1>7, <1>8

LEMMA CallNextKeeps ==
  ASSUME BusOK, BusInv, NEW e \in Events, CallNext(e)
  PROVE  BusInv'
<1>1. PICK i \in Nat : i = events[e].i
  BY DEF BusInv, BusType, Event
<1>2. Len(owed[e]) \in Nat
  BY CallIs
<1>3. i > Len(owed[e]) \/ i <= Len(owed[e])
  BY <1>2
<1> QED
  BY <1>1, <1>3, CallEnds, CallsOn

LEMMA RunTaskKeeps ==
  ASSUME BusOK, BusInv, NEW c \in tasks, RunTask(c[1], c[2])
  PROVE  BusInv'
<1>1. PICK e \in Events, g \in Nat : c = <<e, g>> /\ c[1] = e /\ c[2] = g
  BY DEF BusInv, BusType
<1>2. /\ tasks' = tasks \ {<<e, g>>} /\ ran' = [ran EXCEPT ![e] = Append(ran[e], g)] /\ <<e, g>> \in tasks
      /\ UNCHANGED <<kind, arrays, list, consumers, consumersMade, subs, autoID, ids, events, owed, hurt>>
  BY <1>1 DEF RunTask
<1>3. ran \in [Events -> Seq(Nat)] /\ tasks \subseteq Events \X Nat /\ IsFiniteSet(tasks)
  BY DEF BusInv, BusType
<1>4. <<e, g>> \in TasksOf(e) /\ g \in Owed(e) /\ kind # "events" /\ \A j \in DOMAIN ran[e] : ran[e][j] # g
  <2>1. <<e, g>> \in TasksOf(e)
    BY <1>2 DEF TasksOf
  <2>2. kind # "events"
    BY <2>1, CallIs DEF Called
  <2>3. <<e, g>>[2] = g
    OBVIOUS
  <2> QED
    BY <1>2, <2>1, <2>2, <2>3, CallIs DEF Called
<1>5. /\ ran'[e] = Append(ran[e], g) /\ \A f \in Events \ {e} : ran'[f] = ran[f]
  BY <1>2, <1>3
<1>6. /\ ran'[e] \in Seq(Nat) /\ Len(ran'[e]) = Len(ran[e]) + 1 /\ IsInjective(ran'[e])
      /\ \A j \in DOMAIN ran'[e] : (j \in DOMAIN ran[e] /\ ran'[e][j] = ran[e][j])
                                      \/ (j = Len(ran[e]) + 1 /\ ran'[e][j] = g)
  BY <1>4, <1>5, RanOneMore
<1>7. TasksOf(e)' = TasksOf(e) \ {<<e, g>>} /\ \A f \in Events \ {e} : TasksOf(f)' = TasksOf(f)
  BY <1>2 DEF TasksOf
<1>8. Cardinality(TasksOf(e)') = Cardinality(TasksOf(e)) - 1
  <2>1. IsFiniteSet(TasksOf(e))
    BY CallIs
  <2>2. Cardinality(TasksOf(e) \ {<<e, g>>}) = Cardinality(TasksOf(e)) - 1
    BY <1>4, <2>1, FS_RemoveElement
  <2> QED
    BY <1>7, <2>2
<1>9. Reached(e)' = Reached(e) /\ Owed(e)' = Owed(e)
  BY <1>2 DEF Reached, Owed
<1>10. Len(ran'[e]) + Cardinality(TasksOf(e)') = Reached(e)'
  BY <1>6, <1>8, <1>9, CallIs DEF Called
<1>11. \A j \in DOMAIN ran'[e] : ran'[e][j] \in Owed(e)' /\ <<e, ran'[e][j]>> \notin tasks'
  <2> SUFFICES ASSUME NEW j \in DOMAIN ran'[e] PROVE ran'[e][j] \in Owed(e) /\ <<e, ran'[e][j]>> \notin tasks'
    BY <1>9
  <2>1. CASE j \in DOMAIN ran[e] /\ ran'[e][j] = ran[e][j]
    <3>1. ran[e][j] \in Owed(e) /\ <<e, ran[e][j]>> \notin tasks
      BY <2>1, CallIs DEF Called
    <3> QED
      BY <1>2, <2>1, <3>1
  <2>2. CASE j = Len(ran[e]) + 1 /\ ran'[e][j] = g
    BY <1>2, <1>4, <2>2
  <2> QED
    BY <1>6, <2>1, <2>2
<1>12. \A d \in TasksOf(e)' : d[2] \in Owed(e)'
  BY <1>7, <1>9, CallIs DEF Called
<1>13. /\ events'[e].at \in {"idle", "wire"} => owed'[e] = <<>>
       /\ events'[e].at = "loop" => arrays'[events'[e].arr] = owed'[e] /\ events'[e].i \in 1 .. Len(owed'[e]) + 1
       /\ Distinct(owed'[e])
  BY <1>2, CallIs DEF Called
<1>14. Called(e)'
  BY <1>2, <1>4, <1>6, <1>10, <1>11, <1>12, <1>13 DEF Called
<1>15. BusType'
  <2>1. ran' \in [Events -> Seq(Nat)]
    BY <1>2, <1>3, <1>6
  <2>2. tasks' \subseteq Events \X Nat /\ IsFiniteSet(tasks')
    BY <1>2, <1>3, FS_Subset
  <2> QED
    BY <1>2, <2>1, <2>2 DEF BusInv, BusType
<1> QED
  BY <1>2, <1>5, <1>7, <1>14, <1>15, CallSteps

-----------------------------------------------------------------------------
LEMMA BusInitHolds ==
  ASSUME BusOK, BusInit
  PROVE  BusInv
<1>1. /\ kind \in {"events", "local", "nats"} /\ arrays = [a \in Arrays |-> <<>>]
      /\ list = [t \in Topics |-> 0] /\ consumers = {} /\ consumersMade = [t \in Topics |-> 0] /\ subs = {}
      /\ autoID = [t \in Topics |-> 0] /\ ids = [h \in Handlers |-> [t \in Topics |-> 0]]
      /\ events = [e \in Events |-> IdleEvent] /\ owed = [e \in Events |-> <<>>]
      /\ ran = [e \in Events |-> <<>>] /\ tasks = {} /\ hurt = FALSE
  BY DEF BusOK, BusInit
<1>2. 0 \in Arrays
  <2>1. Cardinality(Topics) \in Nat /\ Cardinality(Events) \in Nat
    BY FS_CardinalityType DEF BusOK
  <2> QED
    BY <2>1 DEF Arrays
<1>3. <<>> \in Seq(Nat) /\ Len(<<>>) = 0 /\ IsFiniteSet({}) /\ Cardinality({}) = 0
  <2>1. <<>> \in Seq(Nat) /\ Len(<<>>) = 0
    BY EmptySeq
  <2> QED
    BY <2>1, FS_EmptySet
<1>4. IdleEvent \in Event /\ IdleEvent.at = "idle"
  BY <1>2 DEF IdleEvent, Event
<1>5. BusType
  <2>1. events \in [Events -> Event] /\ tasks \subseteq Events \X Nat /\ IsFiniteSet(tasks)
    BY <1>1, <1>3, <1>4
  <2>2. /\ list \in [Topics -> Arrays] /\ consumersMade \in [Topics -> Nat] /\ autoID \in [Topics -> Nat]
        /\ ids \in [Handlers -> [Topics -> Nat]]
    BY <1>1, <1>2
  <2>3. owed \in [Events -> Seq(Listener)] /\ arrays \in [Arrays -> Seq(Listener)]
    BY <1>1, NoListener
  <2>4. ran \in [Events -> Seq(Nat)]
    BY <1>1, <1>3
  <2> QED
    BY <1>1, <2>1, <2>2, <2>3, <2>4 DEF BusType
<1>6. BusLists
  <2>1. arrays[0] = <<>> /\ \A t \in Topics : Listeners(t) = <<>> /\ list[t] = 0 /\ t \notin consumers
    BY <1>1, <1>2 DEF Listeners
  <2>2. \A t \in Topics : Listed(t)
    BY <2>1, NoListener DEF Listed
  <2>3. \A h \in Handlers, t \in Topics : Given(h, t)
    <3>1. \A h \in Handlers, t \in Topics : ids[h][t] = 0 /\ autoID[t] = 0
      BY <1>1
    <3>2. 0 <= 0
      OBVIOUS
    <3> QED
      BY <2>1, <3>1, <3>2, NoListener DEF Given
  <2>4. ~hurt
    BY <1>1
  <2> QED
    BY <2>1, <2>2, <2>3, <2>4 DEF BusLists
<1>7. ASSUME NEW e \in Events PROVE Called(e)
  <2>1. owed[e] = <<>> /\ ran[e] = <<>> /\ TasksOf(e) = {} /\ events[e].at = "idle"
    BY <1>1, <1>4 DEF TasksOf
  <2>2. Reached(e) = 0
    BY <1>3, <2>1 DEF Reached
  <2>3. Len(ran[e]) + Cardinality(TasksOf(e)) = Reached(e)
    BY <1>3, <2>1, <2>2
  <2>4. events[e].at # "loop"
    BY <2>1
  <2> QED
    BY <2>1, <2>3, <2>4, NoListener DEF Called
<1> QED
  BY <1>5, <1>6, <1>7 DEF BusInv, BusCalls

\* A call that NATS refuses, the end of the connection and a step of something else leave the
\* lists and the publications as they were.
LEMMA BusSame ==
  ASSUME BusInv,
         UNCHANGED <<kind, arrays, list, consumers, consumersMade, subs, autoID, events, owed, ran, tasks, hurt>>,
         ids' \in [Handlers -> [Topics -> Nat]], kind = "events" => ids' = ids
  PROVE  BusInv'
<1>1. BusType'
  BY DEF BusInv, BusType
<1>2. BusCalls'
  BY CallsGoOn DEF BusInv
<1>3. \A t \in Topics : Listeners(t)' = Listeners(t)
  BY DEF Listeners
<1>4. IsBus' = IsBus
  BY DEF IsBus
<1>5. \A t \in Topics : Listed(t)'
  BY <1>3, <1>4 DEF BusInv, BusLists, Listed
<1>6. kind = "events" => \A g \in Handlers, t \in Topics : Given(g, t)'
  BY <1>3 DEF BusInv, BusLists, Given
<1>7. arrays'[0] = <<>> /\ (kind' = "events" => ~hurt')
  BY DEF BusInv, BusLists
<1>8. BusLists'
  BY <1>5, <1>6, <1>7 DEF BusLists
<1> QED
  BY <1>1, <1>2, <1>8 DEF BusInv

LEMMA BusKeepsInv ==
  ASSUME BusOK, BusInv, [BusNext]_busVars
  PROVE  BusInv'
<1>1. CASE BusNext
  <2>1. ASSUME NEW t \in Topics, UnsubscribeKey(t) PROVE BusInv'
    BY <2>1, UnsubscribeKeyKeeps
  <2>2. ASSUME NEW t \in Topics, NEW h \in Handlers, Subscribe(t, h) \/ Unsubscribe(t, h) \/ UnsubscribeByID(t, h)
        PROVE  BusInv'
    BY <2>2, SubscribeKeeps, UnsubscribeKeeps, UnsubscribeByIDKeeps
  <2>3. ASSUME NEW t \in Topics, NEW e \in Events, Publish(e, t) PROVE BusInv'
    BY <2>3, PublishKeeps
  <2>4. ASSUME UnsubscribeAll PROVE BusInv'
    BY <2>4, UnsubscribeAllKeeps
  <2>5. ASSUME NEW e \in Events, Dispatch(e) \/ CallNext(e) PROVE BusInv'
    BY <2>5, DispatchKeeps, CallNextKeeps
  <2>6. ASSUME NEW c \in tasks, RunTask(c[1], c[2]) PROVE BusInv'
    BY <2>6, RunTaskKeeps
  <2>7. ASSUME NEW t \in Topics, NEW h \in Handlers, SubscribeFails(t, h) PROVE BusInv'
    <3>1. /\ kind = "nats" /\ ids' = [ids EXCEPT ![h][t] = 0]
          /\ UNCHANGED <<kind, arrays, list, consumers, consumersMade, subs, autoID, events, owed, ran, tasks, hurt>>
      BY <2>7 DEF SubscribeFails, published
    <3>2. ids \in [Handlers -> [Topics -> Nat]]
      BY DEF BusInv, BusType
    <3>3. ids' \in [Handlers -> [Topics -> Nat]]
      BY <3>1, <3>2
    <3> QED
      BY <3>1, <3>3, BusSame
  <2>8. ASSUME ConnEnds PROVE BusInv'
    <3>1. UNCHANGED <<kind, arrays, list, consumers, consumersMade, subs, autoID, ids, events, owed, ran, tasks, hurt>>
      BY <2>8 DEF ConnEnds, published
    <3>2. ids \in [Handlers -> [Topics -> Nat]]
      BY DEF BusInv, BusType
    <3> QED
      BY <3>1, <3>2, BusSame
  <2> QED
    BY <1>1, <2>1, <2>2, <2>3, <2>4, <2>5, <2>6, <2>7, <2>8 DEF BusNext
<1>2. CASE UNCHANGED busVars
  <2>1. UNCHANGED <<kind, arrays, list, consumers, consumersMade, subs, autoID, ids, events, owed, ran, tasks, hurt>>
    BY <1>2 DEF busVars
  <2>2. ids \in [Handlers -> [Topics -> Nat]]
    BY DEF BusInv, BusType
  <2> QED
    BY <2>1, <2>2, BusSame
<1> QED
  BY <1>1, <1>2

-----------------------------------------------------------------------------
(* Consumers and their subscriptions *)

\* Only a bus has consumers.
BusSubs == SubscribedIfWanted /\ (~IsBus => consumers = {})

\* Steps that leave these alone: whatever is published, and the end of the connection.
LEMMA SubsSame ==
  ASSUME BusSubs, UNCHANGED <<kind, list, consumers, consumersMade, subs, failed>>
  PROVE  BusSubs'
<1>1. IsBus' = IsBus /\ SubsOf(consumers)' = SubsOf(consumers)
  BY DEF IsBus, SubsOf
<1> QED
  BY <1>1 DEF BusSubs, SubscribedIfWanted

LEMMA SubscribeSubs ==
  ASSUME BusOK, BusInv, BusInv', BusSubs, NEW t \in Topics, NEW h \in Handlers, Subscribe(t, h)
  PROVE  BusSubs'
<1>1. /\ consumers' = IF IsBus THEN consumers \union {t} ELSE consumers
      /\ consumersMade' = IF NewConsumer(t) THEN [consumersMade EXCEPT ![t] = @ + 1] ELSE consumersMade
      /\ subs' = IF NewConsumer(t) /\ kind = "nats" THEN subs \union {<<t, consumersMade[t] + 1>>} ELSE subs
      /\ UNCHANGED <<kind, failed>>
  BY DEF Subscribe
<1>2. consumers \subseteq Topics /\ consumersMade \in [Topics -> Nat]
  BY DEF BusInv, BusType
<1>3. IsBus' = IsBus
  BY <1>1 DEF IsBus
<1>4. /\ \A u \in Topics : u \in consumers /\ list[u] = 0 => <<u, consumersMade[u]>> \in failed
      /\ kind = "nats" => SubsOf(consumers) \subseteq subs
      /\ subs \ SubsOf(consumers) \subseteq failed
      /\ kind # "nats" => failed = {}
      /\ ~IsBus => consumers = {}
  BY DEF BusSubs, SubscribedIfWanted
<1>5. list'[t] # 0 /\ \A u \in Topics \ {t} : list'[u] = list[u]
  <2> DEFINE I == getHandlerIdx(t, h)
  <2>1. CASE I # {}
    <3>1. list' = list
      BY <2>1 DEF Subscribe
    <3>2. Listeners(t) # <<>>
      BY <2>1, EmptySeq, NoListener DEF getHandlerIdx
    <3>3. list[t] # 0
      BY <3>2, ListIs DEF Listed
    <3> QED
      BY <3>1, <3>3
  <2>2. CASE I = {}
    <3>1. PICK l : Replace(t, Append(Listeners(t), l)) /\ l \in Listener
      <4>1. PICK g : Replace(t, Append(Listeners(t), [gid |-> g, cb |-> h])) /\ g \in Nat
        <5> DEFINE last == IF NewConsumer(t) THEN 0 ELSE autoID[t]
        <5>1. Replace(t, Append(Listeners(t), [gid |-> last + 1, cb |-> h]))
          BY <2>2 DEF Subscribe
        <5>2. last + 1 \in Nat
          BY DEF BusInv, BusType
        <5> QED
          BY <5>1, <5>2
      <4> QED
        BY <4>1 DEF Listener
    <3>2. Append(Listeners(t), l) # <<>>
      <4>1. Listeners(t) \in Seq(Listener)
        BY ListIs
      <4>2. Len(Append(Listeners(t), l)) = Len(Listeners(t)) + 1 /\ Len(Listeners(t)) \in Nat
        BY <3>1, <4>1, AppendProperties, LenProperties
      <4>3. Len(<<>>) = 0
        BY EmptySeq
      <4> QED
        BY <4>2, <4>3
    <3>3. list' = [list EXCEPT ![t] = Fresh]
      BY <3>1, <3>2 DEF Replace
    <3>4. list \in [Topics -> Arrays]
      BY DEF BusInv, BusType
    <3>5. list'[t] = Fresh /\ \A u \in Topics \ {t} : list'[u] = list[u]
      BY <3>3, <3>4
    <3> QED
      BY <3>5, FreshIsFree DEF BusInv
  <2> QED
    BY <2>1, <2>2
<1>6. \A u \in consumers : u # t \/ ~NewConsumer(t)
  BY DEF NewConsumer
<1>7. \A u \in consumers : consumersMade'[u] = consumersMade[u]
  BY <1>1, <1>2, <1>6
<1>8. CASE NewConsumer(t)
  <2>1. consumers' = consumers \union {t} /\ consumersMade'[t] = consumersMade[t] + 1
    BY <1>1, <1>2, <1>8 DEF NewConsumer
  <2>2. SubsOf(consumers)' = SubsOf(consumers) \union {<<t, consumersMade[t] + 1>>}
    BY <1>7, <2>1 DEF SubsOf
  <2>3. /\ kind' = "nats" => SubsOf(consumers)' \subseteq subs'
        /\ subs' \ SubsOf(consumers)' \subseteq failed'
    BY <1>1, <1>4, <1>8, <2>2
  <2>4. \A u \in Topics : u \in consumers' /\ list'[u] = 0 => <<u, consumersMade'[u]>> \in failed'
    BY <1>1, <1>4, <1>5, <1>7, <2>1
  <2>5. ~IsBus' => consumers' = {}
    BY <1>3, <1>8 DEF NewConsumer
  <2>6. \A u \in Topics : IsBus' /\ list'[u] # 0 => u \in consumers'
    BY DEF BusInv, BusLists, Listed
  <2> QED
    BY <1>1, <1>4, <2>3, <2>4, <2>5, <2>6 DEF BusSubs, SubscribedIfWanted
<1>9. CASE ~NewConsumer(t)
  <2>1. UNCHANGED <<consumers, consumersMade, subs>>
    BY <1>1, <1>9 DEF NewConsumer
  <2>2. SubsOf(consumers)' = SubsOf(consumers)
    BY <2>1 DEF SubsOf
  <2>4. \A u \in Topics : u \in consumers' /\ list'[u] = 0 => <<u, consumersMade'[u]>> \in failed'
    BY <1>1, <1>4, <1>5, <2>1
  <2>6. \A u \in Topics : IsBus' /\ list'[u] # 0 => u \in consumers'
    BY DEF BusInv, BusLists, Listed
  <2> QED
    BY <1>1, <1>3, <1>4, <2>1, <2>2, <2>4, <2>6 DEF BusSubs, SubscribedIfWanted
<1> QED
  BY <1>8, <1>9

LEMMA DropSubs ==
  ASSUME BusOK, BusInv, BusInv', BusSubs, NEW t \in Topics, NEW s,
         Replace(t, s) \/ (UNCHANGED list /\ s = Listeners(t)), DropConsumer(t, s),
         UNCHANGED <<kind, consumersMade>>
  PROVE  BusSubs'
<1>1. /\ \A u \in Topics : u \in consumers /\ list[u] = 0 => <<u, consumersMade[u]>> \in failed
      /\ kind = "nats" => SubsOf(consumers) \subseteq subs
      /\ subs \ SubsOf(consumers) \subseteq failed
      /\ kind # "nats" => failed = {}
      /\ ~IsBus => consumers = {}
  BY DEF BusSubs, SubscribedIfWanted
<1>2. (list'[t] = 0 => s = <<>>) /\ \A u \in Topics \ {t} : list'[u] = list[u]
  <2>1. list \in [Topics -> Arrays] /\ Fresh # 0
    BY FreshIsFree DEF BusInv, BusType
  <2>2. CASE Replace(t, s)
    BY <2>1, <2>2 DEF Replace
  <2>3. CASE UNCHANGED list /\ s = Listeners(t)
    BY <2>3, ListIs DEF Listed
  <2> QED
    BY <2>2, <2>3
<1>3. IsBus' = IsBus
  BY DEF IsBus
<1>4. \A u \in Topics : IsBus' /\ list'[u] # 0 => u \in consumers'
  BY DEF BusInv, BusLists, Listed
<1>5. CASE consumers' = consumers \ {t} /\ subs' = subs \ SubsOf({t}) /\ UNCHANGED failed
  <2>1. /\ SubsOf(consumers)' = {<<u, consumersMade[u]>> : u \in consumers \ {t}}
        /\ SubsOf(consumers) = {<<u, consumersMade[u]>> : u \in consumers}
        /\ SubsOf({t}) = {<<t, consumersMade[t]>>}
    BY <1>5 DEF SubsOf
  <2>2. SubsOf(consumers) \subseteq SubsOf(consumers)' \union SubsOf({t})
    BY <2>1
  <2>3. SubsOf(consumers)' \subseteq SubsOf(consumers) \ SubsOf({t})
    BY <2>1
  <2>4. /\ kind' = "nats" => SubsOf(consumers)' \subseteq subs'
        /\ subs' \ SubsOf(consumers)' \subseteq failed'
    BY <1>1, <1>5, <2>2, <2>3
  <2>5. \A u \in Topics : u \in consumers' /\ list'[u] = 0 => <<u, consumersMade'[u]>> \in failed'
    BY <1>1, <1>2, <1>5
  <2> QED
    BY <1>1, <1>3, <1>4, <1>5, <2>4, <2>5 DEF BusSubs, SubscribedIfWanted
<1>6. CASE kind = "nats" /\ failed' = failed \union SubsOf({t}) /\ UNCHANGED <<consumers, subs>>
  <2>1. SubsOf(consumers)' = SubsOf(consumers) /\ <<t, consumersMade[t]>> \in SubsOf({t})
    BY <1>6 DEF SubsOf
  <2>2. \A u \in Topics : u \in consumers' /\ list'[u] = 0 => <<u, consumersMade'[u]>> \in failed'
    BY <1>1, <1>2, <1>6, <2>1
  <2> QED
    BY <1>1, <1>3, <1>4, <1>6, <2>1, <2>2 DEF BusSubs, SubscribedIfWanted
<1>7. CASE UNCHANGED <<consumers, subs, failed>> /\ ~(IsBus /\ s = <<>> /\ t \in consumers)
  <2>1. SubsOf(consumers)' = SubsOf(consumers)
    BY <1>7 DEF SubsOf
  <2>2. \A u \in Topics : u \in consumers' /\ list'[u] = 0 => <<u, consumersMade'[u]>> \in failed'
    BY <1>1, <1>2, <1>7
  <2> QED
    BY <1>1, <1>3, <1>4, <1>7, <2>1, <2>2 DEF BusSubs, SubscribedIfWanted
<1> QED
  BY <1>5, <1>6, <1>7 DEF DropConsumer

LEMMA AllSubs ==
  ASSUME BusInv', BusSubs, UnsubscribeAll
  PROVE  BusSubs'
<1>1. PICK kept \in SUBSET consumers :
        /\ kept # {} => kind = "nats"
        /\ subs' = subs \ SubsOf(consumers \ kept) /\ failed' = failed \union SubsOf(kept)
  BY DEF UnsubscribeAll
<1>2. consumers' = {} /\ UNCHANGED <<kind, consumersMade>> /\ IsBus
  BY DEF UnsubscribeAll
<1>3. SubsOf(consumers)' = {} /\ IsBus'
  BY <1>2 DEF SubsOf, IsBus
<1>4. subs \ SubsOf(consumers) \subseteq failed /\ (kind # "nats" => failed = {})
  BY DEF BusSubs, SubscribedIfWanted
<1>5. SubsOf(consumers) \subseteq SubsOf(consumers \ kept) \union SubsOf(kept)
  BY DEF SubsOf
<1>6. subs' \ SubsOf(consumers)' \subseteq failed'
  BY <1>1, <1>4, <1>5
<1>7. kind' # "nats" => failed' = {}
  <2>1. SubsOf({}) = {}
    BY DEF SubsOf
  <2> QED
    BY <1>1, <1>2, <1>4, <2>1
<1>8. \A u \in Topics : IsBus' /\ list'[u] # 0 => u \in consumers'
  BY DEF BusInv, BusLists, Listed
<1> QED
  BY <1>2, <1>3, <1>6, <1>7, <1>8 DEF BusSubs, SubscribedIfWanted

LEMMA BusKeepsSubs ==
  ASSUME BusOK, BusInv, BusInv', BusSubs, [BusNext]_busVars
  PROVE  BusSubs'
<1>1. ASSUME NEW t \in Topics, UnsubscribeKey(t) PROVE BusSubs'
  <2>1. ~IsBus /\ Replace(t, <<>>) /\ UNCHANGED <<kind, consumers, consumersMade, subs, failed>>
    BY <1>1 DEF UnsubscribeKey
  <2>2. DropConsumer(t, <<>>)
    BY <2>1 DEF DropConsumer
  <2> QED
    BY <2>1, <2>2, DropSubs
<1>2. ASSUME NEW t \in Topics, NEW h \in Handlers, Subscribe(t, h) PROVE BusSubs'
  BY <1>2, SubscribeSubs
<1>3. ASSUME NEW t \in Topics, NEW h \in Handlers, Unsubscribe(t, h) \/ UnsubscribeByID(t, h) PROVE BusSubs'
  <2>1. \E s : /\ Replace(t, s) \/ (UNCHANGED list /\ s = Listeners(t))
               /\ DropConsumer(t, s) /\ UNCHANGED <<kind, consumersMade>>
    <3>1. CASE Unsubscribe(t, h)
      BY <3>1 DEF Unsubscribe
    <3>2. CASE UnsubscribeByID(t, h)
      BY <3>2 DEF UnsubscribeByID
    <3> QED
      BY <1>3, <3>1, <3>2
  <2> QED
    BY <2>1, DropSubs
<1>4. ASSUME UnsubscribeAll PROVE BusSubs'
  BY <1>4, AllSubs
<1>5. ASSUME \/ \E t \in Topics : \/ \E h \in Handlers : SubscribeFails(t, h)
                                \/ \E e \in Events : Publish(e, t)
             \/ ConnEnds \/ UNCHANGED busVars
             \/ \E e \in Events : Dispatch(e) \/ CallNext(e)
             \/ \E c \in tasks : RunTask(c[1], c[2])
      PROVE  BusSubs'
  <2>1. UNCHANGED <<kind, list, consumers, consumersMade, subs, failed>>
    BY <1>5 DEF SubscribeFails, Publish, ConnEnds, Dispatch, CallNext, RunTask, busVars
  <2> QED
    BY <2>1, SubsSame
<1> QED
  BY <1>1, <1>2, <1>3, <1>4, <1>5 DEF BusNext

LEMMA InvReaches ==
  ASSUME BusOK, BusInv, BusSubs
  PROVE  EventsReachListeners
<1>1. ASSUME NEW e \in Events
      PROVE  /\ IsInjective(ran[e]) /\ \A i \in DOMAIN ran[e] : ran[e][i] \in Gids(owed[e])
             /\ kind = "events" => \A i \in DOMAIN ran[e] : ran[e][i] = owed[e][i].gid
             /\ events[e].at = "done" /\ ~(\E c \in tasks : c[1] = e) => Len(ran[e]) = Len(owed[e])
  <2>1. Called(e)
    BY CallIs
  <2>2. Owed(e) \subseteq Gids(owed[e])
    <3>1. Reached(e) \in Nat /\ Reached(e) <= Len(owed[e])
      <4>1. CASE events[e].at = "loop"
        <5>1. Reached(e) = events[e].i - 1 /\ events[e].i \in 1 .. Len(owed[e]) + 1
          BY <2>1, <4>1 DEF Called, Reached
        <5> QED
          BY <5>1, CallIs
      <4>2. CASE events[e].at # "loop"
        <5>1. Reached(e) = Len(owed[e])
          BY <4>2 DEF Reached
        <5> QED
          BY <5>1, CallIs
      <4> QED
        BY <4>1, <4>2
    <3>2. 1 .. Reached(e) \subseteq DOMAIN owed[e]
      BY <3>1, CallIs
    <3> QED
      BY <3>2 DEF Owed, Gids
  <2>3. events[e].at = "done" /\ ~(\E c \in tasks : c[1] = e) => Len(ran[e]) = Len(owed[e])
    <3> SUFFICES ASSUME events[e].at = "done", ~(\E c \in tasks : c[1] = e) PROVE Len(ran[e]) = Len(owed[e])
      OBVIOUS
    <3>1. Cardinality(TasksOf(e)) = 0
      <4>1. TasksOf(e) = {}
        BY DEF TasksOf
      <4> QED
        BY <4>1, FS_EmptySet
    <3>2. Len(ran[e]) + Cardinality(TasksOf(e)) = Len(owed[e])
      BY <2>1 DEF Called, Reached
    <3> QED
      BY <3>1, <3>2, CallIs
  <2> QED
    BY <2>1, <2>2, <2>3 DEF Called
<1>2. SubscribedIfWanted
  BY DEF BusSubs
<1>3. kind = "events" => ~hurt
  BY DEF BusInv, BusLists
<1> QED
  BY <1>1, <1>2, <1>3 DEF EventsReachListeners, CalledOnce

\* Every listener a publication found is called exactly once, in their order by
\* kkevent, whoever subscribes and unsubscribes meanwhile: Subscribe and Unsubscribe
\* of event_mgr.go and listener.go replace a slice and never write into it.  Over
\* busnats a topic with listeners has its subscription, and a consumer without
\* listeners or a subscription without a consumer is left only of an Unsubscribe
\* that returned an error.  An id given back late hurts nobody in kkevent.
THEOREM EventsReachListenersHolds ==
  ASSUME BusOK
  PROVE  BusSpec => []EventsReachListeners
<1>1. BusInit => BusInv /\ BusSubs
  <2>1. BusInit => BusSubs
    BY DEF BusInit, BusSubs, SubscribedIfWanted, SubsOf
  <2> QED
    BY <2>1, BusInitHolds
<1>2. BusInv /\ BusSubs /\ [BusNext]_busVars => BusInv' /\ BusSubs'
  BY BusKeepsInv, BusKeepsSubs
<1>3. BusInv /\ BusSubs => EventsReachListeners
  BY InvReaches
<1> QED
  BY <1>1, <1>2, <1>3, PTL DEF BusSpec
=============================================================================
