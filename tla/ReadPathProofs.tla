---------------------------- MODULE ReadPathProofs ----------------------------
(***************************************************************************)
(* Proofs about the way of what is read (ReadPath), for any messages of    *)
(* the peer, any cuts of its bytes, limits, batches and capacities.        *)
(*                                                                         *)
(* The stream has its borders, where a packet ends and the next begins     *)
(* (Ends).  Split and SplitSR find them in what lies between a border and  *)
(* the last byte that arrived (SplitFinds, SplitSRFinds), and what they    *)
(* leave starts at a border again, so the packets cut out are the first    *)
(* that were sent (Followed).  From there to the handler nothing overtakes *)
(* (Flow), and a Stop that returned has left nothing (Stopped).            *)
(***************************************************************************)
EXTENDS ReadPath, SequenceTheorems, WellFoundedInduction, TLAPS

-----------------------------------------------------------------------------
(* Numbers and sequences                                                   *)

\* Naturals are well ordered.
LEMMA Least == ASSUME NEW S, S \subseteq Nat, S # {} PROVE \E n \in S : \A m \in S : n <= m
<1>1. PICK x \in S : \A y \in S : ~ (<<y, x>> \in OpToRel(<, Nat))
  BY WFMin, NatLessThanWellFounded
<1>2. ASSUME NEW y \in S PROVE ~ (y < x)
  <2>1. <<y, x>> \notin OpToRel(<, Nat) /\ <<y, x>> \in Nat \X Nat
    BY <1>1
  <2> QED BY <2>1 DEF OpToRel
<1>3. x \in Nat /\ \A y \in S : y \in Nat /\ ~(y < x)
  BY <1>2
<1> QED BY <1>3

\* So a set that has 0, and with a number the next one, has all of them.
LEMMA Upwards ==
    ASSUME NEW G, 0 \in G, \A n \in Nat : n \in G => n + 1 \in G
    PROVE  Nat \subseteq G
<1> DEFINE S == {n \in Nat : n \notin G}
<1>1. SUFFICES ASSUME S # {} PROVE FALSE
  OBVIOUS
<1>2. PICK n \in S : \A m \in S : n <= m
  BY <1>1, Least
<1>3. n \in Nat /\ n \notin G /\ n # 0
  OBVIOUS
<1>4. n - 1 \in Nat /\ ~(n <= n - 1) /\ (n - 1) + 1 = n
  BY <1>3
<1>5. n - 1 \in G
  BY <1>4, <1>2
<1> QED BY <1>3, <1>4, <1>5

LEMMA UpTo ==
    ASSUME NEW n \in Nat, NEW G, n # 0 => 1 \in G,
           \A i \in 1..n : i \in G /\ i + 1 \in 1..n => i + 1 \in G
    PROVE  1..n \subseteq G
<1> DEFINE H == {k \in Nat : k + 1 \in 1..n => k + 1 \in G}
<1>1. 0 \in H
  OBVIOUS
<1>2. ASSUME NEW k \in Nat, k \in H PROVE k + 1 \in H
  <2>1. SUFFICES ASSUME (k + 1) + 1 \in 1..n PROVE (k + 1) + 1 \in G
    OBVIOUS
  <2>2. k + 1 \in 1..n
    BY <2>1
  <2>3. k + 1 \in G
    BY <2>2, <1>2
  <2> QED BY <2>1, <2>2, <2>3
<1>3. Nat \subseteq H
  <2> HIDE DEF H
  <2> QED BY <1>1, <1>2, Upwards
<1>4. ASSUME NEW i \in 1..n PROVE i \in G
  <2>1. i - 1 \in Nat /\ (i - 1) + 1 = i
    OBVIOUS
  <2>2. i - 1 \in H
    BY <2>1, <1>3
  <2> QED BY <2>1, <2>2
<1> QED BY <1>4

\* A set of the numbers 1 to n that is not empty has a largest.
LEMMA MaxIs ==
    ASSUME NEW n \in Nat, NEW s \in SUBSET (1..n), s # {}
    PROVE  Max(s) \in s /\ \A y \in s : Max(s) >= y
<1> DEFINE S == {n - x : x \in s}
<1>1. S \subseteq Nat /\ S # {}
  <2>1. \A x \in s : n - x \in Nat
    OBVIOUS
  <2>2. PICK x \in s : TRUE
    OBVIOUS
  <2>3. n - x \in S
    BY <2>2
  <2> QED BY <2>1, <2>3
<1>2. PICK d \in S : \A m \in S : d <= m
  BY <1>1, Least
<1>3. PICK x \in s : d = n - x
  OBVIOUS
<1>4. \A y \in s : x >= y
  <2>1. ASSUME NEW y \in s PROVE x >= y
    <3>1. n - x <= n - y
      BY <1>2, <1>3
    <3> QED BY <3>1
  <2> QED BY <2>1
<1> QED BY <1>4 DEF Max

\* The recursion of Number.
NumberOf(f, bytes, n) ==
    f = [s \in SUBSET (1..n) |-> IF s = {} THEN 0 ELSE f[s \ {Max(s)}] * Base + bytes[Max(s)]]

LEMMA NumberExists == ASSUME NEW bytes PROVE \A n \in Nat : \E f : NumberOf(f, bytes, n)
<1> DEFINE G == {n \in Nat : \E f : NumberOf(f, bytes, n)}
<1>1. 0 \in G
  <2>1. NumberOf([s \in SUBSET (1..0) |-> 0], bytes, 0)
    <3>1. \A s \in SUBSET (1..0) : s = {}
      OBVIOUS
    <3> QED BY <3>1 DEF NumberOf
  <2> QED BY <2>1
<1>2. ASSUME NEW n \in Nat, n \in G PROVE n + 1 \in G
  <2>1. PICK f : NumberOf(f, bytes, n)
    BY <1>2
  <2> DEFINE m == n + 1
             g == [s \in SUBSET (1..m) |-> IF m \in s THEN f[s \ {m}] * Base + bytes[m] ELSE f[s]]
  <2>2. 1..m = (1..n) \cup {m} /\ m \notin 1..n /\ m \in Nat
    OBVIOUS
  <2>3. ASSUME NEW s \in SUBSET (1..m)
        PROVE  g[s] = IF s = {} THEN 0 ELSE g[s \ {Max(s)}] * Base + bytes[Max(s)]
    <3>1. CASE m \in s
      <4>1. Max(s) \in s /\ Max(s) >= m
        BY <3>1, <2>2, MaxIs
      <4>2. Max(s) = m
        <5>1. Max(s) \in 1..m
          BY <4>1
        <5> HIDE DEF m
        <5> QED BY <5>1, <4>1, <2>2
      <4>3. s \ {m} \in SUBSET (1..m) /\ m \notin s \ {m}
        OBVIOUS
      <4>4. g[s \ {m}] = f[s \ {m}] /\ g[s] = f[s \ {m}] * Base + bytes[m]
        BY <4>3, <3>1
      <4> HIDE DEF g, m
      <4> QED BY <4>2, <4>4, <3>1
    <3>2. CASE m \notin s
      <4>1. s \in SUBSET (1..n)
        BY <3>2, <2>2
      <4>2. g[s] = f[s]
        BY <3>2
      <4>3. f[s] = IF s = {} THEN 0 ELSE f[s \ {Max(s)}] * Base + bytes[Max(s)]
        BY <4>1, <2>1 DEF NumberOf
      <4>4. s \ {Max(s)} \in SUBSET (1..m) /\ m \notin s \ {Max(s)}
        BY <3>2
      <4>5. g[s \ {Max(s)}] = f[s \ {Max(s)}]
        BY <4>4
      <4> HIDE DEF g, m
      <4> QED BY <4>2, <4>3, <4>5
    <3> QED BY <3>1, <3>2
  <2>4. g = [s \in SUBSET (1..m) |-> g[s]]
    OBVIOUS
  <2> HIDE DEF g
  <2>5. NumberOf(g, bytes, m)
    BY <2>3, <2>4 DEF NumberOf
  <2> QED BY <2>5
<1> HIDE DEF G
<1>3. Nat \subseteq G
  BY <1>1, <1>2, Upwards
<1> QED BY <1>3 DEF G

\* The number that bytes stand for is one.
LEMMA NumberIsNat == ASSUME NEW bytes \in Seq(Nat) PROVE Number(bytes) \in Nat
<1> DEFINE n == Len(bytes)
           f == CHOOSE g : NumberOf(g, bytes, n)
<1>1. n \in Nat /\ DOMAIN bytes = 1..n /\ \A i \in 1..n : bytes[i] \in Nat
  OBVIOUS
<1>2. NumberOf(f, bytes, n)
  BY <1>1, NumberExists
<1>3. Number(bytes) = f[1..n]
  BY <1>1 DEF Number, FoldLeft, MapThenFoldSet, NumberOf
<1> HIDE DEF f, n
<1> DEFINE G == {k \in Nat : k <= n => f[1..k] \in Nat}
<1>4. \A s \in SUBSET (1..n) : f[s] = IF s = {} THEN 0 ELSE f[s \ {Max(s)}] * Base + bytes[Max(s)]
  BY <1>2 DEF NumberOf
<1>5. 0 \in G
  <2>1. 1..0 = {} /\ {} \in SUBSET (1..n)
    OBVIOUS
  <2>2. f[{}] = 0
    BY <2>1, <1>4, Zenon
  <2> QED BY <2>1, <2>2
<1>6. ASSUME NEW k \in Nat, k \in G PROVE k + 1 \in G
  <2>1. SUFFICES ASSUME k + 1 <= n PROVE f[1..(k + 1)] \in Nat
    OBVIOUS
  <2>2. f[1..k] \in Nat
    BY <1>6, <1>1, <2>1
  <2>3. 1..(k + 1) \in SUBSET (1..n) /\ k + 1 \in 1..(k + 1) /\ (1..(k + 1)) \ {k + 1} = 1..k
    BY <2>1, <1>1
  <2>4. Max(1..(k + 1)) \in 1..(k + 1) /\ Max(1..(k + 1)) >= k + 1
    BY <2>3, <1>1, MaxIs
  <2>5. Max(1..(k + 1)) = k + 1
    BY <2>4
  <2>6. f[1..(k + 1)] = f[1..k] * Base + bytes[k + 1]
    <3>1. 1..(k + 1) # {}
      BY <2>3
    <3> QED BY <3>1, <2>3, <2>5, <1>4
  <2>7. bytes[k + 1] \in Nat
    BY <1>1, <2>1
  <2>8. \A a, b, c \in Nat : a * b + c \in Nat
    OBVIOUS
  <2>9. f[1..k] * Base + bytes[k + 1] \in Nat
    BY <2>2, <2>7, <2>8, ReadSizes
  <2> QED BY <2>6, <2>9
<1> HIDE DEF G
<1>7. Nat \subseteq G
  BY <1>5, <1>6, Upwards
<1>8. f[1..n] \in Nat
  BY <1>7, <1>1 DEF G
<1> QED BY <1>8, <1>3

-----------------------------------------------------------------------------
(* The stream and its borders                                              *)

Octets == 0 .. Base - 1
Strings == Seq(Octets)
N == Len(Peer)

\* What is joined is the one and then the other.
LEMMA Joined ==
    ASSUME NEW s \in Strings, NEW t \in Strings
    PROVE  /\ s \o t \in Strings /\ Len(s) \in Nat /\ Len(t) \in Nat
           /\ Len(s \o t) = Len(s) + Len(t)
           /\ \A k \in 1..Len(s) : (s \o t)[k] = s[k]
           /\ \A k \in 1..Len(t) : (s \o t)[Len(s) + k] = t[k]
BY DEF Strings

LEMMA DigitsAre ==
    ASSUME NEW n \in Nat, NEW w \in Nat
    PROVE  Digits(n, w) \in Strings /\ Len(Digits(n, w)) = w
<1> DEFINE d(i) == (n \div Base ^ (w - i)) % Base
<1>1. \A i \in 1..w : d(i) \in Octets
  BY ReadSizes DEF Octets
<1>2. Digits(n, w) = [i \in 1..w |-> d(i)]
  BY DEF Digits
<1> HIDE DEF d
<1> QED BY <1>1, <1>2 DEF Strings

\* A packet: the length field, then the message.
LEMMA SentIs ==
    /\ N \in Nat /\ DOMAIN Sent = 1..N /\ Sent \in Seq(Strings) /\ Len(Sent) = N
    /\ \A i \in 1..N : /\ Peer[i] \in Strings /\ Len(Peer[i]) \in Nat
                       /\ Len(Peer[i]) <= MaxPacketSize - LengthBytes
                       /\ Sent[i] = Digits(Len(Peer[i]), LengthBytes) \o Peer[i]
                       /\ Len(Sent[i]) = LengthBytes + Len(Peer[i])
<1>1. N \in Nat /\ DOMAIN Peer = 1..N /\ \A i \in 1..N : Peer[i] \in Strings
  BY ReadSizes DEF N, Octets, Strings
<1>2. ASSUME NEW i \in 1..N
      PROVE  /\ Len(Peer[i]) \in Nat
             /\ Len(Peer[i]) <= MaxPacketSize - LengthBytes
             /\ Sent[i] = Digits(Len(Peer[i]), LengthBytes) \o Peer[i]
             /\ Len(Sent[i]) = LengthBytes + Len(Peer[i])
             /\ Sent[i] \in Strings
  <2>1. Peer[i] \in Strings /\ Len(Peer[i]) \in Nat
    BY <1>1 DEF Strings
  <2>2. Len(Peer[i]) <= MaxPacketSize - LengthBytes
    BY <1>1, ReadSizes
  <2>3. Sent[i] = Digits(Len(Peer[i]), LengthBytes) \o Peer[i]
    BY <2>1, <2>2, <1>1, ReadSizes DEF Sent, Pack
  <2>4. Digits(Len(Peer[i]), LengthBytes) \in Strings /\ Len(Digits(Len(Peer[i]), LengthBytes)) = LengthBytes
    BY <2>1, ReadSizes, DigitsAre
  <2>5. /\ Sent[i] \in Strings
        /\ Len(Sent[i]) = LengthBytes + Len(Peer[i])
    <3>1. /\ Digits(Len(Peer[i]), LengthBytes) \o Peer[i] \in Strings
          /\ Len(Digits(Len(Peer[i]), LengthBytes) \o Peer[i])
                = Len(Digits(Len(Peer[i]), LengthBytes)) + Len(Peer[i])
      BY <2>1, <2>4, Joined
    <3> QED BY <3>1, <2>3, <2>4
  <2> QED BY <2>1, <2>2, <2>3, <2>5
<1>3. DOMAIN Sent = 1..N
  BY <1>1 DEF Sent
<1>4. Sent = [i \in 1..N |-> Sent[i]]
  BY <1>1 DEF Sent
<1>5. Sent \in Seq(Strings) /\ Len(Sent) = N
  BY <1>4, <1>2, <1>1
<1> QED BY <1>1, <1>2, <1>3, <1>5

\* The recursion of FlattenSeq, on the first n packets.
FlatOf(f, n) == f = [i \in 1..n |-> IF i = 1 THEN Sent[i] ELSE f[i - 1] \o Sent[i]]

LEMMA FlatExists == \A n \in Nat : \E f : FlatOf(f, n)
<1> DEFINE G == {n \in Nat : \E f : FlatOf(f, n)}
<1>1. 0 \in G
  <2>1. FlatOf([i \in 1..0 |-> <<>>], 0)
    BY DEF FlatOf
  <2> QED BY <2>1
<1>2. ASSUME NEW n \in Nat, n \in G PROVE n + 1 \in G
  <2>1. PICK f : FlatOf(f, n)
    BY <1>2
  <2> DEFINE m == n + 1
             last == IF m = 1 THEN Sent[m] ELSE f[n] \o Sent[m]
             g == [i \in 1..m |-> IF i = m THEN last ELSE f[i]]
  <2>3. ASSUME NEW i \in 1..m PROVE g[i] = IF i = 1 THEN Sent[i] ELSE g[i - 1] \o Sent[i]
    <3>1. CASE i = m
      <4>1. g[i] = last /\ (i # 1 => g[i - 1] = f[n])
        BY <3>1
      <4> HIDE DEF g
      <4> QED BY <4>1, <3>1
    <3>2. CASE i # m
      <4>1. i \in 1..n /\ g[i] = f[i] /\ (i # 1 => g[i - 1] = f[i - 1])
        BY <3>2
      <4>2. f[i] = IF i = 1 THEN Sent[i] ELSE f[i - 1] \o Sent[i]
        BY <4>1, <2>1 DEF FlatOf
      <4> HIDE DEF g
      <4> QED BY <4>1, <4>2
    <3> QED BY <3>1, <3>2
  <2>4. g = [i \in 1..m |-> g[i]]
    OBVIOUS
  <2> HIDE DEF g
  <2>5. FlatOf(g, m)
    BY <2>3, <2>4 DEF FlatOf
  <2> QED BY <2>5
<1> HIDE DEF G
<1>3. Nat \subseteq G
  BY <1>1, <1>2, Upwards
<1> QED BY <1>3 DEF G

\* Where the packets end in the stream, e[0] is its beginning.
Borders(e) ==
    /\ e \in [0..N -> Nat] /\ e[0] = 0 /\ e[N] = Len(Stream)
    /\ \A i \in 1..N : e[i] = e[i - 1] + Len(Sent[i]) /\ SubSeq(Stream, e[i - 1] + 1, e[i]) = Sent[i]

EndOf(f, i) == IF i = 0 THEN 0 ELSE Len(f[i])

\* What the first i packets make ends with the i-th.
LEMMA FlatEnds ==
    ASSUME NEW f, FlatOf(f, N), NEW i \in 1..N
    PROVE  /\ f[i] \in Strings /\ EndOf(f, i) \in Nat /\ EndOf(f, i - 1) \in Nat
           /\ EndOf(f, i) = EndOf(f, i - 1) + Len(Sent[i])
           /\ \A k \in 1..Len(Sent[i]) : f[i][EndOf(f, i - 1) + k] = Sent[i][k]
<1>1. \A j \in 1..N : f[j] = IF j = 1 THEN Sent[j] ELSE f[j - 1] \o Sent[j]
  BY DEF FlatOf
<1>2. \A j \in 1..N : Sent[j] \in Strings
  BY SentIs
<1> DEFINE G == {j \in 1..N : f[j] \in Strings}
<1>3. N # 0 => 1 \in G
  BY <1>1, <1>2, SentIs
<1>4. ASSUME NEW j \in 1..N, j \in G, j + 1 \in 1..N PROVE j + 1 \in G
  <2>1. f[j + 1] = f[j] \o Sent[j + 1]
    <3>1. j + 1 # 1 /\ (j + 1) - 1 = j
      BY SentIs
    <3> QED BY <3>1, <1>1, <1>4
  <2>2. f[j] \in Strings /\ Sent[j + 1] \in Strings
    BY <1>2, <1>4
  <2>3. f[j + 1] \in Strings
    BY <2>1, <2>2, Joined
  <2> QED BY <2>3, <1>4
<1>5. \A j \in 1..N : f[j] \in Strings
  <2>1. N \in Nat
    BY SentIs
  <2> HIDE DEF G
  <2>2. 1..N \subseteq G
    BY <2>1, <1>3, <1>4, UpTo
  <2> QED BY <2>2 DEF G
<1>6. CASE i = 1
  <2>1. f[1] = Sent[1] /\ Sent[1] \in Strings /\ i - 1 = 0
    BY <1>1, <1>2, <1>6
  <2>2. Len(Sent[1]) \in Nat
    BY <2>1 DEF Strings
  <2> QED BY <2>1, <2>2, <1>6 DEF EndOf
<1>7. CASE i # 1
  <2>1. i - 1 \in 1..N /\ f[i] = f[i - 1] \o Sent[i] /\ f[i - 1] \in Strings /\ Sent[i] \in Strings
    <3>1. i - 1 \in 1..N /\ i \in 1..N
      BY <1>7, SentIs
    <3> QED BY <3>1, <1>1, <1>2, <1>5, <1>7
  <2>2. EndOf(f, i - 1) = Len(f[i - 1]) /\ EndOf(f, i) = Len(f[i])
    <3>1. i # 0 /\ i - 1 # 0
      BY <1>7, SentIs
    <3> QED BY <3>1 DEF EndOf
  <2>3. /\ Len(f[i]) = Len(f[i - 1]) + Len(Sent[i]) /\ Len(f[i]) \in Nat /\ Len(f[i - 1]) \in Nat
        /\ \A k \in 1..Len(Sent[i]) : f[i][Len(f[i - 1]) + k] = Sent[i][k]
    <3>1. /\ f[i - 1] \o Sent[i] \in Strings
          /\ Len(f[i - 1] \o Sent[i]) = Len(f[i - 1]) + Len(Sent[i])
          /\ Len(f[i - 1]) \in Nat /\ Len(Sent[i]) \in Nat
          /\ \A k \in 1..Len(Sent[i]) : (f[i - 1] \o Sent[i])[Len(f[i - 1]) + k] = Sent[i][k]
      BY <2>1, Joined
    <3>2. f[i] \in Strings => Len(f[i]) \in Nat
      BY DEF Strings
    <3> QED BY <3>1, <3>2, <2>1, Zenon
  <2> QED BY <2>1, <2>2, <2>3, <1>5
<1> QED BY <1>6, <1>7

\* What they make stays at the front.
LEMMA FlatFront ==
    ASSUME NEW f, FlatOf(f, N), NEW i \in 1..N
    PROVE  EndOf(f, i) <= EndOf(f, N) /\ \A k \in 1..EndOf(f, i) : f[N][k] = f[i][k]
<1> DEFINE Begins(m) == EndOf(f, i) <= EndOf(f, m) /\ \A k \in 1..EndOf(f, i) : f[m][k] = f[i][k]
           G == {m \in 1..N : m >= i => Begins(m)}
<1>1. N \in Nat /\ i \in Nat /\ EndOf(f, i) \in Nat
  BY SentIs, FlatEnds
<1>2. Begins(i)
  BY <1>1
<1> HIDE DEF Begins
<1>3. N # 0 => 1 \in G
  <2>1. 1 >= i => i = 1
    BY <1>1
  <2> QED BY <1>1, <1>2, <2>1
<1>4. ASSUME NEW m \in 1..N, m \in G, m + 1 \in 1..N PROVE m + 1 \in G
  <2>1. CASE m + 1 > i
    <3>1. m >= i /\ Begins(m)
      BY <2>1, <1>1, <1>4
    <3>2. f[m + 1] = f[m] \o Sent[m + 1]
      <4>1. m + 1 # 1 /\ (m + 1) - 1 = m
        BY <1>1
      <4>2. f[m + 1] = IF m + 1 = 1 THEN Sent[m + 1] ELSE f[(m + 1) - 1] \o Sent[m + 1]
        BY <1>4 DEF FlatOf
      <4> QED BY <4>1, <4>2
    <3>3. f[m] \in Strings /\ Sent[m + 1] \in Strings
      BY <1>4, FlatEnds, SentIs
    <3>4. EndOf(f, m) = Len(f[m]) /\ EndOf(f, m + 1) = Len(f[m + 1])
      BY <1>4 DEF EndOf
    <3>5. Len(f[m + 1]) >= Len(f[m]) /\ Len(f[m]) \in Nat /\ Len(f[m + 1]) \in Nat
          /\ \A k \in 1..Len(f[m]) : f[m + 1][k] = f[m][k]
      <4>1. /\ Len(f[m] \o Sent[m + 1]) = Len(f[m]) + Len(Sent[m + 1])
            /\ Len(f[m]) \in Nat /\ Len(Sent[m + 1]) \in Nat
            /\ \A k \in 1..Len(f[m]) : (f[m] \o Sent[m + 1])[k] = f[m][k]
        BY <3>3, Joined
      <4>2. /\ Len(f[m + 1]) = Len(f[m]) + Len(Sent[m + 1])
            /\ \A k \in 1..Len(f[m]) : f[m + 1][k] = f[m][k]
        BY <4>1, <3>2, Zenon
      <4>3. \A x, y \in Nat : x + y \in Nat /\ x + y >= x
        OBVIOUS
      <4> QED BY <4>1, <4>2, <4>3, Zenon
    <3>6. Begins(m + 1)
      BY <3>1, <3>4, <3>5, <1>1 DEF Begins
    <3> QED BY <3>6, <1>4
  <2>2. CASE ~(m + 1 > i)
    <3>1. m + 1 >= i => m + 1 = i
      BY <2>2, <1>1
    <3> QED BY <3>1, <1>2, <1>4
  <2> QED BY <2>1, <2>2
<1> HIDE DEF G
<1>5. 1..N \subseteq G
  BY <1>1, <1>3, <1>4, UpTo
<1>6. N \in 1..N /\ N >= i
  BY <1>1
<1>7. Begins(N)
  BY <1>5, <1>6 DEF G
<1> QED BY <1>7 DEF Begins

LEMMA StreamParts == Stream \in Strings /\ \E e : Borders(e)
<1>1. CASE N = 0
  <2>1. Sent = <<>> /\ Stream = <<>>
    BY <1>1, SentIs DEF Stream, FlattenSeq
  <2>2. Borders([i \in 0..0 |-> 0])
    BY <1>1, <2>1 DEF Borders
  <2> QED BY <2>1, <2>2 DEF Strings
<1>2. CASE N # 0
  <2> DEFINE f == CHOOSE g : FlatOf(g, N)
  <2>1. FlatOf(f, N)
    BY FlatExists, SentIs
  <2>2. Stream = f[N]
    BY <1>2, SentIs DEF Stream, FlattenSeq, FlatOf
  <2> HIDE DEF f
  <2>3. N \in 1..N
    BY <1>2, SentIs
  <2>4. f[N] \in Strings /\ EndOf(f, N) = Len(f[N]) /\ EndOf(f, 0) = 0
    <3>1. f[N] \in Strings
      BY <2>1, <2>3, FlatEnds
    <3> QED BY <3>1, <1>2 DEF EndOf
  <2>5. \A i \in 0..N : EndOf(f, i) \in Nat
    <3>1. \A i \in 0..N : i = 0 \/ i \in 1..N
      BY SentIs
    <3> QED BY <3>1, <2>1, <2>4, FlatEnds
  <2>6. ASSUME NEW i \in 1..N
        PROVE  /\ EndOf(f, i) = EndOf(f, i - 1) + Len(Sent[i])
               /\ SubSeq(Stream, EndOf(f, i - 1) + 1, EndOf(f, i)) = Sent[i]
    <3>1. /\ EndOf(f, i) \in Nat /\ EndOf(f, i - 1) \in Nat
          /\ EndOf(f, i) = EndOf(f, i - 1) + Len(Sent[i])
          /\ \A k \in 1..Len(Sent[i]) : f[i][EndOf(f, i - 1) + k] = Sent[i][k]
      BY <2>1, FlatEnds
    <3>2. EndOf(f, i) <= EndOf(f, N) /\ \A k \in 1..EndOf(f, i) : f[N][k] = f[i][k]
      BY <2>1, FlatFront
    <3>3. Sent[i] \in Strings /\ Len(Sent[i]) \in Nat
      BY SentIs DEF Strings
    <3>4. \A k \in 1..Len(Sent[i]) : f[N][EndOf(f, i - 1) + k] = Sent[i][k]
      <4>1. \A k \in 1..Len(Sent[i]) : EndOf(f, i - 1) + k \in 1..EndOf(f, i)
        BY <3>1, <3>3
      <4> QED BY <4>1, <3>1, <3>2
    <3>5. \A k \in EndOf(f, i - 1) + 1 .. EndOf(f, i) : f[N][k] \in Octets
      <4>1. \A k \in EndOf(f, i - 1) + 1 .. EndOf(f, i) : k \in 1..Len(f[N])
        BY <3>1, <3>2, <2>4, <2>3, <2>5
      <4> QED BY <4>1, <2>4 DEF Strings
    <3>6. /\ SubSeq(f[N], EndOf(f, i - 1) + 1, EndOf(f, i)) \in Strings
          /\ Len(SubSeq(f[N], EndOf(f, i - 1) + 1, EndOf(f, i))) = Len(Sent[i])
          /\ \A k \in 1..Len(Sent[i]) : SubSeq(f[N], EndOf(f, i - 1) + 1, EndOf(f, i))[k] = f[N][EndOf(f, i - 1) + k]
      <4> DEFINE a == EndOf(f, i - 1) + 1
                 b == EndOf(f, i)
      <4>1. a \in Int /\ b \in Int /\ b - a + 1 = Len(Sent[i])
            /\ (IF a <= b THEN b - a + 1 ELSE 0) = Len(Sent[i])
        <5>1. \A x, y, z \in Nat : y = x + z => y - (x + 1) + 1 = z /\ (z # 0 => x + 1 <= y)
          OBVIOUS
        <5>2. b - a + 1 = Len(Sent[i]) /\ (Len(Sent[i]) # 0 => a <= b)
          BY <5>1, <3>1, <3>3
        <5>3. a \in Int /\ b \in Int
          BY <3>1
        <5> QED BY <5>2, <5>3, <3>3
      <4>2. /\ SubSeq(f[N], a, b) \in Seq(Octets)
            /\ Len(SubSeq(f[N], a, b)) = IF a <= b THEN b - a + 1 ELSE 0
            /\ \A k \in 1..b - a + 1 : SubSeq(f[N], a, b)[k] = f[N][a + k - 1]
        <5>1. \A k \in a..b : f[N][k] \in Octets
          BY <3>5
        <5> HIDE DEF a, b
        <5> QED BY <4>1, <5>1, SubSeqProperties
      <4>3. \A k \in 1..Len(Sent[i]) : a + k - 1 = EndOf(f, i - 1) + k
        BY <3>1
      <4> HIDE DEF a, b
      <4>4. \A k \in 1..Len(Sent[i]) : SubSeq(f[N], a, b)[k] = f[N][EndOf(f, i - 1) + k]
        BY <4>1, <4>2, <4>3
      <4> QED BY <4>1, <4>2, <4>4 DEF a, b, Strings
    <3>7. SubSeq(f[N], EndOf(f, i - 1) + 1, EndOf(f, i)) = Sent[i]
      BY <3>3, <3>4, <3>6, SeqEqual DEF Strings
    <3> QED BY <3>1, <3>7, <2>2
  <2> DEFINE e == [i \in 0..N |-> EndOf(f, i)]
  <2>7. e \in [0..N -> Nat] /\ e[0] = 0 /\ e[N] = Len(Stream)
    BY <2>2, <2>4, <2>5, SentIs
  <2>8. \A i \in 1..N : e[i] = EndOf(f, i) /\ e[i - 1] = EndOf(f, i - 1)
    BY SentIs
  <2> HIDE DEF e
  <2>9. Borders(e)
    BY <2>6, <2>7, <2>8 DEF Borders
  <2> QED BY <2>2, <2>4, <2>9
<1> QED BY <1>1, <1>2

\* The borders of the stream, and what of it lies between two places.
Ends == CHOOSE e : Borders(e)
L == Len(Stream)
Window(a, b) == SubSeq(Stream, a + 1, b)

LEMMA EndsAre == Borders(Ends) /\ N \in Nat /\ L \in Nat /\ Stream \in Strings
<1>1. Borders(Ends)
  BY StreamParts DEF Ends
<1> QED BY <1>1, StreamParts, SentIs DEF L, Strings

\* From one border to the next is a packet.
LEMMA EndsNext ==
    ASSUME NEW i \in 1..N
    PROVE  /\ Ends[i - 1] \in Nat /\ Ends[i] \in Nat /\ Ends[i] = Ends[i - 1] + LengthBytes + Len(Peer[i])
           /\ Len(Peer[i]) \in Nat /\ Len(Peer[i]) <= MaxPacketSize - LengthBytes
           /\ Window(Ends[i - 1], Ends[i]) = Sent[i] /\ Len(Sent[i]) = LengthBytes + Len(Peer[i])
<1>1. i \in 0..N /\ i - 1 \in 0..N
  BY SentIs
<1>2. Ends[i - 1] \in Nat /\ Ends[i] \in Nat /\ Ends[i] = Ends[i - 1] + Len(Sent[i])
      /\ Window(Ends[i - 1], Ends[i]) = Sent[i]
  BY <1>1, EndsAre DEF Borders, Window
<1>3. /\ Len(Peer[i]) \in Nat /\ Len(Peer[i]) <= MaxPacketSize - LengthBytes
      /\ Len(Sent[i]) = LengthBytes + Len(Peer[i])
  BY SentIs
<1> QED BY <1>2, <1>3, ReadSizes

LEMMA EndsOrder ==
    ASSUME NEW i \in 0..N, NEW k \in 0..N, i <= k
    PROVE  Ends[i] \in Nat /\ Ends[k] \in Nat /\ Ends[i] <= Ends[k]
<1>1. \A j \in 0..N : Ends[j] \in Nat
  BY EndsAre DEF Borders
<1>2. N \in Nat /\ i \in Nat /\ LengthBytes \in Nat
  BY EndsAre, ReadSizes
<1> DEFINE G == {d \in Nat : i + d <= N => Ends[i] <= Ends[i + d]}
<1>3. 0 \in G
  <2>1. i + 0 = i
    BY <1>2
  <2> QED BY <1>1, <2>1
<1>4. ASSUME NEW d \in Nat, d \in G PROVE d + 1 \in G
  <2>1. SUFFICES ASSUME i + (d + 1) <= N PROVE Ends[i] <= Ends[i + (d + 1)]
    OBVIOUS
  <2>2. i + (d + 1) \in 1..N /\ (i + (d + 1)) - 1 = i + d /\ Ends[i] <= Ends[i + d] /\ i + d \in 0..N
    BY <2>1, <1>4, <1>2
  <2>3. /\ Ends[i + (d + 1)] = Ends[i + d] + LengthBytes + Len(Peer[i + (d + 1)])
        /\ Len(Peer[i + (d + 1)]) \in Nat
    BY <2>2, EndsNext
  <2> QED BY <2>2, <2>3, <1>1, <1>2
<1> HIDE DEF G
<1>5. k - i \in G
  BY <1>2, <1>3, <1>4, Upwards
<1>6. i + (k - i) = k
  BY <1>2
<1> QED BY <1>1, <1>2, <1>5, <1>6 DEF G

LEMMA EndsGrow == ASSUME NEW i \in 0..N PROVE Ends[i] \in Nat /\ Ends[i] <= L
<1>1. N \in 0..N /\ i <= N /\ Ends[N] = L
  BY EndsAre DEF Borders, L
<1> QED BY <1>1, EndsOrder

LEMMA WindowIs ==
    ASSUME NEW a \in Nat, NEW b \in Nat, a <= b, b <= L
    PROVE  /\ Window(a, b) \in Strings /\ Len(Window(a, b)) = b - a
           /\ \A k \in 1..b - a : Window(a, b)[k] = Stream[a + k]
<1>1. Stream \in Seq(Octets) /\ L \in Nat /\ L = Len(Stream)
  BY EndsAre DEF Strings, L
<1>2. \A k \in a + 1 .. b : Stream[k] \in Octets
  BY <1>1
<1>3. a + 1 \in Int /\ b \in Int /\ b - (a + 1) + 1 = b - a
      /\ (IF a + 1 <= b THEN b - (a + 1) + 1 ELSE 0) = b - a
  OBVIOUS
<1>4. /\ SubSeq(Stream, a + 1, b) \in Seq(Octets)
      /\ Len(SubSeq(Stream, a + 1, b)) = b - a
      /\ \A k \in 1..b - a : SubSeq(Stream, a + 1, b)[k] = Stream[(a + 1) + k - 1]
  BY <1>2, <1>3, SubSeqProperties
<1>5. \A k \in 1..b - a : (a + 1) + k - 1 = a + k
  OBVIOUS
<1> QED BY <1>4, <1>5 DEF Window, Strings

LEMMA WindowCut ==
    ASSUME NEW a \in Nat, NEW b \in Nat, a <= b, b <= L, NEW c \in Nat, NEW d \in Nat, c <= d, a + d <= b
    PROVE  SubSeq(Window(a, b), c + 1, d) = Window(a + c, a + d)
<1>1. /\ Window(a, b) \in Seq(Octets) /\ Len(Window(a, b)) = b - a
      /\ \A k \in 1..b - a : Window(a, b)[k] = Stream[a + k]
  BY WindowIs DEF Strings
<1>2. a + c \in Nat /\ a + d \in Nat /\ a + c <= a + d /\ a + d <= L /\ (a + d) - (a + c) = d - c
  BY EndsAre
<1>3. /\ Window(a + c, a + d) \in Seq(Octets) /\ Len(Window(a + c, a + d)) = d - c
      /\ \A k \in 1..d - c : Window(a + c, a + d)[k] = Stream[(a + c) + k]
  BY <1>2, WindowIs DEF Strings
<1>4. \A k \in c + 1 .. d : Window(a, b)[k] \in Octets
  <2>1. \A k \in c + 1 .. d : k \in 1..b - a
    OBVIOUS
  <2> QED BY <2>1, <1>1
<1>5. c + 1 \in Int /\ d \in Int /\ d - (c + 1) + 1 = d - c
      /\ (IF c + 1 <= d THEN d - (c + 1) + 1 ELSE 0) = d - c
  OBVIOUS
<1>6. /\ SubSeq(Window(a, b), c + 1, d) \in Seq(Octets)
      /\ Len(SubSeq(Window(a, b), c + 1, d)) = d - c
      /\ \A k \in 1..d - c : SubSeq(Window(a, b), c + 1, d)[k] = Window(a, b)[(c + 1) + k - 1]
  BY <1>4, <1>5, SubSeqProperties
<1>7. ASSUME NEW k \in 1..d - c PROVE SubSeq(Window(a, b), c + 1, d)[k] = Window(a + c, a + d)[k]
  <2>1. (c + 1) + k - 1 = c + k /\ c + k \in 1..b - a /\ a + (c + k) = (a + c) + k
    OBVIOUS
  <2>2. Window(a, b)[c + k] = Stream[a + (c + k)]
    BY <2>1, <1>1
  <2> QED BY <2>1, <2>2, <1>3, <1>6
<1> QED BY <1>3, <1>6, <1>7, SeqEqual

LEMMA WindowHead ==
    ASSUME NEW a \in Nat, NEW b \in Nat, a <= b, b <= L, NEW d \in Nat, a + d <= b
    PROVE  SubSeq(Window(a, b), 1, d) = Window(a, a + d)
<1> DEFINE c == 0
<1>1. c \in Nat /\ c <= d /\ c + 1 = 1 /\ a + c = a
  OBVIOUS
<1> HIDE DEF c
<1>2. SubSeq(Window(a, b), c + 1, d) = Window(a + c, a + d)
  BY <1>1, WindowCut
<1> QED BY <1>1, <1>2

LEMMA WindowJoin ==
    ASSUME NEW a \in Nat, NEW b \in Nat, NEW c \in Nat, a <= b, b <= c, c <= L
    PROVE  Window(a, b) \o Window(b, c) = Window(a, c)
<1>1. a <= c /\ b <= L
  BY EndsAre
<1>2. /\ Window(a, b) \in Strings /\ Len(Window(a, b)) = b - a
      /\ \A k \in 1..b - a : Window(a, b)[k] = Stream[a + k]
  BY <1>1, WindowIs
<1>3. /\ Window(b, c) \in Strings /\ Len(Window(b, c)) = c - b
      /\ \A k \in 1..c - b : Window(b, c)[k] = Stream[b + k]
  BY <1>1, WindowIs
<1>4. /\ Window(a, c) \in Strings /\ Len(Window(a, c)) = c - a
      /\ \A k \in 1..c - a : Window(a, c)[k] = Stream[a + k]
  BY <1>1, WindowIs
<1> DEFINE w == Window(a, b) \o Window(b, c)
<1>5. /\ w \in Strings /\ Len(w) = (b - a) + (c - b)
      /\ \A k \in 1..b - a : w[k] = Window(a, b)[k]
      /\ \A k \in 1..c - b : w[(b - a) + k] = Window(b, c)[k]
  <2>1. /\ w \in Strings /\ Len(w) = Len(Window(a, b)) + Len(Window(b, c))
        /\ \A k \in 1..Len(Window(a, b)) : w[k] = Window(a, b)[k]
        /\ \A k \in 1..Len(Window(b, c)) : w[Len(Window(a, b)) + k] = Window(b, c)[k]
    BY <1>2, <1>3, Joined
  <2> HIDE DEF w
  <2> QED BY <2>1, <1>2, <1>3, Zenon
<1> HIDE DEF w
<1>6. ASSUME NEW k \in 1..c - a PROVE w[k] = Window(a, c)[k]
  <2>1. CASE k <= b - a
    BY <2>1, <1>2, <1>4, <1>5
  <2>2. CASE ~(k <= b - a)
    <3>1. k - (b - a) \in 1..c - b /\ (b - a) + (k - (b - a)) = k /\ b + (k - (b - a)) = a + k
      BY <2>2
    <3>2. w[k] = Window(b, c)[k - (b - a)] /\ Window(b, c)[k - (b - a)] = Stream[a + k]
      BY <3>1, <1>3, <1>5
    <3> QED BY <3>2, <1>4
  <2> QED BY <2>1, <2>2
<1>7. w = Window(a, c)
  <2>1. Len(w) = Len(Window(a, c)) /\ \A k \in 1..Len(w) : w[k] = Window(a, c)[k]
    <3>1. (b - a) + (c - b) = c - a
      OBVIOUS
    <3> QED BY <3>1, <1>4, <1>5, <1>6
  <2> QED BY <2>1, <1>4, <1>5, SeqEqual DEF Strings
<1> QED BY <1>7 DEF w

\* The length field at a border says how long the message of the packet is.
LEMMA LengthRead ==
    ASSUME NEW i \in 1..N, NEW b \in Nat, Ends[i - 1] + LengthBytes <= b, b <= L
    PROVE  ReadMessageSize(Window(Ends[i - 1], b)) = Len(Peer[i])
<1> DEFINE a == Ends[i - 1]
           n == Len(Peer[i])
<1>1. a \in Nat /\ n \in Nat /\ n <= MaxPacketSize - LengthBytes /\ Ends[i] \in Nat /\ Ends[i] = a + LengthBytes + n
      /\ Window(a, Ends[i]) = Sent[i] /\ Ends[i] <= L /\ LengthBytes \in Nat
  <2>1. i \in 0..N
    BY SentIs
  <2> QED BY <2>1, EndsNext, EndsGrow, ReadSizes
<1>2. n \in 0 .. MaxPacketSize - LengthBytes /\ Number(Digits(n, LengthBytes)) = n
  <2>1. MaxPacketSize - LengthBytes \in Int
    BY ReadSizes
  <2>2. n \in 0 .. MaxPacketSize - LengthBytes
    BY <1>1, <2>1
  <2> QED BY <2>2, LengthsFit
<1> HIDE DEF a, n
<1>3. SubSeq(Window(a, b), 1, LengthBytes) = Window(a, a + LengthBytes)
  <2>1. a <= b /\ a + LengthBytes <= b
    BY <1>1 DEF a
  <2> QED BY <2>1, <1>1, WindowHead
<1>4. SubSeq(Window(a, Ends[i]), 1, LengthBytes) = Window(a, a + LengthBytes)
  <2>1. a <= Ends[i] /\ a + LengthBytes <= Ends[i]
    BY <1>1
  <2> QED BY <2>1, <1>1, WindowHead
<1>5. SubSeq(Sent[i], 1, LengthBytes) = Digits(n, LengthBytes)
  <2>1. Sent[i] = Digits(n, LengthBytes) \o Peer[i] /\ Peer[i] \in Strings
    BY SentIs DEF n
  <2>2. Digits(n, LengthBytes) \in Strings /\ Len(Digits(n, LengthBytes)) = LengthBytes
    BY <1>1, DigitsAre
  <2>3. /\ Sent[i] \in Strings /\ Len(Sent[i]) \in Nat /\ LengthBytes <= Len(Sent[i])
        /\ \A k \in 1..LengthBytes : Sent[i][k] = Digits(n, LengthBytes)[k]
    <3>1. Sent[i] \in Strings /\ Len(Sent[i]) = LengthBytes + n
      <4>1. Sent \in Seq(Strings) /\ i \in 1..Len(Sent) /\ Len(Sent[i]) = LengthBytes + n
        BY SentIs DEF n
      <4> QED BY <4>1, ElementOfSeq
    <3>2. \A k \in 1..Len(Digits(n, LengthBytes)) : (Digits(n, LengthBytes) \o Peer[i])[k] = Digits(n, LengthBytes)[k]
      BY <2>1, <2>2, Joined
    <3>3. \A k \in 1..LengthBytes : Sent[i][k] = Digits(n, LengthBytes)[k]
      BY <3>2, <2>1, <2>2, Zenon
    <3> QED BY <3>1, <3>3, <1>1
  <2>4. \A k \in 1..LengthBytes : Sent[i][k] \in Octets
    <3>1. \A k \in 1..LengthBytes : k \in 1..Len(Sent[i])
      BY <2>3, <1>1
    <3> QED BY <3>1, <2>3, ElementOfSeq DEF Strings
  <2>5. /\ SubSeq(Sent[i], 1, LengthBytes) \in Seq(Octets)
        /\ Len(SubSeq(Sent[i], 1, LengthBytes)) = LengthBytes
        /\ \A k \in 1..LengthBytes : SubSeq(Sent[i], 1, LengthBytes)[k] = Sent[i][k]
    <3>1. /\ (IF 1 <= LengthBytes THEN LengthBytes - 1 + 1 ELSE 0) = LengthBytes
          /\ LengthBytes - 1 + 1 = LengthBytes /\ LengthBytes \in Int
          /\ \A k \in 1..LengthBytes : 1 + k - 1 = k
      BY <1>1
    <3> QED BY <2>4, <3>1, SubSeqProperties
  <2> QED BY <2>2, <2>3, <2>5, SeqEqual DEF Strings
<1>6. SubSeq(Window(a, b), 1, LengthBytes) = Digits(n, LengthBytes)
  BY <1>1, <1>3, <1>4, <1>5
<1> QED BY <1>2, <1>6 DEF ReadMessageSize, a, n

\* What is left of it from a place on.
LEMMA WindowTail ==
    ASSUME NEW a \in Nat, NEW b \in Nat, a <= b, b <= L, NEW c \in Nat, NEW d \in Nat, c <= d, a + d <= b
    PROVE  d = b - a => From(Window(a, b), c + 1) = Window(a + c, b)
<1>1. SubSeq(Window(a, b), c + 1, d) = Window(a + c, a + d)
  BY WindowCut, Zenon
<1>2. d = b - a => Len(Window(a, b)) = d /\ a + d = b
  BY WindowIs
<1> QED BY <1>1, <1>2 DEF From

LEMMA WindowFrom ==
    ASSUME NEW a \in Nat, NEW b \in Nat, NEW y \in Nat, a <= y, y <= b, b <= L
    PROVE  From(Window(a, b), y - a + 1) = Window(y, b)
<1> DEFINE c == y - a
           d == b - a
<1>1. c \in Nat /\ d \in Nat /\ c <= d /\ a + d <= b /\ a <= b /\ a + c = y /\ d = b - a
  OBVIOUS
<1> HIDE DEF c, d
<1>2. From(Window(a, b), c + 1) = Window(a + c, b)
  BY <1>1, WindowTail
<1> QED BY <1>1, <1>2 DEF c

-----------------------------------------------------------------------------
(* Split                                                                   *)

\* A length field is a number.
LEMMA SizeIsNat ==
    ASSUME NEW bytes \in Strings, NEW p \in 1 .. Len(bytes) + 1, ~(Len(bytes) - p + 1 < LengthBytes)
    PROVE  ReadMessageSize(From(bytes, p)) \in Nat
<1>1. Len(bytes) \in Nat /\ LengthBytes \in Nat /\ p \in Nat
  BY ReadSizes DEF Strings
<1> DEFINE n == Len(bytes)
           r == From(bytes, p)
<1>2. r \in Seq(Octets) /\ Len(r) = n - p + 1
  <2>1. \A k \in p..n : bytes[k] \in Octets
    BY <1>1 DEF Strings
  <2>2. p \in Int /\ n \in Int /\ (IF p <= n THEN n - p + 1 ELSE 0) = n - p + 1
    BY <1>1
  <2> QED BY <2>1, <2>2, SubSeqProperties DEF From
<1> HIDE DEF r
<1>3. \A k \in 1..LengthBytes : k \in 1..Len(r)
  BY <1>1, <1>2
<1>4. \A k \in 1..LengthBytes : r[k] \in Nat
  <2>1. \A k \in 1..LengthBytes : r[k] \in Octets
    BY <1>2, <1>3, ElementOfSeq
  <2> QED BY <2>1, ReadSizes DEF Octets
<1>5. SubSeq(r, 1, LengthBytes) \in Seq(Nat)
  BY <1>4, <1>1, SubSeqProperties
<1> QED BY <1>5, NumberIsNat DEF ReadMessageSize, r

\* The recursion of Split, from place lo on.
SplitStep(f, bytes, p) ==
    LET rest == Len(bytes) - p + 1
        total == LengthBytes + ReadMessageSize(From(bytes, p))
    IN  IF rest < LengthBytes THEN [packets |-> <<>>, left |-> rest, err |-> FALSE]
        ELSE IF total > MaxPacketSize THEN [packets |-> <<>>, left |-> rest, err |-> TRUE]
        ELSE IF rest < total THEN [packets |-> <<>>, left |-> rest, err |-> FALSE]
        ELSE [f[p + total] EXCEPT !.packets = <<<<p, total>>>> \o @]
SplitOf(f, bytes, lo) == f = [p \in lo .. Len(bytes) + 1 |-> SplitStep(f, bytes, p)]

\* It goes on behind where it is, ...
LEMMA SplitLooksBehind ==
    ASSUME NEW bytes \in Strings, NEW p \in 1 .. Len(bytes) + 1, NEW f, NEW g,
           \A q \in 1 .. Len(bytes) + 1 : q > p => f[q] = g[q]
    PROVE  SplitStep(f, bytes, p) = SplitStep(g, bytes, p)
<1> DEFINE rest == Len(bytes) - p + 1
           total == LengthBytes + ReadMessageSize(From(bytes, p))
<1>1. CASE ~(rest < LengthBytes) /\ ~(rest < total)
  <2>1. ReadMessageSize(From(bytes, p)) \in Nat
    BY <1>1, SizeIsNat
  <2>2. Len(bytes) \in Nat /\ LengthBytes \in Nat \ {0}
    BY ReadSizes DEF Strings
  <2>3. p + total \in 1 .. Len(bytes) + 1 /\ p + total > p
    BY <1>1, <2>1, <2>2
  <2>4. f[p + total] = g[p + total]
    BY <2>3
  <2> QED BY <2>4 DEF SplitStep
<1>2. CASE rest < LengthBytes \/ rest < total
  BY <1>2 DEF SplitStep
<1> QED BY <1>1, <1>2

\* ... so it has a solution.
LEMMA SplitExists == ASSUME NEW bytes \in Strings PROVE \E f : SplitOf(f, bytes, 1)
<1> DEFINE n == Len(bytes) + 1
           G == {d \in Nat : d <= n => \E f : SplitOf(f, bytes, n + 1 - d)}
<1>1. n \in Nat
  BY DEF Strings
<1>2. 0 \in G
  <2>1. (n + 1 - 0)..n = {}
    BY <1>1
  <2>2. SplitOf([p \in (n + 1 - 0)..n |-> 0], bytes, n + 1 - 0)
    BY <2>1 DEF SplitOf
  <2> QED BY <2>2
<1>3. ASSUME NEW d \in Nat, d \in G PROVE d + 1 \in G
  <2>1. SUFFICES ASSUME d + 1 <= n PROVE \E f : SplitOf(f, bytes, n + 1 - (d + 1))
    OBVIOUS
  <2>2. PICK f : SplitOf(f, bytes, n + 1 - d)
    BY <2>1, <1>1, <1>3
  <2> DEFINE m == n + 1 - (d + 1)
             g == [p \in m..n |-> IF p = m THEN SplitStep(f, bytes, m) ELSE f[p]]
  <2>3. m \in 1..n /\ n + 1 - d = m + 1
    BY <2>1, <1>1
  <2> HIDE DEF m, n
  <2>4. \A q \in 1..n : q > m => g[q] = f[q]
    BY <2>3, <1>1
  <2>5. ASSUME NEW p \in m..n PROVE g[p] = SplitStep(g, bytes, p)
    <3>1. p \in 1..n /\ p >= m /\ \A q \in 1..n : q > p => q > m
      BY <2>3, <1>1
    <3>2. \A q \in 1..n : q > p => f[q] = g[q]
      BY <3>1, <2>4
    <3>3. SplitStep(f, bytes, p) = SplitStep(g, bytes, p)
      BY <3>1, <3>2, SplitLooksBehind DEF n
    <3>4. g[p] = SplitStep(f, bytes, p)
      <4>1. CASE p = m
        BY <4>1
      <4>2. CASE p # m
        <5>1. p \in (m + 1)..n /\ g[p] = f[p]
          BY <4>2, <2>3, <1>1
        <5>2. f = [q \in (m + 1)..n |-> SplitStep(f, bytes, q)]
          BY <2>2, <2>3 DEF SplitOf, n
        <5>3. f[p] = SplitStep(f, bytes, p)
          BY <5>1, <5>2
        <5> QED BY <5>1, <5>3
      <4> QED BY <4>1, <4>2
    <3> QED BY <3>3, <3>4
  <2>6. g = [p \in m..n |-> g[p]]
    OBVIOUS
  <2> HIDE DEF g
  <2>7. SplitOf(g, bytes, m)
    BY <2>5, <2>6 DEF SplitOf, n
  <2> QED BY <2>7 DEF m
<1> HIDE DEF G
<1>4. n \in G
  BY <1>1, <1>2, <1>3, Upwards
<1>5. n <= n /\ n + 1 - n = 1
  BY <1>1
<1> QED BY <1>4, <1>5 DEF G

LEMMA SplitIs ==
    ASSUME NEW bytes \in Strings
    PROVE  \E f : SplitOf(f, bytes, 1) /\ Split(bytes) = f[1]
<1> DEFINE f == CHOOSE g : SplitOf(g, bytes, 1)
<1>1. SplitOf(f, bytes, 1)
  BY SplitExists
<1>2. Split(bytes) = f[1]
  BY DEF Split, SplitOf, SplitStep
<1> QED BY <1>1, <1>2

\* Where packet i + 1 begins in what lies behind border j, and the packets from there to border m.
At(j, i) == Ends[i] - Ends[j] + 1
Lying(j, i, m) == [k \in 1 .. m - i |-> <<At(j, i + k - 1), Len(Sent[i + k])>>]

LEMMA LyingNext ==
    ASSUME NEW j \in 0..N, NEW m \in j..N, NEW i \in j..m, i # m
    PROVE  <<<<At(j, i), Len(Sent[i + 1])>>>> \o Lying(j, i + 1, m) = Lying(j, i, m)
<1>1. N \in Nat /\ j \in Nat /\ m \in Nat /\ i \in Nat
  BY EndsAre
<1> DEFINE T == Nat \X Nat
<1>2. ASSUME NEW q \in j..m - 1 PROVE <<At(j, q), Len(Sent[q + 1])>> \in T
  <2>1. q + 1 \in 1..N /\ q \in 0..N /\ j <= q
    BY <1>1
  <2>2. Ends[q] \in Nat /\ Ends[j] \in Nat /\ Ends[j] <= Ends[q]
    BY <2>1, EndsOrder
  <2>3. Len(Sent[q + 1]) \in Nat
    BY <2>1, SentIs, ReadSizes
  <2> QED BY <2>2, <2>3 DEF At
<1>3. ASSUME NEW q \in j..m
      PROVE  /\ Lying(j, q, m) \in Seq(T) /\ Len(Lying(j, q, m)) = m - q
             /\ \A k \in 1 .. m - q : Lying(j, q, m)[k] = <<At(j, q + k - 1), Len(Sent[q + k])>>
  <2>1. ASSUME NEW k \in 1 .. m - q PROVE <<At(j, q + k - 1), Len(Sent[q + k])>> \in T
    <3>1. q + k - 1 \in j..m - 1 /\ (q + k - 1) + 1 = q + k
      BY <1>1
    <3> HIDE DEF T
    <3> QED BY <3>1, <1>2
  <2>2. m - q \in Nat
    BY <1>1
  <2> DEFINE e(k) == <<At(j, q + k - 1), Len(Sent[q + k])>>
             s == [k \in 1 .. m - q |-> e(k)]
  <2>3. s \in Seq(T) /\ Len(s) = m - q /\ \A k \in 1 .. m - q : s[k] = e(k)
    <3>1. \A k \in 1 .. m - q : e(k) \in T
      BY <2>1
    <3> HIDE DEF e, T
    <3> QED BY <3>1, <2>2
  <2>4. Lying(j, q, m) = s
    BY DEF Lying
  <2> HIDE DEF T, s
  <2> QED BY <2>3, <2>4
<1> DEFINE e == <<At(j, i), Len(Sent[i + 1])>>
           s == <<e>> \o Lying(j, i + 1, m)
<1>4. e \in T
  BY <1>1, <1>2
<1>5. i + 1 \in j..m /\ i \in j..m
  BY <1>1
<1> HIDE DEF T
<1>6. /\ Lying(j, i + 1, m) \in Seq(T) /\ Len(Lying(j, i + 1, m)) = m - (i + 1)
      /\ \A k \in 1 .. m - (i + 1) : Lying(j, i + 1, m)[k] = <<At(j, (i + 1) + k - 1), Len(Sent[(i + 1) + k])>>
  BY <1>3, <1>5
<1>7. /\ Lying(j, i, m) \in Seq(T) /\ Len(Lying(j, i, m)) = m - i
      /\ \A k \in 1 .. m - i : Lying(j, i, m)[k] = <<At(j, i + k - 1), Len(Sent[i + k])>>
  BY <1>3, <1>5
<1>8. /\ s \in Seq(T) /\ Len(s) = 1 + (m - (i + 1)) /\ s[1] = e
      /\ \A k \in 1 .. m - (i + 1) : s[1 + k] = Lying(j, i + 1, m)[k]
  <2> HIDE DEF e
  <2>1. <<e>> \in Seq(T) /\ Len(<<e>>) = 1 /\ <<e>>[1] = e
    BY <1>4
  <2> DEFINE t == Lying(j, i + 1, m)
             u == <<e>>
  <2>2. /\ u \o t \in Seq(T) /\ Len(u \o t) = Len(u) + Len(t)
        /\ \A k \in 1 .. Len(u) + Len(t) : (u \o t)[k] = IF k <= Len(u) THEN u[k] ELSE t[k - Len(u)]
    <3>1. u \in Seq(T) /\ t \in Seq(T)
      BY <2>1, <1>6
    <3> HIDE DEF u, t
    <3> QED BY <3>1, ConcatProperties
  <2>3. Len(t) = m - (i + 1) /\ Len(u) = 1 /\ u[1] = e
    BY <1>6, <2>1
  <2>4. s = u \o t
    OBVIOUS
  <2> HIDE DEF t, u, s
  <2>5. (u \o t)[1] = e
    BY <2>2, <2>3, <1>1, <1>5
  <2>6. ASSUME NEW k \in 1 .. m - (i + 1) PROVE (u \o t)[1 + k] = t[k]
    <3>1. 1 + k \in 1 .. Len(u) + Len(t) /\ ~(1 + k <= Len(u)) /\ (1 + k) - Len(u) = k
      BY <2>3, <1>1
    <3> QED BY <3>1, <2>2
  <2> QED BY <2>2, <2>3, <2>4, <2>5, <2>6 DEF t
<1> HIDE DEF s
<1>9. ASSUME NEW k \in 1 .. m - i PROVE s[k] = Lying(j, i, m)[k]
  <2>1. CASE k = 1
    <3>1. i + 1 - 1 = i /\ 1 \in 1 .. m - i
      BY <1>1, <1>5
    <3>2. Lying(j, i, m)[1] = <<At(j, i + 1 - 1), Len(Sent[i + 1])>>
      BY <3>1, <1>7
    <3> QED BY <3>1, <3>2, <2>1, <1>8 DEF e
  <2>2. CASE k # 1
    <3>1. k - 1 \in 1 .. m - (i + 1) /\ 1 + (k - 1) = k /\ (i + 1) + (k - 1) - 1 = i + k - 1
          /\ (i + 1) + (k - 1) = i + k
      BY <2>2, <1>1
    <3>2. s[1 + (k - 1)] = Lying(j, i + 1, m)[k - 1]
      BY <3>1, <1>8
    <3>3. Lying(j, i + 1, m)[k - 1] = <<At(j, (i + 1) + (k - 1) - 1), Len(Sent[(i + 1) + (k - 1)])>>
      BY <3>1, <1>6
    <3> QED BY <3>1, <3>2, <3>3, <1>7
  <2> QED BY <2>1, <2>2
<1>10. s = Lying(j, i, m)
  <2>1. Len(s) = m - i
    BY <1>8, <1>1
  <2> QED BY <2>1, <1>7, <1>8, <1>9, SeqEqual
<1> QED BY <1>10 DEF s, e

\* The last border that has arrived.
LEMMA LastBorder ==
    ASSUME NEW j \in 0..N, NEW a \in Nat, Ends[j] <= a
    PROVE  \E m \in j..N : Ends[m] <= a /\ (m # N => ~(Ends[m + 1] <= a))
<1>1. N \in Nat /\ j \in Nat
  BY EndsAre
<1> DEFINE S == {N - i : i \in {k \in j..N : Ends[k] <= a}}
<1>2. S \subseteq Nat /\ S # {}
  <2>1. \A i \in j..N : N - i \in Nat
    BY <1>1
  <2>2. j \in {k \in j..N : Ends[k] <= a}
    BY <1>1
  <2>3. N - j \in S
    BY <2>2
  <2> QED BY <2>1, <2>3
<1>3. PICK d \in S : \A e \in S : d <= e
  BY <1>2, Least
<1>4. PICK m \in j..N : Ends[m] <= a /\ d = N - m
  OBVIOUS
<1>5. ASSUME m # N, Ends[m + 1] <= a PROVE FALSE
  <2>1. m + 1 \in j..N
    BY <1>5, <1>1
  <2>2. N - (m + 1) \in S
    BY <2>1, <1>5
  <2>3. N - m <= N - (m + 1)
    BY <2>2, <1>3, <1>4
  <2> QED BY <2>3, <1>1
<1> QED BY <1>4, <1>5

\* Split finds the packets whose ends have arrived, and leaves what lies behind the last of them.
LEMMA SplitFinds ==
    ASSUME NEW j \in 0..N, NEW a \in Nat, Ends[j] <= a, a <= L,
           NEW m \in j..N, Ends[m] <= a, m # N => ~(Ends[m + 1] <= a)
    PROVE  Split(Window(Ends[j], a)) = [packets |-> Lying(j, j, m), left |-> a - Ends[m], err |-> FALSE]
<1> DEFINE bytes == Window(Ends[j], a)
<1>1. N \in Nat /\ j \in Nat /\ m \in Nat /\ LengthBytes \in Nat \ {0} /\ Ends[j] \in Nat /\ Ends[m] \in Nat /\ m \in 0..N
  <2>1. m \in 0..N /\ N \in Nat
    BY EndsAre
  <2> QED BY <2>1, EndsAre, EndsOrder, ReadSizes
<1>2. bytes \in Strings /\ Len(bytes) = a - Ends[j]
  BY <1>1, WindowIs
<1>3. PICK f : SplitOf(f, bytes, 1) /\ Split(bytes) = f[1]
  BY <1>2, SplitIs
<1> HIDE DEF bytes
\* What Split sees at a border.
<1>4. ASSUME NEW i \in j..m
      PROVE  /\ i \in 0..N /\ Ends[i] \in Nat /\ Ends[j] <= Ends[i] /\ Ends[i] <= a
             /\ At(j, i) \in 1 .. Len(bytes) + 1
             /\ Len(bytes) - At(j, i) + 1 = a - Ends[i]
             /\ From(bytes, At(j, i)) = Window(Ends[i], a)
             /\ f[At(j, i)] = SplitStep(f, bytes, At(j, i))
  <2>1. i \in 0..N /\ j <= i /\ i <= m
    BY <1>1
  <2>2. Ends[i] \in Nat /\ Ends[j] <= Ends[i] /\ Ends[i] <= Ends[m]
    BY <2>1, <1>1, EndsOrder
  <2>3. Ends[i] <= a
    BY <2>2, <1>1
  <2>4. At(j, i) \in 1 .. Len(bytes) + 1 /\ Len(bytes) - At(j, i) + 1 = a - Ends[i]
    <3>1. \A x, y \in Nat : x <= y /\ y <= a => /\ y - x + 1 \in 1 .. (a - x) + 1
                                                /\ (a - x) - (y - x + 1) + 1 = a - y
      OBVIOUS
    <3>2. /\ Ends[i] - Ends[j] + 1 \in 1 .. (a - Ends[j]) + 1
          /\ (a - Ends[j]) - (Ends[i] - Ends[j] + 1) + 1 = a - Ends[i]
      BY <3>1, <2>2, <2>3, <1>1
    <3> QED BY <3>2, <1>2 DEF At
  <2>5. From(bytes, At(j, i)) = Window(Ends[i], a)
    <3> DEFINE b == Ends[j]
               y == Ends[i]
    <3>1. b \in Nat /\ y \in Nat /\ b <= y /\ y <= a
      BY <2>2, <2>3, <1>1
    <3> HIDE DEF b, y
    <3>2. From(Window(b, a), y - b + 1) = Window(y, a)
      BY <3>1, WindowFrom
    <3> QED BY <3>2 DEF At, b, y, bytes
  <2>6. f[At(j, i)] = SplitStep(f, bytes, At(j, i))
    BY <2>4, <1>3 DEF SplitOf
  <2> QED BY <2>1, <2>2, <2>3, <2>4, <2>5, <2>6
<1> DEFINE Found(i) == f[At(j, i)] = [packets |-> Lying(j, i, m), left |-> a - Ends[m], err |-> FALSE]
           G == {d \in Nat : m - d >= j => Found(m - d)}
<1>5. Found(m)
  <2>1. m \in j..m
    BY <1>1
  <2>2. Lying(j, m, m) = <<>>
    BY <1>1 DEF Lying
  <2>3. Len(bytes) - At(j, m) + 1 = a - Ends[m] /\ f[At(j, m)] = SplitStep(f, bytes, At(j, m))
        /\ From(bytes, At(j, m)) = Window(Ends[m], a)
    BY <2>1, <1>4
  <2>4. CASE a - Ends[m] < LengthBytes
    BY <2>2, <2>3, <2>4 DEF SplitStep
  <2>5. CASE ~(a - Ends[m] < LengthBytes)
    <3>1. m # N
      <4>1. ASSUME m = N PROVE FALSE
        <5>1. Ends[m] = L /\ L \in Nat
          BY <4>1, EndsAre DEF Borders, L
        <5> QED BY <5>1, <2>5, <1>1
      <4> QED BY <4>1
    <3>2. m + 1 \in 1..N /\ (m + 1) - 1 = m
      BY <3>1, <1>1
    <3>3. /\ Ends[m + 1] = Ends[m] + LengthBytes + Len(Peer[m + 1]) /\ Len(Peer[m + 1]) \in Nat
          /\ Len(Peer[m + 1]) <= MaxPacketSize - LengthBytes
      BY <3>2, EndsNext
    <3>4. ReadMessageSize(Window(Ends[m], a)) = Len(Peer[m + 1])
      <4>1. Ends[m] + LengthBytes <= a
        BY <2>5, <1>1
      <4> QED BY <4>1, <3>2, LengthRead
    <3>5. MaxPacketSize \in Nat
      BY ReadSizes
    <3>6. ~(LengthBytes + Len(Peer[m + 1]) > MaxPacketSize) /\ a - Ends[m] < LengthBytes + Len(Peer[m + 1])
      BY <3>1, <3>3, <3>5, <1>1
    <3> QED BY <2>2, <2>3, <2>5, <3>4, <3>6 DEF SplitStep
  <2> QED BY <2>4, <2>5
<1>6. 0 \in G
  <2>1. m - 0 = m
    BY <1>1
  <2> HIDE DEF Found
  <2> QED BY <1>5, <2>1
<1>7. ASSUME NEW d \in Nat, d \in G PROVE d + 1 \in G
  <2> DEFINE i == m - (d + 1)
  <2>1. SUFFICES ASSUME i >= j PROVE Found(i)
    OBVIOUS
  <2>2. m - d = i + 1 /\ m - d >= j /\ i \in j..m /\ i + 1 \in j..m /\ i # m /\ i + 1 \in 1..N /\ (i + 1) - 1 = i
    BY <2>1, <1>1
  <2>3. Found(i + 1)
    <3> HIDE DEF Found, i
    <3> QED BY <1>7, <2>2
  <2> HIDE DEF i
  <2>4. /\ Ends[i + 1] = Ends[i] + LengthBytes + Len(Peer[i + 1]) /\ Len(Peer[i + 1]) \in Nat
        /\ Len(Peer[i + 1]) <= MaxPacketSize - LengthBytes /\ Len(Sent[i + 1]) = LengthBytes + Len(Peer[i + 1])
    BY <2>2, EndsNext
  <2>5. /\ Ends[i] \in Nat /\ Ends[i + 1] <= a /\ Ends[i + 1] \in Nat
        /\ Len(bytes) - At(j, i) + 1 = a - Ends[i] /\ f[At(j, i)] = SplitStep(f, bytes, At(j, i))
        /\ From(bytes, At(j, i)) = Window(Ends[i], a)
    BY <2>2, <1>4
  <2>6. ReadMessageSize(Window(Ends[i], a)) = Len(Peer[i + 1])
    <3>1. Ends[i] + LengthBytes <= a
      BY <2>4, <2>5, <1>1
    <3> QED BY <3>1, <2>2, LengthRead
  <2> DEFINE total == LengthBytes + Len(Peer[i + 1])
  <2>7. At(j, i) + total = At(j, i + 1)
    <3>1. \A x, y, z \in Nat : (x - y + 1) + z = (x + z) - y + 1
      OBVIOUS
    <3>2. Ends[i + 1] = Ends[i] + total /\ total \in Nat
      BY <2>4, <2>5, <1>1
    <3> HIDE DEF total
    <3>3. (Ends[i] - Ends[j] + 1) + total = (Ends[i] + total) - Ends[j] + 1
      BY <3>1, <3>2, <2>5, <1>1
    <3> QED BY <3>2, <3>3 DEF At
  <2>8. ~(a - Ends[i] < LengthBytes) /\ ~(total > MaxPacketSize) /\ ~(a - Ends[i] < total)
    <3>1. MaxPacketSize \in Nat
      BY ReadSizes
    <3> QED BY <3>1, <2>4, <2>5, <1>1
  <2> HIDE DEF total
  <2>9. f[At(j, i)] = [f[At(j, i + 1)] EXCEPT !.packets = <<<<At(j, i), total>>>> \o @]
    <3>1. LengthBytes + ReadMessageSize(From(bytes, At(j, i))) = total
      BY <2>5, <2>6 DEF total
    <3> QED BY <3>1, <2>5, <2>7, <2>8 DEF SplitStep
  <2>10. <<<<At(j, i), total>>>> \o Lying(j, i + 1, m) = Lying(j, i, m)
    BY <2>2, <2>4, <1>1, LyingNext DEF total
  <2>11. f[At(j, i + 1)] = [packets |-> Lying(j, i + 1, m), left |-> a - Ends[m], err |-> FALSE]
    BY <2>3
  <2> HIDE DEF Found
  <2> DEFINE p == Lying(j, i + 1, m)
             q == <<<<At(j, i), total>>>>
             r == a - Ends[m]
  <2>12. f[At(j, i)] = [[packets |-> p, left |-> r, err |-> FALSE] EXCEPT !.packets = q \o @]
    BY <2>9, <2>11, Zenon
  <2>13. [[packets |-> p, left |-> r, err |-> FALSE] EXCEPT !.packets = q \o @]
            = [packets |-> q \o p, left |-> r, err |-> FALSE]
    <3> HIDE DEF p, q, r
    <3> DEFINE x == [packets |-> p, left |-> r, err |-> FALSE]
               y == [packets |-> q \o p, left |-> r, err |-> FALSE]
               z == [x EXCEPT !.packets = q \o @]
    <3>1. DOMAIN z = DOMAIN y /\ z.packets = y.packets /\ z.left = y.left /\ z.err = y.err
      OBVIOUS
    <3> QED BY <3>1
  <2> QED BY <2>10, <2>12, <2>13 DEF Found
<1> HIDE DEF G, Found
<1>8. m - j \in G
  BY <1>1, <1>6, <1>7, Upwards
<1>9. m - (m - j) = j
  BY <1>1
<1>10. Found(j)
  BY <1>8, <1>9, <1>1 DEF G
<1>11. At(j, j) = 1
  BY <1>1 DEF At
<1> QED BY <1>3, <1>10, <1>11 DEF Found, bytes

\* What Split found is what was sent.
LEMMA CutIs ==
    ASSUME NEW j \in 0..N, NEW a \in Nat, a <= L, NEW m \in j..N, Ends[m] <= a
    PROVE  Cut(Window(Ends[j], a), Lying(j, j, m)) = SubSeq(Sent, j + 1, m)
<1>1. N \in Nat /\ j \in Nat /\ m \in Nat /\ j <= m /\ m <= N
  BY EndsAre
<1> DEFINE b == Ends[j]
           s == Lying(j, j, m)
<1>2. b \in Nat /\ b <= a
  <2>1. m \in 0..N
    BY <1>1
  <2>2. Ends[j] \in Nat /\ Ends[m] \in Nat /\ Ends[j] <= Ends[m]
    BY <2>1, <1>1, EndsOrder
  <2> QED BY <2>2
<1>3. DOMAIN s = 1 .. m - j
  BY DEF Lying
<1>4. ASSUME NEW k \in 1 .. m - j
      PROVE  SubSeq(Window(b, a), s[k][1], s[k][1] + s[k][2] - 1) = Sent[j + k]
  <2> DEFINE i == j + k
             c == Ends[i - 1] - b
             d == Ends[i] - b
  <2>1. i \in 1..N /\ i - 1 \in 0..N /\ i \in 0..N /\ j <= i - 1 /\ i <= m /\ m \in 0..N /\ j + k - 1 = i - 1
    BY <1>1
  <2>2. s[k] = <<At(j, i - 1), Len(Sent[i])>>
    BY <2>1 DEF Lying
  <2> HIDE DEF i, s
  <2>3. /\ Ends[i - 1] \in Nat /\ Ends[i] \in Nat /\ Ends[i] = Ends[i - 1] + Len(Sent[i]) /\ Len(Sent[i]) \in Nat
        /\ Window(Ends[i - 1], Ends[i]) = Sent[i]
    <3>1. /\ Ends[i - 1] \in Nat /\ Ends[i] \in Nat /\ Ends[i] = Ends[i - 1] + LengthBytes + Len(Peer[i])
          /\ Len(Peer[i]) \in Nat /\ Window(Ends[i - 1], Ends[i]) = Sent[i] /\ Len(Sent[i]) = LengthBytes + Len(Peer[i])
      BY <2>1, EndsNext
    <3>2. \A x, y, z \in Nat : (x + y) + z = x + (y + z) /\ y + z \in Nat
      OBVIOUS
    <3>3. LengthBytes \in Nat
      BY ReadSizes
    <3>4. /\ (Ends[i - 1] + LengthBytes) + Len(Peer[i]) = Ends[i - 1] + (LengthBytes + Len(Peer[i]))
          /\ LengthBytes + Len(Peer[i]) \in Nat
      BY <3>1, <3>2, <3>3
    <3> QED BY <3>1, <3>4
  <2>4. b <= Ends[i - 1] /\ Ends[i] <= a
    <3>1. Ends[j] <= Ends[i - 1]
      BY <2>1, EndsOrder
    <3>2. Ends[i] <= Ends[m] /\ Ends[m] \in Nat
      BY <2>1, EndsOrder
    <3> QED BY <3>1, <3>2, <2>3
  <2>5. s[k][1] = c + 1 /\ s[k][1] + s[k][2] - 1 = d
    <3>1. \A x, y, z \in Nat : (x - y + 1) + z - 1 = (x + z) - y
      OBVIOUS
    <3>2. s[k][1] = Ends[i - 1] - b + 1 /\ s[k][2] = Len(Sent[i])
      BY <2>2 DEF At
    <3> HIDE DEF b
    <3>3. (Ends[i - 1] - b + 1) + Len(Sent[i]) - 1 = (Ends[i - 1] + Len(Sent[i])) - b
      BY <3>1, <2>3, <1>2
    <3> QED BY <3>2, <3>3, <2>3
  <2> HIDE DEF b
  <2>6. c \in Nat /\ d \in Nat /\ c <= d /\ b + d <= a /\ b + c = Ends[i - 1] /\ b + d = Ends[i]
    <3>1. \A x, y, z \in Nat : z <= x /\ x <= y =>
              /\ x - z \in Nat /\ y - z \in Nat /\ x - z <= y - z
              /\ z + (x - z) = x /\ z + (y - z) = y
      OBVIOUS
    <3>2. \A x, z \in Nat : x <= x + z
      OBVIOUS
    <3>3. Ends[i - 1] <= Ends[i]
      BY <3>2, <2>3
    <3> QED BY <3>1, <3>3, <2>3, <2>4, <1>2
  <2> HIDE DEF c, d
  <2>7. SubSeq(Window(b, a), c + 1, d) = Window(b + c, b + d)
    BY <2>6, <1>2, WindowCut, Zenon
  <2> QED BY <2>3, <2>5, <2>6, <2>7 DEF i
<1>5. Cut(Window(b, a), s) = [k \in 1 .. m - j |-> Sent[j + k]]
  <2> HIDE DEF b, s
  <2>1. Cut(Window(b, a), s) = [k \in 1 .. m - j |-> SubSeq(Window(b, a), s[k][1], s[k][1] + s[k][2] - 1)]
    BY <1>3 DEF Cut
  <2> QED BY <2>1, <1>4
<1> HIDE DEF b, s
<1>6. SubSeq(Sent, j + 1, m) = [k \in 1 .. m - j |-> Sent[j + k]]
  <2> DEFINE t == [k \in 1 .. m - j |-> Sent[j + k]]
  <2>1. Sent \in Seq(Strings) /\ Len(Sent) = N
    BY SentIs
  <2>2. \A k \in j + 1 .. m : Sent[k] \in Strings
    BY <2>1, <1>1
  <2>3. j + 1 \in Int /\ m \in Int /\ m - (j + 1) + 1 = m - j
        /\ (IF j + 1 <= m THEN m - (j + 1) + 1 ELSE 0) = m - j
    BY <1>1
  <2>4. /\ SubSeq(Sent, j + 1, m) \in Seq(Strings) /\ Len(SubSeq(Sent, j + 1, m)) = m - j
        /\ \A k \in 1 .. m - j : SubSeq(Sent, j + 1, m)[k] = Sent[(j + 1) + k - 1]
    BY <2>2, <2>3, SubSeqProperties
  <2>5. \A k \in 1 .. m - j : (j + 1) + k - 1 = j + k /\ j + k \in j + 1 .. m
    BY <1>1
  <2>6. t \in Seq(Strings) /\ Len(t) = m - j /\ \A k \in 1 .. m - j : t[k] = Sent[j + k]
    <3>1. m - j \in Nat /\ \A k \in 1 .. m - j : Sent[j + k] \in Strings
      BY <2>2, <2>5, <1>1
    <3> QED BY <3>1
  <2> HIDE DEF t
  <2>7. SubSeq(Sent, j + 1, m) = t
    BY <2>4, <2>5, <2>6, SeqEqual
  <2> QED BY <2>7 DEF t
<1> QED BY <1>5, <1>6 DEF b, s

\* SplitSR finds the first packet, if it has arrived.
LEMMA SplitSRFinds ==
    ASSUME NEW j \in 0..N, NEW a \in Nat, Ends[j] <= a, a <= L
    PROVE  SplitSR(Window(Ends[j], a))
              = IF j # N /\ Ends[j + 1] <= a THEN [packet |-> Sent[j + 1], ok |-> TRUE, err |-> FALSE]
                ELSE [packet |-> <<>>, ok |-> FALSE, err |-> FALSE]
<1> DEFINE b == Ends[j]
           bytes == Window(b, a)
<1>1. N \in Nat /\ j \in Nat /\ b \in Nat /\ LengthBytes \in Nat \ {0} /\ MaxPacketSize \in Nat
  BY EndsAre, EndsGrow, ReadSizes
<1>2. Len(bytes) = a - b
  BY <1>1, WindowIs
<1>3. CASE j = N
  <2>1. b = L
    BY <1>3, EndsAre DEF Borders, L
  <2> HIDE DEF bytes, b
  <2>2. Len(bytes) < LengthBytes
    BY <2>1, <1>1, <1>2
  <2> QED BY <2>2, <1>3 DEF SplitSR, bytes, b
<1>4. CASE j # N
  <2> DEFINE e == Ends[j + 1]
             n == Len(Peer[j + 1])
  <2>1. j + 1 \in 1..N /\ (j + 1) - 1 = j
    BY <1>1, <1>4
  <2>2. /\ e \in Nat /\ e = b + LengthBytes + n /\ n \in Nat /\ n <= MaxPacketSize - LengthBytes
        /\ Window(b, e) = Sent[j + 1]
    BY <2>1, EndsNext
  <2>3. ~(a - b < LengthBytes) => ReadMessageSize(bytes) = n
    <3>1. SUFFICES ASSUME ~(a - b < LengthBytes) PROVE ReadMessageSize(bytes) = n
      OBVIOUS
    <3>2. b + LengthBytes <= a
      BY <3>1, <1>1
    <3> QED BY <3>2, <2>1, LengthRead
  <2> DEFINE total == LengthBytes + n
  <2> HIDE DEF bytes, b, e, n
  <2>4. total \in Nat /\ ~(total > MaxPacketSize) /\ (a - b < LengthBytes => ~(e <= a))
        /\ (a - b < total <=> ~(e <= a)) /\ b + total = e
    BY <2>2, <1>1
  <2>5. CASE e <= a
    <3>1. SubSeq(Window(b, a), 1, total) = Window(b, b + total)
      <4>1. b + total <= a /\ b <= a
        BY <2>4, <2>5, <1>1 DEF b
      <4> HIDE DEF total
      <4> QED BY <4>1, <2>4, <1>1, WindowHead
    <3>2. SubSeq(bytes, 1, total) = Sent[j + 1]
      BY <3>1, <2>2, <2>4 DEF bytes
    <3> QED BY <3>2, <2>3, <2>4, <2>5, <1>2, <1>4 DEF SplitSR, bytes, b, e
  <2>6. CASE ~(e <= a)
    BY <2>3, <2>4, <2>6, <1>2, <1>4 DEF SplitSR, bytes, b, e
  <2> QED BY <2>5, <2>6
<1> QED BY <1>3, <1>4

-----------------------------------------------------------------------------
(* What a read hands over                                                  *)

\* The first packets and the next ones.
LEMMA FrontJoin ==
    ASSUME NEW j \in 0..N, NEW m \in j..N
    PROVE  /\ SubSeq(Sent, 1, j) \o SubSeq(Sent, j + 1, m) = SubSeq(Sent, 1, m)
           /\ SubSeq(Sent, j + 1, m) \in Seq(Strings) /\ Len(SubSeq(Sent, j + 1, m)) = m - j
<1>1. N \in Nat /\ j \in Nat /\ m \in Nat /\ j <= m /\ m <= N
  BY EndsAre
<1>2. Sent \in Seq(Strings) /\ Len(Sent) = N
  BY SentIs
<1> DEFINE x == SubSeq(Sent, 1, j)
           y == SubSeq(Sent, j + 1, m)
           z == SubSeq(Sent, 1, m)
<1>3. ASSUME NEW a \in Nat, NEW b \in Nat, a <= b, b <= N
      PROVE  /\ SubSeq(Sent, a + 1, b) \in Seq(Strings) /\ Len(SubSeq(Sent, a + 1, b)) = b - a
             /\ \A k \in 1 .. b - a : SubSeq(Sent, a + 1, b)[k] = Sent[a + k]
  <2>1. \A k \in a + 1 .. b : Sent[k] \in Strings
    BY <1>1, <1>2, <1>3
  <2>2. a + 1 \in Int /\ b \in Int /\ b - (a + 1) + 1 = b - a
        /\ (IF a + 1 <= b THEN b - (a + 1) + 1 ELSE 0) = b - a
    BY <1>3
  <2>3. \A k \in 1 .. b - a : (a + 1) + k - 1 = a + k
    OBVIOUS
  <2> QED BY <2>1, <2>2, <2>3, SubSeqProperties
<1>4. x \in Seq(Strings) /\ Len(x) = j /\ \A k \in 1..j : x[k] = Sent[k]
  <2>1. 0 + 1 = 1 /\ j - 0 = j /\ \A k \in 1..j : 0 + k = k
    BY <1>1
  <2> QED BY <2>1, <1>1, <1>3
<1>5. z \in Seq(Strings) /\ Len(z) = m /\ \A k \in 1..m : z[k] = Sent[k]
  <2>1. 0 + 1 = 1 /\ m - 0 = m /\ \A k \in 1..m : 0 + k = k
    BY <1>1
  <2>2. /\ SubSeq(Sent, 0 + 1, m) \in Seq(Strings) /\ Len(SubSeq(Sent, 0 + 1, m)) = m - 0
        /\ \A k \in 1 .. m - 0 : SubSeq(Sent, 0 + 1, m)[k] = Sent[0 + k]
    <3>1. 0 \in Nat /\ m \in Nat /\ 0 <= m /\ m <= N
      BY <1>1
    <3> QED BY <3>1, <1>3, Zenon
  <2> QED BY <2>1, <2>2
<1>6. y \in Seq(Strings) /\ Len(y) = m - j /\ \A k \in 1 .. m - j : y[k] = Sent[j + k]
  BY <1>1, <1>3
<1> HIDE DEF x, y, z
<1>7. /\ x \o y \in Seq(Strings) /\ Len(x \o y) = Len(x) + Len(y)
      /\ \A k \in 1 .. Len(x) + Len(y) : (x \o y)[k] = IF k <= Len(x) THEN x[k] ELSE y[k - Len(x)]
  BY <1>4, <1>6, ConcatProperties
<1>8. ASSUME NEW k \in 1..m PROVE (x \o y)[k] = z[k]
  <2>1. k \in 1 .. Len(x) + Len(y)
    BY <1>1, <1>4, <1>6
  <2>2. CASE k <= j
    BY <2>1, <2>2, <1>1, <1>4, <1>5, <1>7
  <2>3. CASE ~(k <= j)
    <3>1. k - j \in 1 .. m - j /\ j + (k - j) = k
      BY <2>3, <1>1
    <3>2. (x \o y)[k] = y[k - j]
      BY <2>1, <2>3, <1>4, <1>7
    <3> QED BY <3>1, <3>2, <1>5, <1>6
  <2> QED BY <2>2, <2>3
<1>9. Len(x \o y) = m
  BY <1>1, <1>4, <1>6, <1>7
<1>10. x \o y = z
  BY <1>5, <1>7, <1>8, <1>9, SeqEqual
<1> QED BY <1>6, <1>10 DEF x, y, z

\* How many packets a read finished, the bytes being those from border j to place y.
Cuts(r, j, y) ==
    /\ ~r.err
    /\ \E m \in j..N : Ends[m] <= y /\ r.rest = Window(Ends[m], y) /\ r.packets = SubSeq(Sent, j + 1, m)

LEMMA SplittedCuts ==
    ASSUME ~Reused, NEW j \in 0..N, NEW y \in Nat, Ends[j] <= y, y <= L, NEW data,
           recvBuf \o data = Window(Ends[j], y)
    PROVE  Cuts(Splitted(data), j, y)
<1> DEFINE bytes == Window(Ends[j], y)
<1>1. PICK m \in j..N : Ends[m] <= y /\ (m # N => ~(Ends[m + 1] <= y))
  BY LastBorder
<1>2. Split(bytes) = [packets |-> Lying(j, j, m), left |-> y - Ends[m], err |-> FALSE]
  BY <1>1, SplitFinds
<1>3. Cut(bytes, Lying(j, j, m)) = SubSeq(Sent, j + 1, m)
  BY <1>1, CutIs
<1>4. From(bytes, Len(bytes) - (y - Ends[m]) + 1) = Window(Ends[m], y)
  <2> DEFINE b == Ends[j]
             e == Ends[m]
  <2>1. b \in Nat /\ e \in Nat /\ b <= e /\ e <= y
    <3>1. j <= m /\ m \in 0..N
      BY EndsAre
    <3> QED BY <3>1, <1>1, EndsOrder
  <2>2. Len(Window(b, y)) = y - b
    <3>1. b <= y
      BY <2>1
    <3> HIDE DEF b
    <3> QED BY <3>1, <2>1, WindowIs
  <2> HIDE DEF b, e
  <2>3. (y - b) - (y - e) + 1 = e - b + 1
    BY <2>1
  <2>4. From(Window(b, y), e - b + 1) = Window(e, y)
    BY <2>1, WindowFrom
  <2> QED BY <2>2, <2>3, <2>4 DEF b, e
<1> HIDE DEF bytes
<1> DEFINE r == Splitted(data)
<1>5. r.packets = SubSeq(Sent, j + 1, m) /\ r.rest = Window(Ends[m], y) /\ r.err = FALSE
  <2>1. recvBuf \o data = bytes
    BY DEF bytes
  <2> DEFINE s == [packets |-> Lying(j, j, m), left |-> y - Ends[m], err |-> FALSE]
  <2>2. s.packets = Lying(j, j, m) /\ s.left = y - Ends[m] /\ s.err = FALSE
    OBVIOUS
  <2> HIDE DEF s
  <2>3. Split(bytes) = s
    BY <1>2 DEF s
  <2>4. From(bytes, Len(bytes) - s.left + 1) = Window(Ends[m], y) /\ Cut(bytes, s.packets) = SubSeq(Sent, j + 1, m)
    BY <1>3, <1>4, <2>2
  <2> QED BY <2>1, <2>2, <2>3, <2>4 DEF Splitted
<1> HIDE DEF r
<1> QED BY <1>1, <1>5 DEF Cuts, r

LEMMA PeeledCuts ==
    ASSUME NEW j \in 0..N, NEW y \in Nat, Ends[j] <= y, y <= L, NEW data,
           recvBuf \o data = Window(Ends[j], y)
    PROVE  Cuts(Peeled(data), j, y)
<1> DEFINE bytes == Window(Ends[j], y)
           r == Peeled(data)
<1>1. N \in Nat /\ j \in Nat
  BY EndsAre
<1>2. recvBuf \o data = bytes
  OBVIOUS
<1>3. CASE j # N /\ Ends[j + 1] <= y
  <2>1. SplitSR(bytes) = [packet |-> Sent[j + 1], ok |-> TRUE, err |-> FALSE]
    BY <1>3, SplitSRFinds
  <2>2. j + 1 \in 1..N /\ (j + 1) - 1 = j /\ j + 1 \in j..N
    BY <1>1, <1>3
  <2>3. From(bytes, Len(Sent[j + 1]) + 1) = Window(Ends[j + 1], y)
    <3> DEFINE b == Ends[j]
               e == Ends[j + 1]
    <3>1. b \in Nat /\ e \in Nat /\ e = b + LengthBytes + Len(Peer[j + 1]) /\ Len(Peer[j + 1]) \in Nat
          /\ Len(Sent[j + 1]) = LengthBytes + Len(Peer[j + 1]) /\ LengthBytes \in Nat
      BY <2>2, EndsNext, ReadSizes
    <3>2. b <= e /\ e - b + 1 = Len(Sent[j + 1]) + 1
      <4>1. \A u, v, w \in Nat : u <= u + v + w /\ (u + v + w) - u + 1 = v + w + 1
        OBVIOUS
      <4> HIDE DEF b, e
      <4>2. /\ b <= b + LengthBytes + Len(Peer[j + 1])
            /\ (b + LengthBytes + Len(Peer[j + 1])) - b + 1 = LengthBytes + Len(Peer[j + 1]) + 1
        BY <4>1, <3>1
      <4> QED BY <4>2, <3>1
    <3>3. e <= y
      BY <1>3
    <3> HIDE DEF b, e
    <3>4. From(Window(b, y), e - b + 1) = Window(e, y)
      BY <3>1, <3>2, <3>3, WindowFrom
    <3> QED BY <3>2, <3>4 DEF b, e
  <2>4. <<Sent[j + 1]>> = SubSeq(Sent, j + 1, j + 1)
    <3>1. Sent \in Seq(Strings) /\ Len(Sent) = N
      BY SentIs
    <3> DEFINE t == SubSeq(Sent, j + 1, j + 1)
    <3>2. t \in Seq(Strings) /\ Len(t) = 1 /\ t[1] = Sent[j + 1]
      <4>1. \A k \in j + 1 .. j + 1 : Sent[k] \in Strings
        BY <3>1, <2>2
      <4>2. j + 1 \in Int /\ (j + 1) - (j + 1) + 1 = 1 /\ (j + 1) + 1 - 1 = j + 1
            /\ (IF j + 1 <= j + 1 THEN (j + 1) - (j + 1) + 1 ELSE 0) = 1
        BY <1>1
      <4> QED BY <4>1, <4>2, SubSeqProperties
    <3> HIDE DEF t
    <3>3. t = <<Sent[j + 1]>>
      BY <3>2
    <3> QED BY <3>3 DEF t
  <2> HIDE DEF bytes
  <2>5. r.packets = <<Sent[j + 1]>> /\ r.rest = From(bytes, Len(Sent[j + 1]) + 1) /\ r.err = FALSE
    BY <1>2, <2>1 DEF Peeled
  <2> HIDE DEF r
  <2> QED BY <1>3, <2>2, <2>3, <2>4, <2>5 DEF Cuts, r
<1>4. CASE ~(j # N /\ Ends[j + 1] <= y)
  <2>1. SplitSR(bytes) = [packet |-> <<>>, ok |-> FALSE, err |-> FALSE]
    BY <1>4, SplitSRFinds
  <2>2. SubSeq(Sent, j + 1, j) = <<>>
    <3>1. j \in j..N /\ j - j = 0
      BY <1>1
    <3>2. SubSeq(Sent, j + 1, j) \in Seq(Strings) /\ Len(SubSeq(Sent, j + 1, j)) = 0
      BY <3>1, FrontJoin
    <3> QED BY <3>2
  <2>3. j \in j..N
    BY <1>1
  <2> HIDE DEF bytes
  <2>4. r.packets = <<>> /\ r.rest = bytes /\ r.err = FALSE
    BY <1>2, <2>1 DEF Peeled
  <2> HIDE DEF r
  <2> QED BY <2>2, <2>3, <2>4 DEF Cuts, r, bytes
<1> QED BY <1>3, <1>4

-----------------------------------------------------------------------------
(* From hand to hand                                                       *)

Packs == Seq(Strings)

\* The first of some packets.
LEMMA HeadIs ==
    ASSUME NEW s \in Packs, s # <<>>
    PROVE  /\ Head(s) \in Strings /\ Tail(s) \in Packs /\ <<Head(s)>> \in Packs
           /\ <<Head(s)>> \o Tail(s) = s /\ (Len(s) = 1 <=> Tail(s) = <<>>)
<1>1. Len(s) \in Nat \ {0}
  BY EmptySeq DEF Packs
<1>2. Head(s) = s[1] /\ s[1] \in Strings
  BY <1>1, ElementOfSeq DEF Packs
<1>3. Tail(s) \in Packs /\ Tail(s) = SubSeq(s, 2, Len(s)) /\ Len(Tail(s)) = Len(s) - 1
  BY TailIsSubSeq, HeadTailProperties DEF Packs
<1>4. <<s[1]>> \o SubSeq(s, 1 + 1, Len(s)) = s
  <2>1. 1 \in 1..Len(s) /\ Len(s) \in 1..Len(s)
    BY <1>1
  <2>2. SubSeq(s, 1, Len(s)) = <<s[1]>> \o SubSeq(s, 1 + 1, Len(s))
    BY <2>1, SubSeqRecursiveFirst DEF Packs
  <2>3. SubSeq(s, 1, Len(s)) = s
    BY SubSeqFull DEF Packs
  <2> QED BY <2>2, <2>3
<1>5. Len(s) = 1 <=> Tail(s) = <<>>
  <2>1. Tail(s) # <<>> => Len(Tail(s)) \in Nat \ {0}
    BY <1>3, EmptySeq DEF Packs
  <2>2. Len(<<>>) = 0
    OBVIOUS
  <2> QED BY <1>1, <1>3, <2>1, <2>2
<1>6. 1 + 1 = 2 /\ <<Head(s)>> \in Packs
  BY <1>2 DEF Packs
<1> QED BY <1>2, <1>3, <1>4, <1>5, <1>6

\* Some of them and the rest.
LEMMA TakeIs ==
    ASSUME NEW s \in Packs, NEW n \in 0 .. Len(s)
    PROVE  /\ SubSeq(s, 1, n) \in Packs /\ From(s, n + 1) \in Packs
           /\ SubSeq(s, 1, n) \o From(s, n + 1) = s
           /\ n = 0 => SubSeq(s, 1, n) = <<>> /\ From(s, n + 1) = s
           /\ n # 0 => SubSeq(s, 1, n) # <<>>
           /\ n = Len(s) => SubSeq(s, 1, n) = s
<1>1. Len(s) \in Nat /\ n \in Nat /\ SubSeq(s, 1, Len(s)) = s /\ \A i \in 1..Len(s) : s[i] \in Strings
  BY LenProperties, ElementOfSeq, SubSeqFull DEF Packs
<1>2. SubSeq(s, 1, n) \in Packs /\ Len(SubSeq(s, 1, n)) = n
  <2>1. 1 \in Int /\ n \in Int /\ (IF 1 <= n THEN n - 1 + 1 ELSE 0) = n /\ \A i \in 1..n : s[i] \in Strings
    BY <1>1
  <2> QED BY <2>1, SubSeqProperties DEF Packs
<1>3. From(s, n + 1) \in Packs
  <2>1. n + 1 \in Int /\ Len(s) \in Int /\ \A i \in n + 1 .. Len(s) : s[i] \in Strings
    BY <1>1
  <2> QED BY <2>1, SubSeqProperties DEF Packs, From
<1>4. SubSeq(s, 1, n) \o From(s, n + 1) = s
  <2>1. 1 \in 1 .. Len(s) + 1 /\ n \in 1 - 1 .. Len(s) /\ Len(s) \in n .. Len(s)
    BY <1>1
  <2>2. SubSeq(s, 1, n) \o SubSeq(s, n + 1, Len(s)) = SubSeq(s, 1, Len(s))
    BY <2>1, ConcatAdjacentSubSeq DEF Packs
  <2> QED BY <2>2, <1>1 DEF From
<1>5. n = 0 => SubSeq(s, 1, n) = <<>> /\ From(s, n + 1) = s
  BY <1>1, <1>2 DEF From
<1>6. n # 0 => SubSeq(s, 1, n) # <<>>
  BY <1>2
<1> QED BY <1>1, <1>2, <1>3, <1>4, <1>5, <1>6

\* Whoever appends one, appends what holds it.
LEMMA AppendOne == ASSUME NEW s \in Packs, NEW x \in Strings PROVE Append(s, x) = s \o <<x>> /\ Append(s, x) \in Packs
BY AppendIsConcat, AppendProperties DEF Packs

LEMMA JoinIs ==
    ASSUME NEW s \in Packs, NEW t \in Packs
    PROVE  s \o t \in Packs /\ s \o <<>> = s /\ <<>> \o s = s /\ Len(s \o t) = Len(s) + Len(t) /\ <<>> \in Packs
BY ConcatProperties, ConcatEmptySeq, EmptySeq DEF Packs

LEMMA Regroup ==
    ASSUME NEW s \in Packs, NEW t \in Packs, NEW u \in Packs
    PROVE  (s \o t) \o u = s \o (t \o u)
BY ConcatAssociative DEF Packs

\* What is queued is queued last.
LEMMA QueuedLast ==
    ASSUME handled \in Packs, recvd \in Packs, recvQueue \in Packs, NEW s \in Packs
    PROVE  handled \o (recvd \o (recvQueue \o s)) = (handled \o (recvd \o recvQueue)) \o s
<1> DEFINE w == recvd \o recvQueue
<1>1. w \in Packs
  BY JoinIs
<1>2. w \o s = recvd \o (recvQueue \o s)
  BY Regroup, Zenon
<1> HIDE DEF w
<1>3. (handled \o w) \o s = handled \o (w \o s)
  BY <1>1, Regroup, Zenon
<1> QED BY <1>2, <1>3 DEF w

-----------------------------------------------------------------------------
(* The inductive invariant                                                 *)

\* The first packets that were sent, in order.
FirstSent(s) == s \in Seq(Strings) /\ Len(s) <= N /\ \A k \in 1..Len(s) : s[k] = Sent[k]

\* The packets to be handed over next.
Pending == IF readPc \in {"push", "lock"} THEN prepared ELSE <<>>

\* Types, and when there are packets to hand over.
ReadTypes ==
    /\ prepared \in Seq(Strings) /\ recvQueue \in Seq(Strings) /\ recvd \in Seq(Strings)
    /\ handled \in Seq(Strings) /\ accepted \in Seq(Strings)
    /\ arrived \in Nat /\ arrived <= L /\ recvLimit \in Nat /\ readClosing \in BOOLEAN
    /\ readPc \in {"read", "push", "lock", "call", "wake", "wakefail", "failed"}
    /\ readPc \in {"push", "lock", "call"} <=> prepared # <<>>

\* Until it fails or Stop comes, the reader keeps what lies behind the last border that
\* arrived, and what was accepted and what is to be handed over are the packets up to there.
Followed ==
    /\ FirstSent(accepted)
    /\ ~readClosing /\ readPc \notin {"failed", "wakefail"} =>
          \E j \in 0..N : /\ Ends[j] <= arrived /\ recvBuf = Window(Ends[j], arrived)
                          /\ FirstSent(accepted \o Pending) /\ Len(accepted \o Pending) = j

\* What was accepted is handled, in the hands of who calls the handler, or queued.
Flow ==
    IF rk = "sync"
    THEN /\ recvd = <<>> /\ recvQueue = <<>>
         /\ handled \o (IF readPc = "call" THEN prepared ELSE <<>>) = accepted
    ELSE readPc \notin {"lock", "call"} /\ handled \o (recvd \o recvQueue) = accepted

\* How far Stop and the consumer are.
Stopped ==
    /\ readStopPc # "idle" \/ closeSig \/ consumerPc \in {"final", "done"} => readClosing
    /\ readStopPc = "wait" \/ consumerPc \notin {"select", "none"} => rk = "thread"
    /\ consumerPc = "none" => ~readStarted
    /\ ~readStarted => readPc = "read"
    /\ ~readStarted \/ consumerPc = "done" => recvd = <<>> /\ recvQueue = <<>>
    /\ readStopPc = "returned" => \/ rk = "worker"
                                  \/ rk = "thread" /\ consumerPc \in {"done", "none"}
                                  \/ rk = "sync" /\ readPc # "call"

ReadInv == ReadTypes /\ Followed /\ Flow /\ Stopped

LEMMA FirstLeft ==
    ASSUME NEW s \in Packs, NEW t \in Packs, FirstSent(s \o t)
    PROVE  FirstSent(s)
<1>1. Len(s) \in Nat /\ Len(t) \in Nat /\ N \in Nat
  BY EndsAre DEF Packs
<1> DEFINE w == s \o t
<1>2. Len(w) = Len(s) + Len(t) /\ \A k \in 1 .. Len(s) + Len(t) : w[k] = IF k <= Len(s) THEN s[k] ELSE t[k - Len(s)]
  BY ConcatProperties DEF Packs
<1>3. Len(w) <= N /\ \A k \in 1..Len(w) : w[k] = Sent[k]
  BY DEF FirstSent
<1> HIDE DEF w
<1>4. Len(s) <= N
  BY <1>1, <1>2, <1>3
<1>5. ASSUME NEW k \in 1..Len(s) PROVE s[k] = Sent[k]
  <2>1. k \in 1 .. Len(s) + Len(t) /\ k <= Len(s)
    BY <1>1
  <2> QED BY <2>1, <1>2, <1>3
<1> QED BY <1>4, <1>5 DEF FirstSent, Packs

LEMMA FirstIs ==
    ASSUME NEW s, FirstSent(s)
    PROVE  /\ s \in Packs /\ Len(s) \in 0..N /\ s = SubSeq(Sent, 1, Len(s)) /\ IsPrefix(s, Sent)
<1>1. s \in Seq(Strings) /\ Len(s) \in Nat /\ Len(s) <= N /\ \A k \in 1..Len(s) : s[k] = Sent[k]
  BY DEF FirstSent
<1>2. Sent \in Seq(Strings) /\ Len(Sent) = N /\ N \in Nat
  BY SentIs
<1> DEFINE t == SubSeq(Sent, 1, Len(s))
<1>3. t \in Seq(Strings) /\ Len(t) = Len(s) /\ \A k \in 1..Len(s) : t[k] = Sent[k]
  <2>1. \A k \in 1..Len(s) : Sent[k] \in Strings
    BY <1>1, <1>2, ElementOfSeq
  <2>2. 1 \in Int /\ Len(s) \in Int /\ Len(s) - 1 + 1 = Len(s) /\ (IF 1 <= Len(s) THEN Len(s) - 1 + 1 ELSE 0) = Len(s)
        /\ \A k \in 1..Len(s) : 1 + k - 1 = k
    BY <1>1
  <2> QED BY <2>1, <2>2, SubSeqProperties
<1> HIDE DEF t
<1>4. s = t
  BY <1>1, <1>3, SeqEqual
<1>5. SubSeq(s, 1, Len(s)) = s
  BY <1>1, SubSeqFull
<1> QED BY <1>1, <1>2, <1>4, <1>5 DEF Packs, IsPrefix, t

LEMMA FirstGrows ==
    ASSUME NEW s, FirstSent(s), NEW m \in Len(s)..N
    PROVE  FirstSent(s \o SubSeq(Sent, Len(s) + 1, m)) /\ Len(s \o SubSeq(Sent, Len(s) + 1, m)) = m
<1>1. Len(s) \in 0..N /\ s = SubSeq(Sent, 1, Len(s)) /\ N \in Nat
  BY FirstIs, EndsAre
<1>2. SubSeq(Sent, 1, Len(s)) \o SubSeq(Sent, Len(s) + 1, m) = SubSeq(Sent, 1, m)
  BY <1>1, FrontJoin
<1>3. SubSeq(Sent, 1, m) \in Seq(Strings) /\ Len(SubSeq(Sent, 1, m)) = m /\ \A k \in 1..m : SubSeq(Sent, 1, m)[k] = Sent[k]
  <2>1. Sent \in Seq(Strings) /\ Len(Sent) = N /\ m \in Nat /\ m <= N
    BY <1>1, SentIs
  <2>2. \A k \in 1..m : Sent[k] \in Strings
    BY <2>1, ElementOfSeq
  <2>3. 1 \in Int /\ m \in Int /\ m - 1 + 1 = m /\ (IF 1 <= m THEN m - 1 + 1 ELSE 0) = m /\ \A k \in 1..m : 1 + k - 1 = k
    BY <2>1
  <2> QED BY <2>2, <2>3, SubSeqProperties
<1>4. m <= N
  BY <1>1
<1>5. s \o SubSeq(Sent, Len(s) + 1, m) = SubSeq(Sent, 1, m)
  BY <1>1, <1>2
<1> QED BY <1>3, <1>4, <1>5 DEF FirstSent

-----------------------------------------------------------------------------
(* The steps                                                               *)

LEMMA RecvKeeps ==
    ASSUME ~Reused, ReadInv, NEW n \in 0 .. Len(Stream), OnRecvBytes(n)
    PROVE  ReadInv'
<1> DEFINE y == arrived + n
           data == SubSeq(Stream, arrived + 1, arrived + n)
           r == IF entry = "bytes" THEN Splitted(data) ELSE Peeled(data)
<1>1. /\ readPc = "read" /\ readStarted /\ y <= L /\ arrived' = y /\ arrived \in Nat /\ n \in Nat /\ y \in Nat /\ arrived <= y
      /\ prepared = <<>> /\ arrived <= L
      /\ UNCHANGED <<rk, recvLimit, readStarted, recvQueue, wakeCh, consumerPc, recvd, readClosing, closeSig, readStopPc,
                     accepted, handled>>
  <2>1. L \in Nat
    BY EndsAre
  <2> QED BY <2>1 DEF OnRecvBytes, ReadInv, ReadTypes, setup, consumer, stopping, L
<1>2. CASE readClosing
  <2>1. prepared' = <<>> /\ readPc' \in {"read", "failed"}
    BY <1>1, <1>2 DEF OnRecvBytes
  <2>2. ReadTypes'
    BY <1>1, <2>1 DEF ReadInv, ReadTypes
  <2>3. Followed'
    BY <1>1, <1>2 DEF ReadInv, Followed, FirstSent
  <2>4. Flow'
    BY <1>1, <2>1 DEF ReadInv, Flow
  <2>5. Stopped'
    BY <1>1, <2>1 DEF ReadInv, Stopped
  <2> QED BY <2>2, <2>3, <2>4, <2>5 DEF ReadInv
<1>3. CASE ~readClosing
  <2>1. PICK j \in 0..N : /\ Ends[j] <= arrived /\ recvBuf = Window(Ends[j], arrived)
                          /\ FirstSent(accepted) /\ Len(accepted) = j
    <3>1. Pending = <<>> /\ accepted \in Packs
      BY <1>1 DEF Pending, ReadInv, ReadTypes, Packs
    <3>2. accepted \o Pending = accepted
      BY <3>1, JoinIs
    <3> QED BY <3>2, <1>1, <1>3 DEF ReadInv, Followed
  <2>2. recvBuf \o data = Window(Ends[j], y) /\ Ends[j] <= y
    <3>1. Ends[j] \in Nat
      BY EndsGrow
    <3>2. data = Window(arrived, y)
      BY DEF Window
    <3> HIDE DEF y, data
    <3>3. Window(Ends[j], arrived) \o Window(arrived, y) = Window(Ends[j], y)
      BY <3>1, <2>1, <1>1, WindowJoin
    <3> QED BY <3>1, <3>2, <3>3, <2>1, <1>1
  <2> HIDE DEF y
  <2>3. Cuts(r, j, y)
    <3> HIDE DEF data
    <3>1. Cuts(Splitted(data), j, y)
      BY <2>2, <1>1, SplittedCuts
    <3>2. Cuts(Peeled(data), j, y)
      BY <2>2, <1>1, PeeledCuts
    <3> QED BY <3>1, <3>2
  <2>4. /\ ~r.err => recvBuf' = r.rest /\ prepared' = r.packets
        /\ ~r.err => readPc' = IF r.packets = <<>> THEN "read" ELSE IF rk = "sync" THEN "lock" ELSE "push"
    <3> HIDE DEF y
    <3> QED BY <1>3 DEF OnRecvBytes
  <2> HIDE DEF r
  <2>5. PICK m \in j..N : Ends[m] <= y /\ r.rest = Window(Ends[m], y) /\ r.packets = SubSeq(Sent, j + 1, m)
    BY <2>3 DEF Cuts
  <2>6. ~r.err
    BY <2>3 DEF Cuts
  <2>7. FirstSent(accepted \o prepared') /\ Len(accepted \o prepared') = m /\ prepared' \in Seq(Strings) /\ m \in 0..N
    <3>1. prepared' = SubSeq(Sent, j + 1, m)
      BY <2>4, <2>5, <2>6
    <3>2. m \in 0..N
      BY EndsAre
    <3> QED BY <3>1, <3>2, <2>1, FirstGrows, FrontJoin
  <2>8. /\ readPc' \in {"read", "lock", "push"} /\ (readPc' = "read" <=> prepared' = <<>>)
        /\ (readPc' = "lock" => rk = "sync")
    BY <2>4, <2>6
  <2>9. Pending' = prepared'
    BY <2>8 DEF Pending
  <2>10. ReadTypes'
    BY <1>1, <2>7, <2>8 DEF ReadInv, ReadTypes
  <2>11. Followed'
    <3>1. recvBuf' = Window(Ends[m], y)
      BY <2>4, <2>5, <2>6
    <3>2. FirstSent(accepted)' /\ FirstSent(accepted \o Pending)' /\ (Len(accepted \o Pending) = m)'
      BY <2>1, <2>7, <2>9, <1>1 DEF FirstSent
    <3>3. (Ends[m] <= arrived)' /\ (recvBuf = Window(Ends[m], arrived))'
      BY <3>1, <2>5, <1>1
    <3> QED BY <3>2, <3>3, <2>7 DEF Followed
  <2>12. Flow'
    BY <1>1, <2>8 DEF ReadInv, Flow
  <2>13. Stopped'
    BY <1>1, <2>8 DEF ReadInv, Stopped
  <2> QED BY <2>10, <2>11, <2>12, <2>13 DEF ReadInv
<1> QED BY <1>2, <1>3

\* A step that leaves the reader and what was accepted as they are keeps Followed.
LEMMA FollowedRests ==
    ASSUME Followed, UNCHANGED <<arrived, recvBuf, accepted, prepared, readPc>>, readClosing => readClosing'
    PROVE  Followed'
<1>1. Pending' = Pending
  BY DEF Pending
<1> QED BY <1>1 DEF Followed, FirstSent

\* How many fit, at most all there are.
LEMMA RoomIs == ASSUME ReadInv, NEW q \in Nat PROVE Room(q) \in Int /\ Room(q) <= Len(prepared)
<1>1. recvLimit \in Nat /\ Len(prepared) \in Nat
  BY DEF ReadInv, ReadTypes
<1> QED BY <1>1 DEF Room

LEMMA PushAllKeeps == ASSUME ReadInv, PushAll PROVE ReadInv'
<1> DEFINE k == IF readClosing THEN 0 ELSE Room(Len(recvQueue))
           s == SubSeq(prepared, 1, k)
<1>1. /\ prepared \in Packs /\ recvQueue \in Packs /\ recvd \in Packs /\ handled \in Packs /\ accepted \in Packs
      /\ readPc = "push" /\ rk = "thread" /\ Len(prepared) \in Nat /\ prepared # <<>>
  BY DEF ReadInv, ReadTypes, Packs, PushAll
<1>2. /\ UNCHANGED <<rk, recvLimit, readStarted, arrived, recvBuf, wakeCh, consumerPc, recvd, readClosing, closeSig,
                     readStopPc, handled>>
      /\ prepared' = <<>> /\ recvQueue' = recvQueue \o s /\ accepted' = accepted \o s
      /\ readPc' \in {"read", "wake", "wakefail", "failed"}
  BY DEF PushAll, setup, buffer, consumer, stopping
<1>3. k \in Int /\ k <= Len(prepared)
  <2>1. Len(recvQueue) \in Nat
    BY <1>1, LenProperties DEF Packs
  <2> QED BY <2>1, <1>1, RoomIs
<1>4. ~readClosing /\ readPc' \notin {"failed", "wakefail"} => k = Len(prepared)
  BY <1>1, <1>3 DEF PushAll
<1>5. readClosing => k = 0
  OBVIOUS
<1>6. ReadTypes /\ Followed /\ Flow /\ Stopped
  BY DEF ReadInv
<1> HIDE DEF k
<1>7. /\ s \in Packs
      /\ \E t \in Packs : s \o t = prepared
      /\ k = Len(prepared) => s = prepared
      /\ k = 0 => s = <<>>
  <2>1. CASE k \in 0 .. Len(prepared)
    BY <2>1, <1>1, TakeIs
  <2>2. CASE k \notin 0 .. Len(prepared)
    <3>1. k < 1 /\ k # 0 /\ k # Len(prepared) /\ 1 \in Int
      BY <2>2, <1>1, <1>3
    <3>2. s = <<>>
      BY <3>1, <1>3, SubSeqEmpty
    <3>3. s \o prepared = prepared /\ s \in Packs
      BY <3>2, <1>1, JoinIs
    <3> QED BY <3>1, <3>3, <1>1
  <2> QED BY <2>1, <2>2
<1> HIDE DEF s
<1>8. /\ recvQueue' \in Packs /\ accepted' \in Packs
      /\ k = 0 => recvQueue' = recvQueue /\ accepted' = accepted
  BY <1>1, <1>2, <1>7, JoinIs
<1>9. ReadTypes'
  BY <1>2, <1>6, <1>8 DEF ReadTypes, Packs
<1>10. Followed'
  <2>1. CASE readClosing
    <3>1. accepted' = accepted /\ readClosing'
      BY <2>1, <1>2, <1>5, <1>8
    <3> QED BY <3>1, <1>6 DEF Followed, FirstSent
  <2>2. CASE ~readClosing
    <3>1. PICK j \in 0..N : /\ Ends[j] <= arrived /\ recvBuf = Window(Ends[j], arrived)
                            /\ FirstSent(accepted \o Pending) /\ Len(accepted \o Pending) = j
      BY <2>2, <1>1, <1>6 DEF Followed
    <3>2. Pending = prepared
      BY <1>1 DEF Pending
    <3>3. FirstSent(accepted')
      <4>1. PICK t \in Packs : s \o t = prepared
        BY <1>7
      <4>2. accepted \o prepared = (accepted \o s) \o t /\ accepted \o s \in Packs
        <5>1. (accepted \o s) \o t = accepted \o (s \o t)
          BY <1>1, <1>7, Regroup, Zenon
        <5>2. accepted \o s \in Packs
          BY <1>1, <1>7, JoinIs
        <5> QED BY <5>1, <5>2, <4>1
      <4>3. FirstSent((accepted \o s) \o t)
        BY <4>2, <3>1, <3>2
      <4> QED BY <4>2, <4>3, <1>2, FirstLeft
    <3>4. readPc' \notin {"failed", "wakefail"} =>
             FirstSent(accepted \o Pending)' /\ (Len(accepted \o Pending) = j)'
      <4>1. SUFFICES ASSUME readPc' \notin {"failed", "wakefail"}
                     PROVE  FirstSent(accepted \o Pending)' /\ (Len(accepted \o Pending) = j)'
        OBVIOUS
      <4>2. Pending' = <<>> /\ accepted' \o <<>> = accepted'
        BY <1>2, <1>8, JoinIs DEF Pending
      <4>3. accepted' = accepted \o Pending
        BY <4>1, <3>2, <2>2, <1>2, <1>4, <1>7
      <4> QED BY <4>2, <4>3, <3>1 DEF FirstSent
    <3> QED BY <3>1, <3>3, <3>4, <1>2 DEF Followed, FirstSent
  <2> QED BY <2>1, <2>2
<1>11. Flow'
  <2>1. handled \o (recvd \o recvQueue) = accepted
    BY <1>1, <1>6 DEF Flow
  <2>2. handled \o (recvd \o (recvQueue \o s)) = (handled \o (recvd \o recvQueue)) \o s
    <3>1. handled \in Packs /\ recvd \in Packs /\ recvQueue \in Packs /\ s \in Packs
      BY <1>1, <1>7
    <3> QED BY <3>1, QueuedLast
  <2> QED BY <2>1, <2>2, <1>1, <1>2 DEF Flow
<1>12. Stopped'
  <2>1. readClosing => recvQueue' = recvQueue
    BY <1>5, <1>8
  <2>2. readStarted
    BY <1>1, <1>6 DEF Stopped
  <2> QED BY <2>1, <2>2, <1>1, <1>2, <1>6 DEF Stopped
<1> QED BY <1>9, <1>10, <1>11, <1>12 DEF ReadInv

LEMMA WakeKeeps == ASSUME ReadInv, wakeConsumer PROVE ReadInv'
<1>1. /\ UNCHANGED <<rk, recvLimit, readStarted, arrived, recvBuf, prepared, recvQueue, consumerPc, recvd, readClosing,
                     closeSig, readStopPc, accepted, handled>>
      /\ readPc \in {"wake", "wakefail"} /\ readPc' = IF readPc = "wake" THEN "read" ELSE "failed"
  BY DEF wakeConsumer, setup, buffer, stopping
<1>2. Pending' = Pending
  BY <1>1 DEF Pending
<1>3. ReadTypes'
  BY <1>1 DEF ReadInv, ReadTypes
<1>4. Followed'
  BY <1>1, <1>2 DEF ReadInv, Followed, FirstSent
<1>5. Flow'
  BY <1>1 DEF ReadInv, Flow
<1>6. Stopped'
  BY <1>1 DEF ReadInv, Stopped
<1> QED BY <1>3, <1>4, <1>5, <1>6 DEF ReadInv

LEMMA SubmitKeeps == ASSUME ReadInv, submitTask PROVE ReadInv'
<1> DEFINE full == recvLimit > 0 /\ Len(recvQueue) >= recvLimit
           x == Head(prepared)
           t == Tail(prepared)
<1>1. /\ prepared \in Packs /\ recvQueue \in Packs /\ recvd \in Packs /\ handled \in Packs /\ accepted \in Packs
      /\ readPc = "push" /\ rk = "worker" /\ prepared # <<>>
  BY DEF ReadInv, ReadTypes, Packs, submitTask
<1>2. /\ UNCHANGED <<rk, recvLimit, readStarted, arrived, recvBuf, wakeCh, consumerPc, recvd, readClosing, closeSig,
                     readStopPc, handled>>
      /\ prepared' = IF full THEN <<>> ELSE t
      /\ readPc' = IF full THEN "failed" ELSE IF Len(prepared) = 1 THEN "read" ELSE "push"
      /\ IF full \/ readClosing THEN UNCHANGED <<recvQueue, accepted>>
         ELSE recvQueue' = Append(recvQueue, x) /\ accepted' = Append(accepted, x)
  BY DEF submitTask, setup, buffer, consumer, stopping
<1>3. ReadTypes /\ Followed /\ Flow /\ Stopped
  BY DEF ReadInv
<1>4. x \in Strings /\ t \in Packs /\ <<x>> \in Packs /\ <<x>> \o t = prepared /\ (Len(prepared) = 1 <=> t = <<>>)
  BY <1>1, HeadIs
<1> HIDE DEF full, x, t
<1>5. /\ recvQueue' \in Packs /\ accepted' \in Packs
      /\ ~(full \/ readClosing) => recvQueue' = recvQueue \o <<x>> /\ accepted' = accepted \o <<x>>
  BY <1>1, <1>2, <1>4, AppendOne
<1>6. ReadTypes'
  BY <1>1, <1>2, <1>3, <1>4, <1>5 DEF ReadTypes, Packs
<1>7. Followed'
  <2>1. CASE full \/ readClosing
    <3>1. accepted' = accepted /\ (readClosing' \/ readPc' = "failed")
      BY <2>1, <1>2
    <3> QED BY <3>1, <1>3 DEF Followed, FirstSent
  <2>2. CASE ~(full \/ readClosing)
    <3>1. PICK j \in 0..N : /\ Ends[j] <= arrived /\ recvBuf = Window(Ends[j], arrived)
                            /\ FirstSent(accepted \o Pending) /\ Len(accepted \o Pending) = j
      BY <2>2, <1>1, <1>3 DEF Followed
    <3>2. Pending = prepared
      BY <1>1 DEF Pending
    <3>3. Pending' = t
      BY <2>2, <1>2, <1>4 DEF Pending
    <3>4. accepted' \o t = accepted \o prepared
      <4>1. (accepted \o <<x>>) \o t = accepted \o (<<x>> \o t)
        BY <1>1, <1>4, Regroup, Zenon
      <4> QED BY <4>1, <2>2, <1>4, <1>5
    <3>5. FirstSent(accepted' \o t) /\ Len(accepted' \o t) = j
      BY <3>1, <3>2, <3>4
    <3>6. FirstSent(accepted')
      BY <3>5, <1>4, <1>5, FirstLeft
    <3>7. FirstSent(accepted)' /\ FirstSent(accepted \o Pending)' /\ (Len(accepted \o Pending) = j)'
      BY <3>3, <3>5, <3>6 DEF FirstSent
    <3>8. (Ends[j] <= arrived)' /\ (recvBuf = Window(Ends[j], arrived))'
      BY <3>1, <1>2
    <3> QED BY <3>7, <3>8 DEF Followed
  <2> QED BY <2>1, <2>2
<1>8. Flow'
  <2>1. handled \o (recvd \o recvQueue) = accepted
    BY <1>1, <1>3 DEF Flow
  <2>2. ~(full \/ readClosing) => handled \o (recvd \o recvQueue') = accepted'
    <3>1. handled \o (recvd \o (recvQueue \o <<x>>)) = (handled \o (recvd \o recvQueue)) \o <<x>>
      <4>1. handled \in Packs /\ recvd \in Packs /\ recvQueue \in Packs /\ <<x>> \in Packs
        BY <1>1, <1>4
      <4> QED BY <4>1, QueuedLast
    <3> QED BY <3>1, <2>1, <1>5
  <2>3. readPc' \notin {"lock", "call"}
    BY <1>2
  <2> QED BY <2>1, <2>2, <2>3, <1>1, <1>2 DEF Flow
<1>9. Stopped'
  BY <1>1, <1>2, <1>3 DEF Stopped
<1> QED BY <1>6, <1>7, <1>8, <1>9 DEF ReadInv

LEMMA SyncLocksKeeps == ASSUME ReadInv, SyncLocks PROVE ReadInv'
<1>1. /\ prepared \in Packs /\ recvQueue \in Packs /\ recvd \in Packs /\ handled \in Packs /\ accepted \in Packs
      /\ readPc = "lock" /\ prepared # <<>> /\ rk = "sync"
  BY DEF ReadInv, ReadTypes, Packs, SyncLocks, Flow
<1>2. /\ UNCHANGED <<rk, recvLimit, readStarted, arrived, recvBuf, recvQueue, wakeCh, consumerPc, recvd, readClosing,
                     closeSig, readStopPc, handled>>
      /\ readClosing => readPc' = "read" /\ prepared' = <<>> /\ accepted' = accepted
      /\ ~readClosing => readPc' = "call" /\ accepted' = accepted \o prepared /\ prepared' = prepared
  BY DEF SyncLocks, setup, buffer, consumer, stopping
<1>3. ReadTypes /\ Followed /\ Flow /\ Stopped
  BY DEF ReadInv
<1>4. accepted \o prepared \in Packs
  BY <1>1, JoinIs
<1>5. readClosing \in BOOLEAN
  BY <1>3 DEF ReadTypes
<1>6. ReadTypes'
  <2>1. CASE readClosing
    BY <2>1, <1>1, <1>2, <1>3 DEF ReadTypes, Packs
  <2>2. CASE ~readClosing
    BY <2>2, <1>1, <1>2, <1>3, <1>4 DEF ReadTypes, Packs
  <2> QED BY <2>1, <2>2
<1>7. Followed'
  <2>1. CASE readClosing
    BY <2>1, <1>2, <1>3 DEF Followed, FirstSent
  <2>2. CASE ~readClosing
    <3>1. PICK j \in 0..N : /\ Ends[j] <= arrived /\ recvBuf = Window(Ends[j], arrived)
                            /\ FirstSent(accepted \o Pending) /\ Len(accepted \o Pending) = j
      BY <2>2, <1>1, <1>3 DEF Followed
    <3>2. Pending = prepared /\ Pending' = <<>>
      BY <2>2, <1>1, <1>2 DEF Pending
    <3>3. accepted' \o Pending' = accepted' /\ accepted' = accepted \o Pending
      BY <3>2, <2>2, <1>2, <1>4, JoinIs
    <3>4. FirstSent(accepted') /\ Len(accepted') = j
      BY <3>1, <3>3
    <3>5. FirstSent(accepted)' /\ FirstSent(accepted \o Pending)' /\ (Len(accepted \o Pending) = j)'
      BY <3>3, <3>4 DEF FirstSent
    <3>6. (Ends[j] <= arrived)' /\ (recvBuf = Window(Ends[j], arrived))'
      BY <3>1, <1>2
    <3> QED BY <3>5, <3>6 DEF Followed
  <2> QED BY <2>1, <2>2
<1>8. Flow'
  <2>1. handled \o <<>> = accepted /\ handled \o <<>> = handled
    BY <1>1, <1>3, JoinIs DEF Flow
  <2> QED BY <2>1, <1>1, <1>2, <1>3 DEF Flow
<1>9. Stopped'
  <2>1. readStopPc # "idle" => readClosing
    BY <1>3 DEF Stopped
  <2>2. readStopPc = "returned" => readPc' # "call"
    BY <2>1, <1>2
  <2>3. readStarted
    BY <1>1, <1>3 DEF Stopped
  <2> QED BY <2>2, <2>3, <1>1, <1>2, <1>3 DEF Stopped
<1> QED BY <1>6, <1>7, <1>8, <1>9 DEF ReadInv

LEMMA SyncCallsKeeps == ASSUME ReadInv, SyncCalls PROVE ReadInv'
<1> DEFINE x == Head(prepared)
           t == Tail(prepared)
<1>1. /\ prepared \in Packs /\ handled \in Packs /\ accepted \in Packs
      /\ readPc = "call" /\ rk = "sync" /\ prepared # <<>>
  BY DEF ReadInv, ReadTypes, Packs, SyncCalls, Flow
<1>2. /\ UNCHANGED <<rk, recvLimit, readStarted, arrived, recvBuf, recvQueue, wakeCh, consumerPc, recvd, readClosing,
                     closeSig, readStopPc, accepted>>
      /\ prepared' = t /\ handled' = Append(handled, x) /\ readPc' = IF Len(prepared) = 1 THEN "read" ELSE "call"
  BY DEF SyncCalls, setup, buffer, consumer, stopping
<1>3. ReadTypes /\ Followed /\ Flow /\ Stopped
  BY DEF ReadInv
<1>4. x \in Strings /\ t \in Packs /\ <<x>> \in Packs /\ <<x>> \o t = prepared /\ (Len(prepared) = 1 <=> t = <<>>)
  BY <1>1, HeadIs
<1> HIDE DEF x, t
<1>5. handled' \in Packs /\ handled' = handled \o <<x>>
  BY <1>1, <1>2, <1>4, AppendOne
<1>6. ReadTypes'
  BY <1>1, <1>2, <1>3, <1>4, <1>5 DEF ReadTypes, Packs
<1>7. Followed'
  <2>1. Pending' = <<>> /\ Pending = <<>>
    BY <1>1, <1>2 DEF Pending
  <2> QED BY <2>1, <1>1, <1>2, <1>3 DEF Followed, FirstSent
<1>8. Flow'
  <2>1. handled \o prepared = accepted /\ recvd = <<>> /\ recvQueue = <<>>
    BY <1>1, <1>3 DEF Flow
  <2>2. (handled \o <<x>>) \o t = handled \o (<<x>> \o t)
    BY <1>1, <1>4, Regroup, Zenon
  <2>3. handled' \o t = accepted
    BY <2>1, <2>2, <1>4, <1>5
  <2>4. (IF readPc' = "call" THEN prepared' ELSE <<>>) = t
    BY <1>2, <1>4
  <2> QED BY <2>1, <2>3, <2>4, <1>1, <1>2 DEF Flow
<1>9. Stopped'
  BY <1>1, <1>2, <1>3 DEF Stopped
<1> QED BY <1>6, <1>7, <1>8, <1>9 DEF ReadInv

LEMMA ConsumerKeeps == ASSUME ReadInv, ConsumerWakes \/ ConsumerWaits PROVE ReadInv'
<1>1. /\ UNCHANGED <<rk, recvLimit, readStarted, arrived, recvBuf, readPc, prepared, recvQueue, recvd, readClosing,
                     closeSig, readStopPc, accepted, handled>>
      /\ \/ consumerPc = "select" /\ rk = "thread" /\ consumerPc' = "drain"
         \/ consumerPc = "select" /\ rk = "thread" /\ consumerPc' = "final" /\ closeSig
         \/ consumerPc = "back" /\ consumerPc' = "select"
  BY DEF ConsumerWakes, ConsumerWaits, setup, buffer, stopping
<1>2. ReadTypes'
  BY <1>1 DEF ReadInv, ReadTypes
<1>3. Followed'
  BY <1>1, FollowedRests DEF ReadInv
<1>4. Flow'
  BY <1>1 DEF ReadInv, Flow
<1>5. Stopped'
  BY <1>1 DEF ReadInv, Stopped
<1> QED BY <1>2, <1>3, <1>4, <1>5 DEF ReadInv

LEMMA DrainTakesKeeps == ASSUME ReadInv, DrainTakes PROVE ReadInv'
<1> DEFINE n == IF Len(recvQueue) < RecvBatch THEN Len(recvQueue) ELSE RecvBatch
<1>1. /\ recvQueue \in Packs /\ consumerPc \in {"drain", "final"} /\ recvd = <<>> /\ rk = "thread"
      /\ Len(recvQueue) \in Nat /\ RecvBatch \in Nat \ {0}
  BY ReadSizes, LenProperties DEF ReadInv, ReadTypes, Stopped, Packs, DrainTakes
<1>2. /\ UNCHANGED <<rk, recvLimit, readStarted, arrived, recvBuf, readPc, prepared, readClosing, closeSig, readStopPc,
                     accepted, handled>>
      /\ recvd' = SubSeq(recvQueue, 1, n) /\ recvQueue' = From(recvQueue, n + 1)
      /\ consumerPc' = IF n > 0 THEN consumerPc ELSE IF consumerPc = "drain" THEN "back" ELSE "done"
  BY DEF DrainTakes, setup, buffer, stopping
<1>3. n \in 0 .. Len(recvQueue) /\ (~(n > 0) => n = 0 /\ Len(recvQueue) = 0)
  BY <1>1
<1> HIDE DEF n
<1>4. /\ recvd' \in Packs /\ recvQueue' \in Packs /\ recvd' \o recvQueue' = recvQueue
      /\ n = 0 => recvd' = <<>> /\ recvQueue' = recvQueue
  BY <1>1, <1>2, <1>3, TakeIs
<1>5. Len(recvQueue) = 0 => recvQueue = <<>>
  BY <1>1, EmptySeq DEF Packs
<1>6. ReadTypes'
  BY <1>2, <1>4 DEF ReadInv, ReadTypes, Packs
<1>7. Followed'
  BY <1>2, FollowedRests DEF ReadInv
<1>8. Flow'
  <2>1. handled \o (recvd \o recvQueue) = accepted /\ recvd \o recvQueue = recvQueue
    BY <1>1, JoinIs DEF ReadInv, Flow
  <2> QED BY <2>1, <1>1, <1>2, <1>4 DEF ReadInv, Flow
<1>9. Stopped'
  <2>1. readStarted \/ (recvd' = <<>> /\ recvQueue' = <<>>)
    BY <1>1, <1>3, <1>4, <1>5 DEF ReadInv, Stopped
  <2>2. consumerPc' = "done" => recvd' = <<>> /\ recvQueue' = <<>>
    BY <1>1, <1>2, <1>3, <1>4, <1>5
  <2> QED BY <2>1, <2>2, <1>1, <1>2 DEF ReadInv, Stopped
<1> QED BY <1>6, <1>7, <1>8, <1>9 DEF ReadInv

LEMMA DrainCallsKeeps == ASSUME ReadInv, DrainCalls PROVE ReadInv'
<1> DEFINE x == Head(recvd)
           t == Tail(recvd)
<1>1. recvd \in Packs /\ recvd # <<>> /\ handled \in Packs /\ recvQueue \in Packs /\ rk # "sync"
  BY DEF ReadInv, ReadTypes, Packs, Flow, DrainCalls
<1>2. /\ UNCHANGED <<rk, recvLimit, readStarted, arrived, recvBuf, readPc, prepared, recvQueue, wakeCh, consumerPc,
                     readClosing, closeSig, readStopPc, accepted>>
      /\ handled' = Append(handled, x) /\ recvd' = t
  BY DEF DrainCalls, setup, buffer, stopping
<1>3. x \in Strings /\ t \in Packs /\ <<x>> \in Packs /\ <<x>> \o t = recvd
  BY <1>1, HeadIs
<1> HIDE DEF x, t
<1>4. handled' \in Packs /\ handled' = handled \o <<x>>
  BY <1>1, <1>2, <1>3, AppendOne
<1>5. ReadTypes'
  BY <1>2, <1>3, <1>4 DEF ReadInv, ReadTypes, Packs
<1>6. Followed'
  BY <1>2, FollowedRests DEF ReadInv
<1>7. Flow'
  <2>1. handled \o (recvd \o recvQueue) = accepted
    BY <1>1 DEF ReadInv, Flow
  <2>2. (<<x>> \o t) \o recvQueue = <<x>> \o (t \o recvQueue)
    BY <1>1, <1>3, Regroup, Zenon
  <2>3. t \o recvQueue \in Packs
    BY <1>1, <1>3, JoinIs
  <2>4. (handled \o <<x>>) \o (t \o recvQueue) = handled \o (<<x>> \o (t \o recvQueue))
    <3> DEFINE w == t \o recvQueue
    <3>1. w \in Packs
      BY <2>3
    <3> HIDE DEF w
    <3>2. (handled \o <<x>>) \o w = handled \o (<<x>> \o w)
      BY <3>1, <1>1, <1>3, Regroup, Zenon
    <3> QED BY <3>2 DEF w
  <2>5. handled' \o (t \o recvQueue) = accepted
    BY <2>1, <2>2, <2>4, <1>3, <1>4
  <2> QED BY <2>5, <1>1, <1>2 DEF ReadInv, Flow
<1>8. Stopped'
  BY <1>1, <1>2 DEF ReadInv, Stopped
<1> QED BY <1>5, <1>6, <1>7, <1>8 DEF ReadInv

LEMMA WorkerKeeps == ASSUME ReadInv, WorkerRuns PROVE ReadInv'
<1>1. /\ recvd \in Packs /\ handled \in Packs /\ recvQueue \in Packs /\ rk = "worker"
      /\ handled \o (recvd \o recvQueue) = accepted
  BY DEF ReadInv, ReadTypes, Packs, Flow, WorkerRuns
<1>2. UNCHANGED <<rk, recvLimit, readStarted, arrived, recvBuf, readPc, prepared, wakeCh, consumerPc, readClosing,
                  closeSig, readStopPc, accepted>>
  BY DEF WorkerRuns, setup, buffer, stopping
<1>3. /\ recvd' \in Packs /\ handled' \in Packs /\ recvQueue' \in Packs
      /\ handled' \o (recvd' \o recvQueue') = accepted
      /\ recvd # <<>> \/ recvQueue # <<>>
  <2>1. CASE recvd = <<>> /\ recvQueue # <<>> /\ recvd' = <<Head(recvQueue)>> /\ recvQueue' = Tail(recvQueue)
             /\ UNCHANGED handled
    <3>1. recvd' \in Packs /\ recvQueue' \in Packs /\ recvd' \o recvQueue' = recvQueue
      BY <2>1, <1>1, HeadIs
    <3>2. recvd \o recvQueue = recvQueue
      BY <2>1, <1>1, JoinIs
    <3> QED BY <3>1, <3>2, <2>1, <1>1
  <2>2. CASE recvd # <<>> /\ recvd' = <<>> /\ handled' = handled \o recvd /\ UNCHANGED recvQueue
    <3>1. handled' \in Packs /\ recvd' \in Packs /\ recvd' \o recvQueue' = recvQueue
      BY <2>2, <1>1, JoinIs
    <3>2. (handled \o recvd) \o recvQueue = handled \o (recvd \o recvQueue)
      BY <1>1, Regroup, Zenon
    <3> QED BY <3>1, <3>2, <2>2, <1>1
  <2> QED BY <2>1, <2>2 DEF WorkerRuns
<1>4. ReadTypes'
  BY <1>2, <1>3 DEF ReadInv, ReadTypes, Packs
<1>5. Followed'
  BY <1>2, FollowedRests DEF ReadInv
<1>6. Flow'
  BY <1>1, <1>2, <1>3 DEF ReadInv, Flow
<1>7. Stopped'
  BY <1>1, <1>2, <1>3 DEF ReadInv, Stopped
<1> QED BY <1>4, <1>5, <1>6, <1>7 DEF ReadInv

LEMMA StopKeeps == ASSUME ReadInv, StopMarks \/ StopSignals \/ ReadStopReturns PROVE ReadInv'
<1>1. /\ UNCHANGED <<rk, recvLimit, readStarted, arrived, recvBuf, readPc, prepared, recvQueue, wakeCh, consumerPc, recvd,
                     accepted, handled>>
      /\ \/ readStopPc = "idle" /\ readClosing' = TRUE /\ closeSig' = closeSig
            /\ readStopPc' = IF rk = "worker" THEN "returned" ELSE "marked"
         \/ readStopPc = "marked" /\ rk = "thread" /\ closeSig' = TRUE /\ readStopPc' = "wait" /\ readClosing' = readClosing
         \/ readStopPc = "wait" /\ consumerPc \in {"done", "none"} /\ readStopPc' = "returned"
            /\ UNCHANGED <<readClosing, closeSig>>
         \/ readStopPc = "marked" /\ rk = "sync" /\ readPc # "call" /\ readStopPc' = "returned"
            /\ UNCHANGED <<readClosing, closeSig>>
  BY DEF StopMarks, StopSignals, ReadStopReturns, setup, buffer, consumer
<1>2. readClosing \in BOOLEAN /\ readClosing' \in BOOLEAN /\ (readClosing => readClosing')
  BY <1>1 DEF ReadInv, ReadTypes
<1>3. ReadTypes'
  BY <1>1, <1>2 DEF ReadInv, ReadTypes
<1>4. Followed'
  BY <1>1, <1>2, FollowedRests DEF ReadInv
<1>5. Flow'
  BY <1>1 DEF ReadInv, Flow
<1>6. Stopped'
  BY <1>1, <1>2 DEF ReadInv, Stopped
<1> QED BY <1>3, <1>4, <1>5, <1>6 DEF ReadInv

LEMMA ReadInvInit == ASSUME ReadInit PROVE ReadInv
<1>1. N \in Nat /\ L \in Nat
  BY EndsAre
<1>2. Ends[0] = 0 /\ 0 \in 0..N
  BY <1>1, EndsAre DEF Borders
<1>3. Window(0, 0) = <<>>
  BY SubSeqEmpty DEF Window
<1>4. <<>> \in Seq(Strings) /\ Len(<<>>) = 0 /\ <<>> \o <<>> = <<>>
  BY JoinIs, EmptySeq DEF Packs
<1>5. FirstSent(<<>>)
  BY <1>1, <1>4 DEF FirstSent
<1>6. ReadTypes
  <2>1. recvLimit \in Nat
    BY ReadSizes DEF ReadInit
  <2>2. readPc = "read" /\ prepared = <<>> /\ arrived = 0 /\ arrived \in Nat /\ arrived <= L
        /\ recvQueue = <<>> /\ recvd = <<>> /\ handled = <<>> /\ accepted = <<>> /\ readClosing = FALSE
    BY <1>1 DEF ReadInit
  <2> QED BY <2>1, <2>2, <1>4 DEF ReadTypes
<1>7. Followed
  <2>1. accepted = <<>> /\ Pending = <<>> /\ arrived = 0 /\ recvBuf = <<>>
    BY DEF ReadInit, Pending
  <2>2. Ends[0] <= arrived /\ recvBuf = Window(Ends[0], arrived)
    BY <2>1, <1>2, <1>3
  <2> QED BY <2>1, <2>2, <1>2, <1>4, <1>5 DEF Followed
<1>8. Flow
  BY <1>4 DEF ReadInit, Flow
<1>9. Stopped
  BY DEF ReadInit, Stopped
<1> QED BY <1>6, <1>7, <1>8, <1>9 DEF ReadInv

LEMMA ReadInvNext == ASSUME ~Reused, ReadInv, [ReadNext]_readVars PROVE ReadInv'
<1>1. ASSUME NEW n \in 0 .. Len(Stream), OnRecvBytes(n) PROVE ReadInv'
  BY <1>1, RecvKeeps
<1>2. CASE ReadSteps
  BY <1>2, PushAllKeeps, WakeKeeps, SubmitKeeps, SyncLocksKeeps, SyncCallsKeeps DEF ReadSteps
<1>3. CASE Deliver
  BY <1>3, ConsumerKeeps, DrainTakesKeeps, DrainCallsKeeps, WorkerKeeps DEF Deliver
<1>4. CASE StopMarks \/ ReadStopper
  BY <1>4, StopKeeps DEF ReadStopper
<1>5. CASE UNCHANGED readVars
  <2>1. ReadTypes'
    BY <1>5 DEF ReadInv, ReadTypes, readVars
  <2>2. Followed'
    BY <1>5, FollowedRests DEF ReadInv, readVars
  <2>3. Flow' /\ Stopped'
    BY <1>5 DEF ReadInv, Flow, Stopped, readVars
  <2> QED BY <2>1, <2>2, <2>3 DEF ReadInv
<1> QED BY <1>1, <1>2, <1>3, <1>4, <1>5 DEF ReadNext

LEMMA ReadInvStops == ASSUME ReadInv PROVE ReadStops
<1>1. handled \in Packs /\ recvd \in Packs /\ recvQueue \in Packs /\ FirstSent(accepted)
  BY DEF ReadInv, ReadTypes, Followed, Packs
<1>2. \E t \in Packs : handled \o t = accepted
  <2>1. prepared \in Packs /\ <<>> \in Packs
    BY JoinIs DEF ReadInv, ReadTypes, Packs
  <2>2. recvd \o recvQueue \in Packs
    BY <1>1, JoinIs
  <2> QED BY <2>1, <2>2 DEF ReadInv, Flow
<1>3. PacketsIntact
  <2>1. FirstSent(handled)
    <3>1. PICK t \in Packs : handled \o t = accepted
      BY <1>2
    <3>2. FirstSent(handled \o t)
      BY <3>1, <1>1
    <3> QED BY <3>2, <1>1, FirstLeft
  <2> QED BY <2>1, FirstIs DEF PacketsIntact
<1>4. ASSUME readStopPc = "returned", rk # "worker" PROVE handled = accepted
  <2>1. CASE rk = "thread" /\ consumerPc \in {"done", "none"}
    <3>1. recvd = <<>> /\ recvQueue = <<>>
      BY <2>1 DEF ReadInv, Stopped
    <3>2. <<>> \o <<>> = <<>> /\ handled \o <<>> = handled
      BY <1>1, JoinIs
    <3>3. handled \o (recvd \o recvQueue) = accepted
      BY <2>1 DEF ReadInv, Flow
    <3> QED BY <3>1, <3>2, <3>3
  <2>2. CASE rk = "sync" /\ readPc # "call"
    <3>1. handled \o <<>> = handled
      BY <1>1, JoinIs
    <3> QED BY <3>1, <2>2 DEF ReadInv, Flow
  <2> QED BY <2>1, <2>2, <1>4 DEF ReadInv, Stopped
<1> QED BY <1>3, <1>4 DEF ReadStops

\* The handler is called with the packets the peer sent, whole, in order and without a gap, however
\* the bytes are cut up when they are read, by Split and by SplitSR alike; and when the Stop of a
\* ReadProcessor or SyncReadProcessor has returned, what was accepted has been handled and nothing
\* is accepted any more (packet_spliter.go, read_thread.go, read_sync.go, read_worker.go).
\* Reused is excluded: a pool that hands out the buffer that was just put back breaks it.
THEOREM ReadStopsAlways == ASSUME ~Reused PROVE ReadSpec => []ReadStops
<1>1. ReadInit => ReadInv
  BY ReadInvInit
<1>2. ReadInv /\ [ReadNext]_readVars => ReadInv'
  BY ReadInvNext
<1>3. ReadInv => ReadStops
  BY ReadInvStops
<1> QED BY <1>1, <1>2, <1>3, PTL DEF ReadSpec

=============================================================================
