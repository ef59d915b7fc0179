----------------------------- MODULE RingBuffer -----------------------------
(***************************************************************************)
(* utils/buffers/kkring: the circular byte buffer of a connection.  The    *)
(* content lies between two positions of an array that wraps round, r to   *)
(* read from and w to write at; r = w is an empty buffer or a full one,    *)
(* which only the flag isEmpty tells apart.  A write that does not fit     *)
(* moves the content into a larger array.                                  *)
(*                                                                         *)
(* Bytes are numbered in the order they are given to the buffer; a fresh   *)
(* array of the pool holds 0.  The sizes of the code (1024, 512, 4096) are *)
(* constants.                                                              *)
(***************************************************************************)
EXTENDS Integers, Sequences

CONSTANTS
    DefaultBufferSize,      \* the first array
    MinRead,                \* ReadFrom wants this much room
    GrowThreshold,          \* arrays of this size and more grow by a quarter
    RingBytes,              \* bytes written in a behaviour
    RingChunk               \* bytes of one call

ASSUME RingSizes ==
    /\ DefaultBufferSize \in Nat \ {0} /\ MinRead \in Nat \ {0} /\ GrowThreshold \in Nat
    /\ 4 <= GrowThreshold

VARIABLES
    rb,             \* the Buffer: buf, size, r, w, isEmpty
    content,        \* what the buffer is promised to hold
    given,          \* bytes given to it so far
    reading,        \* a ReadFrom is in its loop
    lost,           \* a ReadFrom misplaced bytes, a WriteTo dropped them
    panicked        \* an index was out of range

ringVars == <<rb, content, given, reading, lost, panicked>>

BufferSlice(b, from, to) == [i \in 1..(to - from) |-> b.buf[from + i - 1]]
Fresh(n) == [i \in 0..(n - 1) |-> 0]
NewBuffer == [buf |-> Fresh(0), size |-> 0, r |-> 0, w |-> 0, isEmpty |-> TRUE]
BufferReset(b) == [b EXCEPT !.isEmpty = TRUE, !.r = 0, !.w = 0]

Buffered(b) ==
    IF b.r = b.w THEN (IF b.isEmpty THEN 0 ELSE b.size)
    ELSE IF b.w > b.r THEN b.w - b.r ELSE b.size - b.r + b.w
Available(b) ==
    IF b.r = b.w THEN (IF b.isEmpty THEN b.size ELSE 0)
    ELSE IF b.w < b.r THEN b.r - b.w ELSE b.size - b.w + b.r

Least(m, n) == IF m < n THEN m ELSE n

(* The next n bytes, head and tail joined; all of them when n <= 0. *)
BufferPeekAll(b) ==
    CASE b.isEmpty -> <<>>
      [] ~b.isEmpty /\ b.w > b.r -> BufferSlice(b, b.r, b.w)
      [] OTHER -> BufferSlice(b, b.r, b.size) \o BufferSlice(b, 0, b.w)
BufferPeek(b, n) ==
    IF b.isEmpty THEN <<>>
    ELSE IF n <= 0 THEN BufferPeekAll(b)
    ELSE IF b.w > b.r THEN BufferSlice(b, b.r, b.r + Least(n, b.w - b.r))
    ELSE LET m == Least(n, b.size - b.r + b.w) IN
         IF b.r + m <= b.size THEN BufferSlice(b, b.r, b.r + m)
         ELSE BufferSlice(b, b.r, b.size) \o BufferSlice(b, 0, m - (b.size - b.r))
BufferBytes(b) ==
    IF b.isEmpty THEN <<>>
    ELSE IF b.w > b.r THEN BufferSlice(b, b.r, b.w)
    ELSE BufferSlice(b, b.r, b.size) \o (IF b.w # 0 THEN BufferSlice(b, 0, b.w) ELSE <<>>)

(* The read position after n bytes; the last byte resets the buffer. *)
Advance(b, n) ==
    LET c == [b EXCEPT !.r = (b.r + n) % b.size] IN IF c.r = c.w THEN BufferReset(c) ELSE c
\* Mutant: discarding everything does not reset the buffer.
BufferDiscardOpen(b, n) ==
    IF n <= 0 THEN b
    ELSE IF n <= Buffered(b) THEN [b EXCEPT !.r = (b.r + n) % b.size] ELSE BufferReset(b)
BufferDiscard(b, n) ==
    IF n <= 0 THEN b
    ELSE IF n < Buffered(b) THEN [b EXCEPT !.r = (b.r + n) % b.size] ELSE BufferReset(b)
BufferRead(b, n) == IF n = 0 \/ b.isEmpty THEN b ELSE Advance(b, Least(n, Buffered(b)))
BufferReadByte(b) == IF b.isEmpty THEN b ELSE Advance(b, 1)

CeilToPowerOfTwo(n) == CHOOSE p \in {2^k : k \in 0..8} : n <= p /\ p < 2 * n
GrownBy4th[n \in Nat, want \in Nat] ==
    IF n < want THEN GrownBy4th[n + n \div 4, want] ELSE n
NewCap(size, want) ==
    CASE size = 0 -> IF want <= DefaultBufferSize THEN DefaultBufferSize ELSE CeilToPowerOfTwo(want)
      [] size > 0 /\ want > 2 * size -> want
      [] size > 0 /\ want <= 2 * size ->
            IF size < GrowThreshold THEN 2 * size ELSE GrownBy4th[size, want]
BufferGrow(b, want) ==
    LET cap  == NewCap(b.size, want)
        held == BufferPeekAll(b)
    IN  [buf     |-> [i \in 0..(cap - 1) |-> IF i < Len(held) THEN held[i + 1] ELSE 0],
         size    |-> cap, r |-> 0, w |-> Len(held), isEmpty |-> Len(held) = 0]

(* The array with the bytes p from position w on (copy stops at its end). *)
Copied(b, w, p) ==
    [b EXCEPT !.buf = [i \in DOMAIN b.buf |-> IF w <= i /\ i < w + Len(p) THEN p[i - w + 1] ELSE @[i]]]
Wrapped(b) == IF b.w = b.size THEN [b EXCEPT !.w = 0] ELSE b

BufferWrite(b0, p) ==
    LET n  == Len(p)
        b  == IF n > Available(b0) THEN BufferGrow(b0, b0.size + n - Available(b0)) ELSE b0
        c1 == b.size - b.w
        c  == IF b.w >= b.r /\ c1 < n
              THEN [Copied(Copied(b, b.w, SubSeq(p, 1, c1)), 0, SubSeq(p, c1 + 1, n)) EXCEPT !.w = n - c1]
              ELSE [Copied(b, b.w, p) EXCEPT !.w = @ + n]
    IN  IF n = 0 THEN b0 ELSE [Wrapped(c) EXCEPT !.isEmpty = FALSE]

(* One byte: the room asked for is 1, whatever the buffer holds. *)
WriteByteRoom(b) == IF Available(b) < 1 THEN BufferGrow(b, 1) ELSE b
BufferWriteByte(b, p) == [Wrapped([Copied(b, b.w, p) EXCEPT !.w = @ + 1]) EXCEPT !.isEmpty = FALSE]

(* A writer that takes m bytes of each of the two pieces at most. *)
BufferWriteTo(b, m) ==
    IF b.isEmpty THEN b
    ELSE IF b.w > b.r \/ b.w = 0
    THEN Advance(b, Least(m, Buffered(b)))
    ELSE LET c1 == b.size - b.r IN
         IF m < c1 THEN [b EXCEPT !.r = @ + m]
         ELSE LET c == [b EXCEPT !.r = Least(m, b.w)] IN
              IF c.r = c.w THEN BufferReset(c) ELSE c
WrittenTo(b, m) ==
    IF b.isEmpty THEN 0
    ELSE IF b.w > b.r \/ b.w = 0 THEN Least(m, Buffered(b))
    ELSE LET c1 == b.size - b.r IN IF m < c1 THEN m ELSE c1 + Least(m, b.w)

---------------------------------------------------------------------------
Following(n) == [i \in 1..n |-> given + i]
RingUsable == ~panicked /\ ~lost            \* what follows a loss is not explored
RingIdle == ~reading /\ RingUsable
After(n) == SubSeq(content, Least(n, Len(content)) + 1, Len(content))

RingInit ==
    /\ rb = NewBuffer /\ content = <<>> /\ given = 0
    /\ reading = FALSE /\ lost = FALSE /\ panicked = FALSE

RingWrite(n) ==
    /\ RingIdle /\ given + n <= RingBytes
    /\ rb' = BufferWrite(rb, Following(n))
    /\ content' = content \o Following(n) /\ given' = given + n
    /\ UNCHANGED <<reading, lost, panicked>>

RingWriteByte ==
    /\ RingIdle /\ given < RingBytes
    /\ LET b == WriteByteRoom(rb) IN
       IF b.w \in DOMAIN b.buf
       THEN /\ rb' = BufferWriteByte(b, Following(1))
            /\ content' = content \o Following(1) /\ given' = given + 1
            /\ UNCHANGED panicked
       ELSE /\ rb' = b /\ panicked' = TRUE
            /\ UNCHANGED <<content, given>>
    /\ UNCHANGED <<reading, lost>>

RingRead(n) ==
    /\ RingIdle /\ rb' = BufferRead(rb, n) /\ content' = After(n)
    /\ UNCHANGED <<given, reading, lost, panicked>>
RingReadByte ==
    /\ RingIdle /\ rb' = BufferReadByte(rb) /\ content' = After(1)
    /\ UNCHANGED <<given, reading, lost, panicked>>
RingDiscard(n) ==
    /\ RingIdle /\ rb' = BufferDiscard(rb, n) /\ content' = After(n)
    /\ UNCHANGED <<given, reading, lost, panicked>>
RingWriteTo(m) ==
    /\ RingIdle /\ rb' = BufferWriteTo(rb, m) /\ content' = After(WrittenTo(rb, m))
    /\ lost' = (lost \/ (m = 0 /\ rb.w = 0 /\ Buffered(rb) = rb.size /\ rb.size > 0))
    /\ UNCHANGED <<given, reading, panicked>>

(* One round of ReadFrom's loop: the reader gives m bytes and, unless it    *)
(* also gave its end or an error, n more at the start of the array, for    *)
(* which the code takes the first piece to be full.                        *)
RingReadFrom(m, n, ended) ==
    /\ RingUsable /\ given + m + n <= RingBytes
    /\ LET b == IF Available(rb) < MinRead THEN BufferGrow(rb, Buffered(rb) + MinRead) ELSE rb
           upper == b.w >= b.r
           c == [Copied(b, b.w, Following(m)) EXCEPT !.isEmpty = FALSE, !.w = (b.w + m) % b.size]
           d == [Copied(c, 0, [i \in 1..n |-> given + m + i]) EXCEPT !.w = (c.w + n) % b.size]
       IN  /\ m <= IF upper THEN b.size - b.w ELSE b.r - b.w
           /\ n <= IF upper /\ ~ended THEN b.r ELSE 0
           /\ rb' = IF upper /\ ~ended THEN d ELSE c
           /\ lost' = (lost \/ (m = 0 /\ b.isEmpty /\ n < b.size) \/ (n > 0 /\ b.w + m # b.size))
    /\ content' = content \o Following(m + n) /\ given' = given + m + n
    /\ reading' = ~ended
    /\ UNCHANGED panicked

RingNext ==
    \/ \E n \in 0..RingChunk :
          RingWrite(n) \/ RingRead(n) \/ RingDiscard(n) \/ RingWriteTo(n)
    \/ RingWriteByte \/ RingReadByte
    \/ \E m, n \in 0..RingChunk, ended \in BOOLEAN : RingReadFrom(m, n, ended)

RingSpec == RingInit /\ [][RingNext]_ringVars

---------------------------------------------------------------------------
(* The buffer reads back as a queue of bytes: what was written and not     *)
(* read is there, in order, for Bytes and for every Peek, over every       *)
(* sequence of calls that wraps, fills, empties and grows it.              *)
ReadsBackAsQueue ==
    /\ Buffered(rb) = Len(content) /\ Available(rb) = rb.size - Len(content)
    /\ BufferBytes(rb) = content /\ BufferPeekAll(rb) = content
    /\ \A n \in 1..RingChunk : BufferPeek(rb, n) = SubSeq(content, 1, Least(n, Len(content)))

(* It does as long as no ReadFrom had a reader that gave nothing to an     *)
(* empty buffer, or less than the piece up to the end of the array and     *)
(* then more; no WriteTo had a writer that took nothing of a full array    *)
(* read from its start; and no WriteByte met a full array of GrowThreshold *)
(* or more, which grow(1) does not enlarge.                                *)
RingIsQueue ==
    /\ ~lost /\ ~panicked => ReadsBackAsQueue
    /\ panicked => rb.size >= GrowThreshold
=============================================================================
