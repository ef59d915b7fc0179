---------------------------- MODULE Conversions ----------------------------
(***************************************************************************)
(* utils/xconv: conversions between the types of Go, as the rest of the    *)
(* program and its users chain them: a slice of some type is passed to     *)
(* Int32s, its result to Strings, that one to Int64s.  Every scalar        *)
(* function is a switch over the type of its argument (the kind), every    *)
(* slice function applies one to each element and returns an array of its  *)
(* own, except that a slice that already has the wanted type comes back as *)
(* it is, still shared with the caller.                                    *)
(*                                                                         *)
(* Numbers are integers.  Widths are scaled by a quarter (a byte has two   *)
(* bits, 64 bits are 16, the mantissas of the floats 6 and 13) and keep    *)
(* their order: 16 bits < float32 < 32 bits < float64 < 64 bits.           *)
(***************************************************************************)
EXTENDS Integers, Sequences

CONSTANTS
    ConvValues,     \* the numbers a slice may start with or be written with
    ConvDepth       \* conversions in a chain

VARIABLES
    cell,           \* the slice at hand: its kind and its numbers
    orig,           \* the slice the caller started from
    aliased,        \* the slice at hand still is the caller's array
    carried,        \* the numbers the chain has to keep
    kept,           \* every conversion of the chain could keep them
    depth           \* conversions done

convVars == <<cell, orig, aliased, carried, kept, depth>>

Width == [int8 |-> 2, int16 |-> 4, int32 |-> 8, int64 |-> 16, int |-> 16,
          uint8 |-> 2, uint16 |-> 4, uint32 |-> 8, uint64 |-> 16, uint |-> 16,
          duration |-> 16, bool |-> 2]
Signed   == {"int8", "int16", "int32", "int64", "int", "duration"}
Unsigned == {"uint8", "uint16", "uint32", "uint64", "uint"}
Floats   == {"float32", "float64"}
Mantissa == [float32 |-> 6, float64 |-> 13]
Kinds    == Signed \union Unsigned \union Floats \union {"bool", "string"}

WrapSigned(w, n)   == ((n + 2^(w - 1)) % 2^w) - 2^(w - 1)
WrapUnsigned(w, n) == n % 2^w
InSigned(w, n)     == -(2^(w - 1)) <= n /\ n < 2^(w - 1)
InUnsigned(w, n)   == 0 <= n /\ n < 2^w
Clamp(low, high, n) == IF n < low THEN low ELSE IF n > high THEN high ELSE n
Abs(n) == IF n < 0 THEN -n ELSE n

(* The float with a mantissa of m bits that is nearest to n, ties to even. *)
Round(m, n) ==
    LET e    == CHOOSE x \in 0..16 : Abs(n) < 2^(m + x) /\ (x = 0 \/ 2^(m + x - 1) <= Abs(n))
        unit == 2^e
        q    == Abs(n) \div unit
        r    == 2 * (Abs(n) % unit)
        up   == r > unit \/ (r = unit /\ q % 2 = 1)
        v    == (IF up THEN q + 1 ELSE q) * unit
    IN  IF n < 0 THEN -v ELSE v

(* What a conversion of an out-of-range float, or of the bits of a float,  *)
(* gives depends on the processor.                                         *)
Junk == {-(2^15), 2^15 - 1, 0}

---------------------------------------------------------------------------
(* The scalar functions: the value of a number n of kind k.  The kind      *)
(* "word" is the text of a bool, "bytes" the encoding Bytes made.          *)

Int64(k, n, junk) ==
    CASE k \in Floats  -> IF InSigned(16, n) THEN n ELSE junk
      [] k = "string"  -> Clamp(-(2^15), 2^15 - 1, n)     \* ParseInt saturates
      [] k = "word"    -> 0
      [] OTHER         -> WrapSigned(16, n)

Uint64(k, n, junk) ==
    CASE k \in Floats  -> IF InUnsigned(16, n) THEN n ELSE WrapUnsigned(16, junk)
      [] k = "string"  -> IF n < 0 THEN 0 ELSE Clamp(0, 2^16 - 1, n)
      [] k \in {"word", "bytes"} -> 0                     \* no case for []byte
      [] OTHER         -> WrapUnsigned(16, n)

Float64(k, n) == IF k \in {"word", "bytes"} THEN 0 ELSE Round(13, n)

(* A size in bytes: text without a unit is digits only, a bool is 0. *)
B(k, n) ==
    CASE k \in {"bool", "word", "bytes", "duration"} -> 0
      [] k = "string" -> IF n < 0 THEN 0 ELSE Round(13, n)
      [] OTHER        -> Round(13, n)

(* Text and encodings are read as text: only "", "0" and "false" are false. *)
Bool(k, n) == IF k = "bytes" \/ n # 0 THEN 1 ELSE 0

Duration(k, n, junk) ==
    CASE k \in {"bool", "word", "bytes", "string"} -> 0   \* a numeral has no unit
      [] OTHER -> Int64(k, n, junk)

(* The shortest decimal that reads back as the same float: above its       *)
(* mantissa it need not be the number itself (off is the digit it rounds). *)
String(k, n, off) ==
    IF k \in Floats /\ Abs(n) > 2^Mantissa[k] /\ Round(Mantissa[k], n + off) = n
    THEN n + off
    ELSE n

(* Big endian in the width of the type, the sign in its top bit; a float   *)
(* gives its bits.                                                         *)
Bytes(k, n, junk) ==
    IF k \in Floats THEN (IF n = 0 THEN 0 ELSE WrapUnsigned(16, junk))
    ELSE WrapUnsigned(Width[k], n)

Int8(k, n, junk)   == WrapSigned(2, Int64(k, n, junk))
Int16(k, n, junk)  == WrapSigned(4, Int64(k, n, junk))
Int32(k, n, junk)  == WrapSigned(8, Int64(k, n, junk))
IntValue(k, n, junk) == Int64(k, n, junk)
Uint8(k, n, junk)  == WrapUnsigned(2, Uint64(k, n, junk))
Uint16(k, n, junk) == WrapUnsigned(4, Uint64(k, n, junk))
Uint32(k, n, junk) == WrapUnsigned(8, Uint64(k, n, junk))
Uint(k, n, junk)   == Uint64(k, n, junk)
Float32(k, n)      == Round(6, Float64(k, n))

---------------------------------------------------------------------------
(* The slice functions: the type switch hands back a slice of the wanted   *)
(* type itself, and fills a new one from any other.                        *)
Each(c, own, F(_)) ==
    IF c.kind = own THEN c
    ELSE [kind |-> own, at |-> [i \in DOMAIN c.at |-> F(c.at[i])]]

Ints(c, junk)     == LET F(n) == IntValue(c.kind, n, junk) IN Each(c, "int", F)
Int8s(c, junk)    == LET F(n) == Int8(c.kind, n, junk)   IN Each(c, "int8", F)
Int16s(c, junk)   == LET F(n) == Int16(c.kind, n, junk)  IN Each(c, "int16", F)
Int32s(c, junk)   == LET F(n) == Int32(c.kind, n, junk)  IN Each(c, "int32", F)
Int64s(c, junk)   == LET F(n) == Int64(c.kind, n, junk)  IN Each(c, "int64", F)
Uints(c, junk)    == LET F(n) == Uint(c.kind, n, junk)   IN Each(c, "uint", F)
Uint8s(c, junk)   == LET F(n) == Uint8(c.kind, n, junk)  IN Each(c, "uint8", F)
Uint16s(c, junk)  == LET F(n) == Uint16(c.kind, n, junk) IN Each(c, "uint16", F)
Uint32s(c, junk)  == LET F(n) == Uint32(c.kind, n, junk) IN Each(c, "uint32", F)
Uint64s(c, junk)  == LET F(n) == Uint64(c.kind, n, junk) IN Each(c, "uint64", F)
Float32s(c)       == LET F(n) == Float32(c.kind, n)      IN Each(c, "float32", F)
Float64s(c)       == LET F(n) == Float64(c.kind, n)      IN Each(c, "float64", F)
Bs(c)             == LET F(n) == B(c.kind, n)            IN Each(c, "float64", F)
Bools(c)          == LET F(n) == Bool(c.kind, n)         IN Each(c, "bool", F)
Durations(c, junk) == LET F(n) == Duration(c.kind, n, junk) IN Each(c, "duration", F)
Strings(c, off) ==
    LET F(n) == String(c.kind, n, off)
        d == Each(c, "string", F)
    IN  IF c.kind \in {"bool", "word"} THEN [d EXCEPT !.kind = "word"] ELSE d

(* The result of the slice function named f. *)
Converted(f, c, junk, off) ==
    CASE f = "Ints"    -> Ints(c, junk)    [] f = "Int8s"   -> Int8s(c, junk)
      [] f = "Int16s"  -> Int16s(c, junk)  [] f = "Int32s"  -> Int32s(c, junk)
      [] f = "Int64s"  -> Int64s(c, junk)  [] f = "Uints"   -> Uints(c, junk)
      [] f = "Uint8s"  -> Uint8s(c, junk)  [] f = "Uint16s" -> Uint16s(c, junk)
      [] f = "Uint32s" -> Uint32s(c, junk) [] f = "Uint64s" -> Uint64s(c, junk)
      [] f = "Float32s" -> Float32s(c)     [] f = "Float64s" -> Float64s(c)
      [] f = "Bs"      -> Bs(c)            [] f = "Bools"   -> Bools(c)
      [] f = "Durations" -> Durations(c, junk)
      [] f = "Strings" -> Strings(c, off)
ConvFunctions == {"Ints", "Int8s", "Int16s", "Int32s", "Int64s", "Uints", "Uint8s",
                  "Uint16s", "Uint32s", "Uint64s", "Float32s", "Float64s", "Bs",
                  "Bools", "Durations", "Strings"}

---------------------------------------------------------------------------
(* What a type can hold. *)
Holds(k, n) ==
    CASE k \in Signed   -> InSigned(Width[k], n)
      [] k \in Unsigned -> InUnsigned(Width[k], n)
      [] k \in Floats   -> Abs(n) <= 2^Mantissa[k]
      [] k \in {"bool", "word"} -> n \in {0, 1}
      [] OTHER          -> TRUE

(* The numbers a slice of kind k may have. *)
IsOf(k, n) == IF k \in Floats THEN Round(Mantissa[k], n) = n ELSE Holds(k, n)

(* The conversions that are meant to lose the number even though the new   *)
(* type holds it: a size or a duration of a bool, a duration of a numeral  *)
(* without unit, a size of a duration or a negative numeral, a number of   *)
(* the word "true", anything but a signed integer out of an encoding.      *)
Meaningless(f, k, n) ==
    \/ f = "Bs" /\ k = "string" /\ n < 0
    \/ f = "Bs" /\ k \in {"bool", "word", "duration"}
    \/ f = "Durations" /\ k \in {"bool", "word", "string"}
    \/ k = "word" /\ f \notin {"Bools", "Strings"}
    \/ k = "bytes" /\ f \notin {"Ints", "Int8s", "Int16s", "Int32s", "Int64s"}

ConvInit ==
    /\ cell = [kind |-> "none", at |-> <<>>] /\ orig = cell
    /\ aliased = FALSE /\ carried = <<>> /\ kept = FALSE /\ depth = 0

(* A caller has a slice of two numbers of kind k. *)
ConvStart ==
    /\ cell.kind = "none"
    /\ \E k \in Kinds, n \in ConvValues :
          /\ IsOf(k, n)
          /\ cell' = [kind |-> k, at |-> <<n, 1>>]
    /\ orig' = cell' /\ carried' = cell'.at
    /\ aliased' = TRUE /\ kept' = TRUE /\ depth' = 0

(* The slice goes through one slice function. *)
ConvTo(f) ==
    /\ cell.kind # "none" /\ depth < ConvDepth
    /\ cell.kind = "bytes" => f # "Strings"
    /\ \E junk \in Junk, off \in {-1, 0, 1} : cell' = Converted(f, cell, junk, off)
    /\ aliased' = (aliased /\ cell'.kind = cell.kind /\ cell.kind # "duration")
    /\ kept' = (kept /\ \A i \in DOMAIN cell.at :
                           /\ Holds(cell.kind, cell.at[i]) /\ Holds(cell'.kind, cell.at[i])
                           /\ ~Meaningless(f, cell.kind, cell.at[i]))
    /\ depth' = depth + 1
    /\ UNCHANGED <<orig, carried>>

(* The caller encodes every element with Bytes; [][]byte is a slice the    *)
(* functions accept.                                                       *)
ConvEncode ==
    /\ cell.kind \in Signed \union Unsigned \union Floats \union {"bool"}
    /\ depth < ConvDepth
    /\ \E junk \in Junk :
          cell' = [kind |-> "bytes", at |-> [i \in DOMAIN cell.at |-> Bytes(cell.kind, cell.at[i], junk)]]
    /\ kept' = (kept /\ cell.kind \notin Floats
                     /\ \A i \in DOMAIN cell.at : cell.at[i] >= 0)
    /\ aliased' = FALSE /\ depth' = depth + 1
    /\ UNCHANGED <<orig, carried>>

(* The caller goes on using its own slice. *)
ConvCallerWrites(j, n) ==
    /\ j \in DOMAIN orig.at /\ IsOf(orig.kind, n) /\ orig.at[j] # n
    /\ orig' = [orig EXCEPT !.at[j] = n]
    /\ IF aliased
       THEN /\ cell' = [cell EXCEPT !.at[j] = n]
            /\ carried' = [carried EXCEPT ![j] = n]
       ELSE UNCHANGED <<cell, carried>>
    /\ UNCHANGED <<aliased, kept, depth>>

ConvNext ==
    \/ ConvStart
    \/ \E f \in ConvFunctions : ConvTo(f)
    \/ ConvEncode
    \/ \E j \in {1, 2} : ConvCallerWrites(j, 0)

ConvSpec == ConvInit /\ [][ConvNext]_convVars

---------------------------------------------------------------------------
(* A slice of numbers that went through any chain of conversions whose     *)
(* types could all hold them still has them, whatever the caller did to    *)
(* its own slice once the two were not the same array: no function of      *)
(* xconv saturates, truncates, rounds, reads text in another base or loses *)
(* a sign where the target type did not force it to.                       *)
ConvLossless == kept => cell.at = carried
=============================================================================
