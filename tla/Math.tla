------------------------------- MODULE Math -------------------------------
(***************************************************************************)
(* The helpers of elkodon_bb/elementary/src/math.rs on unsigned integers   *)
(* of Width bits (64 for usize and u64 in the code). Arithmetic that       *)
(* leaves the range wraps, as a release build computes it; a debug build   *)
(* panics at the same inputs. Each helper is checked against a reference   *)
(* definition over every input of a small width.                           *)
(***************************************************************************)
EXTENDS Naturals, Bitwise

CONSTANTS
    Width,       \* bits of usize/u64
    Alignments   \* the alignments passed to align

ASSUME WidthAssumption == Width \in Nat \ {0}
ASSUME AlignmentsAssumption == Alignments \subseteq 1..(2^Width - 1)

Word == 0..(2^Width - 1)

(* Wrap-around to Width bits. *)
Wrap(x) == x % 2^Width

(* x >> k on a Width-bit word. *)
ShiftRight(x, k) == IF k >= Width THEN 0 ELSE x \div 2^k

VARIABLES value, alignment

vars == <<value, alignment>>

-----------------------------------------------------------------------------
(* Mutants *)

AlignAlwaysPads(v, a) == Wrap(v + a - (v % a))

(* The loop of log2_of_power_of_2 written as for i in 0..63 at width 64. *)
Log2ShortLoop(v) ==
    IF \E i \in 0..(Width - 2) : ShiftRight(v, i) = 1
      THEN CHOOSE i \in 0..(Width - 2) : ShiftRight(v, i) = 1
      ELSE 0

RoundNoDecrement(v) ==
    LET v1 == v | ShiftRight(v, 1)
        v2 == v1 | ShiftRight(v1, 2)
        v3 == v2 | ShiftRight(v2, 4)
        v4 == v3 | ShiftRight(v3, 8)
        v5 == v4 | ShiftRight(v4, 16)
        v6 == v5 | ShiftRight(v5, 32)
    IN  Wrap(v6 + 1)

-----------------------------------------------------------------------------
(* The code *)

(* align: value, or value rounded up to the next multiple of alignment. *)
Align(v, a) ==
    IF v % a = 0 THEN v ELSE Wrap(v + a - (v % a))

(* log2_of_power_of_2: the loop returns the first i in 0..Width-1 at      *)
(* which value >> i is 1, and 0 when there is none.                       *)
Log2OfPowerOf2(v) ==
    IF \E i \in 0..(Width - 1) : ShiftRight(v, i) = 1
      THEN CHOOSE i \in 0..(Width - 1) : ShiftRight(v, i) = 1
      ELSE 0

(* round_to_pow2: decrement, smear the highest bit down, increment. *)
RoundToPow2(v) ==
    LET v0 == Wrap(v - 1 + 2^Width)
        v1 == v0 | ShiftRight(v0, 1)
        v2 == v1 | ShiftRight(v1, 2)
        v3 == v2 | ShiftRight(v2, 4)
        v4 == v3 | ShiftRight(v3, 8)
        v5 == v4 | ShiftRight(v4, 16)
        v6 == v5 | ShiftRight(v5, 32)
    IN  Wrap(v6 + 1)

-----------------------------------------------------------------------------
(* Every input is a state; any input may follow any other. *)

Init == value \in Word /\ alignment \in Alignments

NewInput == value' \in Word /\ alignment' \in Alignments

Spec == Init /\ [][NewInput]_vars

-----------------------------------------------------------------------------
(* Reference definitions *)

IsPow2(x) == \E k \in 0..(Width - 1) : x = 2^k

AlignRef(v, a) == ((v + a - 1) \div a) * a

Log2Ref(v) == CHOOSE r \in 0..(Width - 1) : 2^r <= v /\ v < 2^(r + 1)

NextPow2Ref(v) == CHOOSE p \in {2^k : k \in 0..(Width - 1)} :
                    p >= v /\ (p = 1 \/ p \div 2 < v)

(* align returns the least multiple of alignment not below value         *)
(* whenever that multiple fits in a usize.                               *)
AlignIsNextMultiple ==
    AlignRef(value, alignment) \in Word
        => Align(value, alignment) = AlignRef(value, alignment)

(* Spec 6: align(v, a) >= v, a divides it and it is less than a above v,  *)
(* for every v and every power-of-two a.                                  *)
AlignCorrect ==
    LET r == Align(value, alignment)
    IN  r >= value /\ r % alignment = 0 /\ r - value < alignment

(* log2_of_power_of_2 is floor(log2 value) for value >= 1, which is the  *)
(* exponent for every power of two, and 0 for 0 (math_tests.rs).         *)
Log2Exact ==
    Log2OfPowerOf2(value) = IF value = 0 THEN 0 ELSE Log2Ref(value)

(* round_to_pow2 returns the least power of two not below value, for     *)
(* every value from 1 to the highest power of two of the width.          *)
RoundIsNextPow2 ==
    value \in 1..2^(Width - 1) => RoundToPow2(value) = NextPow2Ref(value)

(* round_to_pow2 rounds every value up to a power of two. *)
RoundIsPow2 == IsPow2(RoundToPow2(value))

=============================================================================
