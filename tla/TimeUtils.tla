----------------------------- MODULE TimeUtils -----------------------------
(***************************************************************************)
(* Millisecond timestamps of base/timeutils: unsigned integers that wrap   *)
(* around, compared through the sign of their signed difference.  The code *)
(* has a 32-bit word, HALF = 0x80000000; here HALF is a parameter, so that *)
(* TLC can exhaust every pair of timestamps of a short word and the proofs *)
(* cover the real one.                                                     *)
(***************************************************************************)
EXTENDS Integers

CONSTANT HALF          \* 0x80000000 in the code: half of the timestamp range

ASSUME HALFAssumption == HALF \in Nat \ {0}

LAST == 2 * HALF - 1   \* 0xFFFFFFFF
uint32 == 0 .. LAST
int32 == -HALF .. HALF - 1

(* The word that an unsigned sum or difference of two words leaves.        *)
Wrap(x) == IF x < 0 THEN x + 2 * HALF
           ELSE IF x > LAST THEN x - 2 * HALF ELSE x

(* The implicit conversion of a word to a signed integer.                  *)
Signed(w) == IF w < HALF THEN w ELSE w - 2 * HALF

TimeDiff(later, earlier) == Signed(Wrap(later - earlier))

TimeIsLaterOrEqual(earlier, later) ==
    LET diff == Signed(Wrap(later - earlier)) IN diff >= 0 /\ diff < HALF

(* Mutant of TimeIsLater: the words are compared as they are.              *)
RawIsLater(earlier, later) == later > earlier

TimeIsLater(earlier, later) ==
    LET diff == Signed(Wrap(later - earlier)) IN diff > 0 /\ diff < HALF

TimeIsBetween(earlier, middle, later) ==
    IF earlier <= later
    THEN earlier <= middle /\ middle <= later
    ELSE ~(later < middle /\ middle < earlier)

TimeMax(ts1, ts2) == IF TimeIsLaterOrEqual(ts1, ts2) THEN ts2 ELSE ts1
TimeMin(ts1, ts2) == IF TimeIsLaterOrEqual(ts1, ts2) THEN ts1 ELSE ts2

(* TimeAfter, with the value of Time() as an argument.                     *)
TimeAfter(time, elapsed) == Wrap(time + elapsed)

(***************************************************************************)
(* The implementation selected when EFFICIENT_IMPLEMENTATION is 0: case    *)
(* distinctions on TimeIsBetween instead of a signed conversion.           *)
(***************************************************************************)
BetweenIsLaterOrEqual(earlier, later) ==
    TimeIsBetween(earlier, later, Wrap(earlier + HALF))

BetweenIsLater(earlier, later) ==
    ~TimeIsBetween(later, earlier, Wrap(later + HALF))

(* Mutant of BetweenDiff: off by one across the wrap.                      *)
BetweenDiffShort(later, earlier) ==
    IF TimeIsBetween(earlier, later, Wrap(earlier + HALF))
    THEN IF earlier <= later THEN Signed(later - earlier)
                             ELSE Signed(Wrap(later + (LAST - earlier)))
    ELSE IF later <= earlier THEN -Signed(earlier - later)
                             ELSE -Signed(Wrap(earlier + (LAST - later)))

BetweenDiff(later, earlier) ==
    IF TimeIsBetween(earlier, later, Wrap(earlier + HALF))
    THEN IF earlier <= later THEN Signed(later - earlier)
                             ELSE Signed(Wrap(later + (LAST - earlier) + 1))
    ELSE IF later <= earlier THEN -Signed(earlier - later)
                             ELSE -Signed(Wrap(earlier + (LAST - later) + 1))
=============================================================================
