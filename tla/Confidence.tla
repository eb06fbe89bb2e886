----------------------------- MODULE Confidence -----------------------------
(***************************************************************************)
(* The arithmetic of Report.confidence, which the code keeps in a Python   *)
(* float.  Two of the program's thresholds (0.7 for a warning's review,    *)
(* 0.4 .. 0.8 for the critic) are compared with values that are off their  *)
(* decimal name by a rounding error, so the doubles are modelled exactly.  *)
(*                                                                         *)
(* A double in 0.0 .. 1.0 is a pair <<hi, lo>> that stands for the integer *)
(* hi * 2^29 + lo, counted in units of 2^-58: every double this program    *)
(* can reach by subtracting its four penalties from 1.0 is such a multiple,*)
(* and both limbs stay inside TLC's 32-bit integers.                       *)
(***************************************************************************)
EXTENDS Integers

Limb == 536870912  \* 2^29

Zero == <<0, 0>>
One  == <<Limb, 0>>

Doubles == (0 .. Limb) \X (0 .. Limb - 1)

(***************************************************************************)
(* What the critic says of itself is bounded by nothing but the prompt:    *)
(* the high limb may be negative, and then lo still counts upwards.        *)
(***************************************************************************)
Signed == Int \X (0 .. Limb - 1)

(***************************************************************************)
(* a <= b and a < b on doubles.                                            *)
(***************************************************************************)
AtMost(a, b) == a[1] < b[1] \/ (a[1] = b[1] /\ a[2] <= b[2])
Below(a, b)  == AtMost(a, b) /\ a # b

(***************************************************************************)
(* Round an exact result to the nearest double, ties to even.  A double of *)
(* 1/2 and more is a multiple of 2^-53, that is of 2^5 units, and each     *)
(* binade below it halves the grain; below 1/32 nothing is lost.           *)
(***************************************************************************)
Grain(hi) == CASE hi >= 268435456 -> 32
               [] hi >= 134217728 /\ hi < 268435456 -> 16
               [] hi >= 67108864  /\ hi < 134217728 -> 8
               [] hi >= 33554432  /\ hi < 67108864  -> 4
               [] hi >= 16777216  /\ hi < 33554432  -> 2
               [] OTHER -> 1

Round(hi, lo) ==
  LET g    == Grain(hi)
      down == lo \div g
      twice == 2 * (lo % g)
      units == IF twice > g \/ (twice = g /\ down % 2 = 1) THEN down + 1 ELSE down
  IN  IF units * g = Limb THEN <<hi + 1, 0>> ELSE <<hi, units * g>>

(***************************************************************************)
(* max(0.0, a - b)                                                         *)
(***************************************************************************)
Debit[pair \in Doubles \X Doubles] ==
  LET a == pair[1]
      b == pair[2]
  IN  IF AtMost(a, b)      THEN Zero
      ELSE IF a[2] >= b[2] THEN Round(a[1] - b[1], a[2] - b[2])
      ELSE                      Round(a[1] - b[1] - 1, a[2] - b[2] + Limb)

\* Mutant of Credit: the cap at 1.0 is forgotten.
CreditUncapped(a, b) == <<a[1] + b[1] + (a[2] + b[2]) \div Limb, (a[2] + b[2]) % Limb>>

(***************************************************************************)
(* min(1.0, a + b), where b may be negative.  There is no max(0.0, ...).   *)
(* A sum below zero is kept exact: its rounding is left out, because no    *)
(* threshold is compared with a confidence once the critic has answered.   *)
(***************************************************************************)
Credit(a, b) ==
  LET hi  == a[1] + b[1] + (a[2] + b[2]) \div Limb
      lo  == (a[2] + b[2]) % Limb
      sum == IF hi < 0 THEN <<hi, lo>> ELSE Round(hi, lo)
  IN  IF AtMost(One, sum) THEN One ELSE sum

(***************************************************************************)
(* The double nearest to each decimal literal of the source.               *)
(***************************************************************************)
Literal02 == <<10737418, 128849019>>
Literal10 == <<53687091, 107374184>>
Literal30 == <<161061273, 322122544>>
Literal60 == <<322122547, 107374176>>
Literal40 == <<214748364, 429496736>>
Literal70 == <<375809638, 214748352>>
Literal80 == <<429496729, 322122560>>

(***************************************************************************)
(* The high limb a confidence of n hundredths has: what the value would be *)
(* without rounding errors, to one part in 2^29.                           *)
(***************************************************************************)
HighLimb(n) == n * (Limb \div 100) + (n * (Limb % 100)) \div 100

=============================================================================
