-------------------------------- MODULE Dec --------------------------------
(***************************************************************************)
(* cosmossdk.io/math.LegacyDec, the fixed-point number every keeper of     *)
(* src/x computes with.  A decimal d is the integer d * One; the library's *)
(* One is 10^18.  Addition, subtraction, negation and comparison are those *)
(* of the integers.  The library is not under src/: the operators below    *)
(* are what the keepers rely on when they call Mul, Quo and Abs.           *)
(***************************************************************************)
EXTENDS Integers

CONSTANT One    \* the decimal 1; LegacyDec has 18 digits, a model has fewer

ASSUME OneAssumption == One \in Nat /\ One > 0 /\ One % 2 = 0

Abs(x) == IF x < 0 THEN -x ELSE x

(* chopPrecisionAndRound: n / One, half to even, for n >= 0. *)
ChopNat(n) ==
  LET q == n \div One
      r == n % One
  IN  IF 2 * r > One \/ (2 * r = One /\ q % 2 = 1) THEN q + 1 ELSE q

Chop(n) == IF n < 0 THEN -ChopNat(-n) ELSE ChopNat(n)

(* x * y, rounded to the last digit. *)
Mul(x, y) == Chop(x * y)

(* Quo first truncates towards zero at twice the precision. *)
TruncDiv(n, d) ==
  IF (n < 0) = (d < 0) THEN Abs(n) \div Abs(d) ELSE -(Abs(n) \div Abs(d))

(* x / y, rounded to the last digit, for y # 0. *)
Quo(x, y) == Chop(TruncDiv(x * One * One, y))

(* The collateral left after a charge: executeLiquidation and              *)
(* ExecuteLiquidation both cut a negative result to zero.                  *)
ChargeAtMost(balance, charge) ==
  IF balance - charge < 0 THEN 0 ELSE balance - charge
=============================================================================
