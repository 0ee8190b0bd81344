----------------------------- MODULE PriceMath -----------------------------
(***************************************************************************)
(* The figures the frontend computes by itself: frontend/src/lib/utils.ts. *)
(* A ratio is a multiple of 1/Unit, so that the model's integers are exact *)
(* where the code's floating-point numbers are nearly so.  Formatting is   *)
(* left out.                                                               *)
(***************************************************************************)
EXTENDS Integers

CONSTANTS Unit,         \* the ratio 1
          Mmr,          \* the maintenance margin ratio, 0.03
          Imr,          \* the initial margin ratio of an estimate, 0.05
          TakerFee      \* 0.0005

ASSUME PriceMathAssumption ==
  Unit \in Nat \ {0} /\ Mmr \in Nat /\ Imr \in Nat /\ TakerFee \in Nat

AbsSize(size) == IF size < 0 THEN -size ELSE size

(* Mutated form: a short gains when the price rises. *)
calcPnLUnsigned(size, entry, current) == (current - entry) * AbsSize(size)

calcPnL(size, entry, current) ==
  IF size >= 0
  THEN (current - entry) * size
  ELSE (entry - current) * AbsSize(size)

(* Percent; the fraction is dropped. *)
calcPnLPercent(pnl, margin) == IF margin = 0 THEN 0 ELSE (100 * pnl) \div margin

calcMarginRequired(size, price, imr) == AbsSize(size) * price * imr

(* In units of price/Unit. *)
calcLiquidationPrice(entry, leverage, side) ==
  IF side = "long"
  THEN entry * (Unit - Unit \div leverage + Mmr)
  ELSE entry * (Unit + Unit \div leverage - Mmr)
=============================================================================
