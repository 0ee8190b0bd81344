-------------------------- MODULE LedgerProperties -------------------------
(***************************************************************************)
(* What the settlement ledger promises.                                    *)
(***************************************************************************)
EXTENDS Ledger, Functions

(* No balance, the pools' included, is ever overdrawn: every debit of      *)
(* CollectFee, RealizePnL, SettleFunding and ProcessLiquidationPenalty     *)
(* goes through SubBalance's comparison.                                   *)
BalancesNonNegative == \A h \in Holders : bal[h] >= 0

(* The inductive invariant behind it.                                      *)
LedgerInv == TypeOK /\ BalancesNonNegative

(* Fees and penalties move money and make none, whatever the rounding of   *)
(* the liquidator's half, and even when an address liquidates itself: all  *)
(* balances together are what PnL and funding brought in.                  *)
LedgerConserves == SumFunctionOnSet(bal, Holders) = granted
=============================================================================
