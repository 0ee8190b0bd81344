------------------------------- MODULE Ledger ------------------------------
(***************************************************************************)
(* The bal: store of x/settlement and the operations over it: CollectFee,  *)
(* RealizePnL, SettleFunding and ProcessLiquidationPenalty.  They read and *)
(* write the store one entry after the other, so two roles may be played   *)
(* by one address.  No code under src/ calls them: their callers, and the  *)
(* amounts, are the environment's.  A call that fails writes nothing, the  *)
(* debit being the first write of every operation that has one.            *)
(***************************************************************************)
EXTENDS Dec, FiniteSets

CONSTANTS Addrs,            \* traders and liquidators
          FeePool,          \* the address "fee_pool"
          InsuranceFund,    \* the address "insurance_fund"
          Charges,          \* fees and penalties
          Payments,         \* realized PnL and funding payments, of either sign
          MaxBalance        \* bound: no operation lifts a balance above this

Holders == Addrs \cup {FeePool, InsuranceFund}

ASSUME LedgerAssumption ==
  /\ FeePool # InsuranceFund /\ FeePool \notin Addrs /\ InsuranceFund \notin Addrs
  /\ Charges \subseteq Nat /\ Payments \subseteq Int
  /\ MaxBalance \in Nat

ASSUME AddrsAssumption == IsFiniteSet(Addrs)

VARIABLES bal,        \* address -> balance; an absent entry is zero
          granted     \* PnL and funding paid into the ledger, net (history)

vars == <<bal, granted>>

TypeOK ==
  /\ bal \in [Holders -> Int]
  /\ granted \in Int

Init ==
  /\ bal = [h \in Holders |-> 0]
  /\ granted = 0

AddBalance(b, h, amount) == [b EXCEPT ![h] = @ + amount]
SubBalance(b, h, amount) == [b EXCEPT ![h] = @ - amount]

(* Mutated form: the comparison the other way round. *)
CoversSwapped(b, h, amount) == b[h] <= amount
Covers(b, h, amount) == b[h] >= amount

CollectFee(a, fee) ==
  /\ Covers(bal, a, fee)
  /\ bal' = AddBalance(SubBalance(bal, a, fee), FeePool, fee)
  /\ UNCHANGED granted

(* Positive: credited.  Negative: debited, if the balance covers it. *)
RealizePnL(a, pnl) ==
  /\ \/ pnl > 0 /\ bal' = AddBalance(bal, a, pnl)
     \/ pnl < 0 /\ Covers(bal, a, -pnl) /\ bal' = SubBalance(bal, a, -pnl)
     \/ pnl = 0 /\ UNCHANGED bal
  /\ granted' = granted + pnl

(* Positive: paid by the address.  Negative: paid to it. *)
SettleFunding(a, payment) ==
  /\ \/ payment > 0 /\ Covers(bal, a, payment) /\ bal' = SubBalance(bal, a, payment)
     \/ payment <= 0 /\ bal' = AddBalance(bal, a, Abs(payment))
  /\ granted' = granted - payment

LiquidatorReward(penalty) == Quo(penalty, 2 * One)

(* Mutated form: both halves rounded. *)
ProcessLiquidationPenaltyRounded(liquidated, liquidator, penalty) ==
  /\ Covers(bal, liquidated, penalty)
  /\ bal' = AddBalance(AddBalance(SubBalance(bal, liquidated, penalty),
                                  liquidator, LiquidatorReward(penalty)),
                       InsuranceFund, LiquidatorReward(penalty))
  /\ UNCHANGED granted

ProcessLiquidationPenalty(liquidated, liquidator, penalty) ==
  /\ Covers(bal, liquidated, penalty)
  /\ bal' = AddBalance(AddBalance(SubBalance(bal, liquidated, penalty),
                                  liquidator, LiquidatorReward(penalty)),
                       InsuranceFund, penalty - LiquidatorReward(penalty))
  /\ UNCHANGED granted

Bounded == \A h \in Holders : bal'[h] <= MaxBalance

Next ==
  /\ \/ \E a \in Addrs, fee \in Charges : CollectFee(a, fee)
     \/ \E a \in Addrs, pnl \in Payments : RealizePnL(a, pnl)
     \/ \E a \in Addrs, payment \in Payments : SettleFunding(a, payment)
     \/ \E a, l \in Addrs, penalty \in Charges : ProcessLiquidationPenalty(a, l, penalty)
  /\ Bounded

Spec == Init /\ [][Next]_vars
=============================================================================
