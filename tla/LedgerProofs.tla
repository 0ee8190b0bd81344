---------------------------- MODULE LedgerProofs ---------------------------
(***************************************************************************)
(* Proofs about the settlement ledger, for every set of addresses and      *)
(* amounts and every precision.                                            *)
(***************************************************************************)
EXTENDS LedgerProperties, DecProofs, SumTheorems

Balances == [Holders -> Nat]

(* A debit that is covered and a credit of a natural number keep all       *)
(* balances natural.                                                       *)
LEMMA SubBalanceNat ==
  ASSUME NEW b \in Balances, NEW h \in Holders, NEW amount \in Nat, Covers(b, h, amount)
  PROVE  SubBalance(b, h, amount) \in Balances
BY DEF Balances, SubBalance, Covers

LEMMA AddBalanceNat ==
  ASSUME NEW b \in Balances, NEW h \in Holders, NEW amount \in Nat
  PROVE  AddBalance(b, h, amount) \in Balances
BY DEF Balances, AddBalance

LEMMA LedgerInvMeans == LedgerInv <=> bal \in Balances /\ granted \in Int
BY DEF LedgerInv, TypeOK, BalancesNonNegative, Balances

LEMMA LedgerInit == Init => LedgerInv
BY DEF Init, LedgerInv, TypeOK, BalancesNonNegative

LEMMA LedgerStep == LedgerInv /\ [Next]_vars => LedgerInv'
<1> SUFFICES ASSUME LedgerInv, [Next]_vars
             PROVE  bal' \in Balances /\ granted' \in Int
  BY DEF LedgerInv, TypeOK, BalancesNonNegative, Balances
<1>1. bal \in Balances /\ granted \in Int
  BY LedgerInvMeans
<1>2. Addrs \subseteq Holders /\ FeePool \in Holders /\ InsuranceFund \in Holders
  BY DEF Holders
<1>3. ASSUME NEW a \in Addrs, NEW fee \in Charges, CollectFee(a, fee)
      PROVE  bal' \in Balances /\ granted' \in Int
  <2>1. fee \in Nat
    BY LedgerAssumption
  <2>2. SubBalance(bal, a, fee) \in Balances
    BY <1>1, <1>2, <1>3, <2>1, SubBalanceNat DEF CollectFee
  <2> QED BY <1>1, <1>2, <1>3, <2>1, <2>2, AddBalanceNat DEF CollectFee
<1>4. ASSUME NEW a \in Addrs, NEW pnl \in Payments, RealizePnL(a, pnl)
      PROVE  bal' \in Balances /\ granted' \in Int
  <2>1. pnl \in Int
    BY LedgerAssumption
  <2>2. CASE pnl > 0 /\ bal' = AddBalance(bal, a, pnl)
    BY <1>1, <1>2, <1>4, <2>1, <2>2, AddBalanceNat DEF RealizePnL
  <2>3. CASE pnl < 0 /\ Covers(bal, a, -pnl) /\ bal' = SubBalance(bal, a, -pnl)
    <3>1. -pnl \in Nat
      BY <2>1, <2>3
    <3> QED BY <1>1, <1>2, <1>4, <2>1, <2>3, <3>1, SubBalanceNat DEF RealizePnL
  <2>4. CASE pnl = 0 /\ UNCHANGED bal
    BY <1>1, <1>4, <2>1, <2>4 DEF RealizePnL
  <2> QED BY <1>4, <2>2, <2>3, <2>4 DEF RealizePnL
<1>5. ASSUME NEW a \in Addrs, NEW payment \in Payments, SettleFunding(a, payment)
      PROVE  bal' \in Balances /\ granted' \in Int
  <2>1. payment \in Int
    BY LedgerAssumption
  <2>2. CASE payment > 0 /\ Covers(bal, a, payment) /\ bal' = SubBalance(bal, a, payment)
    BY <1>1, <1>2, <1>5, <2>1, <2>2, SubBalanceNat DEF SettleFunding
  <2>3. CASE payment <= 0 /\ bal' = AddBalance(bal, a, Abs(payment))
    BY <1>1, <1>2, <1>5, <2>1, <2>3, AbsNat, AddBalanceNat DEF SettleFunding
  <2> QED BY <1>5, <2>2, <2>3 DEF SettleFunding
<1>6. ASSUME NEW a \in Addrs, NEW l \in Addrs, NEW penalty \in Charges,
             ProcessLiquidationPenalty(a, l, penalty)
      PROVE  bal' \in Balances /\ granted' \in Int
  <2> DEFINE reward == LiquidatorReward(penalty)
             debited == SubBalance(bal, a, penalty)
  <2>1. penalty \in Nat
    BY LedgerAssumption
  <2>2. reward \in Nat /\ penalty - reward \in Nat
    BY <2>1, HalfBounds DEF LiquidatorReward
  <2>3. debited \in Balances
    BY <1>1, <1>2, <1>6, <2>1, SubBalanceNat DEF ProcessLiquidationPenalty
  <2>4. AddBalance(debited, l, reward) \in Balances
    BY <1>2, <2>2, <2>3, AddBalanceNat
  <2>5. bal' = AddBalance(AddBalance(debited, l, reward), InsuranceFund, penalty - reward)
    BY <1>6 DEF ProcessLiquidationPenalty
  <2> HIDE DEF reward, debited
  <2> QED BY <1>1, <1>2, <1>6, <2>2, <2>4, <2>5, AddBalanceNat DEF ProcessLiquidationPenalty
<1>7. CASE UNCHANGED vars
  BY <1>1, <1>7 DEF vars
<1> QED BY <1>3, <1>4, <1>5, <1>6, <1>7 DEF Next

(* No sequence of fees, PnL, funding payments and penalties overdraws a    *)
(* balance, the fee pool's and the insurance fund's included.              *)
THEOREM NoOverdraft == Spec => []BalancesNonNegative
<1>1. LedgerInv => BalancesNonNegative
  BY DEF LedgerInv
<1> QED BY <1>1, LedgerInit, LedgerStep, PTL DEF Spec

(***************************************************************************)
(* What all balances add up to.                                            *)
(***************************************************************************)
Total(b) == SumFunctionOnSet(b, Holders)

LEMMA HoldersFinite == IsFiniteSet(Holders)
<1>1. IsFiniteSet({FeePool} \cup {InsuranceFund})
  BY FS_Singleton, FS_Union
<1>2. Holders = Addrs \cup ({FeePool} \cup {InsuranceFund})
  BY DEF Holders
<1> QED BY <1>1, <1>2, AddrsAssumption, FS_Union

(* A credit adds its amount to the total, and a debit takes it off,        *)
(* whoever else the same operation credits or debits.                      *)
LEMMA AddBalanceTotal ==
  ASSUME NEW b \in Balances, NEW h \in Holders, NEW amount \in Nat
  PROVE  Total(AddBalance(b, h, amount)) = Total(b) + amount
<1> DEFINE c == AddBalance(b, h, amount)
<1>1. /\ \A x \in Holders : b[x] \in Int
      /\ \A x \in Holders : c[x] \in Int
      /\ \A x \in Holders : x # h => c[x] = b[x]
      /\ c[h] - b[h] = amount
  BY DEF Balances, AddBalance
<1> HIDE DEF c
<1>2. Total(c) = Total(b) + (c[h] - b[h])
  BY <1>1, HoldersFinite, SumUpdate DEF Total
<1> QED BY <1>1, <1>2 DEF c

LEMMA SubBalanceTotal ==
  ASSUME NEW b \in Balances, NEW h \in Holders, NEW amount \in Nat
  PROVE  Total(SubBalance(b, h, amount)) = Total(b) - amount
<1> DEFINE c == SubBalance(b, h, amount)
<1>1. /\ \A x \in Holders : b[x] \in Int
      /\ \A x \in Holders : c[x] \in Int
      /\ \A x \in Holders : x # h => c[x] = b[x]
      /\ c[h] - b[h] = -amount
  BY DEF Balances, SubBalance
<1> HIDE DEF c
<1>2. Total(c) = Total(b) + (c[h] - b[h]) /\ Total(b) \in Int
  BY <1>1, HoldersFinite, SumUpdate, SumRemove DEF Total
<1>3. Total(c) = Total(b) - amount
  BY <1>1, <1>2
<1> QED BY <1>3 DEF c

LEMMA TotalInt ==
  ASSUME NEW b \in Balances
  PROVE  Total(b) \in Int
BY HoldersFinite, SumParts DEF Total, Balances

LEMMA TotalInit == Init => Total(bal) = granted
<1> SUFFICES ASSUME Init PROVE Total(bal) = 0
  BY DEF Init
<1>1. \A h \in Holders : bal[h] \in Int /\ bal[h] = 0
  BY DEF Init
<1> QED BY <1>1, HoldersFinite, SumSupport, SumEmpty, {} \in SUBSET Holders DEF Total

LEMMA TotalStep == LedgerInv /\ Total(bal) = granted /\ [Next]_vars => (Total(bal) = granted)'
<1> SUFFICES ASSUME LedgerInv, Total(bal) = granted, [Next]_vars
             PROVE  Total(bal') = granted'
  BY DEF Total
<1>1. bal \in Balances /\ granted \in Int
  BY LedgerInvMeans
<1>2. Addrs \subseteq Holders /\ FeePool \in Holders /\ InsuranceFund \in Holders
  BY DEF Holders
<1>3. ASSUME NEW a \in Addrs, NEW fee \in Charges, CollectFee(a, fee)
      PROVE  Total(bal') = granted'
  <2>1. fee \in Nat
    BY LedgerAssumption
  <2>2. /\ SubBalance(bal, a, fee) \in Balances
        /\ Total(SubBalance(bal, a, fee)) = granted - fee
    BY <1>1, <1>2, <1>3, <2>1, SubBalanceNat, SubBalanceTotal DEF CollectFee
  <2>3. Total(bal') = (granted - fee) + fee
    BY <1>2, <1>3, <2>1, <2>2, AddBalanceTotal DEF CollectFee
  <2> QED BY <1>1, <1>3, <2>1, <2>3 DEF CollectFee
<1>4. ASSUME NEW a \in Addrs, NEW pnl \in Payments, RealizePnL(a, pnl)
      PROVE  Total(bal') = granted'
  <2>1. pnl \in Int /\ granted' = granted + pnl
    BY <1>4, LedgerAssumption DEF RealizePnL
  <2>2. CASE pnl > 0 /\ bal' = AddBalance(bal, a, pnl)
    BY <1>1, <1>2, <2>1, <2>2, AddBalanceTotal
  <2>3. CASE pnl < 0 /\ Covers(bal, a, -pnl) /\ bal' = SubBalance(bal, a, -pnl)
    <3>1. -pnl \in Nat
      BY <2>1, <2>3
    <3>2. Total(bal') = granted - (-pnl)
      BY <1>1, <1>2, <2>3, <3>1, SubBalanceTotal
    <3> QED BY <1>1, <2>1, <3>2
  <2>4. CASE pnl = 0 /\ UNCHANGED bal
    BY <1>1, <2>1, <2>4
  <2> QED BY <1>4, <2>2, <2>3, <2>4 DEF RealizePnL
<1>5. ASSUME NEW a \in Addrs, NEW payment \in Payments, SettleFunding(a, payment)
      PROVE  Total(bal') = granted'
  <2>1. payment \in Int /\ granted' = granted - payment
    BY <1>5, LedgerAssumption DEF SettleFunding
  <2>2. CASE payment > 0 /\ Covers(bal, a, payment) /\ bal' = SubBalance(bal, a, payment)
    BY <1>1, <1>2, <2>1, <2>2, SubBalanceTotal
  <2>3. CASE payment <= 0 /\ bal' = AddBalance(bal, a, Abs(payment))
    <3>1. Abs(payment) \in Nat /\ Abs(payment) = -payment
      BY <2>1, <2>3 DEF Abs
    <3>2. Total(bal') = granted + (-payment)
      BY <1>1, <1>2, <2>3, <3>1, AddBalanceTotal
    <3> QED BY <1>1, <2>1, <3>2
  <2> QED BY <1>5, <2>2, <2>3 DEF SettleFunding
<1>6. ASSUME NEW a \in Addrs, NEW l \in Addrs, NEW penalty \in Charges,
             ProcessLiquidationPenalty(a, l, penalty)
      PROVE  Total(bal') = granted'
  <2> DEFINE reward == LiquidatorReward(penalty)
             debited == SubBalance(bal, a, penalty)
             rewarded == AddBalance(debited, l, reward)
  <2>1. penalty \in Nat
    BY LedgerAssumption
  <2>2. reward \in Nat /\ penalty - reward \in Nat
    BY <2>1, HalfBounds DEF LiquidatorReward
  <2>3. debited \in Balances /\ Total(debited) = granted - penalty
    BY <1>1, <1>2, <1>6, <2>1, SubBalanceNat, SubBalanceTotal DEF ProcessLiquidationPenalty
  <2>4. bal' = AddBalance(rewarded, InsuranceFund, penalty - reward) /\ granted' = granted
    BY <1>6 DEF ProcessLiquidationPenalty
  <2> HIDE DEF reward, debited
  <2>5. rewarded \in Balances /\ Total(rewarded) = (granted - penalty) + reward
    BY <1>2, <2>2, <2>3, AddBalanceNat, AddBalanceTotal
  <2> HIDE DEF rewarded
  <2>6. Total(bal') = ((granted - penalty) + reward) + (penalty - reward)
    BY <1>2, <2>2, <2>4, <2>5, AddBalanceTotal
  <2> QED BY <1>1, <2>1, <2>2, <2>4, <2>6
<1>7. CASE UNCHANGED vars
  BY <1>7 DEF vars
<1> QED BY <1>3, <1>4, <1>5, <1>6, <1>7 DEF Next

(* The pools and the addresses together always hold exactly what PnL and   *)
(* funding brought in: no fee or penalty makes or loses a unit, however    *)
(* its halves are rounded and whoever plays both parts of it.              *)
THEOREM BalancesAddUp == Spec => []LedgerConserves
<1>1. Init => LedgerInv /\ Total(bal) = granted
  BY LedgerInit, TotalInit
<1>2. LedgerInv /\ Total(bal) = granted /\ [Next]_vars
        => LedgerInv' /\ (Total(bal) = granted)'
  BY LedgerStep, TotalStep
<1>3. LedgerInv /\ Total(bal) = granted => LedgerConserves
  BY DEF Total, LedgerConserves
<1> QED BY <1>1, <1>2, <1>3, PTL DEF Spec
=============================================================================
