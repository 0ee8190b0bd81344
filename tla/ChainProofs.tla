---------------------------- MODULE ChainProofs ----------------------------
(***************************************************************************)
(* Proofs about the chain, for every set of addresses and markets, every   *)
(* parameter of the keepers and both builds of the codec.                  *)
(***************************************************************************)
EXTENDS ChainProperties, DecProofs

(***************************************************************************)
(* The stores.  A write is read back as written or, with the stub codec,   *)
(* blank; entries of other keys stay.                                      *)
(***************************************************************************)
Accounts == [Addrs -> Int \cup {NoEntry, Blank}]
Positions == [Addrs -> [Markets -> PositionRecord \cup {NoEntry, Blank}]]

LEMMA SetAccountEffect ==
  ASSUME accounts \in Accounts, NEW a \in Addrs, NEW c \in Int, SetAccount(a, c)
  PROVE  /\ accounts' \in Accounts
         /\ accounts'[a] \in {c, Blank}
         /\ \A b \in Addrs : b # a => accounts'[b] = accounts[b]
BY DEF Accounts, SetAccount, Stored

LEMMA SetPositionEffect ==
  ASSUME positions \in Positions, NEW a \in Addrs, NEW m \in Markets,
         NEW p \in PositionRecord, SetPosition(a, m, p)
  PROVE  /\ positions' \in Positions
         /\ positions'[a][m] \in {p, Blank}
         /\ \A b \in Addrs, n \in Markets :
              <<b, n>> # <<a, m>> => positions'[b][n] = positions[b][n]
BY DEF Positions, SetPosition, Stored

LEMMA DeletePositionEffect ==
  ASSUME positions \in Positions, NEW a \in Addrs, NEW m \in Markets, DeletePosition(a, m)
  PROVE  /\ positions' \in Positions
         /\ positions'[a][m] = NoEntry
         /\ \A b \in Addrs, n \in Markets :
              <<b, n>> # <<a, m>> => positions'[b][n] = positions[b][n]
BY DEF Positions, DeletePosition

(* Opening adds the margin to the position or, on an exact close, drops    *)
(* both: the margin never grows by more.                                   *)
LEMMA OpenPositionEffect ==
  ASSUME positions \in Positions, NEW a \in Addrs, NEW m \in Markets,
         positions[a][m] # Blank,
         NEW size \in Int, NEW price \in Int, NEW margin \in Int, NEW cum \in Int,
         OpenPosition(a, m, size, price, margin, cum)
  PROVE  /\ positions' \in Positions
         /\ \A b \in Addrs, n \in Markets :
              <<b, n>> # <<a, m>> => positions'[b][n] = positions[b][n]
         /\ positions'[a][m] \notin {NoEntry, Blank} =>
              positions'[a][m].margin =
                IF HasPosition(a, m) THEN positions[a][m].margin + margin ELSE margin
<1> DEFINE old == positions[a][m]
<1>1. CASE ~HasPosition(a, m)
  <2> DEFINE new == [size |-> size, avg |-> price, margin |-> margin, lastCum |-> cum]
  <2>1. new \in PositionRecord /\ SetPosition(a, m, new)
    BY <1>1 DEF OpenPosition, PositionRecord
  <2>2. new.margin = margin
    OBVIOUS
  <2> HIDE DEF new
  <2> QED BY <1>1, <2>1, <2>2, SetPositionEffect
<1>2. CASE HasPosition(a, m) /\ old.size + size = 0
  BY <1>2, DeletePositionEffect DEF OpenPosition
<1>3. CASE HasPosition(a, m) /\ old.size + size # 0
  <2> DEFINE new == [size    |-> old.size + size,
                     avg     |-> AvgEntryPrice(old, size, price),
                     margin  |-> old.margin + margin,
                     lastCum |-> cum]
  <2>1. old \in PositionRecord
    BY <1>3 DEF Positions, HasPosition
  <2>2. old.size \in Int /\ old.avg \in Int /\ old.margin \in Int
    BY <2>1 DEF PositionRecord
  <2>3. AvgEntryPrice(old, size, price) \in Int
    <3>1. Mul(old.size, old.avg) + Mul(size, price) \in Int
      BY <2>2, MulType
    <3> QED BY <1>3, <2>2, <3>1, QuoType DEF AvgEntryPrice
  <2>4. new \in PositionRecord
    BY <2>2, <2>3 DEF PositionRecord
  <2>5. SetPosition(a, m, new)
    BY <1>3 DEF OpenPosition
  <2>6. new.margin = old.margin + margin
    OBVIOUS
  <2> HIDE DEF new
  <2> QED BY <1>3, <2>4, <2>5, <2>6, SetPositionEffect
<1> QED BY <1>1, <1>2, <1>3

(* Reducing keeps the margin or deletes the position. *)
LEMMA ReducePositionEffect ==
  ASSUME positions \in Positions, NEW a \in Addrs, NEW m \in Markets,
         positions[a][m] # Blank, NEW rate \in 0 .. One, ReducePosition(a, m, rate)
  PROVE  /\ positions' \in Positions
         /\ \A b \in Addrs, n \in Markets :
              <<b, n>> # <<a, m>> => positions'[b][n] = positions[b][n]
         /\ positions[a][m] \in PositionRecord
         /\ positions'[a][m] \notin {NoEntry, Blank} =>
              positions'[a][m].margin = positions[a][m].margin
<1> DEFINE old == positions[a][m]
           size == ReducedSize(old.size, rate)
           new == [old EXCEPT !.size = size]
<1>1. old \in PositionRecord
  BY DEF Positions, ReducePosition, HasPosition
<1>2. old.size \in Int /\ One - rate \in Int
  BY <1>1, OneAssumption DEF PositionRecord
<1>3. size \in Int
  BY <1>2, MulType DEF ReducedSize
<1>4. new \in PositionRecord /\ new.margin = old.margin
  BY <1>1, <1>3 DEF PositionRecord
<1>5. DeletePosition(a, m) \/ SetPosition(a, m, new)
  BY DEF ReducePosition
<1> HIDE DEF size, new
<1>6. CASE DeletePosition(a, m)
  BY <1>1, <1>6, DeletePositionEffect
<1>7. CASE SetPosition(a, m, new)
  BY <1>1, <1>4, <1>7, SetPositionEffect
<1> QED BY <1>5, <1>6, <1>7

(* The penalty on a readable position is not negative. *)
LEMMA PenaltyNat ==
  ASSUME OracleTypeOK, NEW a \in Addrs, NEW m \in Markets,
         positions[a][m] \in PositionRecord, NEW rate \in 0 .. One
  PROVE  Penalty(a, m, rate) \in Nat
<1>1. Abs(positions[a][m].size) \in Nat
  BY AbsNat DEF PositionRecord
<1>2. GetPrice(m) \in Nat
  BY DEF OracleTypeOK, GetPrice
<1>3. Notional(a, m) \in Nat
  BY <1>1, <1>2, MulNat DEF Notional
<1>4. rate \in Nat /\ LiquidationPenaltyMin \in Nat
  BY OneAssumption, MarginAssumption
<1>5. Mul(Notional(a, m), rate) \in Nat
  BY <1>3, <1>4, MulNat
<1> QED BY <1>4, <1>5, MulNat DEF Penalty

LEMMA RequiredMarginInt ==
  ASSUME NEW size \in Int, NEW price \in Int
  PROVE  RequiredMargin(size, price) \in Int
<1>1. Abs(size) \in Int
  BY AbsNat
<1>2. Mul(Abs(size), price) \in Int
  BY <1>1, MulType
<1> QED BY <1>2, MulType, SettlementAssumption DEF RequiredMargin

(* Zero is the balance of an absent account. *)
LEMMA CollateralNat ==
  ASSUME accounts \in Accounts, NonNegativeIn(accounts), NEW a \in Addrs, accounts[a] # Blank
  PROVE  GetCollateral(a) \in Nat
BY DEF Accounts, NonNegativeIn, GetCollateral

(***************************************************************************)
(* The invariant, action by action.                                        *)
(***************************************************************************)
LEMMA InitEstablishesInv == Init => InductiveInv
<1> SUFFICES ASSUME Init PROVE InductiveInv
  OBVIOUS
<1> USE DEF Init
<1>1. OracleTypeOK /\ FundingTypeOK /\ PositionTypeOK /\ MarginTypeOK
  BY DEF OracleInit, OracleTypeOK, FundingInit, FundingTypeOK, PositionInit,
         PositionTypeOK, MarginInit, MarginTypeOK, Resting
<1>2. SettlementTypeOK
  BY SettlementAssumption DEF SettlementInit, SettlementTypeOK, NothingSaved
<1>3. TypeOK
  BY <1>1, <1>2 DEF TypeOK, LiquidationInit, LiquidationTypeOK,
     PrecompilesInit, PrecompilesTypeOK
<1>4. NonNegativeCollateral
  BY CodecAssumption
  DEF NonNegativeCollateral, NonNegativeIn, MarginInit, Resting, SettlementInit
<1>5. BackedByDeposits
  BY DEF BackedByDeposits, BackedIn, MarginInit, PositionInit
<1>6. BatchInv /\ ScanInv
  BY DEF BatchInv, ScanInv, SettlementInit, MarginInit, Resting
<1> QED BY <1>3, <1>4, <1>5, <1>6 DEF InductiveInv

LEMMA UnchangedKeepsInv == InductiveInv /\ UNCHANGED vars => InductiveInv'
<1> SUFFICES ASSUME InductiveInv, UNCHANGED vars PROVE InductiveInv'
  OBVIOUS
<1> USE DEF InductiveInv, vars
<1>1. TypeOK'
  BY DEF TypeOK, OracleTypeOK, FundingTypeOK, PositionTypeOK, MarginTypeOK,
         SettlementTypeOK, LiquidationTypeOK, PrecompilesTypeOK
<1>2. NonNegativeCollateral' /\ BackedByDeposits'
  BY DEF NonNegativeCollateral, NonNegativeIn, BackedByDeposits, BackedIn
<1>3. BatchInv' /\ ScanInv'
  BY DEF BatchInv, ScanInv, BackedIn
<1> QED BY <1>1, <1>2, <1>3

(* A message that runs in one step starts and ends with the batch and the  *)
(* scanner at rest: only the current stores are to be looked at.           *)
LEMMA MessageKeepsInv ==
  ASSUME InductiveInv, Idle, UNCHANGED <<scan, settlementVars>>,
         OracleTypeOK', FundingTypeOK', PositionTypeOK', accounts' \in Accounts,
         LiquidationTypeOK', PrecompilesTypeOK', netDeposits' \in [Addrs -> Int],
         NonNegativeIn(accounts'), BackedIn(accounts, positions)'
  PROVE  InductiveInv'
<1> USE DEF InductiveInv
<1>1. TypeOK'
  <2>1. SettlementTypeOK'
    BY DEF TypeOK, SettlementTypeOK, settlementVars
  <2>2. MarginTypeOK'
    BY DEF TypeOK, MarginTypeOK, Accounts
  <2> QED BY <2>1, <2>2 DEF TypeOK
<1>2. NonNegativeCollateral'
  BY DEF NonNegativeCollateral, Idle, settlementVars
<1>3. BackedByDeposits'
  BY DEF BackedByDeposits
<1>4. BatchInv' /\ ScanInv'
  BY DEF BatchInv, ScanInv, Idle, Scanning, Resting, settlementVars
<1> QED BY <1>1, <1>2, <1>3, <1>4

(* The two store types, by the names of this module. *)
LEMMA StoreTypes ==
  ASSUME InductiveInv
  PROVE  /\ accounts \in Accounts /\ positions \in Positions
         /\ saved.accounts \in Accounts /\ saved.positions \in Positions
         /\ netDeposits \in [Addrs -> Int]
         /\ NonNegativeIn(accounts) /\ BackedIn(accounts, positions)
BY DEF InductiveInv, TypeOK, MarginTypeOK, PositionTypeOK, SettlementTypeOK,
       Accounts, Positions, NonNegativeCollateral, BackedByDeposits

(* One account goes to collateral c and its net deposits with it, or not:  *)
(* if its surplus over them does not grow, and what a position locks fits  *)
(* in, the stores stay backed.                                             *)
LEMMA BackedAfter ==
  ASSUME accounts \in Accounts, positions \in Positions,
         netDeposits \in [Addrs -> Int], BackedIn(accounts, positions),
         NEW a \in Addrs, NEW c \in Nat,
         accounts[a] # Blank, GetCollateral(a) \in Nat,
         accounts'[a] \in {c, Blank},
         \A b \in Addrs : b # a => /\ accounts'[b] = accounts[b]
                                  /\ netDeposits'[b] = netDeposits[b],
         netDeposits'[a] \in Int,
         c - netDeposits'[a] <= GetCollateral(a) - netDeposits[a],
         \A b \in Addrs, n \in Markets :
           \/ positions'[b][n] = positions[b][n]
           \/ b = a /\ ( \/ positions'[a][n] \in {NoEntry, Blank}
                         \/ c + positions'[a][n].margin <= netDeposits'[a] )
  PROVE  BackedIn(accounts, positions)'
<1> SUFFICES ASSUME NEW b \in Addrs, NEW n \in Markets, accounts'[b] # Blank
             PROVE  LET held == IF accounts'[b] = NoEntry THEN 0 ELSE accounts'[b]
                    IN  /\ held <= netDeposits'[b]
                        /\ positions'[b][n] \notin {NoEntry, Blank} =>
                             held + positions'[b][n].margin <= netDeposits'[b]
  BY DEF BackedIn
<1>1. CASE b # a
  BY <1>1 DEF BackedIn
<1>2. CASE b = a
  <2>1. accounts'[a] = c /\ c # NoEntry
    BY <1>2, CodecAssumption
  <2>2. GetCollateral(a) <= netDeposits[a] /\ netDeposits[a] \in Int
    BY DEF BackedIn, GetCollateral
  <2>3. positions[a][n] \notin {NoEntry, Blank} =>
          /\ positions[a][n].margin \in Int
          /\ GetCollateral(a) + positions[a][n].margin <= netDeposits[a]
    BY DEF BackedIn, GetCollateral, Positions, PositionRecord
  <2> QED BY <1>2, <2>1, <2>2, <2>3
<1> QED BY <1>1, <1>2

LEMMA NonNegativeAfter ==
  ASSUME NonNegativeIn(accounts), NEW a \in Addrs, NEW c \in Nat,
         accounts'[a] \in {c, Blank},
         \A b \in Addrs : b # a => accounts'[b] = accounts[b]
  PROVE  NonNegativeIn(accounts')
BY CodecAssumption DEF NonNegativeIn

LEMMA DepositKeepsInv ==
  ASSUME InductiveInv, NEW a \in Addrs, NEW amount \in Int, DepositMsg(a, amount)
  PROVE  InductiveInv'
<1> DEFINE c == GetCollateral(a) + amount
<1>1. amount \in Int /\ amount > 0 /\ Idle /\ UNCHANGED <<scan, settlementVars, positions>>
  BY DEF DepositMsg, Deposit, riskInputs
<1>2. accounts[a] # Blank /\ GetCollateral(a) \in Nat
  BY StoreTypes, CollateralNat DEF DepositMsg, Deposit
<1>3. c \in Nat /\ SetAccount(a, c)
  BY <1>1, <1>2 DEF DepositMsg, Deposit
<1>4. /\ accounts' \in Accounts
      /\ accounts'[a] \in {c, Blank}
      /\ \A b \in Addrs : b # a => accounts'[b] = accounts[b]
  BY <1>3, StoreTypes, SetAccountEffect
<1>5. /\ netDeposits' \in [Addrs -> Int]
      /\ netDeposits'[a] = netDeposits[a] + amount
      /\ \A b \in Addrs : b # a => netDeposits'[b] = netDeposits[b]
  BY <1>1, StoreTypes DEF DepositMsg
<1>6. NonNegativeIn(accounts')
  BY <1>3, <1>4, StoreTypes, NonNegativeAfter
<1>7. c - netDeposits'[a] <= GetCollateral(a) - netDeposits[a] /\ netDeposits'[a] \in Int
  BY <1>1, <1>2, <1>5, StoreTypes
<1>8. BackedIn(accounts, positions)'
  BY <1>1, <1>2, <1>3, <1>4, <1>5, <1>7, StoreTypes, BackedAfter
<1>9. OracleTypeOK' /\ FundingTypeOK' /\ PositionTypeOK'
      /\ LiquidationTypeOK' /\ PrecompilesTypeOK'
  BY DEF InductiveInv, TypeOK, DepositMsg, riskInputs, OracleTypeOK, FundingTypeOK,
         PositionTypeOK, LiquidationTypeOK, PrecompilesTypeOK
<1> QED BY <1>1, <1>4, <1>5, <1>6, <1>8, <1>9, MessageKeepsInv

LEMMA WithdrawKeepsInv ==
  ASSUME InductiveInv, NEW a \in Addrs, NEW amount \in Amounts, WithdrawMsg(a, amount)
  PROVE  InductiveInv'
<1> DEFINE c == GetCollateral(a) - amount
<1>1. amount \in Int /\ amount > 0 /\ Idle /\ UNCHANGED <<scan, settlementVars, positions>>
  BY ChainAssumption DEF WithdrawMsg, Withdraw, riskInputs
<1>2. accounts[a] # Blank /\ GetCollateral(a) \in Nat
  BY StoreTypes, CollateralNat DEF WithdrawMsg, Withdraw, Readable
<1>3. c \in Nat /\ SetAccount(a, c)
  BY <1>1, <1>2 DEF WithdrawMsg, Withdraw
<1>4. /\ accounts' \in Accounts
      /\ accounts'[a] \in {c, Blank}
      /\ \A b \in Addrs : b # a => accounts'[b] = accounts[b]
  BY <1>3, StoreTypes, SetAccountEffect
<1>5. /\ netDeposits' \in [Addrs -> Int]
      /\ netDeposits'[a] = netDeposits[a] - amount
      /\ \A b \in Addrs : b # a => netDeposits'[b] = netDeposits[b]
  BY <1>1, StoreTypes DEF WithdrawMsg
<1>6. NonNegativeIn(accounts')
  BY <1>3, <1>4, StoreTypes, NonNegativeAfter
<1>7. c - netDeposits'[a] <= GetCollateral(a) - netDeposits[a] /\ netDeposits'[a] \in Int
  BY <1>1, <1>2, <1>5, StoreTypes
<1>8. BackedIn(accounts, positions)'
  BY <1>1, <1>2, <1>3, <1>4, <1>5, <1>7, StoreTypes, BackedAfter
<1>9. OracleTypeOK' /\ FundingTypeOK' /\ PositionTypeOK'
      /\ LiquidationTypeOK' /\ PrecompilesTypeOK'
  BY DEF InductiveInv, TypeOK, WithdrawMsg, Withdraw, riskInputs, OracleTypeOK,
         FundingTypeOK, PositionTypeOK, LiquidationTypeOK, PrecompilesTypeOK
<1> QED BY <1>1, <1>4, <1>5, <1>6, <1>8, <1>9, MessageKeepsInv

(* Messages that move no money. *)
LEMMA StoresUnchanged ==
  ASSUME InductiveInv, UNCHANGED <<accounts, positions, netDeposits>>
  PROVE  /\ PositionTypeOK' /\ accounts' \in Accounts /\ netDeposits' \in [Addrs -> Int]
         /\ NonNegativeIn(accounts') /\ BackedIn(accounts, positions)'
<1>1. NonNegativeIn(accounts') /\ accounts' \in Accounts /\ netDeposits' \in [Addrs -> Int]
  BY StoreTypes DEF NonNegativeIn
<1>2. PositionTypeOK'
  BY DEF InductiveInv, TypeOK, PositionTypeOK
<1>3. BackedIn(accounts, positions)'
  BY StoreTypes DEF BackedIn
<1> QED BY <1>1, <1>2, <1>3

LEMMA SetPriceKeepsInv ==
  ASSUME InductiveInv, NEW m \in Markets, NEW price \in Prices, SetPriceMsg(m, price)
  PROVE  InductiveInv'
<1>1. OracleTypeOK'
  BY ChainAssumption DEF InductiveInv, TypeOK, OracleTypeOK, SetPriceMsg, SetPrice
<1>2. FundingTypeOK' /\ LiquidationTypeOK' /\ PrecompilesTypeOK'
  BY DEF InductiveInv, TypeOK, FundingTypeOK, LiquidationTypeOK, PrecompilesTypeOK,
         SetPriceMsg, fundingVars
<1>3. Idle /\ UNCHANGED <<scan, settlementVars, accounts, positions, netDeposits>>
  BY DEF SetPriceMsg
<1> QED BY <1>1, <1>2, <1>3, StoresUnchanged, MessageKeepsInv

LEMMA FundingKeepsInv ==
  ASSUME InductiveInv, NEW m \in Markets, NEW mark \in FundingMarks, FundingRound(m, mark)
  PROVE  InductiveInv'
<1> DEFINE holders == {a \in Addrs : HasPosition(a, m)}
           sizes == [a \in holders |-> positions[a][m].size]
           rate == ComputeFundingRate(m, mark)
<1>1. rate \in Int
  <2>1. GetPrice(m) \in Int /\ mark \in Int
    BY ChainAssumption DEF InductiveInv, TypeOK, OracleTypeOK, GetPrice
  <2>2. Quo(GetPrice(m) - mark, FundingInterval) \in Int
    BY <2>1, QuoType, FundingAssumption
  <2> QED BY <2>2, FundingAssumption DEF ComputeFundingRate, Clamp
<1>2. \A a \in holders : sizes[a] \in Int
  BY StoreTypes DEF FundingRound, HasPosition, Positions, PositionRecord
<1>3. \A a \in holders : Mul(sizes[a], rate) \in Int
  BY <1>1, <1>2, MulType
<1>4. FundingTypeOK'
  <2> DEFINE row == [a \in Addrs |->
        cumFunding[m][a] + IF a \in DOMAIN sizes THEN Mul(sizes[a], rate) ELSE 0]
  <2>1. FundingTypeOK /\ DOMAIN sizes = holders
    BY DEF InductiveInv, TypeOK
  <2>2. row \in [Addrs -> Int]
    BY <1>3, <2>1 DEF FundingTypeOK
  <2>3. cumFunding' = [cumFunding EXCEPT ![m] = row]
    BY DEF FundingRound, ApplyFunding
  <2>4. cumIndex' = [cumIndex EXCEPT ![m] = @ + rate]
    BY DEF FundingRound, ApplyFunding
  <2> HIDE DEF row, rate
  <2> QED BY <1>1, <2>1, <2>2, <2>3, <2>4 DEF FundingTypeOK
<1>5. OracleTypeOK' /\ LiquidationTypeOK' /\ PrecompilesTypeOK'
  BY DEF InductiveInv, TypeOK, OracleTypeOK, LiquidationTypeOK, PrecompilesTypeOK,
         FundingRound
<1>6. Idle /\ UNCHANGED <<scan, settlementVars, accounts, positions, netDeposits>>
  BY DEF FundingRound
<1> QED BY <1>4, <1>5, <1>6, StoresUnchanged, MessageKeepsInv

LEMMA LiquidateKeepsInv ==
  ASSUME InductiveInv, NEW a \in Addrs, NEW m \in Markets, LiquidateMsg(a, m)
  PROVE  InductiveInv'
<1> DEFINE c == ChargeAtMost(GetCollateral(a), Penalty(a, m, PartialRate))
<1>1. /\ Idle /\ UNCHANGED <<scan, settlementVars, netDeposits, prices, fundingVars, entered>>
      /\ Readable(a) /\ SetAccount(a, c) /\ ReducePosition(a, m, PartialRate)
  BY DEF LiquidateMsg, Liquidate, ExecuteLiquidation
<1>2. accounts[a] # Blank /\ positions[a][m] # Blank /\ GetCollateral(a) \in Nat
  BY <1>1, StoreTypes, CollateralNat DEF Readable
<1>3. PartialRate \in 0 .. One
  BY OneAssumption DEF PartialRate
<1>4. /\ positions' \in Positions
      /\ \A b \in Addrs, n \in Markets :
           <<b, n>> # <<a, m>> => positions'[b][n] = positions[b][n]
      /\ positions[a][m] \in PositionRecord
      /\ positions'[a][m] \notin {NoEntry, Blank} =>
           positions'[a][m].margin = positions[a][m].margin
  BY <1>1, <1>2, <1>3, StoreTypes, ReducePositionEffect
<1>5. c \in Nat /\ c <= GetCollateral(a)
  <2>1. Penalty(a, m, PartialRate) \in Nat
    BY <1>3, <1>4, PenaltyNat DEF InductiveInv, TypeOK
  <2> QED BY <1>2, <2>1, ChargeBounds
<1> HIDE DEF c
<1>6. /\ accounts' \in Accounts
      /\ accounts'[a] \in {c, Blank}
      /\ \A b \in Addrs : b # a => accounts'[b] = accounts[b]
  BY <1>1, <1>5, StoreTypes, SetAccountEffect
<1>7. NonNegativeIn(accounts')
  BY <1>5, <1>6, StoreTypes, NonNegativeAfter
<1>8. BackedIn(accounts, positions)'
  <2>1. netDeposits[a] \in Int /\ netDeposits' = netDeposits
    BY <1>1, StoreTypes
  <2>2. c - netDeposits'[a] <= GetCollateral(a) - netDeposits[a]
    BY <1>2, <1>5, <2>1
  <2>3. positions[a][m].margin \in Int
    BY <1>4 DEF PositionRecord
  <2>4. GetCollateral(a) + positions[a][m].margin <= netDeposits[a]
    BY <1>1, <1>2, <1>4, StoreTypes DEF BackedIn, GetCollateral, ReducePosition, HasPosition
  <2>5. c + positions[a][m].margin <= netDeposits'[a]
    BY <1>2, <1>5, <2>1, <2>3, <2>4
  <2> QED BY <1>2, <1>4, <1>5, <1>6, <2>1, <2>2, <2>5, StoreTypes, BackedAfter
<1>9. OracleTypeOK' /\ FundingTypeOK' /\ PositionTypeOK' /\ PrecompilesTypeOK'
  BY <1>1, <1>4 DEF InductiveInv, TypeOK, OracleTypeOK, FundingTypeOK, fundingVars,
     PositionTypeOK, Positions, PrecompilesTypeOK
<1>10. LiquidationTypeOK'
  <2>1. positions[a][m].size \in Int /\ SizeOf(positions'[a][m]) \in Int
    BY <1>4 DEF Positions, PositionRecord, SizeOf
  <2>2. removed \in [Markets -> Int]
    BY DEF InductiveInv, TypeOK, LiquidationTypeOK
  <2> QED BY <2>1, <2>2 DEF LiquidationTypeOK, LiquidateMsg, Liquidate
<1>11. netDeposits' \in [Addrs -> Int]
  BY <1>1, StoreTypes
<1> QED BY <1>1, <1>6, <1>7, <1>8, <1>9, <1>10, <1>11, MessageKeepsInv

(***************************************************************************)
(* Settlement.                                                             *)
(***************************************************************************)
LEMMA TradeTypes ==
  ASSUME NEW trade \in Trade
  PROVE  /\ trade.maker \in Addrs /\ trade.taker \in Addrs /\ trade.market \in Markets
         /\ trade.price \in Int /\ MakerSize(trade) \in Int /\ TakerSize(trade) \in Int
BY DEF Trade, MakerSize, TakerSize

(* One leg: what it debits is what it locks. *)
LEMMA ExecuteTradeEffect ==
  ASSUME InductiveInv, NEW a \in Addrs, NEW m \in Markets, NEW size \in Int,
         NEW price \in Int, ExecuteTrade(a, m, size, price), netDeposits' = netDeposits
  PROVE  /\ accounts' \in Accounts /\ positions' \in Positions
         /\ NonNegativeIn(accounts') /\ BackedIn(accounts, positions)'
<1> DEFINE r == RequiredMargin(size, price)
           c == GetCollateral(a) - r
<1>1. /\ r \in Int /\ r > 0 /\ GetCollateral(a) >= r
      /\ accounts[a] # Blank /\ positions[a][m] # Blank
      /\ SetAccount(a, c)
      /\ OpenPosition(a, m, size, price, r, cumFunding[m][a])
  BY RequiredMarginInt DEF ExecuteTrade, TradeAccepted, CanDeduct, DeductMargin
<1>2. GetCollateral(a) \in Nat /\ cumFunding[m][a] \in Int
  BY <1>1, StoreTypes, CollateralNat DEF InductiveInv, TypeOK, FundingTypeOK
<1> HIDE DEF r
<1>3. c \in Nat
  BY <1>1, <1>2
<1>4. /\ accounts' \in Accounts
      /\ accounts'[a] \in {c, Blank}
      /\ \A b \in Addrs : b # a => accounts'[b] = accounts[b]
  BY <1>1, <1>3, StoreTypes, SetAccountEffect
<1>5. /\ positions' \in Positions
      /\ \A b \in Addrs, n \in Markets :
           <<b, n>> # <<a, m>> => positions'[b][n] = positions[b][n]
      /\ positions'[a][m] \notin {NoEntry, Blank} =>
           positions'[a][m].margin =
             IF HasPosition(a, m) THEN positions[a][m].margin + r ELSE r
  BY <1>1, <1>2, StoreTypes, OpenPositionEffect
<1>6. NonNegativeIn(accounts')
  BY <1>3, <1>4, StoreTypes, NonNegativeAfter
<1>7. BackedIn(accounts, positions)'
  <2>1. netDeposits[a] \in Int
    BY StoreTypes
  <2>2. c - netDeposits'[a] <= GetCollateral(a) - netDeposits[a]
    BY <1>1, <1>2, <2>1
  <2>3. GetCollateral(a) <= netDeposits[a]
    BY <1>1, StoreTypes DEF BackedIn, GetCollateral
  <2>4. HasPosition(a, m) =>
          /\ positions[a][m].margin \in Int
          /\ GetCollateral(a) + positions[a][m].margin <= netDeposits[a]
    BY <1>1, StoreTypes
    DEF BackedIn, GetCollateral, HasPosition, Positions, PositionRecord
  <2>5. positions'[a][m] \notin {NoEntry, Blank} =>
          c + positions'[a][m].margin <= netDeposits'[a]
    BY <1>1, <1>2, <1>5, <2>1, <2>3, <2>4
  <2> QED BY <1>1, <1>2, <1>3, <1>4, <1>5, <2>1, <2>2, <2>5, StoreTypes, BackedAfter
<1> QED BY <1>4, <1>5, <1>6, <1>7

(* What every step of a batch leaves alone. *)
BatchFrame == UNCHANGED <<prices, fundingVars, scan, removed, entered, netDeposits>>

LEMMA BatchStepKeepsInv ==
  ASSUME InductiveInv, BatchFrame, SettlementTypeOK',
         accounts' \in Accounts, positions' \in Positions,
         NonNegativeIn(accounts'), BackedIn(accounts, positions)',
         leg' # "idle" => /\ scan = Resting
                          /\ NonNegativeIn(saved'.accounts)
                          /\ BackedIn(saved.accounts, saved.positions)',
         scan = Resting
  PROVE  InductiveInv'
<1> USE DEF InductiveInv, BatchFrame
<1>1. TypeOK'
  BY DEF TypeOK, OracleTypeOK, FundingTypeOK, fundingVars, PositionTypeOK, Positions,
         MarginTypeOK, Accounts, LiquidationTypeOK, PrecompilesTypeOK
<1>2. NonNegativeCollateral'
  BY DEF NonNegativeCollateral, Resting
<1>3. BackedByDeposits'
  BY DEF BackedByDeposits
<1>4. BatchInv' /\ ScanInv'
  BY DEF BatchInv, ScanInv, Resting
<1> QED BY <1>1, <1>2, <1>3, <1>4

LEMMA SavedStores ==
  ASSUME InductiveInv, leg # "idle", saved' = saved, netDeposits' = netDeposits
  PROVE  /\ scan = Resting
         /\ NonNegativeIn(saved'.accounts)
         /\ BackedIn(saved.accounts, saved.positions)'
BY DEF InductiveInv, BatchInv, NonNegativeCollateral, NonNegativeIn, BackedIn

LEMMA BeginKeepsInv ==
  ASSUME InductiveInv, BatchFrame, NEW matcher \in Senders, NEW trades \in Batches,
         SettleMatchedOrders(matcher, trades)
  PROVE  InductiveInv'
<1>1. /\ Idle /\ leg' = "maker" /\ batch' = trades
      /\ saved' = [accounts |-> accounts, positions |-> positions]
      /\ UNCHANGED <<batchID, accounts, positions>>
  BY DEF SettleMatchedOrders, BeginBatch
<1>2. SettlementTypeOK'
  <2>1. trades \in Seq(Trade)
    BY ChainAssumption
  <2> QED BY <1>1, <2>1, StoreTypes
      DEF InductiveInv, TypeOK, SettlementTypeOK, Accounts, Positions
<1>3. accounts' \in Accounts /\ positions' \in Positions /\ NonNegativeIn(accounts')
  BY <1>1, StoreTypes
<1>4. BackedIn(accounts, positions)' /\ BackedIn(saved.accounts, saved.positions)'
  BY <1>1, StoreTypes DEF BackedIn, BatchFrame
<1>5. NonNegativeIn(saved'.accounts) /\ scan = Resting
  BY <1>1, StoreTypes DEF Idle, Scanning
<1> QED BY <1>2, <1>3, <1>4, <1>5, BatchStepKeepsInv

LEMMA MakerKeepsInv ==
  ASSUME InductiveInv, BatchFrame, SettleMaker
  PROVE  InductiveInv'
<1> DEFINE trade == Head(batch)
<1>1. /\ leg = "maker" /\ batch # <<>> /\ leg' = "taker"
      /\ ExecuteTrade(trade.maker, trade.market, MakerSize(trade), trade.price)
      /\ UNCHANGED <<batchID, batch, saved>>
  BY DEF SettleMaker
<1>2. trade \in Trade
  BY <1>1 DEF InductiveInv, TypeOK, SettlementTypeOK
<1>3. netDeposits' = netDeposits
  BY DEF BatchFrame
<1>4. /\ accounts' \in Accounts /\ positions' \in Positions
      /\ NonNegativeIn(accounts') /\ BackedIn(accounts, positions)'
  BY <1>1, <1>2, <1>3, TradeTypes, ExecuteTradeEffect
<1>5. SettlementTypeOK'
  BY <1>1 DEF InductiveInv, TypeOK, SettlementTypeOK
<1> QED BY <1>1, <1>3, <1>4, <1>5, SavedStores, BatchStepKeepsInv

LEMMA TakerKeepsInv ==
  ASSUME InductiveInv, BatchFrame, SettleTaker
  PROVE  InductiveInv'
<1> DEFINE trade == Head(batch)
<1>1. /\ leg = "taker" /\ leg' = "maker" /\ batch' = Tail(batch)
      /\ ExecuteTrade(trade.taker, trade.market, TakerSize(trade), trade.price)
      /\ UNCHANGED <<batchID, saved>>
  BY DEF SettleTaker
<1>2. batch \in Seq(Trade) /\ batch # <<>>
  BY <1>1 DEF InductiveInv, TypeOK, SettlementTypeOK
<1>3. trade \in Trade /\ Tail(batch) \in Seq(Trade)
  BY <1>2
<1>4. netDeposits' = netDeposits
  BY DEF BatchFrame
<1>5. /\ accounts' \in Accounts /\ positions' \in Positions
      /\ NonNegativeIn(accounts') /\ BackedIn(accounts, positions)'
  BY <1>1, <1>3, <1>4, TradeTypes, ExecuteTradeEffect
<1>6. SettlementTypeOK'
  BY <1>1, <1>3 DEF InductiveInv, TypeOK, SettlementTypeOK
<1> QED BY <1>1, <1>4, <1>5, <1>6, SavedStores, BatchStepKeepsInv

LEMMA NothingSavedType ==
  NothingSaved \in [accounts : Accounts, positions : Positions]
BY DEF NothingSaved, Accounts, Positions

LEMMA RejectKeepsInv ==
  ASSUME InductiveInv, BatchFrame, RejectBatch
  PROVE  InductiveInv'
<1>1. /\ leg # "idle" /\ leg' = "idle" /\ batch' = <<>>
      /\ accounts' = saved.accounts /\ positions' = saved.positions
      /\ saved' = NothingSaved /\ batchID' = batchID
  BY DEF RejectBatch
<1>2. SettlementTypeOK'
  BY <1>1, NothingSavedType
  DEF InductiveInv, TypeOK, SettlementTypeOK, Accounts, Positions
<1>3. accounts' \in Accounts /\ positions' \in Positions
  BY <1>1, StoreTypes
<1>4. scan = Resting /\ NonNegativeIn(accounts') /\ BackedIn(accounts, positions)'
  BY <1>1 DEF InductiveInv, BatchInv, NonNegativeCollateral, NonNegativeIn, BackedIn, BatchFrame
<1> QED BY <1>1, <1>2, <1>3, <1>4, BatchStepKeepsInv

LEMMA FinishKeepsInv ==
  ASSUME InductiveInv, BatchFrame, FinishBatch
  PROVE  InductiveInv'
<1>1. /\ leg = "maker" /\ leg' = "idle" /\ batchID' = (batchID + 1) % Uint64
      /\ saved' = NothingSaved /\ UNCHANGED <<batch, accounts, positions>>
  BY DEF FinishBatch
<1>2. batchID' \in 0 .. Uint64 - 1
  BY <1>1, SettlementAssumption DEF InductiveInv, TypeOK, SettlementTypeOK
<1>3. SettlementTypeOK'
  BY <1>1, <1>2, NothingSavedType
  DEF InductiveInv, TypeOK, SettlementTypeOK, Accounts, Positions
<1>4. /\ accounts' \in Accounts /\ positions' \in Positions
      /\ NonNegativeIn(accounts') /\ BackedIn(accounts, positions)'
  BY <1>1, StoreTypes DEF BackedIn, BatchFrame
<1>5. scan = Resting
  BY <1>1 DEF InductiveInv, BatchInv
<1> QED BY <1>1, <1>3, <1>4, <1>5, BatchStepKeepsInv

LEMMA SettleStepKeepsInv == InductiveInv /\ SettleStep => InductiveInv'
<1> SUFFICES ASSUME InductiveInv, SettleStep PROVE InductiveInv'
  OBVIOUS
<1>1. BatchFrame
  BY DEF SettleStep, BatchFrame
<1>2. ASSUME NEW matcher \in Senders, NEW trades \in Batches, SettleMatchedOrders(matcher, trades)
      PROVE  InductiveInv'
  BY <1>1, <1>2, BeginKeepsInv
<1>3. CASE SettleMaker
  BY <1>1, <1>3, MakerKeepsInv
<1>4. CASE SettleTaker
  BY <1>1, <1>4, TakerKeepsInv
<1>5. CASE RejectBatch
  BY <1>1, <1>5, RejectKeepsInv
<1>6. CASE FinishBatch
  BY <1>1, <1>6, FinishKeepsInv
<1> QED BY <1>2, <1>3, <1>4, <1>5, <1>6 DEF SettleStep

(***************************************************************************)
(* The precompiles: calldata is typed by assumption, and the keeper calls  *)
(* are those of a deposit and of one leg of a trade.                       *)
(***************************************************************************)
LEMMA CallTypes ==
  ASSUME NEW call \in Calls
  PROVE  /\ call.market \in Markets
         /\ \A i \in 1 .. Len(call.words) : DecodeUint256(call.words[i]) \in Int
<1>1. call \in Call
  BY ChainAssumption
<1>2. call.words \in Seq(Words) /\ call.market \in Markets
  BY <1>1 DEF Call
<1>3. \A i \in 1 .. Len(call.words) : call.words[i] \in Words
  BY <1>2
<1> QED BY <1>2, <1>3, WordAssumption DEF Words, DecodeUint256

LEMMA DepositCallKeepsInv ==
  ASSUME InductiveInv, NEW a \in Addrs, NEW call \in Calls, DepositCall(a, call)
  PROVE  InductiveInv'
<1>1. DecodeUint256(call.words[1]) \in Int
  <2>1. call.words \in Seq(Words) /\ Len(call.words) >= 1
    BY ChainAssumption DEF Call, DepositCall, IsDepositCall
  <2>2. 1 \in 1 .. Len(call.words)
    BY <2>1
  <2> QED BY <2>2, CallTypes
<1> QED BY <1>1, DepositKeepsInv DEF DepositCall

LEMMA TradeCallKeepsInv ==
  ASSUME InductiveInv, NEW a \in Addrs, NEW call \in Calls, TradeCall(a, call)
  PROVE  InductiveInv'
<1> DEFINE size  == DecodeUint256(call.words[1])
           price == DecodeUint256(call.words[2])
<1>1. size \in Int /\ price \in Int /\ call.market \in Markets
  <2>1. call.words \in Seq(Words) /\ Len(call.words) >= 2
    BY ChainAssumption DEF Call, TradeCall, ExecuteTradeCall
  <2>2. 1 \in 1 .. Len(call.words) /\ 2 \in 1 .. Len(call.words)
    BY <2>1
  <2> QED BY <2>2, CallTypes
<1>2. /\ ExecuteTrade(a, call.market, size, price)
      /\ entered' = [entered EXCEPT ![call.market] = @ + size]
      /\ Idle
      /\ UNCHANGED <<prices, fundingVars, scan, settlementVars, removed, netDeposits>>
  BY DEF TradeCall, ExecuteTradeCall
<1> HIDE DEF size, price
<1>3. /\ accounts' \in Accounts /\ positions' \in Positions
      /\ NonNegativeIn(accounts') /\ BackedIn(accounts, positions)'
  BY <1>1, <1>2, ExecuteTradeEffect
<1>4. PrecompilesTypeOK'
  BY <1>1, <1>2 DEF InductiveInv, TypeOK, PrecompilesTypeOK
<1>5. OracleTypeOK' /\ FundingTypeOK' /\ PositionTypeOK' /\ LiquidationTypeOK'
  BY <1>2, <1>3 DEF InductiveInv, TypeOK, OracleTypeOK, FundingTypeOK, fundingVars,
     PositionTypeOK, Positions, LiquidationTypeOK
<1>6. netDeposits' \in [Addrs -> Int]
  BY <1>2, StoreTypes
<1> QED BY <1>2, <1>3, <1>4, <1>5, <1>6, MessageKeepsInv

(***************************************************************************)
(* The EndBlock scanner.                                                   *)
(***************************************************************************)
ScanFrame == UNCHANGED <<riskInputs, settlementVars, removed, entered, netDeposits>>

LEMMA ScanStepKeepsInv ==
  ASSUME InductiveInv, ScanFrame, leg = "idle", MarginTypeOK', scan'.collateral >= 0,
         NonNegativeIn(accounts'), BackedIn(accounts, positions)', ScanInv'
  PROVE  InductiveInv'
<1> USE DEF InductiveInv, ScanFrame
<1>1. TypeOK'
  BY DEF TypeOK, OracleTypeOK, FundingTypeOK, riskInputs, PositionTypeOK,
         SettlementTypeOK, settlementVars, LiquidationTypeOK, PrecompilesTypeOK
<1>2. NonNegativeCollateral' /\ BackedByDeposits' /\ BatchInv'
  BY DEF NonNegativeCollateral, BackedByDeposits, BatchInv, settlementVars
<1> QED BY <1>1, <1>2

(* While the scanner is at work no batch is. *)
LEMMA ScanningIsAlone ==
  ASSUME InductiveInv, scan.addr # NoEntry \/ scan.left # {}
  PROVE  leg = "idle"
BY DEF InductiveInv, BatchInv, Resting

LEMMA ScanTypes ==
  ASSUME InductiveInv
  PROVE  /\ scan.left \in SUBSET Addrs /\ scan.addr \in Addrs \cup {NoEntry}
         /\ scan.todo \in SUBSET Markets /\ scan.collateral \in Nat
         /\ scan = [left |-> scan.left, addr |-> scan.addr,
                    todo |-> scan.todo, collateral |-> scan.collateral]
         /\ accounts \in Accounts
BY DEF InductiveInv, TypeOK, MarginTypeOK, NonNegativeCollateral, Accounts

LEMMA AccountsUnchanged ==
  ASSUME InductiveInv, ScanFrame, accounts' = accounts
  PROVE  NonNegativeIn(accounts') /\ BackedIn(accounts, positions)'
BY StoreTypes DEF ScanFrame, riskInputs, BackedIn, NonNegativeIn

LEMMA BeginScanKeepsInv ==
  ASSUME InductiveInv, ScanFrame, Idle, BeginScan
  PROVE  InductiveInv'
<1> DEFINE found == {a \in Addrs : accounts[a] \notin {NoEntry, Blank}}
<1>1. /\ scan' = [left |-> found, addr |-> NoEntry, todo |-> {}, collateral |-> 0]
      /\ accounts' = accounts
  BY DEF BeginScan, Resting
<1>2. \A a \in found : accounts[a] \in Int
  BY StoreTypes DEF Accounts
<1> HIDE DEF found
<1>3. found \in SUBSET Addrs
  BY DEF found
<1>4. MarginTypeOK' /\ scan'.collateral >= 0
  BY <1>1, <1>3, StoreTypes DEF MarginTypeOK, Accounts
<1>5. ScanInv'
  BY <1>1, <1>2 DEF ScanInv
<1> QED BY <1>1, <1>4, <1>5, AccountsUnchanged, ScanStepKeepsInv DEF Idle

LEMMA SkipKeepsInv ==
  ASSUME InductiveInv, ScanFrame, NEW a \in Addrs, SkipAccount(a)
  PROVE  InductiveInv'
<1>1. /\ scan.addr = NoEntry /\ a \in scan.left /\ accounts' = accounts
      /\ scan' = [left |-> scan.left \ {a}, addr |-> scan.addr,
                  todo |-> scan.todo, collateral |-> scan.collateral]
  BY ScanTypes DEF SkipAccount
<1>2. leg = "idle"
  BY <1>1, ScanningIsAlone
<1>3. MarginTypeOK' /\ scan'.collateral >= 0
  BY <1>1, ScanTypes DEF MarginTypeOK, Accounts
<1>4. ScanInv'
  BY <1>1 DEF InductiveInv, ScanInv
<1> QED BY <1>1, <1>2, <1>3, <1>4, AccountsUnchanged, ScanStepKeepsInv

LEMMA StartKeepsInv ==
  ASSUME InductiveInv, ScanFrame, NEW a \in Addrs, StartExecuteLiquidation(a)
  PROVE  InductiveInv'
<1>1. /\ a \in scan.left /\ Readable(a) /\ accounts' = accounts
      /\ scan' = [left |-> scan.left \ {a}, addr |-> a,
                  todo |-> OpenMarkets(a), collateral |-> GetCollateral(a)]
  BY DEF StartExecuteLiquidation
<1>2. accounts[a] \in Int /\ GetCollateral(a) = accounts[a]
  BY <1>1, CodecAssumption DEF InductiveInv, ScanInv, GetCollateral
<1>3. GetCollateral(a) \in Nat
  BY <1>1, StoreTypes, CollateralNat DEF Readable
<1>4. OpenMarkets(a) \in SUBSET Markets
  BY DEF OpenMarkets
<1>5. \A m \in OpenMarkets(a) : positions[a][m] \in PositionRecord
  BY <1>1, StoreTypes DEF OpenMarkets, HasPosition, Readable, Positions
<1>6. leg = "idle"
  BY <1>1, ScanningIsAlone
<1>7. MarginTypeOK' /\ scan'.collateral >= 0
  BY <1>1, <1>3, <1>4, ScanTypes DEF MarginTypeOK, Accounts
<1>8. ScanInv'
  BY <1>1, <1>2, <1>5 DEF InductiveInv, ScanInv, ScanFrame, riskInputs
<1> QED BY <1>1, <1>6, <1>7, <1>8, AccountsUnchanged, ScanStepKeepsInv

LEMMA ChargeKeepsInv ==
  ASSUME InductiveInv, ScanFrame, NEW m \in Markets, ChargePosition(m)
  PROVE  InductiveInv'
<1> DEFINE a == scan.addr
           c == ChargeAtMost(scan.collateral, Penalty(a, m, PartialLiquidationRate))
<1>1. /\ a # NoEntry /\ m \in scan.todo /\ accounts' = accounts
      /\ scan' = [left |-> scan.left, addr |-> a, todo |-> scan.todo \ {m}, collateral |-> c]
  BY ScanTypes DEF ChargePosition
<1>2. a \in Addrs /\ positions[a][m] \in PositionRecord
  BY <1>1, ScanTypes DEF InductiveInv, ScanInv
<1>3. c \in Nat /\ c <= scan.collateral
  <2>1. Penalty(a, m, PartialLiquidationRate) \in Nat
    BY <1>2, PenaltyNat, MarginAssumption DEF InductiveInv, TypeOK
  <2> QED BY <2>1, ScanTypes, ChargeBounds
<1>4. leg = "idle"
  BY <1>1, ScanningIsAlone
<1> HIDE DEF c
<1>5. MarginTypeOK' /\ scan'.collateral >= 0
  BY <1>1, <1>2, <1>3, ScanTypes DEF MarginTypeOK, Accounts
<1>6. ScanInv'
  <2>1. accounts[a] \in Int /\ scan.collateral <= accounts[a]
    BY <1>1 DEF InductiveInv, ScanInv
  <2>2. c <= accounts[a]
    BY <1>3, <2>1, ScanTypes
  <2> QED BY <1>1, <2>1, <2>2 DEF InductiveInv, ScanInv, ScanFrame, riskInputs
<1> QED BY <1>1, <1>4, <1>5, <1>6, AccountsUnchanged, ScanStepKeepsInv

LEMMA FinishScanKeepsInv ==
  ASSUME InductiveInv, ScanFrame, FinishExecuteLiquidation
  PROVE  InductiveInv'
<1> DEFINE a == scan.addr
           c == scan.collateral
<1>1. /\ a # NoEntry /\ SetAccount(a, c)
      /\ scan' = [left |-> scan.left, addr |-> NoEntry, todo |-> {}, collateral |-> 0]
  BY DEF FinishExecuteLiquidation, Resting
<1>2. a \in Addrs /\ c \in Nat /\ accounts[a] \in Int /\ c <= accounts[a]
  BY <1>1, ScanTypes DEF InductiveInv, ScanInv
<1>3. /\ accounts' \in Accounts
      /\ accounts'[a] \in {c, Blank}
      /\ \A b \in Addrs : b # a => accounts'[b] = accounts[b]
  BY <1>1, <1>2, StoreTypes, SetAccountEffect
<1>4. NonNegativeIn(accounts')
  BY <1>2, <1>3, StoreTypes, NonNegativeAfter
<1>5. BackedIn(accounts, positions)'
  <2>1. GetCollateral(a) = accounts[a] /\ accounts[a] # Blank /\ GetCollateral(a) \in Nat
    BY <1>2, StoreTypes, CollateralNat, CodecAssumption DEF GetCollateral
  <2>2. netDeposits' = netDeposits /\ positions' = positions /\ netDeposits[a] \in Int
    BY <1>2, StoreTypes DEF ScanFrame, riskInputs
  <2>3. c - netDeposits'[a] <= GetCollateral(a) - netDeposits[a]
    BY <1>2, <2>1, <2>2
  <2> QED BY <1>2, <1>3, <2>1, <2>2, <2>3, StoreTypes, BackedAfter
<1>6. leg = "idle"
  BY <1>1, ScanningIsAlone
<1>7. MarginTypeOK' /\ scan'.collateral >= 0
  BY <1>1, <1>3, ScanTypes DEF MarginTypeOK, Accounts
<1>8. ScanInv'
  BY <1>1, <1>3, ScanTypes DEF InductiveInv, ScanInv
<1> QED BY <1>4, <1>5, <1>6, <1>7, <1>8, ScanStepKeepsInv

LEMMA EndBlockKeepsInv == InductiveInv /\ EndBlockStep => InductiveInv'
<1> SUFFICES ASSUME InductiveInv, EndBlockStep PROVE InductiveInv'
  OBVIOUS
<1>1. ScanFrame
  BY DEF EndBlockStep, ScanFrame
<1>2. CASE Idle /\ BeginScan
  BY <1>1, <1>2, BeginScanKeepsInv
<1>3. ASSUME NEW a \in Addrs, SkipAccount(a) PROVE InductiveInv'
  BY <1>1, <1>3, SkipKeepsInv
<1>4. ASSUME NEW a \in Addrs, StartExecuteLiquidation(a) PROVE InductiveInv'
  BY <1>1, <1>4, StartKeepsInv
<1>5. ASSUME NEW m \in Markets, ChargePosition(m) PROVE InductiveInv'
  BY <1>1, <1>5, ChargeKeepsInv
<1>6. CASE FinishExecuteLiquidation
  BY <1>1, <1>6, FinishScanKeepsInv
<1> QED BY <1>2, <1>3, <1>4, <1>5, <1>6 DEF EndBlockStep

(***************************************************************************)
(* The theorems.                                                           *)
(***************************************************************************)

(* InductiveInv holds initially and every step of the chain keeps it.      *)
THEOREM Invariance == Spec => []InductiveInv
<1>1. Init => InductiveInv
  BY InitEstablishesInv
<1>2. InductiveInv /\ [Next]_vars => InductiveInv'
  <2> SUFFICES ASSUME InductiveInv, [Next]_vars PROVE InductiveInv'
    OBVIOUS
  <2>1. ASSUME NEW a \in Addrs, NEW amount \in Amounts, DepositMsg(a, amount)
        PROVE  InductiveInv'
    BY <2>1, ChainAssumption, DepositKeepsInv
  <2>2. ASSUME NEW a \in Addrs, NEW amount \in Amounts, WithdrawMsg(a, amount)
        PROVE  InductiveInv'
    BY <2>2, WithdrawKeepsInv
  <2>3. ASSUME NEW m \in Markets, NEW price \in Prices, SetPriceMsg(m, price)
        PROVE  InductiveInv'
    BY <2>3, SetPriceKeepsInv
  <2>4. ASSUME NEW m \in Markets, NEW mark \in FundingMarks, FundingRound(m, mark)
        PROVE  InductiveInv'
    BY <2>4, FundingKeepsInv
  <2>5. CASE SettleStep
    BY <2>5, SettleStepKeepsInv
  <2>6. ASSUME NEW a \in Addrs, NEW m \in Markets, LiquidateMsg(a, m)
        PROVE  InductiveInv'
    BY <2>6, LiquidateKeepsInv
  <2>7. ASSUME NEW a \in Addrs, NEW call \in Calls, DepositCall(a, call) \/ TradeCall(a, call)
        PROVE  InductiveInv'
    BY <2>7, DepositCallKeepsInv, TradeCallKeepsInv
  <2>8. CASE EndBlockStep
    BY <2>8, EndBlockKeepsInv
  <2>9. CASE UNCHANGED vars
    BY <2>9, UnchangedKeepsInv
  <2> QED BY <2>1, <2>2, <2>3, <2>4, <2>5, <2>6, <2>7, <2>8, <2>9 DEF Next
<1> QED BY <1>1, <1>2, PTL DEF Spec

(* Every reachable state of the composed chain is well typed.              *)
THEOREM TypeCorrect == Spec => []TypeOK
<1>1. InductiveInv => TypeOK
  BY DEF InductiveInv
<1> QED BY <1>1, Invariance, PTL

(* No account's collateral is ever negative, nor is one that a batch may   *)
(* be rolled back to or that a scan is about to write.                     *)
THEOREM CollateralNeverNegative == Spec => []NonNegativeCollateral
<1>1. InductiveInv => NonNegativeCollateral
  BY DEF InductiveInv
<1> QED BY <1>1, Invariance, PTL

(* Whatever messages, rejected batches and scans an account goes through,  *)
(* its collateral and the margin of any of its positions stay covered by   *)
(* what it deposited.                                                      *)
THEOREM NoMoneyFromNothing == Spec => []BackedByDeposits
<1>1. InductiveInv => BackedByDeposits
  BY DEF InductiveInv
<1> QED BY <1>1, Invariance, PTL

(***************************************************************************)
(* Positions between trades.                                               *)
(***************************************************************************)

(* What OnlyTradesGrowPositions says of the position of a in m.            *)
Shrunk(a, m) ==
  LET old == positions[a][m]
      new == positions'[a][m]
  IN  new # old /\ new \notin {NoEntry, Blank} =>
        /\ old # NoEntry
        /\ [new EXCEPT !.size = old.size] = old
        /\ Abs(new.size) < Abs(old.size)
        /\ new.size > 0 <=> old.size > 0

LEMMA LiquidateShrinks ==
  ASSUME InductiveInv, NEW a \in Addrs, NEW m \in Markets, LiquidateMsg(a, m),
         NEW b \in Addrs, NEW n \in Markets
  PROVE  Shrunk(b, n)
<1> DEFINE old == positions[a][m]
           size == ReducedSize(old.size, PartialRate)
           new == [old EXCEPT !.size = size]
<1>1. /\ positions[a][m] # Blank /\ HasPosition(a, m) /\ positions \in Positions
      /\ ReducePosition(a, m, PartialRate)
  BY StoreTypes DEF LiquidateMsg, Liquidate, ExecuteLiquidation, Readable
<1>2. old \in PositionRecord /\ old.size \in Int
  BY <1>1 DEF Positions, PositionRecord, HasPosition
<1>3. One - PartialRate = One \div 2
  BY OneAssumption DEF PartialRate
<1>4. size \in Int /\ (size # 0 => Abs(size) < Abs(old.size) /\ (size > 0 <=> old.size > 0))
  BY <1>2, <1>3, HalfShrinks DEF ReducedSize
<1>5. /\ new \in PositionRecord /\ new.size = size
      /\ [new EXCEPT !.size = old.size] = old
  BY <1>2, <1>4 DEF PositionRecord
<1>6. \/ DeletePosition(a, m)
      \/ size # 0 /\ SetPosition(a, m, new)
  BY <1>1, <1>4, DustAssumption DEF ReducePosition, Abs
<1> HIDE DEF size, new
<1>7. CASE DeletePosition(a, m)
  BY <1>1, <1>7, DeletePositionEffect DEF Shrunk
<1>8. CASE size # 0 /\ SetPosition(a, m, new)
  <2>1. /\ \A c \in Addrs, k \in Markets :
              <<c, k>> # <<a, m>> => positions'[c][k] = positions[c][k]
        /\ positions'[a][m] \in {new, Blank}
    BY <1>1, <1>5, <1>8, SetPositionEffect
  <2>2. CASE <<b, n>> # <<a, m>>
    BY <2>1, <2>2 DEF Shrunk
  <2>3. CASE <<b, n>> = <<a, m>>
    BY <1>1, <1>4, <1>5, <1>8, <2>1, <2>3 DEF Shrunk, HasPosition
  <2> QED BY <2>2, <2>3
<1> QED BY <1>6, <1>7, <1>8

(* Every other step but those of a trade leaves the positions alone.       *)
LEMMA OthersKeepPositions ==
  ASSUME InductiveInv, [Next]_vars, leg = "idle", entered' = entered,
         \A a \in Addrs, m \in Markets : ~LiquidateMsg(a, m)
  PROVE  positions' = positions
<1>1. ASSUME NEW a \in Addrs, NEW amount, DepositMsg(a, amount) PROVE positions' = positions
  BY <1>1 DEF DepositMsg, riskInputs
<1>2. ASSUME NEW a \in Addrs, NEW amount \in Amounts, WithdrawMsg(a, amount)
      PROVE  positions' = positions
  BY <1>2 DEF WithdrawMsg, Withdraw, riskInputs
<1>3. ASSUME NEW m \in Markets, NEW price \in Prices, SetPriceMsg(m, price)
      PROVE  positions' = positions
  BY <1>3 DEF SetPriceMsg
<1>4. ASSUME NEW m \in Markets, NEW mark \in FundingMarks, FundingRound(m, mark)
      PROVE  positions' = positions
  BY <1>4 DEF FundingRound
<1>5. CASE SettleStep
  BY <1>5 DEF SettleStep, SettleMatchedOrders, BeginBatch, SettleMaker, SettleTaker,
     RejectBatch, FinishBatch
<1>6. ASSUME NEW a \in Addrs, NEW call \in Calls, DepositCall(a, call)
      PROVE  positions' = positions
  BY <1>1, <1>6 DEF DepositCall
<1>7. ASSUME NEW a \in Addrs, NEW call \in Calls, TradeCall(a, call) PROVE FALSE
  <2> DEFINE size == DecodeUint256(call.words[1])
  <2>1. /\ size \in Int /\ call.market \in Markets
        /\ entered \in [Markets -> Int]
    <3>1. call.words \in Seq(Words) /\ Len(call.words) >= 2
      BY <1>7, ChainAssumption DEF Call, TradeCall, ExecuteTradeCall
    <3>2. 1 \in 1 .. Len(call.words)
      BY <3>1
    <3> QED BY <3>2, CallTypes DEF InductiveInv, TypeOK, PrecompilesTypeOK
  <2>2. size # 0 /\ entered' = [entered EXCEPT ![call.market] = @ + size]
    BY <1>7 DEF TradeCall, ExecuteTradeCall, ExecuteTrade, TradeAccepted
  <2> HIDE DEF size
  <2>3. entered'[call.market] = entered[call.market] + size
    BY <2>1, <2>2
  <2> QED BY <2>1, <2>2, <2>3
<1>8. CASE EndBlockStep
  BY <1>8 DEF EndBlockStep, riskInputs
<1>9. CASE UNCHANGED vars
  BY <1>9 DEF vars
<1> QED BY <1>1, <1>2, <1>3, <1>4, <1>5, <1>6, <1>7, <1>8, <1>9 DEF Next

(* In every run of the chain, a step that is not part of a trade leaves a  *)
(* position as it is, deletes it, or moves it towards zero without         *)
(* changing its side, its entry price or its margin.                       *)
THEOREM PositionsOnlyShrink == Spec => OnlyTradesGrowPositions
<1>1. InductiveInv /\ [Next]_vars =>
        (leg = "idle" /\ entered' = entered => \A a \in Addrs, m \in Markets : Shrunk(a, m))
  <2> SUFFICES ASSUME InductiveInv, [Next]_vars, leg = "idle", entered' = entered,
                      NEW a \in Addrs, NEW m \in Markets
               PROVE  Shrunk(a, m)
    OBVIOUS
  <2>1. CASE \E b \in Addrs, n \in Markets : LiquidateMsg(b, n)
    BY <2>1, LiquidateShrinks
  <2>2. CASE \A b \in Addrs, n \in Markets : ~LiquidateMsg(b, n)
    <3>1. positions' = positions
      BY <2>2, OthersKeepPositions
    <3> QED BY <3>1 DEF Shrunk
  <2> QED BY <2>1, <2>2
<1>2. InductiveInv /\ [Next]_vars =>
        [leg = "idle" /\ entered' = entered =>
           \A a \in Addrs, m \in Markets :
             LET old == positions[a][m]
                 new == positions'[a][m]
             IN  new # old /\ new \notin {NoEntry, Blank} =>
                   /\ old # NoEntry
                   /\ [new EXCEPT !.size = old.size] = old
                   /\ Abs(new.size) < Abs(old.size)
                   /\ new.size > 0 <=> old.size > 0]_vars
  BY <1>1 DEF Shrunk
<1> QED BY <1>2, Invariance, PTL DEF Spec, OnlyTradesGrowPositions
=============================================================================
