-------------------------- MODULE SettlementProofs --------------------------
(***************************************************************************)
(* Proofs about the chain's sums: what an account holds in all, the open   *)
(* interest of a market, what a scan charges and a funding round pays.     *)
(* They hold for every finite set of addresses and markets, every          *)
(* parameter of the keepers and both builds of the codec.                  *)
(***************************************************************************)
EXTENDS ChainProofs, SumTheorems

(***************************************************************************)
(* The sums under a change of one account and one position.                *)
(***************************************************************************)
Margins(row) == [m \in Markets |-> MarginOf(row[m])]
Sizes(posns, m) == [a \in Addrs |-> SizeOf(posns[a][m])]

LEMMA MarginOfInt ==
  ASSUME NEW p \in PositionRecord \cup {NoEntry, Blank}
  PROVE  MarginOf(p) \in Int /\ SizeOf(p) \in Int
BY DEF MarginOf, SizeOf, PositionRecord

LEMMA HoldingsInt ==
  ASSUME NEW accts \in Accounts, NEW posns \in Positions, NEW a \in Addrs
  PROVE  /\ CollateralIn(accts, a) \in Int
         /\ SumFunction(Margins(posns[a])) \in Int
         /\ HoldingsIn(accts, posns, a)
              = CollateralIn(accts, a) + SumFunction(Margins(posns[a]))
         /\ HoldingsIn(accts, posns, a) \in Int
<1>1. CollateralIn(accts, a) \in Int
  BY DEF CollateralIn
<1>2. \A m \in Markets : Margins(posns[a])[m] \in Int
  BY MarginOfInt DEF Margins, Positions
<1>3. DOMAIN Margins(posns[a]) = Markets
  BY DEF Margins
<1>4. SumFunction(Margins(posns[a])) \in Int
  BY <1>2, <1>3, MarketsAssumption, SumRemove DEF SumFunction
<1>5. HoldingsIn(accts, posns, a) = CollateralIn(accts, a) + SumFunction(Margins(posns[a]))
  BY DEF HoldingsIn, Margins
<1> QED BY <1>1, <1>4, <1>5

LEMMA MarginsUpdate ==
  ASSUME NEW old \in [Markets -> PositionRecord \cup {NoEntry, Blank}],
         NEW new \in [Markets -> PositionRecord \cup {NoEntry, Blank}],
         NEW m \in Markets, \A n \in Markets : n # m => new[n] = old[n]
  PROVE  SumFunction(Margins(new))
           = SumFunction(Margins(old)) + (MarginOf(new[m]) - MarginOf(old[m]))
<1> DEFINE f == Margins(old)
           g == Margins(new)
<1>1. DOMAIN f = Markets /\ DOMAIN g = Markets
  BY DEF Margins
<1>2. /\ \A n \in Markets : f[n] \in Int
      /\ \A n \in Markets : g[n] \in Int
      /\ \A n \in Markets : n # m => g[n] = f[n]
      /\ g[m] = MarginOf(new[m]) /\ f[m] = MarginOf(old[m])
  BY MarginOfInt DEF Margins
<1> HIDE DEF f, g
<1>3. SumFunctionOnSet(g, Markets) = SumFunctionOnSet(f, Markets) + (g[m] - f[m])
  BY <1>2, MarketsAssumption, SumUpdate
<1> QED BY <1>1, <1>2, <1>3 DEF SumFunction, f, g

LEMMA OpenInterestInt ==
  ASSUME NEW posns \in Positions, NEW m \in Markets
  PROVE  OpenInterestIn(posns, m) \in Int
<1>1. \A a \in Addrs : Sizes(posns, m)[a] \in Int
  BY MarginOfInt DEF Sizes, Positions
<1>2. DOMAIN Sizes(posns, m) = Addrs
  BY DEF Sizes
<1> QED BY <1>1, <1>2, AddrsAssumption, SumRemove DEF OpenInterestIn, Sizes, SumFunction

LEMMA OpenInterestUpdate ==
  ASSUME NEW old \in Positions, NEW new \in Positions, NEW a \in Addrs, NEW m \in Markets,
         \A b \in Addrs, n \in Markets : <<b, n>> # <<a, m>> => new[b][n] = old[b][n],
         NEW n \in Markets
  PROVE  OpenInterestIn(new, n)
           = OpenInterestIn(old, n)
               + IF n = m THEN SizeOf(new[a][m]) - SizeOf(old[a][m]) ELSE 0
<1> DEFINE f == Sizes(old, n)
           g == Sizes(new, n)
<1>1. DOMAIN f = Addrs /\ DOMAIN g = Addrs
  BY DEF Sizes
<1>2. /\ \A b \in Addrs : f[b] \in Int
      /\ \A b \in Addrs : g[b] \in Int
  BY MarginOfInt DEF Sizes, Positions
<1>3. \A b \in Addrs : b # a => g[b] = f[b]
  BY DEF Sizes
<1>4. g[a] - f[a] = IF n = m THEN SizeOf(new[a][m]) - SizeOf(old[a][m]) ELSE 0
  <2>1. CASE n = m
    BY <2>1 DEF Sizes
  <2>2. CASE n # m
    <3>1. g[a] = f[a] /\ f[a] \in Int
      BY <1>2, <2>2 DEF Sizes
    <3> HIDE DEF f, g
    <3> QED BY <2>2, <3>1
  <2> QED BY <2>1, <2>2
<1>5. OpenInterestIn(new, n) = SumFunction(g) /\ OpenInterestIn(old, n) = SumFunction(f)
  BY DEF OpenInterestIn, Sizes
<1> HIDE DEF f, g
<1>6. SumFunctionOnSet(g, Addrs) = SumFunctionOnSet(f, Addrs) + (g[a] - f[a])
  BY <1>2, <1>3, AddrsAssumption, SumUpdate
<1> QED BY <1>1, <1>4, <1>5, <1>6 DEF SumFunction

(***************************************************************************)
(* One account pays, one position moves: what a leg of a trade and a       *)
(* liquidation have in common.                                             *)
(***************************************************************************)
CellMove(a, m) ==
  /\ CodecBuild = "protoc"
  /\ accounts' = [accounts EXCEPT ![a] = accounts'[a]]
  /\ accounts'[a] \in Nat /\ accounts'[a] <= CollateralIn(accounts, a)
  /\ positions' = [positions EXCEPT ![a][m] = positions'[a][m]]
  /\ positions'[a][m] # NoEntry =>
       /\ positions'[a][m] \in PositionRecord
       /\ positions'[a][m].size # 0 /\ positions'[a][m].margin >= 0
  /\ accounts'[a] + MarginOf(positions'[a][m])
       <= CollateralIn(accounts, a) + MarginOf(positions[a][m])

(* Nobody holds more than before. *)
NobodyGains ==
  \A b \in Addrs :
    /\ CollateralIn(accounts', b) <= CollateralIn(accounts, b)
    /\ HoldingsIn(accounts', positions', b) <= HoldingsIn(accounts, positions, b)

LEMMA CellMoveStores ==
  ASSUME accounts \in Accounts, positions \in Positions,
         NEW a \in Addrs, NEW m \in Markets, CellMove(a, m)
  PROVE  /\ accounts' \in Accounts /\ positions' \in Positions
         /\ \A b \in Addrs : b # a => accounts'[b] = accounts[b]
         /\ \A b \in Addrs, n \in Markets :
              <<b, n>> # <<a, m>> => positions'[b][n] = positions[b][n]
<1>1. accounts'[a] \in Int /\ positions'[a][m] \in PositionRecord \cup {NoEntry}
  BY DEF CellMove
<1>2. /\ accounts' = [accounts EXCEPT ![a] = accounts'[a]]
      /\ positions' = [positions EXCEPT ![a][m] = positions'[a][m]]
  BY DEF CellMove
<1>3. accounts' \in Accounts /\ \A b \in Addrs : b # a => accounts'[b] = accounts[b]
  BY <1>1, <1>2 DEF Accounts
<1>4. /\ positions' \in Positions
      /\ \A b \in Addrs, n \in Markets :
              <<b, n>> # <<a, m>> => positions'[b][n] = positions[b][n]
  BY <1>1, <1>2 DEF Positions
<1> QED BY <1>3, <1>4

LEMMA CellMoveNobodyGains ==
  ASSUME accounts \in Accounts, positions \in Positions,
         NEW a \in Addrs, NEW m \in Markets, CellMove(a, m)
  PROVE  NobodyGains
<1> USE CellMoveStores
<1> SUFFICES ASSUME NEW b \in Addrs
             PROVE  /\ CollateralIn(accounts', b) <= CollateralIn(accounts, b)
                    /\ HoldingsIn(accounts', positions', b) <= HoldingsIn(accounts, positions, b)
  BY DEF NobodyGains
<1>1. CASE b # a
  <2>1. accounts'[b] = accounts[b] /\ Margins(positions'[b]) = Margins(positions[b])
    BY <1>1 DEF Margins
  <2>2. CollateralIn(accounts', b) = CollateralIn(accounts, b)
    BY <2>1 DEF CollateralIn
  <2> QED BY <2>1, <2>2, HoldingsInt
<1>2. CASE b = a
  <2>1. CollateralIn(accounts', a) = accounts'[a]
        /\ accounts'[a] \in Nat /\ accounts'[a] <= CollateralIn(accounts, a)
    BY DEF CollateralIn, CellMove
  <2>2. SumFunction(Margins(positions'[a]))
          = SumFunction(Margins(positions[a]))
              + (MarginOf(positions'[a][m]) - MarginOf(positions[a][m]))
    <3>1. /\ positions[a] \in [Markets -> PositionRecord \cup {NoEntry, Blank}]
          /\ positions'[a] \in [Markets -> PositionRecord \cup {NoEntry, Blank}]
          /\ \A n \in Markets : n # m => positions'[a][n] = positions[a][n]
      BY DEF Positions
    <3> QED BY <3>1, MarginsUpdate
  <2>3. MarginOf(positions'[a][m]) \in Int /\ MarginOf(positions[a][m]) \in Int
    BY MarginOfInt DEF Positions
  <2>4. accounts'[a] + MarginOf(positions'[a][m])
          <= CollateralIn(accounts, a) + MarginOf(positions[a][m])
    BY DEF CellMove
  <2>5. /\ HoldingsIn(accounts', positions', a)
             = accounts'[a] + SumFunction(Margins(positions'[a]))
        /\ HoldingsIn(accounts, positions, a)
             = CollateralIn(accounts, a) + SumFunction(Margins(positions[a]))
        /\ CollateralIn(accounts, a) \in Int /\ SumFunction(Margins(positions[a])) \in Int
    BY <2>1, HoldingsInt
  <2> QED BY <1>2, <2>1, <2>2, <2>3, <2>4, <2>5
<1> QED BY <1>1, <1>2

LEMMA CellMoveSound ==
  ASSUME InductiveInv, SoundStores(accounts, positions), netDeposits' = netDeposits,
         NEW a \in Addrs, NEW m \in Markets, CellMove(a, m)
  PROVE  SoundStores(accounts, positions)'
<1>1. /\ accounts \in Accounts /\ positions \in Positions
      /\ accounts' \in Accounts /\ positions' \in Positions
      /\ \A b \in Addrs : b # a => accounts'[b] = accounts[b]
      /\ \A b \in Addrs, n \in Markets :
              <<b, n>> # <<a, m>> => positions'[b][n] = positions[b][n]
      /\ netDeposits \in [Addrs -> Int]
  BY StoreTypes, CellMoveStores
<1>2. \A b \in Addrs, n \in Markets :
        positions'[b][n] # NoEntry =>
          /\ positions'[b][n] # Blank /\ CodecBuild = "protoc"
          /\ positions'[b][n].size # 0 /\ positions'[b][n].margin >= 0
  BY <1>1, EntryAssumption DEF SoundStores, CellMove
<1>3. \A b \in Addrs : accounts'[b] # NoEntry => (accounts'[b] \in Int <=> CodecBuild = "protoc")
  BY <1>1 DEF SoundStores, CellMove
<1>4. \A b \in Addrs : HoldingsIn(accounts', positions', b) <= netDeposits'[b]
  <2> SUFFICES ASSUME NEW b \in Addrs
               PROVE  HoldingsIn(accounts', positions', b) <= netDeposits[b]
    OBVIOUS
  <2>1. HoldingsIn(accounts', positions', b) <= HoldingsIn(accounts, positions, b)
    BY <1>1, CellMoveNobodyGains DEF NobodyGains
  <2>2. /\ HoldingsIn(accounts', positions', b) \in Int
        /\ HoldingsIn(accounts, positions, b) \in Int
        /\ netDeposits[b] \in Int
    BY <1>1, HoldingsInt
  <2>3. HoldingsIn(accounts, positions, b) <= netDeposits[b]
    BY DEF SoundStores
  <2> QED BY <2>1, <2>2, <2>3
<1>5. \A b \in Addrs : HoldingsIn(accounts, positions, b)' = HoldingsIn(accounts', positions', b)
  BY DEF HoldingsIn, CollateralIn, MarginOf
<1> QED BY <1>2, <1>3, <1>4, <1>5 DEF SoundStores

LEMMA SetPositionCell ==
  ASSUME positions \in Positions, NEW a \in Addrs, NEW m \in Markets,
         NEW p \in PositionRecord, SetPosition(a, m, p), CodecBuild = "protoc"
  PROVE  /\ positions' = [positions EXCEPT ![a][m] = positions'[a][m]]
         /\ positions'[a][m] = p /\ SizeOf(p) = p.size /\ MarginOf(p) = p.margin
<1>1. positions' = [positions EXCEPT ![a][m] = p]
  BY DEF SetPosition, Stored
<1>2. positions'[a][m] = p
  BY <1>1 DEF Positions
<1>3. SizeOf(p) = p.size /\ MarginOf(p) = p.margin
  BY EntryAssumption DEF SizeOf, MarginOf
<1> QED BY <1>1, <1>2, <1>3

LEMMA DeletePositionCell ==
  ASSUME positions \in Positions, NEW a \in Addrs, NEW m \in Markets, DeletePosition(a, m)
  PROVE  /\ positions' = [positions EXCEPT ![a][m] = positions'[a][m]]
         /\ positions'[a][m] = NoEntry
         /\ SizeOf(positions'[a][m]) = 0 /\ MarginOf(positions'[a][m]) = 0
<1>1. positions' = [positions EXCEPT ![a][m] = NoEntry]
  BY DEF DeletePosition
<1>2. positions'[a][m] = NoEntry
  BY <1>1 DEF Positions
<1> QED BY <1>1, <1>2 DEF SizeOf, MarginOf

(* A trade moves the size of the position by its own and locks at most     *)
(* what was debited for it: less, when it closes the position exactly.     *)
LEMMA OpenPositionCell ==
  ASSUME positions \in Positions, CodecBuild = "protoc",
         NEW a \in Addrs, NEW m \in Markets, positions[a][m] # Blank,
         HasPosition(a, m) => positions[a][m].margin >= 0,
         NEW size \in Int, size # 0, NEW price \in Int, NEW margin \in Nat, NEW cum \in Int,
         OpenPosition(a, m, size, price, margin, cum)
  PROVE  LET old == positions[a][m]
             new == positions'[a][m]
         IN  /\ positions' = [positions EXCEPT ![a][m] = new]
             /\ new # NoEntry => new \in PositionRecord /\ new.size # 0 /\ new.margin >= 0
             /\ SizeOf(new) = SizeOf(old) + size
             /\ MarginOf(new) <= MarginOf(old) + margin
<1> DEFINE old == positions[a][m]
<1>1. CASE ~HasPosition(a, m)
  <2> DEFINE p == [size |-> size, avg |-> price, margin |-> margin, lastCum |-> cum]
  <2>1. p \in PositionRecord /\ SetPosition(a, m, p) /\ p.size = size /\ p.margin = margin
    BY <1>1 DEF OpenPosition, PositionRecord
  <2>2. SizeOf(old) = 0 /\ MarginOf(old) = 0
    BY <1>1 DEF HasPosition, SizeOf, MarginOf
  <2> HIDE DEF p
  <2> QED BY <2>1, <2>2, SetPositionCell
<1>2. CASE HasPosition(a, m)
  <2>1. /\ old \in PositionRecord /\ old.size \in Int /\ old.margin \in Int /\ old.avg \in Int
        /\ SizeOf(old) = old.size /\ MarginOf(old) = old.margin
    BY <1>2, EntryAssumption DEF HasPosition, Positions, PositionRecord, SizeOf, MarginOf
  <2>2. CASE old.size + size = 0
    <3>1. DeletePosition(a, m)
      BY <1>2, <2>2 DEF OpenPosition
    <3>2. /\ positions' = [positions EXCEPT ![a][m] = positions'[a][m]]
          /\ positions'[a][m] = NoEntry
          /\ SizeOf(positions'[a][m]) = 0 /\ MarginOf(positions'[a][m]) = 0
      BY <3>1, DeletePositionCell
    <3>3. MarginOf(positions'[a][m]) <= MarginOf(old) + margin
      <4>1. old.margin >= 0
        BY <1>2
      <4> HIDE DEF old
      <4> QED BY <2>1, <3>2, <4>1
    <3>4. SizeOf(positions'[a][m]) = SizeOf(old) + size
      BY <2>1, <2>2, <3>2
    <3> QED BY <3>2, <3>3, <3>4
  <2>3. CASE old.size + size # 0
    <3> DEFINE p == [size    |-> old.size + size,
                     avg     |-> AvgEntryPrice(old, size, price),
                     margin  |-> old.margin + margin,
                     lastCum |-> cum]
    <3>1. AvgEntryPrice(old, size, price) \in Int
      <4>1. Mul(old.size, old.avg) \in Int /\ Mul(size, price) \in Int
        <5>1. old.size \in Int /\ old.avg \in Int
          BY <2>1
        <5> QED BY <5>1, MulType
      <4> QED BY <2>1, <2>3, <4>1, QuoType DEF AvgEntryPrice
    <3>2. p \in PositionRecord /\ SetPosition(a, m, p)
      BY <1>2, <2>1, <2>3, <3>1 DEF OpenPosition, PositionRecord
    <3>3. p.size = old.size + size /\ p.margin = old.margin + margin
      OBVIOUS
    <3> HIDE DEF p
    <3> QED BY <1>2, <2>1, <2>3, <3>2, <3>3, SetPositionCell
  <2> QED BY <2>2, <2>3
<1> QED BY <1>1, <1>2

(* Only an account that reads back pays for a trade. *)
LEMMA TradeEffect ==
  ASSUME InductiveInv, SoundStores(accounts, positions),
         NEW a \in Addrs, NEW m \in Markets, NEW size \in Int, NEW price \in Int,
         ExecuteTrade(a, m, size, price)
  PROVE  /\ CellMove(a, m)
         /\ accounts'[a] < CollateralIn(accounts, a)
         /\ SizeOf(positions'[a][m]) = SizeOf(positions[a][m]) + size
<1> DEFINE r == RequiredMargin(size, price)
           c == GetCollateral(a) - r
<1>1. /\ r \in Int /\ r > 0 /\ GetCollateral(a) >= r
      /\ accounts[a] # Blank /\ positions[a][m] # Blank /\ size # 0
      /\ SetAccount(a, c)
      /\ OpenPosition(a, m, size, price, r, cumFunding[m][a])
  BY RequiredMarginInt DEF ExecuteTrade, TradeAccepted, CanDeduct, DeductMargin
<1>2. /\ GetCollateral(a) \in Nat /\ cumFunding[m][a] \in Int
      /\ accounts \in Accounts /\ positions \in Positions
  BY <1>1, StoreTypes, CollateralNat DEF InductiveInv, TypeOK, FundingTypeOK
<1> HIDE DEF r
<1>3. accounts[a] # NoEntry
  BY <1>1 DEF GetCollateral
<1>4. accounts[a] \in Int /\ CodecBuild = "protoc"
  BY <1>1, <1>2, <1>3 DEF Accounts, SoundStores
<1>5. CollateralIn(accounts, a) = GetCollateral(a)
  BY <1>3, <1>4 DEF CollateralIn, GetCollateral
<1>6. /\ accounts' = [accounts EXCEPT ![a] = accounts'[a]]
      /\ accounts'[a] = c
  BY <1>1, <1>2, <1>4 DEF SetAccount, Stored, Accounts
<1>7. c \in Nat /\ c < GetCollateral(a)
  BY <1>1, <1>2
<1>8. HasPosition(a, m) => positions[a][m].margin >= 0
  BY DEF HasPosition, SoundStores
<1>9. /\ positions' = [positions EXCEPT ![a][m] = positions'[a][m]]
      /\ positions'[a][m] # NoEntry =>
           /\ positions'[a][m] \in PositionRecord
           /\ positions'[a][m].size # 0 /\ positions'[a][m].margin >= 0
      /\ SizeOf(positions'[a][m]) = SizeOf(positions[a][m]) + size
      /\ MarginOf(positions'[a][m]) <= MarginOf(positions[a][m]) + r
  BY <1>1, <1>2, <1>4, <1>8, OpenPositionCell, r \in Nat
<1>10. accounts'[a] + MarginOf(positions'[a][m])
         <= CollateralIn(accounts, a) + MarginOf(positions[a][m])
  <2>1. MarginOf(positions[a][m]) \in Int
    BY <1>2, MarginOfInt DEF Positions
  <2>2. MarginOf(positions'[a][m]) \in Int
    BY <1>9, MarginOfInt
  <2>3. MarginOf(positions'[a][m]) <= MarginOf(positions[a][m]) + r
    BY <1>9
  <2>4. c + MarginOf(positions'[a][m]) <= GetCollateral(a) + MarginOf(positions[a][m])
    BY <1>1, <1>2, <2>1, <2>2, <2>3
  <2> HIDE DEF c
  <2> QED BY <1>5, <1>6, <2>4
<1>11. accounts'[a] \in Nat /\ accounts'[a] < CollateralIn(accounts, a)
         /\ accounts'[a] <= CollateralIn(accounts, a)
  BY <1>2, <1>5, <1>6, <1>7
<1> QED BY <1>4, <1>6, <1>9, <1>10, <1>11 DEF CellMove

(* A liquidation leaves half of the position's size or none of it.         *)
LEMMA LiquidationEffect ==
  ASSUME InductiveInv, SoundStores(accounts, positions),
         NEW a \in Addrs, NEW m \in Markets, LiquidateMsg(a, m)
  PROVE  /\ CellMove(a, m)
         /\ \/ 0 <= SizeOf(positions'[a][m])
               /\ SizeOf(positions'[a][m]) < SizeOf(positions[a][m])
            \/ SizeOf(positions[a][m]) < SizeOf(positions'[a][m])
               /\ SizeOf(positions'[a][m]) <= 0
         /\ removed' = [removed EXCEPT
              ![m] = @ + SizeOf(positions[a][m]) - SizeOf(positions'[a][m])]
<1> DEFINE c == ChargeAtMost(GetCollateral(a), Penalty(a, m, PartialRate))
           old == positions[a][m]
           size == ReducedSize(old.size, PartialRate)
           new == [old EXCEPT !.size = size]
<1>1. /\ Readable(a) /\ HasPosition(a, m)
      /\ SetAccount(a, c) /\ ReducePosition(a, m, PartialRate)
      /\ removed' = [removed EXCEPT ![m] = @ + old.size - SizeOf(positions'[a][m])]
  BY DEF LiquidateMsg, Liquidate, ExecuteLiquidation
<1>2. /\ accounts[a] # Blank /\ GetCollateral(a) \in Nat
      /\ accounts \in Accounts /\ positions \in Positions
  BY <1>1, StoreTypes, CollateralNat DEF Readable
<1>3. /\ old # Blank /\ CodecBuild = "protoc" /\ old.size # 0 /\ old.margin >= 0
  BY <1>1 DEF SoundStores, HasPosition
<1>4. /\ old \in PositionRecord /\ old.size \in Int /\ old.margin \in Int
      /\ SizeOf(old) = old.size /\ MarginOf(old) = old.margin
  BY <1>1, <1>2, <1>3, EntryAssumption
  DEF HasPosition, Positions, PositionRecord, SizeOf, MarginOf
<1>5. PartialRate \in 0 .. One /\ One - PartialRate = One \div 2
  BY OneAssumption DEF PartialRate
<1>6. size \in Int /\ (size # 0 => Abs(size) < Abs(old.size) /\ (size > 0 <=> old.size > 0))
  BY <1>4, <1>5, HalfShrinks DEF ReducedSize
<1>7. c \in Nat /\ c <= GetCollateral(a)
  <2>1. Penalty(a, m, PartialRate) \in Nat
    BY <1>4, <1>5, PenaltyNat DEF InductiveInv, TypeOK
  <2> QED BY <1>2, <2>1, ChargeBounds
<1>8. GetCollateral(a) = CollateralIn(accounts, a)
  BY <1>2, CodecAssumption DEF Accounts, GetCollateral, CollateralIn
<1> HIDE DEF c
<1>9. accounts' = [accounts EXCEPT ![a] = accounts'[a]] /\ accounts'[a] = c
  BY <1>1, <1>2, <1>3 DEF SetAccount, Stored, Accounts
<1>10. new \in PositionRecord /\ new.size = size /\ new.margin = old.margin
  BY <1>4, <1>6 DEF PositionRecord
<1>11. \/ DeletePosition(a, m)
       \/ size # 0 /\ SetPosition(a, m, new)
  BY <1>1, <1>6, DustAssumption DEF ReducePosition, Abs
<1> HIDE DEF size, new
<1>12. CASE DeletePosition(a, m)
  <2>1. /\ positions' = [positions EXCEPT ![a][m] = positions'[a][m]]
        /\ positions'[a][m] = NoEntry
        /\ SizeOf(positions'[a][m]) = 0 /\ MarginOf(positions'[a][m]) = 0
    BY <1>2, <1>12, DeletePositionCell
  <2>2. CellMove(a, m)
    BY <1>2, <1>3, <1>4, <1>7, <1>8, <1>9, <2>1 DEF CellMove
  <2> QED BY <1>1, <1>3, <1>4, <2>1, <2>2
<1>13. CASE size # 0 /\ SetPosition(a, m, new)
  <2>1. /\ positions' = [positions EXCEPT ![a][m] = positions'[a][m]]
        /\ positions'[a][m] = new
        /\ SizeOf(positions'[a][m]) = size /\ MarginOf(positions'[a][m]) = old.margin
    BY <1>2, <1>3, <1>10, <1>13, SetPositionCell
  <2>2. CellMove(a, m)
    BY <1>2, <1>3, <1>4, <1>7, <1>8, <1>9, <1>10, <1>13, <2>1 DEF CellMove
  <2>3. \/ 0 <= size /\ size < old.size
        \/ old.size < size /\ size <= 0
    BY <1>3, <1>4, <1>6, <1>13 DEF Abs
  <2> QED BY <1>1, <1>4, <2>1, <2>2, <2>3
<1> QED BY <1>11, <1>12, <1>13

(***************************************************************************)
(* The invariant of the sums, action by action.                            *)
(***************************************************************************)

(* One account is credited or debited, and its net deposits with it. *)
LEMMA PaymentSound ==
  ASSUME InductiveInv, SoundStores(accounts, positions), positions' = positions,
         NEW a \in Addrs, NEW c \in Nat, accounts[a] # Blank, SetAccount(a, c),
         netDeposits' \in [Addrs -> Int],
         \A b \in Addrs : b # a => netDeposits'[b] = netDeposits[b],
         c - netDeposits'[a] <= CollateralIn(accounts, a) - netDeposits[a]
  PROVE  SoundStores(accounts, positions)'
<1>1. /\ accounts \in Accounts /\ positions \in Positions /\ netDeposits \in [Addrs -> Int]
      /\ accounts' \in Accounts
      /\ accounts'[a] \in {c, Blank}
      /\ \A b \in Addrs : b # a => accounts'[b] = accounts[b]
  BY StoreTypes, SetAccountEffect
<1>2. accounts'[a] \in Int <=> CodecBuild = "protoc"
  BY <1>1, CodecAssumption DEF SetAccount, Stored, Accounts
<1>3. CollateralIn(accounts', a) <= c
  BY <1>1, CodecAssumption DEF CollateralIn
<1>4. \A b \in Addrs : HoldingsIn(accounts', positions, b) <= netDeposits'[b]
  <2> SUFFICES ASSUME NEW b \in Addrs
               PROVE  HoldingsIn(accounts', positions, b) <= netDeposits'[b]
    OBVIOUS
  <2>1. /\ HoldingsIn(accounts', positions, b)
             = CollateralIn(accounts', b) + SumFunction(Margins(positions[b]))
        /\ HoldingsIn(accounts, positions, b)
             = CollateralIn(accounts, b) + SumFunction(Margins(positions[b]))
        /\ SumFunction(Margins(positions[b])) \in Int
        /\ CollateralIn(accounts', b) \in Int /\ CollateralIn(accounts, b) \in Int
    BY <1>1, HoldingsInt
  <2>2. HoldingsIn(accounts, positions, b) <= netDeposits[b] /\ netDeposits[b] \in Int
        /\ netDeposits'[b] \in Int
    BY <1>1 DEF SoundStores
  <2>3. CASE b = a
    BY <1>3, <2>1, <2>2, <2>3
  <2>4. CASE b # a
    <3>1. CollateralIn(accounts', b) = CollateralIn(accounts, b)
      BY <1>1, <2>4 DEF CollateralIn
    <3> QED BY <1>1, <2>1, <2>2, <2>4, <3>1
  <2> QED BY <2>3, <2>4
<1>5. \A b \in Addrs : HoldingsIn(accounts, positions, b)' = HoldingsIn(accounts', positions, b)
  BY DEF HoldingsIn, CollateralIn, MarginOf
<1> QED BY <1>1, <1>2, <1>4, <1>5 DEF SoundStores

(* Between messages, and at the start and the end of a batch, nothing is   *)
(* half settled.                                                           *)
LEMMA RestKeepsSums ==
  ASSUME leg' = "idle", SoundStores(accounts, positions)',
         \A m \in Markets : OpenInterestIn(positions, m)' + removed'[m] = entered'[m],
         entered' \in [Markets -> Int]
  PROVE  SettlementInv'
BY DEF SettlementInv, HalfOpen

LEMMA RestMeans ==
  ASSUME SettlementInv, InductiveInv, leg # "taker"
  PROVE  /\ \A m \in Markets : OpenInterestIn(positions, m) + removed[m] = entered[m]
         /\ \A m \in Markets : OpenInterestIn(positions, m) \in Int
         /\ entered \in [Markets -> Int] /\ removed \in [Markets -> Int]
BY StoreTypes, OpenInterestInt
DEF SettlementInv, HalfOpen, InductiveInv, TypeOK, LiquidationTypeOK, PrecompilesTypeOK

(* Steps that leave the stores alone, or write one account. *)
LEMMA PaymentKeepsSums ==
  ASSUME InductiveInv, SettlementInv, leg = "idle", leg' = "idle",
         UNCHANGED <<positions, removed, entered>>,
         SoundStores(accounts, positions)'
  PROVE  SettlementInv'
<1>1. \A m \in Markets : OpenInterestIn(positions, m)' = OpenInterestIn(positions, m)
  BY DEF OpenInterestIn, SizeOf
<1>2. leg # "taker"
  OBVIOUS
<1> QED BY <1>1, <1>2, RestMeans, RestKeepsSums

LEMMA QuietKeepsSums ==
  ASSUME InductiveInv, SettlementInv,
         UNCHANGED <<accounts, positions, settlementVars, removed, entered, netDeposits>>
  PROVE  SettlementInv'
BY DEF SettlementInv, SoundStores, HoldingsIn, CollateralIn, MarginOf, OpenInterestIn, SizeOf,
       HalfOpen, MakerSize, settlementVars

LEMMA DepositKeepsSums ==
  ASSUME InductiveInv, SettlementInv, NEW a \in Addrs, NEW amount \in Int, DepositMsg(a, amount)
  PROVE  SettlementInv'
<1>1. /\ amount > 0 /\ Idle /\ UNCHANGED <<positions, settlementVars, removed, entered>>
      /\ accounts[a] # Blank /\ SetAccount(a, GetCollateral(a) + amount)
      /\ netDeposits' = [netDeposits EXCEPT ![a] = @ + amount]
  BY DEF DepositMsg, Deposit, riskInputs
<1>2. /\ GetCollateral(a) \in Nat /\ netDeposits \in [Addrs -> Int]
      /\ GetCollateral(a) = CollateralIn(accounts, a)
  BY <1>1, StoreTypes, CollateralNat, CodecAssumption DEF GetCollateral, CollateralIn, Accounts
<1>3. /\ netDeposits' \in [Addrs -> Int]
      /\ \A b \in Addrs : b # a => netDeposits'[b] = netDeposits[b]
      /\ netDeposits'[a] = netDeposits[a] + amount /\ netDeposits[a] \in Int
  BY <1>1, <1>2
<1> DEFINE c == GetCollateral(a) + amount
<1>4. c \in Nat /\ SetAccount(a, c)
  BY <1>1, <1>2
<1>5. c - netDeposits'[a] <= CollateralIn(accounts, a) - netDeposits[a]
  BY <1>2, <1>3
<1> HIDE DEF c
<1>6. SoundStores(accounts, positions)'
  BY <1>1, <1>3, <1>4, <1>5, PaymentSound DEF SettlementInv
<1> QED BY <1>1, <1>6, PaymentKeepsSums DEF Idle, settlementVars

LEMMA WithdrawKeepsSums ==
  ASSUME InductiveInv, SettlementInv, NEW a \in Addrs, NEW amount \in Int, WithdrawMsg(a, amount)
  PROVE  SettlementInv'
<1>1. /\ amount > 0 /\ Idle /\ UNCHANGED <<positions, settlementVars, removed, entered>>
      /\ accounts[a] # Blank /\ GetCollateral(a) >= amount
      /\ SetAccount(a, GetCollateral(a) - amount)
      /\ netDeposits' = [netDeposits EXCEPT ![a] = @ - amount]
  BY DEF WithdrawMsg, Withdraw, riskInputs, Readable
<1>2. /\ GetCollateral(a) \in Nat /\ netDeposits \in [Addrs -> Int]
      /\ GetCollateral(a) = CollateralIn(accounts, a)
  BY <1>1, StoreTypes, CollateralNat, CodecAssumption DEF GetCollateral, CollateralIn, Accounts
<1>3. /\ netDeposits' \in [Addrs -> Int]
      /\ \A b \in Addrs : b # a => netDeposits'[b] = netDeposits[b]
      /\ netDeposits'[a] = netDeposits[a] - amount /\ netDeposits[a] \in Int
  BY <1>1, <1>2
<1>4. GetCollateral(a) - amount \in Nat
  BY <1>1, <1>2
<1>5. (GetCollateral(a) - amount) - netDeposits'[a] <= CollateralIn(accounts, a) - netDeposits[a]
  BY <1>2, <1>3
<1>6. SoundStores(accounts, positions)'
  BY <1>1, <1>3, <1>4, <1>5, PaymentSound DEF SettlementInv
<1> QED BY <1>1, <1>6, PaymentKeepsSums DEF Idle, settlementVars

LEMMA LiquidateKeepsSums ==
  ASSUME InductiveInv, SettlementInv, NEW a \in Addrs, NEW m \in Markets, LiquidateMsg(a, m)
  PROVE  SettlementInv'
<1>1. leg = "idle" /\ leg' = "idle" /\ UNCHANGED <<entered, netDeposits>>
  BY DEF LiquidateMsg, Idle, settlementVars
<1>2. SoundStores(accounts, positions)
  BY DEF SettlementInv
<1>3. /\ CellMove(a, m)
      /\ removed' = [removed EXCEPT
              ![m] = @ + SizeOf(positions[a][m]) - SizeOf(positions'[a][m])]
  BY <1>2, LiquidationEffect
<1>4. SoundStores(accounts, positions)'
  BY <1>1, <1>2, <1>3, CellMoveSound
<1>5. /\ positions \in Positions /\ positions' \in Positions
      /\ \A b \in Addrs, n \in Markets :
           <<b, n>> # <<a, m>> => positions'[b][n] = positions[b][n]
      /\ SizeOf(positions[a][m]) \in Int /\ SizeOf(positions'[a][m]) \in Int
  <2>1. positions \in Positions /\ positions' \in Positions
    BY <1>3, StoreTypes, CellMoveStores
  <2> QED BY <1>3, <2>1, StoreTypes, CellMoveStores, MarginOfInt DEF Positions
<1>6. ASSUME NEW n \in Markets
      PROVE  OpenInterestIn(positions, n)' + removed'[n] = entered'[n]
  <2>1. OpenInterestIn(positions', n)
          = OpenInterestIn(positions, n)
              + IF n = m THEN SizeOf(positions'[a][m]) - SizeOf(positions[a][m]) ELSE 0
    BY <1>5, OpenInterestUpdate
  <2>2. /\ OpenInterestIn(positions, n) + removed[n] = entered[n]
        /\ OpenInterestIn(positions, n) \in Int
        /\ removed \in [Markets -> Int] /\ removed[n] \in Int /\ entered[n] \in Int
    BY <1>1, RestMeans
  <2>3. removed'[n] = removed[n]
          + IF n = m THEN SizeOf(positions[a][m]) - SizeOf(positions'[a][m]) ELSE 0
    BY <1>3, <1>5, <2>2
  <2>4. OpenInterestIn(positions, n)' = OpenInterestIn(positions', n)
    BY DEF OpenInterestIn, SizeOf
  <2>5. entered'[n] = entered[n]
    BY <1>1
  <2> QED BY <1>5, <2>1, <2>2, <2>3, <2>4, <2>5
<1>7. entered' \in [Markets -> Int]
  BY <1>1, RestMeans
<1> QED BY <1>1, <1>4, <1>6, <1>7, RestKeepsSums

LEMMA TradeCallKeepsSums ==
  ASSUME InductiveInv, SettlementInv, NEW a \in Addrs, NEW call \in Calls, TradeCall(a, call)
  PROVE  SettlementInv'
<1> DEFINE size  == DecodeUint256(call.words[1])
           price == DecodeUint256(call.words[2])
           m == call.market
<1>1. size \in Int /\ price \in Int /\ m \in Markets
  <2>1. call.words \in Seq(Words) /\ Len(call.words) >= 2
    BY ChainAssumption DEF Call, TradeCall, ExecuteTradeCall
  <2>2. 1 \in 1 .. Len(call.words) /\ 2 \in 1 .. Len(call.words)
    BY <2>1
  <2> QED BY <2>2, CallTypes
<1>2. /\ ExecuteTrade(a, m, size, price)
      /\ entered' = [entered EXCEPT ![m] = @ + size]
      /\ leg = "idle" /\ leg' = "idle"
      /\ UNCHANGED <<removed, netDeposits>>
  BY DEF TradeCall, ExecuteTradeCall, Idle, settlementVars
<1> HIDE DEF size, price, m
<1>3. SoundStores(accounts, positions)
  BY DEF SettlementInv
<1>4. /\ CellMove(a, m)
      /\ SizeOf(positions'[a][m]) = SizeOf(positions[a][m]) + size
  BY <1>1, <1>2, <1>3, TradeEffect
<1>5. SoundStores(accounts, positions)'
  BY <1>1, <1>2, <1>3, <1>4, CellMoveSound
<1>6. /\ positions \in Positions /\ positions' \in Positions
      /\ \A b \in Addrs, n \in Markets :
           <<b, n>> # <<a, m>> => positions'[b][n] = positions[b][n]
      /\ SizeOf(positions[a][m]) \in Int
  <2>1. positions \in Positions /\ positions' \in Positions
    BY <1>1, <1>4, StoreTypes, CellMoveStores
  <2> QED BY <1>1, <1>4, <2>1, StoreTypes, CellMoveStores, MarginOfInt DEF Positions
<1>7. ASSUME NEW n \in Markets
      PROVE  OpenInterestIn(positions, n)' + removed'[n] = entered'[n]
  <2>1. OpenInterestIn(positions', n)
          = OpenInterestIn(positions, n)
              + IF n = m THEN SizeOf(positions'[a][m]) - SizeOf(positions[a][m]) ELSE 0
    BY <1>1, <1>6, OpenInterestUpdate
  <2>2. /\ OpenInterestIn(positions, n) + removed[n] = entered[n]
        /\ OpenInterestIn(positions, n) \in Int
        /\ entered \in [Markets -> Int] /\ removed[n] \in Int /\ entered[n] \in Int
    BY <1>2, RestMeans
  <2>3. entered'[n] = entered[n] + IF n = m THEN size ELSE 0
    BY <1>1, <1>2, <2>2
  <2>4. OpenInterestIn(positions, n)' = OpenInterestIn(positions', n)
    BY DEF OpenInterestIn, SizeOf
  <2>5. removed'[n] = removed[n]
    BY <1>2
  <2> QED BY <1>1, <1>4, <1>6, <2>1, <2>2, <2>3, <2>4, <2>5
<1>8. entered' \in [Markets -> Int]
  BY <1>1, <1>2, RestMeans
<1> QED BY <1>2, <1>5, <1>7, <1>8, RestKeepsSums

(* The legs of a batch ****************************************************)

(* A leg keeps the stores sound and gives nobody anything, so that what    *)
(* the batch would be rolled back to stays the most anybody can have.      *)
LEMMA LegKeepsSums ==
  ASSUME InductiveInv, SettlementInv, BatchFrame, leg # "idle", leg' # "idle", saved' = saved,
         NEW a \in Addrs, NEW m \in Markets, NEW size \in Int, NEW price \in Int,
         ExecuteTrade(a, m, size, price),
         \A n \in Markets : HalfOpen(n) \in Int,
         \A n \in Markets : HalfOpen(n)' = HalfOpen(n) + IF n = m THEN size ELSE 0
  PROVE  SettlementInv'
<1>1. /\ netDeposits' = netDeposits /\ removed' = removed /\ entered' = entered
      /\ removed \in [Markets -> Int] /\ entered \in [Markets -> Int]
  BY DEF BatchFrame, InductiveInv, TypeOK, LiquidationTypeOK, PrecompilesTypeOK
<1>2. SoundStores(accounts, positions)
  BY DEF SettlementInv
<1>3. /\ CellMove(a, m)
      /\ SizeOf(positions'[a][m]) = SizeOf(positions[a][m]) + size
  BY <1>2, TradeEffect
<1>4. SoundStores(accounts, positions)'
  BY <1>1, <1>2, <1>3, CellMoveSound
<1>5. /\ accounts \in Accounts /\ accounts' \in Accounts
      /\ positions \in Positions /\ positions' \in Positions
      /\ saved.accounts \in Accounts /\ saved.positions \in Positions
      /\ NobodyGains
      /\ \A b \in Addrs, n \in Markets :
           <<b, n>> # <<a, m>> => positions'[b][n] = positions[b][n]
  BY <1>3, StoreTypes, CellMoveStores, CellMoveNobodyGains
<1>6. ASSUME NEW n \in Markets
      PROVE  OpenInterestIn(positions, n)' + removed'[n] = entered'[n] + HalfOpen(n)'
  <2>1. OpenInterestIn(positions', n)
          = OpenInterestIn(positions, n)
              + IF n = m THEN SizeOf(positions'[a][m]) - SizeOf(positions[a][m]) ELSE 0
    BY <1>5, OpenInterestUpdate
  <2>2. /\ OpenInterestIn(positions, n) + removed[n] = entered[n] + HalfOpen(n)
        /\ OpenInterestIn(positions, n) \in Int
        /\ removed[n] \in Int /\ entered[n] \in Int /\ HalfOpen(n) \in Int
        /\ removed'[n] = removed[n] /\ entered'[n] = entered[n]
    BY <1>1, <1>5, OpenInterestInt DEF SettlementInv
  <2>3. SizeOf(positions[a][m]) \in Int
    BY <1>5, MarginOfInt DEF Positions
  <2>4. OpenInterestIn(positions, n)' = OpenInterestIn(positions', n)
    BY DEF OpenInterestIn, SizeOf
  <2>5. HalfOpen(n)' = HalfOpen(n) + IF n = m THEN size ELSE 0
    OBVIOUS
  <2> QED BY <1>3, <2>1, <2>2, <2>3, <2>4, <2>5
<1>7. SoundStores(saved.accounts, saved.positions)'
  BY <1>1 DEF SettlementInv, SoundStores, HoldingsIn, CollateralIn, MarginOf
<1>8. \A n \in Markets : OpenInterestIn(saved.positions, n)' + removed'[n] = entered'[n]
  BY <1>1 DEF SettlementInv, OpenInterestIn, SizeOf
<1>9. ASSUME NEW b \in Addrs
      PROVE  /\ CollateralIn(accounts, b)' <= CollateralIn(saved.accounts, b)'
             /\ HoldingsIn(accounts, positions, b)'
                  <= HoldingsIn(saved.accounts, saved.positions, b)'
  <2>1. /\ CollateralIn(accounts', b) <= CollateralIn(accounts, b)
        /\ HoldingsIn(accounts', positions', b) <= HoldingsIn(accounts, positions, b)
    BY <1>5 DEF NobodyGains
  <2>2. /\ CollateralIn(accounts, b) <= CollateralIn(saved.accounts, b)
        /\ HoldingsIn(accounts, positions, b)
                  <= HoldingsIn(saved.accounts, saved.positions, b)
    BY DEF SettlementInv
  <2>3. /\ CollateralIn(accounts, b)' = CollateralIn(accounts', b)
        /\ CollateralIn(saved.accounts, b)' = CollateralIn(saved.accounts, b)
        /\ HoldingsIn(accounts, positions, b)' = HoldingsIn(accounts', positions', b)
        /\ HoldingsIn(saved.accounts, saved.positions, b)'
             = HoldingsIn(saved.accounts, saved.positions, b)
    BY DEF CollateralIn, HoldingsIn, MarginOf
  <2>4. /\ CollateralIn(accounts', b) \in Int /\ CollateralIn(accounts, b) \in Int
        /\ CollateralIn(saved.accounts, b) \in Int
        /\ HoldingsIn(accounts', positions', b) \in Int
        /\ HoldingsIn(accounts, positions, b) \in Int
        /\ HoldingsIn(saved.accounts, saved.positions, b) \in Int
    BY <1>5, HoldingsInt
  <2> QED BY <2>1, <2>2, <2>3, <2>4
<1> QED BY <1>4, <1>6, <1>7, <1>8, <1>9 DEF SettlementInv

LEMMA MakerKeepsSums ==
  ASSUME InductiveInv, SettlementInv, BatchFrame, SettleMaker
  PROVE  SettlementInv'
<1> DEFINE trade == Head(batch)
<1>1. /\ leg = "maker" /\ batch # <<>> /\ leg' = "taker"
      /\ ExecuteTrade(trade.maker, trade.market, MakerSize(trade), trade.price)
      /\ UNCHANGED <<batchID, batch, saved>>
  BY DEF SettleMaker
<1>2. trade \in Trade
  BY <1>1 DEF InductiveInv, TypeOK, SettlementTypeOK
<1>3. \A n \in Markets : HalfOpen(n) = 0
  BY <1>1 DEF HalfOpen
<1>4. \A n \in Markets : HalfOpen(n)' = IF n = trade.market THEN MakerSize(trade) ELSE 0
  BY <1>1 DEF HalfOpen, MakerSize
<1>5. MakerSize(trade) \in Int /\ trade.maker \in Addrs /\ trade.market \in Markets
      /\ trade.price \in Int
  BY <1>2, TradeTypes
<1> DEFINE s == MakerSize(trade)
<1>6. \A n \in Markets : HalfOpen(n)' = HalfOpen(n) + IF n = trade.market THEN s ELSE 0
  BY <1>3, <1>4, <1>5
<1>7. \A n \in Markets : HalfOpen(n) \in Int
  BY <1>3
<1> HIDE DEF trade, s
<1>8. leg # "idle" /\ leg' # "idle" /\ saved' = saved
  BY <1>1
<1>9. ExecuteTrade(trade.maker, trade.market, s, trade.price) /\ s \in Int
  BY <1>1, <1>5 DEF s
<1> QED BY <1>5, <1>6, <1>7, <1>8, <1>9, LegKeepsSums

LEMMA TakerKeepsSums ==
  ASSUME InductiveInv, SettlementInv, BatchFrame, SettleTaker
  PROVE  SettlementInv'
<1> DEFINE trade == Head(batch)
           s == TakerSize(trade)
<1>1. /\ leg = "taker" /\ leg' = "maker"
      /\ ExecuteTrade(trade.taker, trade.market, s, trade.price)
      /\ saved' = saved
  BY DEF SettleTaker
<1>2. trade \in Trade
  BY <1>1 DEF InductiveInv, TypeOK, SettlementTypeOK
<1>3. \A n \in Markets : HalfOpen(n)' = 0
  BY <1>1 DEF HalfOpen
<1>4. \A n \in Markets : HalfOpen(n) = IF n = trade.market THEN MakerSize(trade) ELSE 0
  BY <1>1 DEF HalfOpen
<1>5. s \in Int /\ MakerSize(trade) = -s
      /\ trade.taker \in Addrs /\ trade.market \in Markets /\ trade.price \in Int
  BY <1>2 DEF Trade, MakerSize, TakerSize
<1> HIDE DEF trade, s
<1>6. \A n \in Markets : HalfOpen(n)' = HalfOpen(n) + IF n = trade.market THEN s ELSE 0
  BY <1>3, <1>4, <1>5
<1>7. \A n \in Markets : HalfOpen(n) \in Int
  BY <1>4, <1>5
<1>8. leg # "idle" /\ leg' # "idle"
  BY <1>1
<1> QED BY <1>1, <1>5, <1>6, <1>7, <1>8, LegKeepsSums

LEMMA BeginKeepsSums ==
  ASSUME InductiveInv, SettlementInv, BatchFrame, NEW matcher, NEW trades,
         SettleMatchedOrders(matcher, trades)
  PROVE  SettlementInv'
<1>1. /\ leg = "idle" /\ leg' = "maker"
      /\ saved' = [accounts |-> accounts, positions |-> positions]
      /\ UNCHANGED <<accounts, positions, removed, entered, netDeposits>>
  BY DEF SettleMatchedOrders, BeginBatch, BatchFrame
<1>2. saved'.accounts = accounts' /\ saved'.positions = positions'
  BY <1>1
<1>3. SoundStores(accounts, positions)'
  BY <1>1 DEF SettlementInv, SoundStores, HoldingsIn, CollateralIn, MarginOf
<1>4. SoundStores(saved.accounts, saved.positions)'
  BY <1>2, <1>3 DEF SoundStores, HoldingsIn, CollateralIn, MarginOf
<1>5. \A n \in Markets :
        /\ OpenInterestIn(positions, n)' + removed'[n] = entered'[n] + HalfOpen(n)'
        /\ OpenInterestIn(saved.positions, n)' + removed'[n] = entered'[n]
  <2>1. \A n \in Markets :
          /\ OpenInterestIn(positions, n) + removed[n] = entered[n]
          /\ OpenInterestIn(positions, n)' = OpenInterestIn(positions, n)
          /\ OpenInterestIn(saved.positions, n)' = OpenInterestIn(positions, n)
          /\ HalfOpen(n)' = 0 /\ entered[n] \in Int
    BY <1>1, <1>2, RestMeans DEF OpenInterestIn, SizeOf, HalfOpen
  <2> QED BY <1>1, <2>1
<1>6. ASSUME NEW b \in Addrs
      PROVE  /\ CollateralIn(accounts, b)' <= CollateralIn(saved.accounts, b)'
             /\ HoldingsIn(accounts, positions, b)'
                  <= HoldingsIn(saved.accounts, saved.positions, b)'
  <2>1. /\ CollateralIn(accounts, b)' = CollateralIn(accounts, b)
        /\ CollateralIn(saved.accounts, b)' = CollateralIn(accounts, b)
        /\ HoldingsIn(accounts, positions, b)' = HoldingsIn(accounts, positions, b)
        /\ HoldingsIn(saved.accounts, saved.positions, b)' = HoldingsIn(accounts, positions, b)
    BY <1>1, <1>2 DEF CollateralIn, HoldingsIn, MarginOf
  <2>2. CollateralIn(accounts, b) \in Int /\ HoldingsIn(accounts, positions, b) \in Int
    BY StoreTypes, HoldingsInt
  <2> QED BY <2>1, <2>2
<1> QED BY <1>3, <1>4, <1>5, <1>6 DEF SettlementInv

LEMMA RejectKeepsSums ==
  ASSUME InductiveInv, SettlementInv, BatchFrame, RejectBatch
  PROVE  SettlementInv'
<1>1. /\ leg # "idle" /\ leg' = "idle"
      /\ accounts' = saved.accounts /\ positions' = saved.positions
      /\ removed' = removed /\ entered' = entered /\ netDeposits' = netDeposits
  BY DEF RejectBatch, BatchFrame
<1>2. SoundStores(accounts, positions)'
  BY <1>1 DEF SettlementInv, SoundStores, HoldingsIn, CollateralIn, MarginOf
<1>3. \A n \in Markets : OpenInterestIn(positions, n)' + removed'[n] = entered'[n]
  BY <1>1 DEF SettlementInv, OpenInterestIn, SizeOf
<1>4. entered' \in [Markets -> Int]
  BY <1>1 DEF InductiveInv, TypeOK, PrecompilesTypeOK
<1> QED BY <1>1, <1>2, <1>3, <1>4, RestKeepsSums

LEMMA FinishKeepsSums ==
  ASSUME InductiveInv, SettlementInv, BatchFrame, FinishBatch
  PROVE  SettlementInv'
<1>1. /\ leg = "maker" /\ leg' = "idle"
      /\ UNCHANGED <<accounts, positions, removed, entered, netDeposits>>
  BY DEF FinishBatch, BatchFrame
<1>2. SoundStores(accounts, positions)'
  BY <1>1 DEF SettlementInv, SoundStores, HoldingsIn, CollateralIn, MarginOf
<1>3. \A n \in Markets : OpenInterestIn(positions, n)' + removed'[n] = entered'[n]
  BY <1>1, RestMeans DEF OpenInterestIn, SizeOf
<1>4. entered' \in [Markets -> Int]
  BY <1>1 DEF InductiveInv, TypeOK, PrecompilesTypeOK
<1> QED BY <1>1, <1>2, <1>3, <1>4, RestKeepsSums

LEMMA FinishScanKeepsSums ==
  ASSUME InductiveInv, SettlementInv, ScanFrame, FinishExecuteLiquidation
  PROVE  SettlementInv'
<1> DEFINE a == scan.addr
           c == scan.collateral
<1>1. a # NoEntry /\ SetAccount(a, c)
  BY DEF FinishExecuteLiquidation
<1>2. a \in Addrs /\ c \in Nat /\ accounts[a] \in Int /\ c <= accounts[a]
  BY <1>1, ScanTypes DEF InductiveInv, ScanInv
<1>3. /\ leg = "idle" /\ leg' = "idle" /\ UNCHANGED <<positions, removed, entered, netDeposits>>
  BY <1>1, ScanningIsAlone DEF ScanFrame, settlementVars, riskInputs
<1>4. CollateralIn(accounts, a) = accounts[a] /\ accounts[a] # Blank
      /\ netDeposits \in [Addrs -> Int] /\ netDeposits[a] \in Int
  BY <1>2, StoreTypes, CodecAssumption DEF CollateralIn
<1>5. c - netDeposits'[a] <= CollateralIn(accounts, a) - netDeposits[a]
  BY <1>2, <1>3, <1>4
<1> HIDE DEF a, c
<1>6. SoundStores(accounts, positions)'
  BY <1>1, <1>2, <1>3, <1>4, <1>5, PaymentSound DEF SettlementInv
<1> QED BY <1>3, <1>6, PaymentKeepsSums

(***************************************************************************)
(* The scanner's charges.                                                  *)
(***************************************************************************)
LEMMA OpenPositionsRecorded ==
  ASSUME InductiveInv, SettlementInv, NEW a \in Addrs
  PROVE  /\ OpenMarkets(a) \in SUBSET Markets /\ IsFiniteSet(OpenMarkets(a))
         /\ \A m \in OpenMarkets(a) :
              positions[a][m] \in PositionRecord /\ positions[a][m].size # 0
<1>1. OpenMarkets(a) \in SUBSET Markets
  BY DEF OpenMarkets
<1>2. IsFiniteSet(OpenMarkets(a))
  BY <1>1, MarketsAssumption, FS_Subset
<1>3. ASSUME NEW m \in OpenMarkets(a)
      PROVE  positions[a][m] \in PositionRecord /\ positions[a][m].size # 0
  BY <1>1, StoreTypes DEF OpenMarkets, HasPosition, SettlementInv, SoundStores, Positions
<1> QED BY <1>1, <1>2, <1>3

LEMMA PenaltiesNat ==
  ASSUME InductiveInv, SettlementInv, NEW a \in Addrs, NEW m \in OpenMarkets(a)
  PROVE  Penalty(a, m, PartialLiquidationRate) \in Nat
<1>1. m \in Markets /\ positions[a][m] \in PositionRecord
  BY OpenPositionsRecorded
<1> QED BY <1>1, PenaltyNat, MarginAssumption DEF InductiveInv, TypeOK

LEMMA ChargedNat ==
  ASSUME InductiveInv, SettlementInv, NEW a \in Addrs
  PROVE  ChargedSoFar(a) \in Nat
<1> DEFINE visited == OpenMarkets(a) \ scan.todo
           f == [m \in visited |-> Penalty(a, m, PartialLiquidationRate)]
<1>1. IsFiniteSet(visited) /\ DOMAIN f = visited
  BY OpenPositionsRecorded, FS_Subset
<1>2. \A m \in visited : f[m] \in Nat
  BY PenaltiesNat
<1> HIDE DEF visited
<1>3. SumFunctionOnSet(f, visited) \in Nat
  BY <1>1, <1>2, SumNat
<1> QED BY <1>1, <1>3 DEF ChargedSoFar, SumFunction, visited

LEMMA RestingCharges ==
  ASSUME scan' = scan, scan = Resting
  PROVE  ChargeInv'
BY DEF ChargeInv, Resting

LEMMA StartCharges ==
  ASSUME InductiveInv, SettlementInv, ScanFrame, NEW a \in Addrs, StartExecuteLiquidation(a)
  PROVE  ChargeInv'
<1>1. /\ Readable(a) /\ accounts' = accounts /\ positions' = positions
      /\ scan' = [left |-> scan.left \ {a}, addr |-> a,
                  todo |-> OpenMarkets(a), collateral |-> GetCollateral(a)]
  BY DEF StartExecuteLiquidation, ScanFrame, riskInputs
<1>2. /\ scan'.addr = a /\ scan'.todo = OpenMarkets(a)
      /\ scan'.collateral = GetCollateral(a)
  BY <1>1
<1>3. OpenMarkets(a)' = OpenMarkets(a) /\ GetCollateral(a)' = GetCollateral(a)
  BY <1>1 DEF OpenMarkets, HasPosition, GetCollateral
<1>4. ChargedSoFar(a)' = 0
  <2> DEFINE f == [m \in OpenMarkets(a)' \ scan'.todo |-> Penalty(a, m, PartialLiquidationRate)']
  <2>1. OpenMarkets(a)' \ scan'.todo = {}
    BY <1>2, <1>3
  <2>2. DOMAIN f = {}
    BY <2>1
  <2>3. ChargedSoFar(a)' = SumFunctionOnSet(f, DOMAIN f)
    BY DEF ChargedSoFar, SumFunction
  <2> HIDE DEF f
  <2> QED BY <2>2, <2>3, SumEmpty
<1>5. GetCollateral(a) \in Nat
  BY <1>1, StoreTypes, CollateralNat DEF Readable
<1>6. GetCollateral(a) = ChargeAtMost(GetCollateral(a), 0)
  BY <1>5 DEF ChargeAtMost
<1> HIDE DEF ScanFrame
<1>7. /\ scan'.todo \subseteq OpenMarkets(a)'
      /\ scan'.collateral = ChargeAtMost(GetCollateral(a)', ChargedSoFar(a)')
  BY <1>2, <1>3, <1>4, <1>6
<1> QED BY <1>2, <1>7 DEF ChargeInv

(* The accounts, positions and prices a charge is computed from are those  *)
(* of before, whatever step of the scan runs.                              *)
LEMMA ChargedSame ==
  ASSUME accounts' = accounts, riskInputs' = riskInputs, NEW a \in Addrs
  PROVE  /\ OpenMarkets(a)' = OpenMarkets(a)
         /\ GetCollateral(a)' = GetCollateral(a)
         /\ \A m \in Markets : Penalty(a, m, PartialLiquidationRate)'
                                = Penalty(a, m, PartialLiquidationRate)
BY DEF riskInputs, OpenMarkets, HasPosition, GetCollateral, Penalty, Notional, GetPrice

LEMMA ChargePositionCharges ==
  ASSUME InductiveInv, SettlementInv, ChargeInv, ScanFrame,
         NEW m \in Markets, ChargePosition(m)
  PROVE  ChargeInv'
<1> SUFFICES ASSUME NEW a \in Addrs, scan'.addr = a, a # NoEntry
             PROVE  /\ scan'.todo \subseteq OpenMarkets(a)'
                    /\ scan'.collateral = ChargeAtMost(GetCollateral(a)', ChargedSoFar(a)')
  BY DEF ChargeInv
<1> DEFINE fee(n) == Penalty(a, n, PartialLiquidationRate)
           before == OpenMarkets(a) \ scan.todo
           after == OpenMarkets(a) \ scan'.todo
           f == [n \in before |-> fee(n)]
           g == [n \in after |-> fee(n)]
<1>1. /\ scan.addr = a /\ m \in scan.todo
      /\ scan'.todo = scan.todo \ {m}
      /\ scan'.collateral = ChargeAtMost(scan.collateral, fee(m))
      /\ accounts' = accounts /\ riskInputs' = riskInputs
  BY ScanTypes DEF ChargePosition, ScanFrame
<1>2. /\ scan.todo \subseteq OpenMarkets(a)
      /\ scan.collateral = ChargeAtMost(GetCollateral(a), ChargedSoFar(a))
  BY <1>1 DEF ChargeInv
<1>3. /\ IsFiniteSet(OpenMarkets(a))
      /\ \A n \in OpenMarkets(a) : n \in Markets /\ fee(n) \in Nat
  BY OpenPositionsRecorded, PenaltiesNat
<1>4. /\ OpenMarkets(a)' = OpenMarkets(a) /\ GetCollateral(a)' = GetCollateral(a)
      /\ \A n \in Markets : Penalty(a, n, PartialLiquidationRate)' = fee(n)
  BY <1>1, ChargedSame
<1>5. ChargedSoFar(a)' = SumFunction(g)
  <2>1. [n \in OpenMarkets(a)' \ scan'.todo |-> Penalty(a, n, PartialLiquidationRate)'] = g
    BY <1>3, <1>4
  <2> QED BY <2>1 DEF ChargedSoFar
<1>6. SumFunction(g) = SumFunction(f) + fee(m)
  <2>1. m \in OpenMarkets(a) /\ m \notin before /\ after = before \cup {m} /\ before \subseteq OpenMarkets(a)
    BY <1>1, <1>2
  <2>2. IsFiniteSet(before) /\ DOMAIN f = before /\ DOMAIN g = before \cup {m}
    BY <1>3, <2>1, FS_Subset
  <2>3. \A n \in before : f[n] \in Int /\ g[n] = f[n]
    BY <1>3, <2>1
  <2>4. g[m] = fee(m) /\ g[m] \in Int
    BY <1>3, <2>1
  <2> HIDE DEF before, after, f, g, fee
  <2>5. SumFunction(g) = SumFunction(f) + g[m]
    BY <2>1, <2>2, <2>3, <2>4, SumExtend
  <2> QED BY <2>4, <2>5
<1>7. ChargedSoFar(a) = SumFunction(f)
  BY DEF ChargedSoFar
<1>8. ChargedSoFar(a) \in Nat /\ fee(m) \in Nat /\ GetCollateral(a) \in Nat
  <2>1. accounts[a] \in Int
    BY <1>1 DEF InductiveInv, ScanInv
  <2>2. GetCollateral(a) \in Nat
    BY <2>1, StoreTypes, CollateralNat, CodecAssumption DEF InductiveInv, NonNegativeCollateral
  <2> QED BY <1>1, <1>2, <1>3, <2>2, ChargedNat
<1>9. ChargeAtMost(scan.collateral, fee(m)) = ChargeAtMost(GetCollateral(a), ChargedSoFar(a) + fee(m))
  BY <1>2, <1>8, ChargesAdd
<1>10. scan'.todo \subseteq OpenMarkets(a)'
  BY <1>1, <1>2, <1>4
<1> HIDE DEF fee, f, g
<1>11. ChargedSoFar(a)' = ChargedSoFar(a) + fee(m)
  BY <1>5, <1>6, <1>7
<1> QED BY <1>1, <1>4, <1>9, <1>10, <1>11

LEMMA IdleScannerCharges ==
  ASSUME scan'.addr = NoEntry
  PROVE  ChargeInv'
BY DEF ChargeInv

LEMMA StutterCharges ==
  ASSUME ChargeInv, scan' = scan, accounts' = accounts, riskInputs' = riskInputs
  PROVE  ChargeInv'
<1> SUFFICES ASSUME NEW a \in Addrs, scan'.addr = a, a # NoEntry
             PROVE  /\ scan'.todo \subseteq OpenMarkets(a)'
                    /\ scan'.collateral = ChargeAtMost(GetCollateral(a)', ChargedSoFar(a)')
  BY DEF ChargeInv
<1>1. OpenMarkets(a)' = OpenMarkets(a) /\ GetCollateral(a)' = GetCollateral(a)
  BY ChargedSame
<1>2. ChargedSoFar(a)' = ChargedSoFar(a)
  BY DEF ChargedSoFar, riskInputs, OpenMarkets, HasPosition, Penalty, Notional, GetPrice
<1> QED BY <1>1, <1>2 DEF ChargeInv

(***************************************************************************)
(* The invariant holds initially and every step keeps it.                  *)
(***************************************************************************)
LEMMA InitEstablishesSums == Init => StoresInv
<1> SUFFICES ASSUME Init PROVE StoresInv
  OBVIOUS
<1>1. /\ accounts = [a \in Addrs |-> NoEntry]
      /\ positions = [a \in Addrs |-> [m \in Markets |-> NoEntry]]
      /\ leg = "idle" /\ scan = Resting
      /\ removed = [m \in Markets |-> 0] /\ entered = [m \in Markets |-> 0]
      /\ netDeposits = [a \in Addrs |-> 0]
  BY DEF Init, MarginInit, PositionInit, SettlementInit, LiquidationInit, PrecompilesInit
<1>2. ASSUME NEW S, NEW f, IsFiniteSet(S), DOMAIN f = S, \A x \in S : f[x] = 0
      PROVE  SumFunction(f) = 0
  <2>1. /\ \A x \in S : f[x] \in Int
        /\ \A x \in S \ {} : f[x] = 0
        /\ {} \in SUBSET S
    BY <1>2
  <2>2. SumFunctionOnSet(f, S) = SumFunctionOnSet(f, {})
    BY <1>2, <2>1, SumSupport
  <2> QED BY <1>2, <2>2, SumEmpty DEF SumFunction
<1>3. ASSUME NEW a \in Addrs PROVE HoldingsIn(accounts, positions, a) = 0
  <2> DEFINE f == [m \in Markets |-> MarginOf(positions[a][m])]
  <2>1. DOMAIN f = Markets /\ \A m \in Markets : f[m] = 0
    BY <1>1 DEF MarginOf
  <2>2. CollateralIn(accounts, a) = 0
    BY <1>1, CodecAssumption DEF CollateralIn
  <2> HIDE DEF f
  <2>3. SumFunction(f) = 0
    BY <1>2, <2>1, MarketsAssumption
  <2> QED BY <2>2, <2>3 DEF HoldingsIn, f
<1>4. ASSUME NEW m \in Markets PROVE OpenInterestIn(positions, m) = 0
  <2> DEFINE f == [a \in Addrs |-> SizeOf(positions[a][m])]
  <2>1. DOMAIN f = Addrs /\ \A a \in Addrs : f[a] = 0
    BY <1>1 DEF SizeOf
  <2> HIDE DEF f
  <2>2. SumFunction(f) = 0
    BY <1>2, <2>1, AddrsAssumption
  <2> QED BY <2>2 DEF OpenInterestIn, f
<1>5. SoundStores(accounts, positions)
  BY <1>1, <1>3 DEF SoundStores
<1>6. ASSUME NEW m \in Markets
      PROVE  OpenInterestIn(positions, m) + removed[m] = entered[m] + HalfOpen(m)
  BY <1>1, <1>4 DEF HalfOpen
<1>7. SettlementInv
  BY <1>1, <1>5, <1>6 DEF SettlementInv
<1>8. ChargeInv
  BY <1>1 DEF ChargeInv, Resting
<1> QED BY <1>7, <1>8 DEF StoresInv

LEMMA SettleStepKeepsStores ==
  ASSUME InductiveInv, StoresInv, SettleStep
  PROVE  StoresInv'
<1>1. BatchFrame /\ SettlementInv
  BY DEF SettleStep, BatchFrame, StoresInv
<1>2. SettlementInv'
  <2>1. CASE \E matcher \in Senders, trades \in Batches : SettleMatchedOrders(matcher, trades)
    BY <1>1, <2>1, BeginKeepsSums
  <2>2. CASE SettleMaker
    BY <1>1, <2>2, MakerKeepsSums
  <2>3. CASE SettleTaker
    BY <1>1, <2>3, TakerKeepsSums
  <2>4. CASE RejectBatch
    BY <1>1, <2>4, RejectKeepsSums
  <2>5. CASE FinishBatch
    BY <1>1, <2>5, FinishKeepsSums
  <2> QED BY <2>1, <2>2, <2>3, <2>4, <2>5 DEF SettleStep
<1>3. leg # "idle" \/ Idle
  BY DEF SettleStep, SettleMatchedOrders, SettleMaker, SettleTaker, RejectBatch, FinishBatch
<1>4. scan = Resting /\ scan' = scan
  BY <1>1, <1>3 DEF BatchFrame, InductiveInv, BatchInv, Idle, Scanning
<1> QED BY <1>2, <1>4, RestingCharges DEF StoresInv

LEMMA EndBlockKeepsStores ==
  ASSUME InductiveInv, StoresInv, EndBlockStep
  PROVE  StoresInv'
<1>1. ScanFrame /\ SettlementInv /\ ChargeInv
  BY DEF EndBlockStep, ScanFrame, StoresInv
<1>2. ASSUME accounts' = accounts PROVE SettlementInv'
  BY <1>1, <1>2, QuietKeepsSums DEF ScanFrame, riskInputs
<1>3. CASE BeginScan
  <2>1. scan'.addr = NoEntry /\ accounts' = accounts
    BY <1>3 DEF BeginScan, Resting
  <2> QED BY <1>2, <2>1, IdleScannerCharges DEF StoresInv
<1>4. ASSUME NEW a \in Addrs, SkipAccount(a) PROVE StoresInv'
  <2>1. scan'.addr = NoEntry /\ accounts' = accounts
    BY <1>4, ScanTypes DEF SkipAccount
  <2> QED BY <1>2, <2>1, IdleScannerCharges DEF StoresInv
<1>5. ASSUME NEW a \in Addrs, StartExecuteLiquidation(a) PROVE StoresInv'
  <2>1. accounts' = accounts
    BY <1>5 DEF StartExecuteLiquidation
  <2> QED BY <1>1, <1>2, <1>5, <2>1, StartCharges DEF StoresInv
<1>6. ASSUME NEW m \in Markets, ChargePosition(m) PROVE StoresInv'
  <2>1. accounts' = accounts
    BY <1>6 DEF ChargePosition
  <2> QED BY <1>1, <1>2, <1>6, <2>1, ChargePositionCharges DEF StoresInv
<1>7. CASE FinishExecuteLiquidation
  <2>1. scan'.addr = NoEntry
    BY <1>7 DEF FinishExecuteLiquidation, Resting
  <2> QED BY <1>1, <1>7, <2>1, FinishScanKeepsSums, IdleScannerCharges DEF StoresInv
<1> QED BY <1>3, <1>4, <1>5, <1>6, <1>7 DEF EndBlockStep

LEMMA NextKeepsStores ==
  ASSUME InductiveInv, StoresInv, [Next]_vars
  PROVE  StoresInv'
<1>1. SettlementInv /\ ChargeInv
  BY DEF StoresInv
<1>2. ASSUME Idle, scan' = scan PROVE ChargeInv'
  BY <1>2, RestingCharges DEF Idle, Scanning
<1>3. ASSUME NEW a \in Addrs, NEW amount \in Int, DepositMsg(a, amount)
      PROVE  StoresInv'
  BY <1>1, <1>2, <1>3, DepositKeepsSums DEF DepositMsg, StoresInv
<1>4. ASSUME NEW a \in Addrs, NEW amount \in Amounts, WithdrawMsg(a, amount)
      PROVE  StoresInv'
  BY <1>1, <1>2, <1>4, WithdrawKeepsSums, ChainAssumption DEF WithdrawMsg, StoresInv
<1>5. ASSUME NEW m \in Markets, NEW price \in Prices, SetPriceMsg(m, price)
      PROVE  StoresInv'
  BY <1>1, <1>2, <1>5, QuietKeepsSums DEF SetPriceMsg, StoresInv
<1>6. ASSUME NEW m \in Markets, NEW mark \in FundingMarks, FundingRound(m, mark)
      PROVE  StoresInv'
  BY <1>1, <1>2, <1>6, QuietKeepsSums DEF FundingRound, StoresInv
<1>7. CASE SettleStep
  BY <1>7, SettleStepKeepsStores
<1>8. ASSUME NEW a \in Addrs, NEW m \in Markets, LiquidateMsg(a, m)
      PROVE  StoresInv'
  BY <1>1, <1>2, <1>8, LiquidateKeepsSums DEF LiquidateMsg, StoresInv
<1>9. ASSUME NEW a \in Addrs, NEW call \in Calls, DepositCall(a, call)
      PROVE  StoresInv'
  <2>1. DecodeUint256(call.words[1]) \in Int
    <3>1. call.words \in Seq(Words) /\ Len(call.words) >= 1
      BY <1>9, ChainAssumption DEF Call, DepositCall, IsDepositCall
    <3>2. 1 \in 1 .. Len(call.words)
      BY <3>1
    <3> QED BY <3>2, CallTypes, <1>9
  <2> QED BY <1>3, <1>9, <2>1 DEF DepositCall
<1>10. ASSUME NEW a \in Addrs, NEW call \in Calls, TradeCall(a, call)
       PROVE  StoresInv'
  BY <1>1, <1>2, <1>10, TradeCallKeepsSums DEF TradeCall, StoresInv
<1>11. CASE EndBlockStep
  BY <1>11, EndBlockKeepsStores
<1>12. CASE UNCHANGED vars
  BY <1>1, <1>12, QuietKeepsSums, StutterCharges DEF vars, StoresInv, settlementVars, riskInputs
<1> QED BY <1>3, <1>4, <1>5, <1>6, <1>7, <1>8, <1>9, <1>10, <1>11, <1>12, ChainAssumption DEF Next

(* In every run the stores balance: no position is empty or owes margin,   *)
(* nobody holds more than was deposited, every market's sizes cancel out   *)
(* but for one open leg, a batch under way has started from such stores    *)
(* and paid nobody, and the scanner has charged one account what the       *)
(* positions it has visited cost.                                          *)
THEOREM StoresBalance == Spec => []StoresInv
<1>1. InductiveInv /\ StoresInv /\ [Next]_vars => StoresInv'
  BY NextKeepsStores
<1> QED BY <1>1, InitEstablishesSums, Invariance, PTL DEF Spec

(***************************************************************************)
(* What follows from it.                                                   *)
(***************************************************************************)

(* Whatever an account goes through, its collateral and the margin of all  *)
(* its positions together stay covered by what it deposited.               *)
THEOREM MarginsBacked == Spec => []FullyBacked
<1>1. InductiveInv /\ StoresInv => FullyBacked
  <2> SUFFICES ASSUME InductiveInv, StoresInv, NEW a \in Addrs, Readable(a)
               PROVE  GetCollateral(a)
                        + SumFunction([m \in OpenMarkets(a) |-> positions[a][m].margin])
                        <= netDeposits[a]
    BY DEF FullyBacked
  <2> DEFINE f == [m \in Markets |-> MarginOf(positions[a][m])]
             g == [m \in OpenMarkets(a) |-> positions[a][m].margin]
  <2>1. HoldingsIn(accounts, positions, a) <= netDeposits[a]
    BY DEF StoresInv, SettlementInv, SoundStores
  <2>2. CollateralIn(accounts, a) = GetCollateral(a)
    BY StoreTypes, CodecAssumption DEF Accounts, Readable, CollateralIn, GetCollateral
  <2>3. positions[a] \in [Markets -> PositionRecord \cup {NoEntry, Blank}]
    BY StoreTypes DEF Positions
  <2>4. OpenMarkets(a) \in SUBSET Markets
    BY DEF OpenMarkets
  <2>5. \A m \in Markets : f[m] \in Int
    BY <2>3, MarginOfInt
  <2>6. \A m \in Markets \ OpenMarkets(a) : f[m] = 0
    BY DEF OpenMarkets, HasPosition, MarginOf
  <2>7. \A m \in OpenMarkets(a) : f[m] = g[m]
    BY <2>4 DEF OpenMarkets, HasPosition, MarginOf, Readable
  <2>8. DOMAIN f = Markets /\ DOMAIN g = OpenMarkets(a) /\ IsFiniteSet(OpenMarkets(a))
    BY <2>4, MarketsAssumption, FS_Subset
  <2>9. SumFunction(f) = HoldingsIn(accounts, positions, a) - CollateralIn(accounts, a)
    <3>1. CollateralIn(accounts, a) \in Int /\ SumFunction(Margins(positions[a])) \in Int
      BY StoreTypes, HoldingsInt
    <3> QED BY <3>1 DEF HoldingsIn, Margins
  <2> HIDE DEF f, g
  <2>10. SumFunctionOnSet(f, Markets) = SumFunctionOnSet(f, OpenMarkets(a))
    BY <2>4, <2>5, <2>6, MarketsAssumption, SumSupport
  <2>11. SumFunctionOnSet(f, OpenMarkets(a)) = SumFunctionOnSet(g, OpenMarkets(a))
    BY <2>7, <2>8, SumSame
  <2>12. SumFunction(f) = SumFunction(g)
    BY <2>8, <2>10, <2>11 DEF SumFunction
  <2>13. CollateralIn(accounts, a) \in Int /\ HoldingsIn(accounts, positions, a) \in Int
    BY StoreTypes, HoldingsInt
  <2> QED BY <2>1, <2>2, <2>9, <2>12, <2>13 DEF g
<1> QED BY <1>1, StoresBalance, Invariance, PTL

(* Between trades the sizes of a market's positions add up to what was     *)
(* traded without a counterparty less what was liquidated: no batch,       *)
(* settled or rejected, leaves one side of a trade behind.                 *)
THEOREM LongsMeetShorts == Spec => []OpenInterestBalanced
<1>1. InductiveInv /\ StoresInv => OpenInterestBalanced
  BY RestMeans DEF StoresInv, OpenInterestBalanced, OpenInterestIn
<1> QED BY <1>1, StoresBalance, Invariance, PTL

(***************************************************************************)
(* The scanner writes what the positions of the account cost together.     *)
(***************************************************************************)

(* What ScanChargesTotalPenalty says of the account of a.                  *)
ChargedInFull(a) ==
  \/ accounts'[a] = accounts[a]
  \/ accounts'[a] = ChargeAtMost(GetCollateral(a),
       SumFunction([m \in OpenMarkets(a) |-> Penalty(a, m, PartialLiquidationRate)]))

LEMMA FinishScanCharges ==
  ASSUME InductiveInv, StoresInv, ScanFrame, FinishExecuteLiquidation
  PROVE  accounts' \in Accounts /\ \A b \in Addrs : ChargedInFull(b)
<1> SUFFICES ASSUME NEW a \in Addrs, scan.addr = a
             PROVE  accounts' \in Accounts /\ \A b \in Addrs : ChargedInFull(b)
  BY ScanTypes DEF FinishExecuteLiquidation
<1>1. a # NoEntry /\ scan.todo = {} /\ SetAccount(a, scan.collateral)
  BY DEF FinishExecuteLiquidation
<1>2. accounts[a] \in Int /\ accounts \in Accounts
  BY <1>1, StoreTypes DEF InductiveInv, ScanInv
<1>3. CodecBuild = "protoc"
  BY <1>2, CodecAssumption DEF StoresInv, SettlementInv, SoundStores
<1>4. accounts' = [accounts EXCEPT ![a] = scan.collateral] /\ scan.collateral \in Int
  BY <1>1, <1>3, ScanTypes DEF SetAccount, Stored
<1>5. OpenMarkets(a) \ scan.todo = OpenMarkets(a)
  BY <1>1
<1>6. scan.collateral = ChargeAtMost(GetCollateral(a), ChargedSoFar(a))
  BY <1>1 DEF StoresInv, ChargeInv
<1>7. ChargedSoFar(a)
        = SumFunction([m \in OpenMarkets(a) |-> Penalty(a, m, PartialLiquidationRate)])
  BY <1>5 DEF ChargedSoFar
<1>8. ChargedInFull(a)
  BY <1>2, <1>4, <1>6, <1>7 DEF ChargedInFull, Accounts
<1>9. \A b \in Addrs : b # a => ChargedInFull(b)
  BY <1>2, <1>4 DEF ChargedInFull, Accounts
<1>10. accounts' \in Accounts
  BY <1>2, <1>4 DEF Accounts
<1> QED BY <1>8, <1>9, <1>10

LEMMA ScanningCharges ==
  ASSUME InductiveInv, StoresInv, [Next]_vars, Scanning
  PROVE  accounts' \in Accounts /\ \A a \in Addrs : ChargedInFull(a)
<1>1. leg = "idle" /\ ~Idle
  BY DEF InductiveInv, BatchInv, Scanning, Idle
<1>2. CASE accounts' = accounts
  BY <1>2, StoreTypes DEF ChargedInFull
<1>3. CASE EndBlockStep
  <2>1. CASE FinishExecuteLiquidation
    BY <1>3, <2>1, FinishScanCharges DEF EndBlockStep, ScanFrame
  <2>2. CASE ~FinishExecuteLiquidation
    <3>1. accounts' = accounts
      BY <1>3, <2>2 DEF EndBlockStep, BeginScan, SkipAccount, StartExecuteLiquidation,
                        ChargePosition
    <3> QED BY <1>2, <3>1
  <2> QED BY <2>1, <2>2
<1>4. CASE UNCHANGED vars
  BY <1>2, <1>4 DEF vars
<1>5. ASSUME NEW a \in Addrs, NEW call \in Calls, DepositCall(a, call) \/ TradeCall(a, call)
      PROVE  FALSE
  BY <1>1, <1>5 DEF DepositCall, DepositMsg, TradeCall
<1>6. ASSUME SettleStep PROVE FALSE
  BY <1>1, <1>6 DEF SettleStep, SettleMatchedOrders, SettleMaker, SettleTaker, RejectBatch,
                    FinishBatch
<1> QED BY <1>1, <1>3, <1>4, <1>5, <1>6
        DEF Next, DepositMsg, WithdrawMsg, SetPriceMsg, FundingRound, LiquidateMsg

(* In every run the scanner takes from an account the penalties of all its *)
(* positions together, or everything it has, and from no other account.    *)
THEOREM ScanCutsOnce == Spec => ScanChargesTotalPenalty
<1> DEFINE Charged(a) ==
             IF accounts'[a] = accounts[a] THEN accounts[a]
             ELSE ChargeAtMost(GetCollateral(a),
                    SumFunction([m \in OpenMarkets(a) |-> Penalty(a, m, PartialLiquidationRate)]))
<1>1. InductiveInv /\ StoresInv /\ [Next]_vars =>
        [Scanning => accounts' = [a \in Addrs |-> Charged(a)]]_vars
  <2> SUFFICES ASSUME InductiveInv, StoresInv, [Next]_vars, Scanning
               PROVE  accounts' = [a \in Addrs |-> Charged(a)]
    OBVIOUS
  <2>1. accounts' \in Accounts /\ \A a \in Addrs : ChargedInFull(a)
    BY ScanningCharges
  <2>2. \A a \in Addrs : accounts'[a] = Charged(a)
    BY <2>1 DEF ChargedInFull
  <2> HIDE DEF Charged
  <2> QED BY <2>1, <2>2 DEF Accounts
<1> QED BY <1>1, StoresBalance, Invariance, PTL DEF Spec, ScanChargesTotalPenalty

(***************************************************************************)
(* The chain implements AtomicSettlement.                                  *)
(***************************************************************************)

(* What the chain shows of its stores. *)
ShownAccounts  == IF leg = "idle" THEN accounts ELSE saved.accounts
ShownPositions == IF leg = "idle" THEN positions ELSE saved.positions

LEMMA CommittedSum ==
  ASSUME NEW f
  PROVE  Committed!SumFunction(f) = SumFunction(f)
BY DEF Committed!SumFunction, Committed!SumFunctionOnSet, Committed!FoldFunctionOnSet,
       Committed!MapThenFoldSet, SumFunction, SumFunctionOnSet, FoldFunctionOnSet,
       MapThenFoldSet

(* The figures AtomicSettlement computes from what is shown are the        *)
(* chain's.                                                                *)
LEMMA ShownFigures ==
  ASSUME \A a \in Addrs, m \in Markets : ShownPositions[a][m] # Blank
  PROVE  /\ \A a \in Addrs : Committed!Collateral(a) = CollateralIn(ShownAccounts, a)
         /\ \A a \in Addrs : Committed!Holdings(a)
                               = HoldingsIn(ShownAccounts, ShownPositions, a)
         /\ \A m \in Markets : Committed!OpenInterest(m) = OpenInterestIn(ShownPositions, m)
         /\ \A a \in Addrs, m \in Markets : Committed!Size(a, m) = SizeOf(ShownPositions[a][m])
<1>1. \A a \in Addrs, m \in Markets : Committed!Size(a, m) = SizeOf(ShownPositions[a][m])
  BY DEF Committed!Size, SizeOf, ShownPositions
<1>2. \A a \in Addrs, m \in Markets : Committed!Locked(a, m) = MarginOf(ShownPositions[a][m])
  BY DEF Committed!Locked, MarginOf, ShownPositions
<1>3. \A a \in Addrs : Committed!Collateral(a) = CollateralIn(ShownAccounts, a)
  BY DEF Committed!Collateral, CollateralIn, ShownAccounts
<1>4. ASSUME NEW a \in Addrs
      PROVE  Committed!Holdings(a) = HoldingsIn(ShownAccounts, ShownPositions, a)
  <2>1. [m \in Markets |-> Committed!Locked(a, m)]
          = [m \in Markets |-> MarginOf(ShownPositions[a][m])]
    BY <1>2
  <2> QED BY <1>3, <2>1, CommittedSum DEF Committed!Holdings, HoldingsIn
<1>5. ASSUME NEW m \in Markets
      PROVE  Committed!OpenInterest(m) = OpenInterestIn(ShownPositions, m)
  <2>1. [a \in Addrs |-> Committed!Size(a, m)] = [a \in Addrs |-> SizeOf(ShownPositions[a][m])]
    BY <1>1
  <2> QED BY <2>1, CommittedSum DEF Committed!OpenInterest, OpenInterestIn
<1> QED BY <1>1, <1>3, <1>4, <1>5

LEMMA ShownFiguresNext ==
  ASSUME \A a \in Addrs, m \in Markets : ShownPositions'[a][m] # Blank
  PROVE  /\ \A a \in Addrs : Committed!Collateral(a)' = CollateralIn(ShownAccounts', a)
         /\ \A a \in Addrs : Committed!Holdings(a)'
                               = HoldingsIn(ShownAccounts', ShownPositions', a)
         /\ \A m \in Markets : Committed!OpenInterest(m)' = OpenInterestIn(ShownPositions', m)
         /\ \A a \in Addrs, m \in Markets :
              Committed!Size(a, m)' = SizeOf(ShownPositions'[a][m])
<1>1. \A a \in Addrs, m \in Markets : Committed!Size(a, m)' = SizeOf(ShownPositions'[a][m])
  BY DEF Committed!Size, SizeOf, ShownPositions
<1>2. \A a \in Addrs, m \in Markets : Committed!Locked(a, m)' = MarginOf(ShownPositions'[a][m])
  BY DEF Committed!Locked, MarginOf, ShownPositions
<1>3. \A a \in Addrs : Committed!Collateral(a)' = CollateralIn(ShownAccounts', a)
  BY DEF Committed!Collateral, CollateralIn, ShownAccounts
<1>4. ASSUME NEW a \in Addrs
      PROVE  Committed!Holdings(a)' = HoldingsIn(ShownAccounts', ShownPositions', a)
  <2>1. [m \in Markets |-> Committed!Locked(a, m)']
          = [m \in Markets |-> MarginOf(ShownPositions'[a][m])]
    BY <1>2
  <2> QED BY <1>3, <2>1, CommittedSum DEF Committed!Holdings, HoldingsIn
<1>5. ASSUME NEW m \in Markets
      PROVE  Committed!OpenInterest(m)' = OpenInterestIn(ShownPositions', m)
  <2>1. [a \in Addrs |-> Committed!Size(a, m)']
          = [a \in Addrs |-> SizeOf(ShownPositions'[a][m])]
    BY <1>1
  <2> QED BY <2>1, CommittedSum DEF Committed!OpenInterest, OpenInterestIn
<1> QED BY <1>1, <1>3, <1>4, <1>5

LEMMA ShownSound ==
  ASSUME SettlementInv
  PROVE  \A a \in Addrs, m \in Markets : ShownPositions[a][m] # Blank
BY CodecAssumption DEF SettlementInv, SoundStores, ShownPositions

LEMMA ShownSoundNext ==
  ASSUME SettlementInv'
  PROVE  \A a \in Addrs, m \in Markets : ShownPositions'[a][m] # Blank
BY CodecAssumption DEF SettlementInv, SoundStores, ShownPositions

(* A deposit, a withdrawal or the end of a scan pays one account. *)
LEMMA PaymentRefines ==
  ASSUME leg = "idle", leg' = "idle", accounts \in Accounts, NEW a \in Addrs, NEW c \in Int,
         SetAccount(a, c), positions' = positions, batchID' = batchID
  PROVE  Committed!Pay(a)
<1>1. accounts' = [accounts EXCEPT ![a] = accounts'[a]]
  BY DEF SetAccount, Accounts
<1> QED BY <1>1 DEF Committed!Pay, Committed!OnlyAccountOf

(* What leaves the stores alone, or works on them under way, is not seen. *)
LEMMA QuietRefines ==
  ASSUME leg = "idle", UNCHANGED <<accounts, positions, leg, batchID>>
  PROVE  UNCHANGED Committed!ledgerVars
BY DEF Committed!ledgerVars

LEMMA SettleStepRefines ==
  ASSUME InductiveInv, SettlementInv, SettlementInv', SettleStep
  PROVE  Committed!Settle \/ UNCHANGED Committed!ledgerVars
<1>1. CASE \E matcher \in Senders, trades \in Batches : SettleMatchedOrders(matcher, trades)
  BY <1>1 DEF SettleMatchedOrders, BeginBatch, Committed!ledgerVars
<1>2. CASE SettleMaker \/ SettleTaker
  BY <1>2 DEF SettleMaker, SettleTaker, Committed!ledgerVars
<1>3. CASE RejectBatch
  BY <1>3 DEF RejectBatch, Committed!ledgerVars
<1>4. CASE FinishBatch
  <2>1. /\ leg = "maker" /\ leg' = "idle" /\ batchID' = (batchID + 1) % Uint64
        /\ accounts' = accounts /\ positions' = positions
    BY <1>4 DEF FinishBatch
  <2>2. /\ ShownAccounts = saved.accounts /\ ShownPositions = saved.positions
        /\ ShownAccounts' = accounts /\ ShownPositions' = positions
    BY <2>1 DEF ShownAccounts, ShownPositions
  <2>3. ASSUME NEW m \in Markets
        PROVE  OpenInterestIn(ShownPositions', m) = OpenInterestIn(ShownPositions, m)
    <3> DEFINE now == OpenInterestIn(positions, m)
               then == OpenInterestIn(saved.positions, m)
               off == removed[m]
    <3>1. now + off = entered[m]
      BY <2>1, RestMeans
    <3>2. then + off = entered[m]
      BY <2>1 DEF SettlementInv
    <3>3. now \in Int /\ then \in Int /\ off \in Int
      BY <2>1, StoreTypes, OpenInterestInt, RestMeans
    <3> HIDE DEF now, then, off
    <3>4. now = then
      BY <3>1, <3>2, <3>3
    <3> QED BY <2>2, <3>4 DEF now, then
  <2>4. \A a \in Addrs :
          /\ CollateralIn(ShownAccounts', a) <= CollateralIn(ShownAccounts, a)
          /\ HoldingsIn(ShownAccounts', ShownPositions', a)
               <= HoldingsIn(ShownAccounts, ShownPositions, a)
    BY <2>1, <2>2 DEF SettlementInv
  <2>5. Committed!Settle
    <3>1. \A m \in Markets : Committed!OpenInterest(m)' = Committed!OpenInterest(m)
      BY <2>3, ShownSound, ShownSoundNext, ShownFigures, ShownFiguresNext
    <3>2. \A a \in Addrs :
            /\ Committed!Collateral(a)' <= Committed!Collateral(a)
            /\ Committed!Holdings(a)' <= Committed!Holdings(a)
      BY <2>4, ShownSound, ShownSoundNext, ShownFigures, ShownFiguresNext
    <3> QED BY <2>1, <3>1, <3>2 DEF Committed!Settle
  <2> QED BY <2>5
<1> QED BY <1>1, <1>2, <1>3, <1>4 DEF SettleStep

(* A trade call and a liquidation move one position of one account. *)
LEMMA MoveRefines ==
  ASSUME InductiveInv, SettlementInv, SettlementInv', NEW a \in Addrs, NEW m \in Markets,
         leg = "idle", leg' = "idle", CellMove(a, m)
  PROVE  /\ Committed!OnlyAccountOf(a)
         /\ (IF leg = "idle" THEN positions ELSE saved.positions)'
              = [(IF leg = "idle" THEN positions ELSE saved.positions) EXCEPT
                  ![a][m] = (IF leg = "idle" THEN positions ELSE saved.positions)'[a][m]]
         /\ Committed!Collateral(a) = CollateralIn(accounts, a)
         /\ Committed!Collateral(a)' = accounts'[a]
         /\ Committed!Holdings(a)' <= Committed!Holdings(a)
         /\ Committed!Size(a, m) = SizeOf(positions[a][m])
         /\ Committed!Size(a, m)' = SizeOf(positions'[a][m])
<1>1. /\ ShownAccounts = accounts /\ ShownPositions = positions
      /\ ShownAccounts' = accounts' /\ ShownPositions' = positions'
  BY DEF ShownAccounts, ShownPositions
<1>2. accounts' = [accounts EXCEPT ![a] = accounts'[a]] /\ accounts'[a] \in Nat
      /\ positions' = [positions EXCEPT ![a][m] = positions'[a][m]]
  BY DEF CellMove
<1>3. Committed!OnlyAccountOf(a)
  BY <1>2 DEF Committed!OnlyAccountOf
<1>4. HoldingsIn(accounts', positions', a) <= HoldingsIn(accounts, positions, a)
  BY StoreTypes, CellMoveNobodyGains DEF NobodyGains
<1>5. CollateralIn(accounts', a) = accounts'[a]
  BY <1>2 DEF CollateralIn
<1>6. /\ Committed!Collateral(a) = CollateralIn(accounts, a)
      /\ Committed!Collateral(a)' = accounts'[a]
      /\ Committed!Holdings(a)' <= Committed!Holdings(a)
      /\ Committed!Size(a, m) = SizeOf(positions[a][m])
      /\ Committed!Size(a, m)' = SizeOf(positions'[a][m])
  BY <1>1, <1>4, <1>5, ShownSound, ShownSoundNext, ShownFigures, ShownFiguresNext
<1> QED BY <1>2, <1>3, <1>6

LEMMA LiquidateRefines ==
  ASSUME InductiveInv, SettlementInv, SettlementInv',
         NEW a \in Addrs, NEW m \in Markets, LiquidateMsg(a, m)
  PROVE  Committed!Liquidate(a, m)
<1>1. leg = "idle" /\ leg' = "idle" /\ batchID' = batchID
  BY DEF LiquidateMsg, Idle, settlementVars
<1>2. /\ CellMove(a, m)
      /\ \/ 0 <= SizeOf(positions'[a][m]) /\ SizeOf(positions'[a][m]) < SizeOf(positions[a][m])
         \/ SizeOf(positions[a][m]) < SizeOf(positions'[a][m]) /\ SizeOf(positions'[a][m]) <= 0
  BY LiquidationEffect DEF SettlementInv
<1>3. accounts'[a] <= CollateralIn(accounts, a)
  BY <1>2 DEF CellMove
<1> QED BY <1>1, <1>2, <1>3, MoveRefines DEF Committed!Liquidate

LEMMA TradeCallRefines ==
  ASSUME InductiveInv, SettlementInv, SettlementInv',
         NEW a \in Addrs, NEW call \in Calls, TradeCall(a, call)
  PROVE  Committed!TradeAlone(a, call.market)
<1> DEFINE size  == DecodeUint256(call.words[1])
           price == DecodeUint256(call.words[2])
           m == call.market
<1>1. size \in Int /\ price \in Int /\ m \in Markets
  <2>1. call.words \in Seq(Words) /\ Len(call.words) >= 2
    BY ChainAssumption DEF Call, TradeCall, ExecuteTradeCall
  <2>2. 1 \in 1 .. Len(call.words) /\ 2 \in 1 .. Len(call.words)
    BY <2>1
  <2> QED BY <2>2, CallTypes
<1>2. /\ ExecuteTrade(a, m, size, price)
      /\ leg = "idle" /\ leg' = "idle" /\ batchID' = batchID
  BY DEF TradeCall, ExecuteTradeCall, Idle, settlementVars
<1> HIDE DEF size, price, m
<1>3. CellMove(a, m) /\ accounts'[a] < CollateralIn(accounts, a)
  BY <1>1, <1>2, TradeEffect DEF SettlementInv
<1>4. Committed!TradeAlone(a, m)
  BY <1>1, <1>2, <1>3, MoveRefines DEF Committed!TradeAlone
<1> QED BY <1>4 DEF m

LEMMA EndBlockRefines ==
  ASSUME InductiveInv, SettlementInv, EndBlockStep
  PROVE  (\E a \in Addrs : Committed!Pay(a)) \/ UNCHANGED Committed!ledgerVars
<1>1. leg = "idle" /\ leg' = "idle" /\ positions' = positions /\ batchID' = batchID
  <2>1. Idle \/ scan.addr # NoEntry \/ scan.left # {}
    BY DEF EndBlockStep, SkipAccount, StartExecuteLiquidation, ChargePosition,
           FinishExecuteLiquidation
  <2> QED BY <2>1, ScanningIsAlone DEF EndBlockStep, Idle, riskInputs, settlementVars
<1>2. CASE FinishExecuteLiquidation
  <2> DEFINE a == scan.addr
             c == scan.collateral
  <2>1. a \in Addrs /\ c \in Int /\ SetAccount(a, c)
    BY <1>2, ScanTypes DEF FinishExecuteLiquidation
  <2> HIDE DEF a, c
  <2>2. Committed!Pay(a)
    BY <1>1, <2>1, StoreTypes, PaymentRefines
  <2> QED BY <2>1, <2>2
<1>3. CASE ~FinishExecuteLiquidation
  <2>1. accounts' = accounts
    BY <1>3 DEF EndBlockStep, BeginScan, SkipAccount, StartExecuteLiquidation, ChargePosition
  <2> QED BY <1>1, <2>1, QuietRefines
<1> QED BY <1>2, <1>3

LEMMA NextRefines ==
  ASSUME InductiveInv, SettlementInv, SettlementInv', [Next]_vars
  PROVE  [Committed!Next]_(Committed!ledgerVars)
<1> USE DEF Committed!Next
<1>1. ASSUME NEW a \in Addrs, NEW amount \in Int, DepositMsg(a, amount)
      PROVE  Committed!Next
  <2>1. /\ leg = "idle" /\ leg' = "idle" /\ positions' = positions /\ batchID' = batchID
        /\ SetAccount(a, GetCollateral(a) + amount) /\ GetCollateral(a) \in Nat
        /\ accounts \in Accounts
    BY <1>1, StoreTypes, CollateralNat
    DEF DepositMsg, Deposit, Idle, riskInputs, settlementVars
  <2> QED BY <2>1, PaymentRefines
<1>2. ASSUME NEW a \in Addrs, NEW amount \in Amounts, WithdrawMsg(a, amount)
      PROVE  Committed!Next
  <2>1. /\ leg = "idle" /\ leg' = "idle" /\ positions' = positions /\ batchID' = batchID
        /\ SetAccount(a, GetCollateral(a) - amount) /\ GetCollateral(a) \in Nat
        /\ accounts \in Accounts /\ amount \in Int
    BY <1>2, StoreTypes, CollateralNat, ChainAssumption
    DEF WithdrawMsg, Withdraw, Readable, Idle, riskInputs, settlementVars
  <2> QED BY <2>1, PaymentRefines
<1>3. ASSUME NEW m \in Markets, NEW price \in Prices, SetPriceMsg(m, price)
      PROVE  UNCHANGED Committed!ledgerVars
  BY <1>3, QuietRefines DEF SetPriceMsg, Idle, settlementVars
<1>4. ASSUME NEW m \in Markets, NEW mark \in FundingMarks, FundingRound(m, mark)
      PROVE  UNCHANGED Committed!ledgerVars
  BY <1>4, QuietRefines DEF FundingRound, Idle, settlementVars
<1>5. CASE SettleStep
  BY <1>5, SettleStepRefines
<1>6. ASSUME NEW a \in Addrs, NEW m \in Markets, LiquidateMsg(a, m)
      PROVE  Committed!Next
  BY <1>6, LiquidateRefines
<1>7. ASSUME NEW a \in Addrs, NEW call \in Calls, DepositCall(a, call)
      PROVE  Committed!Next
  <2>1. DecodeUint256(call.words[1]) \in Int
    <3>1. call.words \in Seq(Words) /\ Len(call.words) >= 1
      BY <1>7, ChainAssumption DEF Call, DepositCall, IsDepositCall
    <3>2. 1 \in 1 .. Len(call.words)
      BY <3>1
    <3> QED BY <3>2, CallTypes, <1>7
  <2> QED BY <1>1, <1>7, <2>1 DEF DepositCall
<1>8. ASSUME NEW a \in Addrs, NEW call \in Calls, TradeCall(a, call)
      PROVE  Committed!Next
  <2>1. Committed!TradeAlone(a, call.market) /\ call.market \in Markets
    BY <1>8, TradeCallRefines, CallTypes
  <2> QED BY <2>1
<1>9. CASE EndBlockStep
  BY <1>9, EndBlockRefines
<1>10. CASE UNCHANGED vars
  BY <1>10 DEF vars, Committed!ledgerVars
<1> QED BY <1>1, <1>2, <1>3, <1>4, <1>5, <1>6, <1>7, <1>8, <1>9, <1>10, ChainAssumption DEF Next

(* The chain implements AtomicSettlement for every number of addresses and *)
(* markets and every parameter: a batch that fails on any leg is no step,  *)
(* one that succeeds is a single step that balances and pays nobody, and   *)
(* every other message touches one account and at most one position.       *)
THEOREM ChainIsAtomic == Spec => SettlesAtomically
<1>1. Init => Committed!Init
  BY DEF Init, Committed!Init, MarginInit, PositionInit, SettlementInit
<1>2. InductiveInv /\ StoresInv /\ StoresInv' /\ [Next]_vars
        => [Committed!Next]_(Committed!ledgerVars)
  BY NextRefines DEF StoresInv
<1> QED BY <1>1, <1>2, StoresBalance, Invariance, PTL
        DEF Spec, SettlesAtomically, Committed!Spec

(***************************************************************************)
(* What a trade is worth.                                                  *)
(***************************************************************************)

(* What TradeKeepsPnL says of the position of a in m, for a trade at price. *)
KeepsPnL(a, m, price) ==
  LET old == positions[a][m]
      new == positions'[a][m]
  IN  Abs(PnL(new, GetPrice(m)) - PnL(old, GetPrice(m))
            - Mul(GetPrice(m) - price, new.size - SizeOf(old)))
        <= Abs(new.size) \div One + 3

LEMMA GetPriceInt ==
  ASSUME InductiveInv, NEW m \in Markets
  PROVE  GetPrice(m) \in Int
BY DEF InductiveInv, TypeOK, OracleTypeOK, GetPrice

LEMMA ExecuteTradeKeepsPnL ==
  ASSUME InductiveInv, SoundStores(accounts, positions),
         NEW b \in Addrs, NEW n \in Markets, NEW size \in Int, NEW price \in Int,
         ExecuteTrade(b, n, size, price),
         NEW a \in Addrs, NEW m \in Markets,
         positions'[a][m] # positions[a][m], positions'[a][m] # NoEntry
  PROVE  KeepsPnL(a, m, price)
<1> DEFINE old == positions[a][m]
           new == positions'[a][m]
           g   == GetPrice(m)
<1>1. CellMove(b, n) /\ positions \in Positions /\ CodecBuild = "protoc"
  BY TradeEffect, StoreTypes DEF CellMove
<1>2. a = b /\ m = n
  BY <1>1 DEF CellMove, Positions
<1>3. g \in Int
  BY GetPriceInt
<1>4. CASE ~HasPosition(a, m)
  <2> DEFINE p == [size |-> size, avg |-> price, margin |-> RequiredMargin(size, price),
                   lastCum |-> cumFunding[m][a]]
  <2>1. SetPosition(a, m, p)
    BY <1>2, <1>4 DEF ExecuteTrade, OpenPosition
  <2>2. new = p
    BY <1>1, <2>1 DEF SetPosition, Stored, Positions
  <2>3. old = NoEntry /\ new.size = size /\ new.avg = price
    BY <1>4, <2>2 DEF HasPosition
  <2>4. PnL(new, g) = Mul(g - price, size) /\ PnL(old, g) = 0 /\ SizeOf(old) = 0
    BY <2>3 DEF PnL, SizeOf
  <2>5. Mul(g - price, size) \in Int /\ Abs(size) \in Nat
    <3>1. g - price \in Int
      BY <1>3
    <3> HIDE DEF g
    <3> QED BY <3>1, MulType, AbsNat
  <2>6. Abs(size) \div One \in Nat
    BY <2>5, OneAssumption
  <2>7. size - 0 = size
    OBVIOUS
  <2> HIDE DEF g, old, new
  <2>8. PnL(new, g) - PnL(old, g) - Mul(g - price, new.size - SizeOf(old)) = 0
    BY <2>3, <2>4, <2>5, <2>7
  <2>9. Abs(0) = 0
    BY DEF Abs
  <2>10. Abs(PnL(new, g) - PnL(old, g) - Mul(g - price, new.size - SizeOf(old)))
           <= Abs(new.size) \div One + 3
    BY <2>3, <2>6, <2>8, <2>9
  <2> QED BY <2>10 DEF KeepsPnL, g, old, new
<1>5. CASE HasPosition(a, m)
  <2> DEFINE q == Quo(Mul(old.size, old.avg) + Mul(size, price), old.size + size)
             p == [size    |-> old.size + size,
                   avg     |-> AvgEntryPrice(old, size, price),
                   margin  |-> old.margin + RequiredMargin(size, price),
                   lastCum |-> cumFunding[m][a]]
  <2>1. old # NoEntry /\ old # Blank
    BY <1>5 DEF HasPosition, SoundStores
  <2>2. old \in PositionRecord /\ old.size \in Int /\ old.avg \in Int
    BY <1>1, <2>1 DEF Positions, PositionRecord
  <2>3. ~DeletePosition(a, m)
    BY <1>1 DEF DeletePosition, Positions
  <2>4. old.size + size # 0 /\ SetPosition(a, m, p)
    BY <1>2, <1>5, <2>3 DEF ExecuteTrade, OpenPosition
  <2>5. new = p
    BY <1>1, <2>4 DEF SetPosition, Stored, Positions
  <2>6. new.size = old.size + size /\ new.avg = q
    BY <2>5 DEF AvgEntryPrice
  <2>7. /\ PnL(new, g) = Mul(g - q, old.size + size) /\ PnL(old, g) = Mul(g - old.avg, old.size)
        /\ SizeOf(old) = old.size
    BY <2>1, <2>6 DEF PnL, SizeOf
  <2>8. old.size + size - old.size = size
    BY <2>2
  <2> HIDE DEF old, new, g
  <2>9. Abs(Mul(g - q, old.size + size) - Mul(g - old.avg, old.size) - Mul(g - price, size))
          <= Abs(old.size + size) \div One + 3
    BY <1>3, <2>2, <2>4, AveragePriceKeepsProfit
  <2> HIDE DEF q
  <2>10. new.size - SizeOf(old) = size
    BY <2>2, <2>6, <2>7
  <2>11. Abs(PnL(new, g) - PnL(old, g) - Mul(g - price, new.size - SizeOf(old)))
           <= Abs(new.size) \div One + 3
    <3> HIDE DEF p
    <3> QED BY <2>6, <2>7, <2>9, <2>10
  <2> QED BY <2>11 DEF KeepsPnL, g, old, new
<1> QED BY <1>4, <1>5

LEMMA LegsKeepPnL ==
  ASSUME InductiveInv, StoresInv, [Next]_vars, leg # "idle", leg' # "idle",
         NEW a \in Addrs, NEW m \in Markets,
         positions'[a][m] # positions[a][m], positions'[a][m] # NoEntry
  PROVE  KeepsPnL(a, m, Head(batch).price)
<1> DEFINE trade == Head(batch)
<1>1. SettleMaker \/ SettleTaker
  <2>1. ~Idle /\ scan = Resting
    BY DEF Idle, InductiveInv, BatchInv
  <2>2. positions' # positions
    OBVIOUS
  <2>3. ~EndBlockStep
    BY <2>2 DEF EndBlockStep, riskInputs
  <2>4. ~UNCHANGED vars
    BY <2>2 DEF vars
  <2>5. SettleStep
    BY <2>1, <2>3, <2>4 DEF Next, DepositMsg, WithdrawMsg, SetPriceMsg, FundingRound, LiquidateMsg,
       DepositCall, TradeCall
  <2> QED BY <2>1, <2>2, <2>5 DEF SettleStep, SettleMatchedOrders, RejectBatch, FinishBatch
<1>2. batch # <<>>
  BY <1>1 DEF SettleMaker, SettleTaker, InductiveInv, TypeOK, SettlementTypeOK
<1>3. trade \in Trade
  BY <1>2 DEF InductiveInv, TypeOK, SettlementTypeOK
<1>4. /\ trade.maker \in Addrs /\ trade.taker \in Addrs /\ trade.market \in Markets
      /\ trade.price \in Int /\ MakerSize(trade) \in Int /\ TakerSize(trade) \in Int
  BY <1>3 DEF Trade, MakerSize, TakerSize
<1>5. SoundStores(accounts, positions)
  BY DEF StoresInv, SettlementInv
<1>6. \/ ExecuteTrade(trade.maker, trade.market, MakerSize(trade), trade.price)
      \/ ExecuteTrade(trade.taker, trade.market, TakerSize(trade), trade.price)
  BY <1>1 DEF SettleMaker, SettleTaker
<1> HIDE DEF trade
<1>7. KeepsPnL(a, m, trade.price)
  BY <1>4, <1>5, <1>6, ExecuteTradeKeepsPnL
<1> QED BY <1>7 DEF trade

(* In every run of the chain, a leg that leaves a position open, be it     *)
(* opened, increased, reduced or flipped, moves its profit at the mark     *)
(* price by what the traded size gains against the price of the trade; at  *)
(* most the rounding of the average entry price, one last digit for each   *)
(* unit of size, and three more are lost or won.                           *)
THEOREM TradesKeepProfit == Spec => TradeKeepsPnL
<1>1. InductiveInv /\ StoresInv /\ [Next]_vars =>
        [\A a \in Addrs, m \in Markets :
           LET old == positions[a][m]
               new == positions'[a][m]
               traded == new.size - SizeOf(old)
               tolerance == Abs(new.size) \div One + 3
           IN  (leg # "idle" /\ leg' # "idle" /\ new # old /\ new # NoEntry) =>
                 Abs(PnL(new, GetPrice(m)) - PnL(old, GetPrice(m))
                       - Mul(GetPrice(m) - Head(batch).price, traded)) <= tolerance]_vars
  BY LegsKeepPnL DEF KeepsPnL
<1> QED BY <1>1, StoresBalance, Invariance, PTL DEF Spec, TradeKeepsPnL

(***************************************************************************)
(* What a withdrawal leaves.                                               *)
(***************************************************************************)

(* A sum over the open positions of an address is an integer. *)
LEMMA OpenSumInt ==
  ASSUME InductiveInv, SettlementInv, NEW a \in Addrs, NEW f,
         DOMAIN f = OpenMarkets(a), \A m \in OpenMarkets(a) : f[m] \in Int
  PROVE  SumFunction(f) \in Int
<1>1. IsFiniteSet(OpenMarkets(a))
  BY OpenPositionsRecorded
<1> DEFINE D == OpenMarkets(a)
<1> HIDE DEF D
<1>2. SumFunctionOnSet(f, D) \in Int
  BY <1>1, SumRemove DEF D
<1> QED BY <1>2 DEF SumFunction, D

LEMMA RiskFiguresInt ==
  ASSUME InductiveInv, SettlementInv, NEW a \in Addrs, Readable(a)
  PROVE  Equity(a) \in Int /\ MaintenanceMarginRequired(a) \in Int
<1> DEFINE profit == [m \in OpenMarkets(a) |->
                        Mul(GetPrice(m) - positions[a][m].avg, positions[a][m].size)]
           funding == [m \in OpenMarkets(a) |-> Mul(cumFunding[m][a], positions[a][m].size)]
           required == [m \in OpenMarkets(a) |-> Mul(Notional(a, m), MaintenanceMarginRatio)]
<1>1. ASSUME NEW m \in OpenMarkets(a)
      PROVE  profit[m] \in Int /\ funding[m] \in Int /\ required[m] \in Int
  <2> DEFINE s == positions[a][m].size
             v == positions[a][m].avg
             g == GetPrice(m)
             c == cumFunding[m][a]
  <2>1. m \in Markets /\ positions[a][m] \in PositionRecord
    BY OpenPositionsRecorded
  <2>2. s \in Int /\ v \in Int /\ g \in Int /\ c \in Int
    BY <2>1, GetPriceInt DEF PositionRecord, InductiveInv, TypeOK, FundingTypeOK
  <2>3. Abs(s) \in Int
    BY <2>2, AbsNat
  <2> HIDE DEF s, v, g, c
  <2>4. Mul(g - v, s) \in Int /\ Mul(c, s) \in Int /\ Mul(Abs(s), g) \in Int
    <3>1. g - v \in Int
      BY <2>2
    <3> QED BY <2>2, <2>3, <3>1, MulType
  <2>5. Mul(Mul(Abs(s), g), MaintenanceMarginRatio) \in Int
    BY <2>4, MulType, MarginAssumption
  <2> QED BY <2>4, <2>5 DEF Notional, s, v, g, c
<1>2. /\ DOMAIN profit = OpenMarkets(a) /\ DOMAIN funding = OpenMarkets(a)
      /\ DOMAIN required = OpenMarkets(a)
  OBVIOUS
<1>3. GetCollateral(a) \in Int
  BY StoreTypes, CollateralNat DEF Readable
<1>4. UnrealizedPnL(a) = SumFunction(profit) /\ FundingPnL(a) = -SumFunction(funding)
      /\ MaintenanceMarginRequired(a) = SumFunction(required)
  BY DEF UnrealizedPnL, FundingPnL, MaintenanceMarginRequired
<1> HIDE DEF profit, funding, required
<1>5. SumFunction(profit) \in Int /\ SumFunction(funding) \in Int /\ SumFunction(required) \in Int
  BY <1>1, <1>2, OpenSumInt
<1> QED BY <1>3, <1>4, <1>5 DEF Equity

(* An account that is not liquidatable covers its maintenance margin. *)
Covered ==
  \A a \in Addrs :
    Readable(a) /\ ~IsLiquidatable(a) /\ MaintenanceMarginRequired(a) > 0
      => 2 * One * Equity(a) >= (2 * One - 1) * MaintenanceMarginRequired(a)

LEMMA HealthyIsCovered ==
  ASSUME InductiveInv, SettlementInv
  PROVE  Covered
<1> SUFFICES ASSUME NEW a \in Addrs, Readable(a), ~IsLiquidatable(a),
                    MaintenanceMarginRequired(a) > 0
             PROVE  2 * One * Equity(a) >= (2 * One - 1) * MaintenanceMarginRequired(a)
  BY DEF Covered
<1> DEFINE e == Equity(a)
           r == MaintenanceMarginRequired(a)
<1>1. e \in Int /\ r \in Int /\ r > 0
  BY RiskFiguresInt
<1>2. ~(Quo(e, r) < One)
  BY <1>1 DEF IsLiquidatable, HealthRatio
<1> HIDE DEF e, r
<1>3. Quo(e, r) >= One
  BY <1>1, <1>2, QuoType, OneAssumption
<1>4. 2 * One * e >= (2 * One - 1) * r
  BY <1>1, <1>3, QuoAtLeastOne
<1> QED BY <1>4 DEF e, r

(* Only a withdrawal takes from what an address has deposited. *)
LEMMA OnlyWithdrawalsLower ==
  ASSUME InductiveInv, [Next]_vars, NEW a \in Addrs, netDeposits'[a] < netDeposits[a]
  PROVE  \E amount \in Amounts : WithdrawMsg(a, amount)
<1>1. netDeposits \in [Addrs -> Int] /\ netDeposits[a] \in Int
  BY StoreTypes
<1>2. netDeposits' # netDeposits
  BY <1>1
<1>3. ASSUME NEW b \in Addrs, NEW amount \in Int, DepositMsg(b, amount) PROVE FALSE
  <2>1. amount > 0 /\ netDeposits' = [netDeposits EXCEPT ![b] = @ + amount]
    BY <1>3 DEF DepositMsg, Deposit
  <2> QED BY <1>1, <2>1
<1>4. ASSUME NEW b \in Addrs, NEW call \in Calls, DepositCall(b, call) PROVE FALSE
  <2>1. DecodeUint256(call.words[1]) \in Int
    <3>1. call.words \in Seq(Words) /\ Len(call.words) >= 1
      BY <1>4, ChainAssumption DEF Call, DepositCall, IsDepositCall
    <3>2. 1 \in 1 .. Len(call.words)
      BY <3>1
    <3> QED BY <3>2, CallTypes, <1>4
  <2> QED BY <1>3, <1>4, <2>1 DEF DepositCall
<1>5. ASSUME NEW b \in Addrs, NEW amount \in Amounts, WithdrawMsg(b, amount)
      PROVE  b = a
  <2>1. netDeposits' = [netDeposits EXCEPT ![b] = @ - amount]
    BY <1>5 DEF WithdrawMsg
  <2> QED BY <1>1, <2>1
<1>6. ~SettleStep /\ ~EndBlockStep /\ ~UNCHANGED vars
  BY <1>2 DEF SettleStep, EndBlockStep, vars
<1>7. ~\E b \in Addrs, call \in Calls : TradeCall(b, call)
  BY <1>2 DEF TradeCall
<1>8. ~\E b \in Addrs, m \in Markets : LiquidateMsg(b, m)
  BY <1>2 DEF LiquidateMsg
<1>9. /\ ~\E m \in Markets, price \in Prices : SetPriceMsg(m, price)
      /\ ~\E m \in Markets, mark \in FundingMarks : FundingRound(m, mark)
  BY <1>2 DEF SetPriceMsg, FundingRound
<1>10. PICK b \in Addrs, amount \in Amounts : WithdrawMsg(b, amount)
  BY <1>3, <1>4, <1>6, <1>7, <1>8, <1>9, ChainAssumption DEF Next
<1> QED BY <1>5, <1>10

LEMMA WithdrawalIsCovered ==
  ASSUME InductiveInv, SettlementInv, Covered', [Next]_vars, NEW a \in Addrs,
         netDeposits'[a] < netDeposits[a], MaintenanceMarginRequired(a)' > 0
  PROVE  2 * One * Equity(a)' >= (2 * One - 1) * MaintenanceMarginRequired(a)'
<1>1. PICK amount \in Amounts : WithdrawMsg(a, amount)
  BY OnlyWithdrawalsLower
<1> DEFINE c == GetCollateral(a) - amount
<1>2. /\ amount > 0 /\ GetCollateral(a) >= amount /\ Readable(a) /\ SetAccount(a, c)
      /\ positions' = positions /\ ~IsLiquidatable(a)'
  BY <1>1 DEF WithdrawMsg, Withdraw, riskInputs
<1>3. accounts \in Accounts /\ accounts[a] # Blank /\ c \in Int /\ accounts[a] # NoEntry
  <2>1. accounts \in Accounts /\ accounts[a] # Blank /\ GetCollateral(a) \in Nat
    BY <1>2, StoreTypes, CollateralNat DEF Readable
  <2>2. amount \in Int
    BY ChainAssumption
  <2> QED BY <1>2, <2>1, <2>2 DEF GetCollateral
<1>4. CodecBuild = "protoc"
  BY <1>3 DEF SettlementInv, SoundStores, Accounts
<1> HIDE DEF c
<1>5. accounts'[a] # Blank
  BY <1>2, <1>3, <1>4, CodecAssumption DEF SetAccount, Stored, Accounts
<1>6. Readable(a)'
  BY <1>2, <1>5 DEF Readable
<1> QED BY <1>2, <1>6 DEF Covered

(* In every run, what is left of an account's equity after a withdrawal    *)
(* covers its maintenance margin, up to the rounding of the health ratio.  *)
THEOREM WithdrawalsKeepMargin == Spec => WithdrawKeepsMargin
<1>1. InductiveInv /\ StoresInv => Covered
  BY HealthyIsCovered DEF StoresInv
<1>2. InductiveInv /\ StoresInv /\ Covered' /\ [Next]_vars =>
        [\A a \in Addrs :
           (netDeposits'[a] < netDeposits[a] /\ MaintenanceMarginRequired(a)' > 0)
             => 2 * One * Equity(a)' >= (2 * One - 1) * MaintenanceMarginRequired(a)']_vars
  BY WithdrawalIsCovered DEF StoresInv
<1> QED BY <1>1, <1>2, StoresBalance, Invariance, PTL DEF Spec, WithdrawKeepsMargin

(***************************************************************************)
(* What a funding round pays.                                              *)
(***************************************************************************)
LEMMA ClampInt ==
  ASSUME NEW x \in Int, NEW bound \in Int
  PROVE  Clamp(x, bound) \in Int
BY DEF Clamp

LEMMA FundingRateInt ==
  ASSUME InductiveInv, NEW m \in Markets, NEW mark \in Int
  PROVE  ComputeFundingRate(m, mark) \in Int
<1> DEFINE g == GetPrice(m) - mark
<1>1. g \in Int
  BY GetPriceInt
<1> HIDE DEF g
<1>2. Quo(g, FundingInterval) \in Int /\ MaxFundingRate \in Int
  BY <1>1, QuoType, FundingAssumption
<1> QED BY <1>2, ClampInt DEF ComputeFundingRate, g

(* A sum that, times 2 * One, is a multiple of a sum that is zero but for  *)
(* one digit per member, is itself no more than half of that.              *)
LEMMA ProportionalSum ==
  ASSUME NEW D, IsFiniteSet(D), NEW pay, NEW size, NEW rate \in Int,
         \A x \in D : pay[x] \in Int, \A x \in D : size[x] \in Int,
         \A x \in D : 2 * (One * pay[x]) - 2 * (rate * size[x]) \in -One .. One,
         SumFunctionOnSet(size, D) = 0
  PROVE  /\ SumFunctionOnSet(pay, D) \in Int
         /\ Abs(SumFunctionOnSet(pay, D)) <= Cardinality(D)
<1> DEFINE o == 2 * One
           r == 2 * rate
           zero == [x \in D |-> 0]
           err == [x \in D |-> 2 * (One * pay[x]) - 2 * (rate * size[x])]
           scaled == [x \in D |-> o * pay[x]]
           total == SumFunctionOnSet(pay, D)
           card == Cardinality(D)
<1>1. o \in Int /\ r \in Int /\ One \in Int
  BY OneAssumption
<1>2. \A x \in D : err[x] \in Int
  BY OneAssumption
<1>3. \A x \in D : zero[x] \in Int /\ zero[x] <= 0 /\ -0 <= zero[x]
  OBVIOUS
<1>4. \A x \in D : scaled[x] = o * pay[x] + zero[x]
  BY <1>1
<1>5. \A x \in D : scaled[x] = r * size[x] + err[x]
  <2> SUFFICES ASSUME NEW x \in D PROVE scaled[x] = r * size[x] + err[x]
    OBVIOUS
  <2> DEFINE op == One * pay[x]
             rs == rate * size[x]
  <2>1. op \in Int /\ rs \in Int
    BY OneAssumption
  <2>2. o * pay[x] = 2 * op /\ r * size[x] = 2 * rs
    <3> DEFINE p == pay[x]
               s == size[x]
    <3>1. p \in Int /\ s \in Int
      OBVIOUS
    <3> HIDE DEF p, s
    <3>2. (2 * One) * p = 2 * (One * p) /\ (2 * rate) * s = 2 * (rate * s)
      BY <1>1, <3>1
    <3> QED BY <3>2 DEF p, s
  <2>3. err[x] = 2 * op - 2 * rs
    OBVIOUS
  <2>4. scaled[x] = o * pay[x]
    OBVIOUS
  <2> HIDE DEF op, rs, o, r, err, scaled
  <2> QED BY <2>1, <2>2, <2>3, <2>4
<1>6. \A x \in D : err[x] \in Int /\ err[x] <= One /\ -One <= err[x]
  BY <1>2, OneAssumption
<1>7. card \in Int
  BY FS_CardinalityType
<1> HIDE DEF o, r, zero, err, scaled, card
<1>8. SumFunctionOnSet(zero, D) = 0
  <2>1. /\ SumFunctionOnSet(zero, D) <= 0 * Cardinality(D)
        /\ -(0 * Cardinality(D)) <= SumFunctionOnSet(zero, D)
    BY <1>3, SumWithin
  <2>2. SumFunctionOnSet(zero, D) \in Int
    BY <1>3, SumRemove
  <2> QED BY <1>7, <2>1, <2>2 DEF card
<1>9. SumFunctionOnSet(scaled, D) = o * total + SumFunctionOnSet(zero, D)
  BY <1>1, <1>3, <1>4, SumLinear
<1>10. SumFunctionOnSet(scaled, D) = SumFunctionOnSet(err, D)
  <2> HIDE DEF total
  <2>1. /\ r \in Int /\ IsFiniteSet(D)
        /\ \A x \in D : size[x] \in Int
        /\ \A x \in D : err[x] \in Int
        /\ \A x \in D : scaled[x] = r * size[x] + err[x]
        /\ SumFunctionOnSet(size, D) = 0
    BY <1>1, <1>2, <1>5
  <2> QED BY <2>1, SumCancels
<1>11. /\ SumFunctionOnSet(err, D) <= One * card
       /\ -(One * card) <= SumFunctionOnSet(err, D)
  BY <1>1, <1>6, SumWithin DEF card
<1>12. total \in Int /\ SumFunctionOnSet(err, D) \in Int
  BY <1>2, SumRemove
<1> HIDE DEF total
<1>13. One * (2 * total) <= One * card /\ One * (-(2 * total)) <= One * card
  <2> DEFINE e == SumFunctionOnSet(err, D)
  <2>1. o * total = e
    <3>1. o * total \in Int
      BY <1>1, <1>12
    <3> QED BY <1>8, <1>9, <1>10, <3>1
  <2>2. One * (2 * total) = o * total /\ One * (-(2 * total)) = -(o * total)
    BY <1>12, OneAssumption DEF o
  <2> DEFINE oc == One * card
  <2>3. oc \in Int
    BY <1>1, <1>7
  <2>4. e \in Int /\ e <= oc /\ -oc <= e
    BY <1>11, <1>12
  <2> HIDE DEF e, oc, o
  <2>5. One * (2 * total) <= oc /\ One * (-(2 * total)) <= oc
    BY <2>1, <2>2, <2>3, <2>4
  <2> QED BY <2>5 DEF oc
<1>14. 2 * total <= card /\ -(2 * total) <= card
  <2> DEFINE u == 2 * total
             v == -(2 * total)
  <2>1. u \in Int /\ v \in Int /\ One * u <= One * card /\ One * v <= One * card
    BY <1>12, <1>13
  <2> HIDE DEF u, v
  <2>2. u <= card /\ v <= card
    BY <1>7, <2>1, DropFactor, OneAssumption
  <2> QED BY <2>2 DEF u, v
<1>15. Abs(total) <= card
  BY <1>7, <1>12, <1>14 DEF Abs
<1> QED BY <1>12, <1>15 DEF total, card

LEMMA FundingPayments ==
  ASSUME InductiveInv, SettlementInv, NEW m \in Markets, NEW mark \in Int,
         FundingRound(m, mark), removed[m] = entered[m]
  PROVE  Abs(SumFunction([a \in Addrs |-> cumFunding'[m][a] - cumFunding[m][a]]))
           <= Cardinality(Addrs)
<1> DEFINE rate == ComputeFundingRate(m, mark)
           pay == [a \in Addrs |-> cumFunding'[m][a] - cumFunding[m][a]]
           size == Sizes(positions, m)
<1>1. /\ leg = "idle" /\ positions \in Positions
      /\ cumFunding \in [Markets -> [Addrs -> Int]] /\ rate \in Int
  BY StoreTypes, FundingRateInt DEF FundingRound, Idle, InductiveInv, TypeOK, FundingTypeOK
<1>2. \A a \in Addrs :
        cumFunding'[m][a] = cumFunding[m][a]
          + IF HasPosition(a, m) THEN Mul(positions[a][m].size, rate) ELSE 0
  BY <1>1 DEF FundingRound, ApplyFunding
<1>3. ASSUME NEW a \in Addrs
      PROVE  /\ size[a] \in Int /\ pay[a] \in Int
             /\ 2 * (One * pay[a]) - 2 * (rate * size[a]) \in -One .. One
  <2> DEFINE s == SizeOf(positions[a][m])
             c == cumFunding[m][a]
             d == cumFunding'[m][a]
  <2>1. size[a] = s /\ s \in Int /\ c \in Int /\ pay[a] = d - c
    BY <1>1, MarginOfInt DEF Sizes, Positions
  <2>2. CASE HasPosition(a, m)
    <3>1. positions[a][m] # NoEntry /\ positions[a][m] # Blank
      BY <2>2 DEF HasPosition, SettlementInv, SoundStores
    <3>2. d = c + Mul(s, rate)
      BY <1>2, <2>2, <3>1 DEF SizeOf
    <3> HIDE DEF s, rate, c, d, size, pay
    <3>3. Mul(s, rate) \in Int /\ 2 * (One * Mul(s, rate)) - 2 * (s * rate) \in -One .. One
      BY <1>1, <2>1, MulType, MulError
    <3>4. pay[a] = Mul(s, rate)
      BY <2>1, <3>2, <3>3
    <3>5. s * rate = rate * s
      BY <1>1, <2>1
    <3> QED BY <2>1, <3>3, <3>4, <3>5
  <2>3. CASE ~HasPosition(a, m)
    <3>1. d = c + 0 /\ s = 0
      BY <1>2, <2>3 DEF HasPosition, SizeOf
    <3> HIDE DEF s, rate, c, d, size, pay
    <3>2. pay[a] = 0 /\ size[a] = 0
      BY <2>1, <3>1
    <3>3. One * 0 = 0 /\ rate * 0 = 0 /\ 0 \in -One .. One
      BY <1>1, OneAssumption
    <3> QED BY <3>2, <3>3
  <2> QED BY <2>2, <2>3
<1>4. SumFunctionOnSet(size, Addrs) = 0
  <2> DEFINE open == OpenInterestIn(positions, m)
  <2>1. open + removed[m] = entered[m] /\ open \in Int /\ removed[m] \in Int
    BY <1>1, RestMeans
  <2> HIDE DEF open
  <2>2. open = 0
    BY <2>1
  <2>3. open = SumFunction(size) /\ DOMAIN size = Addrs
    BY DEF open, OpenInterestIn, Sizes
  <2> HIDE DEF size
  <2> QED BY <2>2, <2>3 DEF SumFunction
<1>5. DOMAIN pay = Addrs
  OBVIOUS
<1> HIDE DEF rate, pay, size
<1>6. Abs(SumFunctionOnSet(pay, Addrs)) <= Cardinality(Addrs)
  BY <1>1, <1>3, <1>4, AddrsAssumption, ProportionalSum
<1>7. SumFunction(pay) = SumFunctionOnSet(pay, Addrs)
  BY <1>5 DEF SumFunction
<1>8. Abs(SumFunction(pay)) <= Cardinality(Addrs)
  BY <1>6, <1>7
<1> QED BY <1>8 DEF pay

LEMMA NoPayments ==
  ASSUME InductiveInv, NEW m \in Markets, cumFunding'[m] = cumFunding[m]
  PROVE  Abs(SumFunction([a \in Addrs |-> cumFunding'[m][a] - cumFunding[m][a]]))
           <= Cardinality(Addrs)
<1> DEFINE pay == [a \in Addrs |-> cumFunding'[m][a] - cumFunding[m][a]]
           size == [a \in Addrs |-> 0]
<1>1. \A a \in Addrs : pay[a] = 0 /\ size[a] = 0
  BY DEF InductiveInv, TypeOK, FundingTypeOK
<1>2. DOMAIN pay = Addrs /\ Cardinality(Addrs) \in Nat
  BY AddrsAssumption, FS_CardinalityType
<1> HIDE DEF pay, size
<1>3. /\ \A a \in Addrs : pay[a] \in Int /\ size[a] \in Int
      /\ \A a \in Addrs \ {} : pay[a] = 0
  BY <1>1
<1>4. SumFunctionOnSet(pay, Addrs) = SumFunctionOnSet(pay, {})
  BY <1>3, AddrsAssumption, SumSupport, {} \in SUBSET Addrs
<1>5. SumFunction(pay) = 0
  BY <1>2, <1>4, SumEmpty DEF SumFunction
<1>6. Abs(SumFunction(pay)) <= Cardinality(Addrs)
  BY <1>2, <1>5 DEF Abs
<1> QED BY <1>6 DEF pay

LEMMA RoundsBalance ==
  ASSUME InductiveInv, SettlementInv, [Next]_vars, NEW m \in Markets, removed[m] = entered[m]
  PROVE  Abs(SumFunction([a \in Addrs |-> cumFunding'[m][a] - cumFunding[m][a]]))
           <= Cardinality(Addrs)
<1>1. ASSUME NEW n \in Markets, NEW mark \in FundingMarks, FundingRound(n, mark), n # m
      PROVE  cumFunding'[m] = cumFunding[m]
  BY <1>1 DEF FundingRound, ApplyFunding, InductiveInv, TypeOK, FundingTypeOK
<1>2. ASSUME NEW mark \in FundingMarks, FundingRound(m, mark)
      PROVE  Abs(SumFunction([a \in Addrs |-> cumFunding'[m][a] - cumFunding[m][a]]))
               <= Cardinality(Addrs)
  BY <1>2, FundingPayments, ChainAssumption
<1>3. ASSUME \A n \in Markets, mark \in FundingMarks : ~FundingRound(n, mark)
      PROVE  cumFunding' = cumFunding
  BY <1>3 DEF Next, DepositMsg, WithdrawMsg, Withdraw, SetPriceMsg, SettleStep, LiquidateMsg,
     DepositCall, TradeCall, EndBlockStep, riskInputs, fundingVars, vars
<1> QED BY <1>1, <1>2, <1>3, NoPayments

(* In every run, what the addresses of a balanced market pay and receive   *)
(* in a funding round adds up to nothing, but for the rounding of one      *)
(* payment for each of them.                                               *)
THEOREM FundingBalances == Spec => FundingRoundBalances
<1>1. InductiveInv /\ StoresInv /\ [Next]_vars =>
        [\A m \in Markets :
           removed[m] = entered[m] /\ leg = "idle" =>
             Abs(SumFunction([a \in Addrs |-> cumFunding'[m][a] - cumFunding[m][a]]))
               <= Cardinality(Addrs)]_vars
  BY RoundsBalance DEF StoresInv
<1> QED BY <1>1, StoresBalance, Invariance, PTL DEF Spec, FundingRoundBalances
=============================================================================
