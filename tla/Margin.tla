------------------------------- MODULE Margin ------------------------------
(***************************************************************************)
(* x/margin: the cross-margin accounts, the risk figures computed from     *)
(* positions, prices and funding, and the EndBlock scanner.  Of an account *)
(* only Collateral is kept: no keeper ever writes UnrealizedPnL,           *)
(* FundingPnL or MarginUsed after creating them as zero.                   *)
(*                                                                         *)
(* The scanner is a loop over the accounts with a nested loop over the     *)
(* positions of an account that is liquidatable; scan is its program state *)
(* and each iteration is a step.  The stores are read in key order; both   *)
(* loops are taken in any order here, an account's visit touching nothing  *)
(* but that account and a cut-off subtraction commuting with another.      *)
(***************************************************************************)
EXTENDS Position, FiniteSetsExt

CONSTANTS MaintenanceMarginRatio,   \* 0.03
          LiquidationPenaltyMin,    \* 0.02
          PartialLiquidationRate    \* 0.50

ASSUME MarginAssumption ==
  /\ MaintenanceMarginRatio \in Nat
  /\ LiquidationPenaltyMin \in Nat
  /\ PartialLiquidationRate \in 0 .. One

VARIABLES accounts,   \* address -> collateral, NoEntry or Blank
          scan        \* the EndBlock scanner: accounts left, and the one it charges

riskInputs == <<prices, cumIndex, cumFunding, positions>>

MarginTypeOK ==
  /\ accounts \in [Addrs -> Int \cup {NoEntry, Blank}]
  /\ scan \in [left : SUBSET Addrs, addr : Addrs \cup {NoEntry},
               todo : SUBSET Markets, collateral : Int]

Resting == [left |-> {}, addr |-> NoEntry, todo |-> {}, collateral |-> 0]

MarginInit ==
  /\ accounts = [a \in Addrs |-> NoEntry]
  /\ scan = Resting

GetCollateral(a) == IF accounts[a] = NoEntry THEN 0 ELSE accounts[a]

SetAccount(a, collateral) == accounts' = [accounts EXCEPT ![a] = Stored(collateral)]

(* Arithmetic on an entry that reads back blank panics, and the message    *)
(* that meets one is rolled back.                                          *)
Readable(a) == accounts[a] # Blank /\ \A m \in Markets : positions[a][m] # Blank

(* Risk figures ***********************************************************)
UnrealizedPnL(a) ==
  SumFunction([m \in OpenMarkets(a) |->
                 Mul(GetPrice(m) - positions[a][m].avg, positions[a][m].size)])

FundingPnL(a) ==
  -SumFunction([m \in OpenMarkets(a) |-> Mul(cumFunding[m][a], positions[a][m].size)])

Equity(a) == GetCollateral(a) + UnrealizedPnL(a) + FundingPnL(a)

Notional(a, m) == Mul(Abs(positions[a][m].size), GetPrice(m))

MaintenanceMarginRequired(a) ==
  SumFunction([m \in OpenMarkets(a) |-> Mul(Notional(a, m), MaintenanceMarginRatio)])

HealthRatio(a) ==
  IF MaintenanceMarginRequired(a) = 0
  THEN 1000000 * One
  ELSE Quo(Equity(a), MaintenanceMarginRequired(a))

IsLiquidatable(a) == HealthRatio(a) < One

(* Penalty for liquidating a share of a position. *)
Penalty(a, m, partialRate) == Mul(Mul(Notional(a, m), partialRate), LiquidationPenaltyMin)

(* Messages ***************************************************************)
Deposit(a, amount) ==
  /\ amount > 0
  /\ accounts[a] # Blank
  /\ SetAccount(a, GetCollateral(a) + amount)

(* Mutated form: health checked before the account is written. *)
WithdrawCheckedEarly(a, amount) ==
  /\ amount > 0
  /\ Readable(a)
  /\ GetCollateral(a) >= amount
  /\ ~IsLiquidatable(a)
  /\ SetAccount(a, GetCollateral(a) - amount)
  /\ UNCHANGED riskInputs

(* The account is written first and its health checked afterwards; when    *)
(* the check fails the write is rolled back with the message.              *)
Withdraw(a, amount) ==
  /\ amount > 0
  /\ Readable(a)
  /\ GetCollateral(a) >= amount
  /\ SetAccount(a, GetCollateral(a) - amount)
  /\ UNCHANGED riskInputs
  /\ ~IsLiquidatable(a)'

(* Mutated form: no balance check. *)
CanDeductUnchecked(a, amount) == amount > 0 /\ accounts[a] # Blank

CanDeduct(a, amount) == amount > 0 /\ accounts[a] # Blank /\ GetCollateral(a) >= amount

DeductMargin(a, amount) ==
  /\ CanDeduct(a, amount)
  /\ SetAccount(a, GetCollateral(a) - amount)

(* Mutated form: charges like the EndBlock scanner, without reducing. *)
ExecuteLiquidationChargeOnly(a, m, partialRate) ==
  /\ SetAccount(a, ChargeAtMost(GetCollateral(a), Penalty(a, m, partialRate)))
  /\ UNCHANGED positions

ExecuteLiquidation(a, m, partialRate) ==
  /\ SetAccount(a, ChargeAtMost(GetCollateral(a), Penalty(a, m, partialRate)))
  /\ ReducePosition(a, m, partialRate)

(* The EndBlock scanner ***************************************************)
Scanning == scan # Resting

(* Mutated form: addresses without an account are visited too. *)
BeginScanEveryone ==
  /\ scan' = [Resting EXCEPT !.left = Addrs]
  /\ UNCHANGED accounts

(* An unreadable account panics the scan as it does a message, but at the  *)
(* end of a block nobody recovers: there is no step.                       *)
(* A blank entry has the empty address, which owns nothing and is healthy: *)
(* the stub build's scanner visits no account of Addrs.                    *)
BeginScan ==
  /\ scan' = [Resting EXCEPT !.left = {a \in Addrs : accounts[a] \notin {NoEntry, Blank}}]
  /\ UNCHANGED accounts

SkipAccount(a) ==
  /\ scan.addr = NoEntry /\ a \in scan.left /\ Readable(a)
  /\ ~IsLiquidatable(a)
  /\ scan' = [scan EXCEPT !.left = @ \ {a}]
  /\ UNCHANGED accounts

StartExecuteLiquidation(a) ==
  /\ scan.addr = NoEntry /\ a \in scan.left /\ Readable(a)
  /\ IsLiquidatable(a)
  /\ scan' = [left |-> scan.left \ {a}, addr |-> a,
              todo |-> OpenMarkets(a), collateral |-> GetCollateral(a)]
  /\ UNCHANGED accounts

(* Mutated form: every position is charged to the stored collateral. *)
ChargePositionAlone(m) ==
  /\ scan.addr # NoEntry /\ m \in scan.todo
  /\ scan' = [scan EXCEPT
       !.todo = @ \ {m},
       !.collateral = ChargeAtMost(GetCollateral(scan.addr),
                                   Penalty(scan.addr, m, PartialLiquidationRate))]
  /\ UNCHANGED accounts

(* One position of the account: charged, but not reduced. *)
ChargePosition(m) ==
  /\ scan.addr # NoEntry /\ m \in scan.todo
  /\ scan' = [scan EXCEPT
       !.todo = @ \ {m},
       !.collateral = ChargeAtMost(@, Penalty(scan.addr, m, PartialLiquidationRate))]
  /\ UNCHANGED accounts

FinishExecuteLiquidation ==
  /\ scan.addr # NoEntry /\ scan.todo = {}
  /\ SetAccount(scan.addr, scan.collateral)
  /\ scan' = [Resting EXCEPT !.left = scan.left]
=============================================================================
