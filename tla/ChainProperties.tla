-------------------------- MODULE ChainProperties --------------------------
(***************************************************************************)
(* What the composed chain promises.  The code each property is about is   *)
(* named beside it; the README says which run checks it.                   *)
(***************************************************************************)
EXTENDS Chain

(* State invariants *******************************************************)

(* No account ever holds a negative collateral: Deposit, Withdraw,         *)
(* DeductMargin, both liquidation paths and the rollback of a batch guard  *)
(* or clamp it each in their own way.                                      *)
NonNegativeIn(accts) == \A a \in Addrs : accts[a] \in Int => accts[a] >= 0

NonNegativeCollateral ==
  /\ NonNegativeIn(accounts)
  /\ leg # "idle" => NonNegativeIn(saved.accounts)
  /\ scan.collateral >= 0

(* The collateral and the margin locked in one position of an account      *)
(* never exceed what the account deposited net of withdrawals, whatever    *)
(* trades, rejected batches and liquidations lie between: no keeper pays   *)
(* out money, and DeductMargin moves into Margin exactly what it takes.    *)
BackedIn(accts, posns) ==
  \A a \in Addrs, m \in Markets :
    LET held == IF accts[a] = NoEntry THEN 0 ELSE accts[a]
    IN  /\ accts[a] # Blank => held <= netDeposits[a]
        /\ accts[a] # Blank /\ posns[a][m] \notin {NoEntry, Blank} =>
             held + posns[a][m].margin <= netDeposits[a]

BackedByDeposits == BackedIn(accounts, positions)

(* The inductive invariant behind the three above.  What a running batch   *)
(* would roll back to is as well backed as the current stores, and the     *)
(* account the scanner is charging, and those it has still to visit, are   *)
(* readable and untouched since the scan began.                            *)
BatchInv ==
  leg # "idle" => scan = Resting /\ BackedIn(saved.accounts, saved.positions)

ScanInv ==
  /\ \A a \in scan.left : accounts[a] \in Int
  /\ scan.addr # NoEntry =>
       /\ scan.addr \notin scan.left
       /\ accounts[scan.addr] \in Int
       /\ scan.collateral <= accounts[scan.addr]
       /\ \A m \in scan.todo : positions[scan.addr][m] \in PositionRecord

InductiveInv ==
  TypeOK /\ NonNegativeCollateral /\ BackedByDeposits /\ BatchInv /\ ScanInv

(* The same over all positions of an account at once.                      *)
FullyBacked ==
  \A a \in Addrs : Readable(a) =>
    GetCollateral(a) + SumFunction([m \in OpenMarkets(a) |-> positions[a][m].margin])
      <= netDeposits[a]

(* Between trades the longs and shorts of a market cancel out, except for  *)
(* the size that liquidations took off one side only and the size that     *)
(* executeTrade calls, which have no counterparty, entered: a batch that   *)
(* fails after its maker leg leaves no leg behind.                         *)
OpenInterestBalanced ==
  leg # "taker" =>
    \A m \in Markets :
      SumFunction([a \in Addrs |-> SizeOf(positions[a][m])]) + removed[m] = entered[m]

(* The inductive invariant behind the two above, and behind what follows.  *)
MarginOf(p) == IF p \in {NoEntry, Blank} THEN 0 ELSE p.margin

CollateralIn(accts, a) == IF accts[a] \in Int THEN accts[a] ELSE 0

HoldingsIn(accts, posns, a) ==
  CollateralIn(accts, a) + SumFunction([m \in Markets |-> MarginOf(posns[a][m])])

OpenInterestIn(posns, m) == SumFunction([a \in Addrs |-> SizeOf(posns[a][m])])

(* No position is empty or owes margin, all that an address holds was      *)
(* deposited, and the stores are those of one build: with protoc output    *)
(* every entry reads back, with the stubs no account ever pays for a       *)
(* position.                                                               *)
SoundStores(accts, posns) ==
  /\ \A a \in Addrs, m \in Markets :
       posns[a][m] # NoEntry =>
         /\ posns[a][m] # Blank /\ CodecBuild = "protoc"
         /\ posns[a][m].size # 0 /\ posns[a][m].margin >= 0
  /\ \A a \in Addrs : accts[a] # NoEntry => (accts[a] \in Int <=> CodecBuild = "protoc")
  /\ \A a \in Addrs : HoldingsIn(accts, posns, a) <= netDeposits[a]

(* The maker's leg, while the taker has not taken the other side. *)
HalfOpen(m) ==
  IF leg = "taker" /\ Head(batch).market = m THEN MakerSize(Head(batch)) ELSE 0

(* A batch under way started from sound and balanced stores and has given  *)
(* nobody anything since.                                                  *)
SettlementInv ==
  /\ SoundStores(accounts, positions)
  /\ \A m \in Markets : OpenInterestIn(positions, m) + removed[m] = entered[m] + HalfOpen(m)
  /\ leg # "idle" =>
       /\ SoundStores(saved.accounts, saved.positions)
       /\ \A m \in Markets : OpenInterestIn(saved.positions, m) + removed[m] = entered[m]
       /\ \A a \in Addrs :
            /\ CollateralIn(accounts, a) <= CollateralIn(saved.accounts, a)
            /\ HoldingsIn(accounts, positions, a)
                 <= HoldingsIn(saved.accounts, saved.positions, a)

(* What the scanner has left of an account is what the positions it has    *)
(* visited, charged at once, leave of it.                                  *)
ChargedSoFar(a) ==
  SumFunction([m \in OpenMarkets(a) \ scan.todo |-> Penalty(a, m, PartialLiquidationRate)])

ChargeInv ==
  \A a \in Addrs : scan.addr = a /\ a # NoEntry =>
    /\ scan.todo \subseteq OpenMarkets(a)
    /\ scan.collateral = ChargeAtMost(GetCollateral(a), ChargedSoFar(a))

StoresInv == SettlementInv /\ ChargeInv

(* Refinement *************************************************************)

(* Seen from outside, between messages, the chain is AtomicSettlement: a   *)
(* batch under way shows the stores its message found, so that one which   *)
(* fails after some of its legs is no step at all, and one which succeeds  *)
(* is a single step that leaves every market's open interest as it was and *)
(* nobody with more than before.                                           *)
Committed == INSTANCE AtomicSettlement WITH
  accts   <- IF leg = "idle" THEN accounts ELSE saved.accounts,
  posns   <- IF leg = "idle" THEN positions ELSE saved.positions,
  batchNo <- batchID

SettlesAtomically == Committed!Spec

(* Action properties ******************************************************)

(* After a withdrawal the account's equity covers its maintenance margin,  *)
(* up to the rounding of HealthRatio's last digit: the check Withdraw      *)
(* makes after it has already written the account.  (With no maintenance   *)
(* margin at all the code takes the account to be healthy.)                *)
WithdrawKeepsMargin ==
  [][\A a \in Addrs :
       (netDeposits'[a] < netDeposits[a] /\ MaintenanceMarginRequired(a)' > 0)
         => 2 * One * Equity(a)' >= (2 * One - 1) * MaintenanceMarginRequired(a)']_vars

PnL(p, price) == IF p = NoEntry THEN 0 ELSE Mul(price - p.avg, p.size)

(* A trade that leaves a position open re-prices it so that, at the mark   *)
(* price, its unrealized PnL moves by what the traded size gained or lost  *)
(* against the execution price, for increases, reductions and flips alike; *)
(* only the rounding of the average entry price is lost.                   *)
TradeKeepsPnL ==
  [][\A a \in Addrs, m \in Markets :
       LET old == positions[a][m]
           new == positions'[a][m]
           traded == new.size - SizeOf(old)
           tolerance == Abs(new.size) \div One + 3
       IN  (leg # "idle" /\ leg' # "idle" /\ new # old /\ new # NoEntry) =>
             Abs(PnL(new, GetPrice(m)) - PnL(old, GetPrice(m))
                   - Mul(GetPrice(m) - Head(batch).price, traded)) <= tolerance]_vars

(* Without a trade a position only ever moves towards zero and keeps its   *)
(* side, entry price and margin: neither a liquidation nor any other       *)
(* message grows, flips or re-prices it.                                   *)
OnlyTradesGrowPositions ==
  [][leg = "idle" /\ entered' = entered =>
       \A a \in Addrs, m \in Markets :
         LET old == positions[a][m]
             new == positions'[a][m]
         IN  new # old /\ new \notin {NoEntry, Blank} =>
               /\ old # NoEntry
               /\ [new EXCEPT !.size = old.size] = old
               /\ Abs(new.size) < Abs(old.size)
               /\ new.size > 0 <=> old.size > 0]_vars

(* A scan takes from an account its whole penalty, all positions together, *)
(* or everything it has, and from no other account: cutting off after each *)
(* position comes to the same as cutting off once.                         *)
ScanChargesTotalPenalty ==
  [][Scanning =>
       accounts' = [a \in Addrs |->
         IF accounts'[a] = accounts[a] THEN accounts[a]
         ELSE ChargeAtMost(GetCollateral(a),
                SumFunction([m \in OpenMarkets(a) |-> Penalty(a, m, PartialLiquidationRate)]))]]_vars

(* The payments of one funding round cancel out over a market whose longs  *)
(* and shorts do, up to the rounding of one payment per address.           *)
FundingRoundBalances ==
  [][\A m \in Markets :
       removed[m] = entered[m] /\ leg = "idle" =>
         Abs(SumFunction([a \in Addrs |-> cumFunding'[m][a] - cumFunding[m][a]]))
           <= Cardinality(Addrs)]_vars

(* Liveness ***************************************************************)

(* A batch and a scan run to their end, being loops of one call; and a     *)
(* liquidator submits MsgLiquidate again and again for every account and   *)
(* market, so that some submission is delivered before a scan starts.      *)
LiquidatorSpec ==
  /\ Spec
  /\ WF_vars(leg # "idle" /\ SettleStep)
  /\ WF_vars(Scanning /\ EndBlockStep)
  /\ \A a \in Addrs, m \in Markets : SF_vars(LiquidateMsg(a, m))

(* An account that becomes liquidatable is healthy again at some later     *)
(* time: partial liquidations, each with its penalty, do not go on for     *)
(* ever, because what is left of a position is deleted once it is dust.    *)
LiquidationClears ==
  \A a \in Addrs : (Readable(a) /\ IsLiquidatable(a)) ~> ~IsLiquidatable(a)

(* What the documents say *************************************************)

(* README.md: "Partial liquidation | 50% position reduction", and "EndBlock *)
(* scans all accounts and auto-liquidates below threshold": an account the *)
(* scanner has charged holds less afterwards.                              *)
ScanReducesPositions ==
  [][Scanning =>
       \A a \in Addrs : GetCollateral(a)' < GetCollateral(a) =>
         \E m \in OpenMarkets(a) :
           Abs(SizeOf(positions'[a][m])) < Abs(positions[a][m].size)]_vars

(* x/settlement/keeper/funding.go: "Positive payment = longs pay shorts":  *)
(* in a market with a positive index the shorts do not pay.                *)
LongsPayShorts ==
  \A m \in Markets : cumIndex[m] > 0 =>
    \A a \in Addrs :
      (OpenMarkets(a) = {m} /\ positions[a][m].size < 0) => FundingPnL(a) >= 0

(* clearinghouse.sol: require(hr >= 1e18, "LOW_MARGIN"): what the margin   *)
(* precompile answers reaches one only for an account that is healthy.     *)
OnlyHealthyPass ==
  Idle => \A a \in Addrs :
    (Readable(a) /\ HealthRatioWord(a) >= One) => ~IsLiquidatable(a)
=============================================================================
