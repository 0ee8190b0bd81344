------------------------------- MODULE Chain -------------------------------
(***************************************************************************)
(* The six keepers composed as app.go composes them, run by a block        *)
(* executor: messages one at a time, and the margin scanner at the end of  *)
(* a block.  A message that fails changes nothing, so a failing            *)
(* single-step message is no step; a batch, which is several steps, is     *)
(* rejected by RejectBatch.  Between two steps of a batch or of a scan     *)
(* nothing else runs.                                                      *)
(*                                                                         *)
(* Nothing under src/ calls SetPrice or ApplyFunding or registers the      *)
(* precompiles: the price feeder, the funding driver and the EVM are the   *)
(* environment's, as are the clients.                                      *)
(***************************************************************************)
EXTENDS Precompiles

CONSTANTS Amounts,        \* deposit and withdrawal amounts clients try
          Prices,         \* prices the feeder posts
          FundingMarks,   \* mark prices the funding driver passes
          Batches,        \* batches the matcher submits
          Senders,        \* matcher addresses that submit them
          Calls,          \* calldata EVM accounts send to the precompiles
          MaxDeposit,     \* bound: no address deposits more than this, net
          MaxBatches,     \* bound: batches that are settled
          MaxIndex,       \* bound: size of a market's cumulative index
          MaxEntered      \* bound: size executeTrade calls enter per market

ASSUME ChainAssumption ==
  /\ Amounts \subseteq Int /\ Prices \subseteq Nat /\ FundingMarks \subseteq Nat
  /\ Batches \subseteq Seq(Trade) /\ Calls \subseteq Call
  /\ MaxDeposit \in Nat /\ MaxBatches \in Nat /\ MaxIndex \in Nat /\ MaxEntered \in Nat

VARIABLE netDeposits    \* address -> deposits minus withdrawals (history)

vars == <<prices, cumIndex, cumFunding, positions, accounts, scan,
          batchID, leg, batch, saved, removed, entered, netDeposits>>

TypeOK ==
  /\ OracleTypeOK
  /\ FundingTypeOK
  /\ PositionTypeOK
  /\ MarginTypeOK
  /\ SettlementTypeOK
  /\ LiquidationTypeOK
  /\ PrecompilesTypeOK
  /\ netDeposits \in [Addrs -> Int]

Init ==
  /\ OracleInit
  /\ FundingInit
  /\ PositionInit
  /\ MarginInit
  /\ SettlementInit
  /\ LiquidationInit
  /\ PrecompilesInit
  /\ netDeposits = [a \in Addrs |-> 0]

(* No message and no scan is under way. *)
Idle == leg = "idle" /\ ~Scanning

DepositMsg(a, amount) ==
  /\ Idle
  /\ netDeposits[a] + amount <= MaxDeposit
  /\ Deposit(a, amount)
  /\ netDeposits' = [netDeposits EXCEPT ![a] = @ + amount]
  /\ UNCHANGED <<riskInputs, scan, settlementVars, removed, entered>>

WithdrawMsg(a, amount) ==
  /\ Idle
  /\ Withdraw(a, amount)
  /\ netDeposits' = [netDeposits EXCEPT ![a] = @ - amount]
  /\ UNCHANGED <<scan, settlementVars, removed, entered>>

SetPriceMsg(m, price) ==
  /\ Idle
  /\ SetPrice(m, price)
  /\ UNCHANGED <<fundingVars, positions, accounts, scan, settlementVars,
                 removed, entered, netDeposits>>

(* The sizes the driver passes are those of the market's open positions. *)
FundingRound(m, markPrice) ==
  LET holders == {a \in Addrs : HasPosition(a, m)}
  IN  /\ Idle
      /\ Abs(cumIndex[m] + ComputeFundingRate(m, markPrice)) <= MaxIndex
      /\ \A a \in holders : positions[a][m] # Blank
      /\ ApplyFunding(m, markPrice, [a \in holders |-> positions[a][m].size])
      /\ UNCHANGED <<prices, positions, accounts, scan, settlementVars,
                     removed, entered, netDeposits>>

SettleMatchedOrders(matcher, trades) ==
  /\ Idle
  /\ batchID < MaxBatches
  /\ BeginBatch(matcher, trades)

SettleStep ==
  /\ \/ \E matcher \in Senders, trades \in Batches : SettleMatchedOrders(matcher, trades)
     \/ SettleMaker
     \/ SettleTaker
     \/ RejectBatch
     \/ FinishBatch
  /\ UNCHANGED <<prices, fundingVars, scan, removed, entered, netDeposits>>

LiquidateMsg(target, m) ==
  /\ Idle
  /\ Liquidate(target, m)
  /\ UNCHANGED <<prices, fundingVars, scan, settlementVars, entered, netDeposits>>

(* The precompiles make the same keeper calls for an EVM caller. *)
DepositCall(a, call) ==
  /\ IsDepositCall(call)
  /\ DepositMsg(a, DecodeUint256(call.words[1]))

TradeCall(a, call) ==
  /\ Idle
  /\ ExecuteTradeCall(a, call)
  /\ Abs(entered'[call.market]) <= MaxEntered
  /\ UNCHANGED <<prices, fundingVars, scan, settlementVars, removed, netDeposits>>

EndBlockStep ==
  /\ \/ Idle /\ BeginScan
     \/ \E a \in Addrs : SkipAccount(a)
     \/ \E a \in Addrs : StartExecuteLiquidation(a)
     \/ \E m \in Markets : ChargePosition(m)
     \/ FinishExecuteLiquidation
  /\ UNCHANGED <<riskInputs, settlementVars, removed, entered, netDeposits>>

Next ==
  \/ \E a \in Addrs, amount \in Amounts : DepositMsg(a, amount)
  \/ \E a \in Addrs, amount \in Amounts : WithdrawMsg(a, amount)
  \/ \E m \in Markets, price \in Prices : SetPriceMsg(m, price)
  \/ \E m \in Markets, mark \in FundingMarks : FundingRound(m, mark)
  \/ SettleStep
  \/ \E a \in Addrs, m \in Markets : LiquidateMsg(a, m)
  \/ \E a \in Addrs, call \in Calls : DepositCall(a, call) \/ TradeCall(a, call)
  \/ EndBlockStep

Spec == Init /\ [][Next]_vars
=============================================================================
