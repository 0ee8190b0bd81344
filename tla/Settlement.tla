----------------------------- MODULE Settlement ----------------------------
(***************************************************************************)
(* x/settlement: MsgSettleMatchedOrders.  A batch is a sequence of matched *)
(* trades; each trade opens a leg for its maker and then one for its taker *)
(* and each leg debits the margin account and then writes the position.    *)
(* The first leg that fails ends the message with an error, and what the   *)
(* earlier legs wrote is rolled back with it: saved holds the stores the   *)
(* message found.  Maker and taker fees are computed and logged only.      *)
(*                                                                         *)
(* NewApp always injects the margin keeper, so ExecuteTrade's nil test is  *)
(* not taken here.                                                         *)
(***************************************************************************)
EXTENDS Margin, Sequences

CONSTANTS InitialMarginRatio,   \* 0.05
          AuthorizedMatcher,    \* params.AuthorizedMatcherAddress
          Uint64                \* 2^64, the number of batch ids

ASSUME SettlementAssumption ==
  /\ InitialMarginRatio \in Nat
  /\ Uint64 \in Nat \ {0}

VARIABLES batchID,    \* the stored batch id
          leg,        \* "idle", or the leg the running batch does next
          batch,      \* the trades it has not finished
          saved       \* the account and position stores it started from,
                      \* and nothing between batches

settlementVars == <<batchID, leg, batch, saved>>

Trade == [maker : Addrs, taker : Addrs, market : Markets,
          price : Nat, size : Int, takerLong : BOOLEAN]

SettlementTypeOK ==
  /\ batchID \in 0 .. Uint64 - 1
  /\ leg \in {"idle", "maker", "taker"}
  /\ batch \in Seq(Trade)
  /\ leg = "taker" => batch # <<>>
  /\ saved \in [accounts  : [Addrs -> Int \cup {NoEntry, Blank}],
                positions : [Addrs -> [Markets -> PositionRecord \cup {NoEntry, Blank}]]]

NothingSaved ==
  [accounts  |-> [a \in Addrs |-> NoEntry],
   positions |-> [a \in Addrs |-> [m \in Markets |-> NoEntry]]]

SettlementInit ==
  /\ batchID = 0
  /\ leg = "idle"
  /\ batch = <<>>
  /\ saved = NothingSaved

(* ExecuteTrade ***********************************************************)
RequiredMargin(size, price) == Mul(Mul(Abs(size), price), InitialMarginRatio)

(* The conditions under which ExecuteTrade returns no error.               *)
TradeAccepted(a, m, size, price) ==
  /\ size # 0
  /\ CanDeduct(a, RequiredMargin(size, price))
  /\ positions[a][m] # Blank

(* Mutated form: an address that holds a position is not debited again. *)
ExecuteTradeFreeIncrease(a, m, size, price) ==
  /\ TradeAccepted(a, m, size, price)
  /\ IF HasPosition(a, m) THEN UNCHANGED accounts
     ELSE DeductMargin(a, RequiredMargin(size, price))
  /\ OpenPosition(a, m, size, price, RequiredMargin(size, price), cumFunding[m][a])

ExecuteTrade(a, m, size, price) ==
  /\ TradeAccepted(a, m, size, price)
  /\ DeductMargin(a, RequiredMargin(size, price))
  /\ OpenPosition(a, m, size, price, RequiredMargin(size, price), cumFunding[m][a])

(* The two sides of a trade ***********************************************)
MakerSize(trade) == IF trade.takerLong THEN -trade.size ELSE trade.size
(* Mutated form: the taker takes the maker's side. *)
TakerSizeSameSide(trade) == MakerSize(trade)
TakerSize(trade) == IF trade.takerLong THEN trade.size ELSE -trade.size

LegAddr(trade) == IF leg = "maker" THEN trade.maker ELSE trade.taker
LegSize(trade) == IF leg = "maker" THEN MakerSize(trade) ELSE TakerSize(trade)

(* SettleMatchedOrders ****************************************************)
BeginBatch(matcher, trades) ==
  /\ leg = "idle"
  /\ matcher = AuthorizedMatcher
  /\ leg' = "maker"
  /\ batch' = trades
  /\ saved' = [accounts |-> accounts, positions |-> positions]
  /\ UNCHANGED <<batchID, accounts, positions>>

SettleMaker ==
  LET trade == Head(batch)
  IN  /\ leg = "maker" /\ batch # <<>>
      /\ ExecuteTrade(trade.maker, trade.market, MakerSize(trade), trade.price)
      /\ leg' = "taker"
      /\ UNCHANGED <<batchID, batch, saved>>

(* Mutated form: the next leg is not reset. *)
SettleTakerStuck ==
  LET trade == Head(batch)
  IN  /\ leg = "taker"
      /\ ExecuteTrade(trade.taker, trade.market, TakerSize(trade), trade.price)
      /\ batch' = Tail(batch)
      /\ UNCHANGED <<batchID, leg, saved>>

SettleTaker ==
  LET trade == Head(batch)
  IN  /\ leg = "taker"
      /\ ExecuteTrade(trade.taker, trade.market, TakerSize(trade), trade.price)
      /\ leg' = "maker"
      /\ batch' = Tail(batch)
      /\ UNCHANGED <<batchID, saved>>

(* Mutated form: only the margin store is rolled back. *)
RejectBatchHalf ==
  LET trade == Head(batch)
  IN  /\ leg # "idle" /\ batch # <<>>
      /\ ~TradeAccepted(LegAddr(trade), trade.market, LegSize(trade), trade.price)
      /\ leg' = "idle"
      /\ batch' = <<>>
      /\ accounts' = saved.accounts
      /\ saved' = NothingSaved
      /\ UNCHANGED <<batchID, positions>>

(* A leg returns an error: the message fails and its writes are dropped.   *)
RejectBatch ==
  LET trade == Head(batch)
  IN  /\ leg # "idle" /\ batch # <<>>
      /\ ~TradeAccepted(LegAddr(trade), trade.market, LegSize(trade), trade.price)
      /\ leg' = "idle"
      /\ batch' = <<>>
      /\ accounts' = saved.accounts
      /\ positions' = saved.positions
      /\ saved' = NothingSaved
      /\ UNCHANGED batchID

(* incrementBatchID, after the last trade. *)
FinishBatch ==
  /\ leg = "maker" /\ batch = <<>>
  /\ batchID' = (batchID + 1) % Uint64
  /\ leg' = "idle"
  /\ saved' = NothingSaved
  /\ UNCHANGED <<batch, accounts, positions>>
=============================================================================
