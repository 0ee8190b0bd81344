-------------------------- MODULE FrontendProperties -----------------------
(***************************************************************************)
(* What the frontend's pages are to keep, whatever the user, the wallet    *)
(* and the network do between two of their steps.                          *)
(***************************************************************************)
EXTENDS ExchangeApp

(* Types ******************************************************************)

(* What the trading terminal, and what the portfolio page waits for. *)
OrderTimer ==
  [kind : {"submit"}, delay : {1200}, arg : Order]
    \cup [kind : {"cancel"}, delay : {400}, arg : Nat \ {0}]
    \cup [kind : {"close"}, delay : {800}, arg : Symbols]

TransferTimer == [kind : {"deposit", "withdraw"}, delay : {1400}, arg : Nat \ {0}]

TabsOf(p) ==
  CASE p = "subaccounts" -> ActiveTabs [] p = "admin" -> Sections [] OTHER -> {"none"}

AppTypeOK ==
  /\ demoMode \in BOOLEAN /\ entering \in Nat
  /\ view \in {"landing", "app"} /\ sidebarCollapsed \in BOOLEAN
  /\ activeView \in Views \cup {"none"} /\ (activeView = "none") = (view = "landing")
  /\ activeTab \in TabsOf(activeView)
  /\ left \in Seq(LeftSubmission)

TradingTypeOK ==
  /\ markets \in MarketsState
  /\ positions \subseteq MockPositions
  /\ orders \in OrdersState
  /\ form \in Form /\ (SubmitEnabled => request \in OrderRequest)

PortfolioTypeOK ==
  /\ wallet \in WalletState
  /\ balance \in [equity : Nat, requests : [Addresses -> Nat]]
  /\ portfolio \in PortfolioState

(* Every state variable of every page has its type: a row of the order     *)
(* list always has a price, if only NaN, and nothing is ever withdrawn     *)
(* that was not deposited.  What can be submitted is a proper request, and *)
(* a page waits for its own timers only.                                   *)
FrontendTypeOK ==
  /\ AppTypeOK /\ TradingTypeOK /\ PortfolioTypeOK
  /\ timers \in Seq(IF activeView = "portfolio" THEN TransferTimer ELSE OrderTimer)

(* Properties *************************************************************)

Pending(kinds) == {i \in DOMAIN timers : timers[i].kind \in kinds}

(* The flags that disable the buttons are set only while something is      *)
(* pending that will clear them: no early return, error or unmounting      *)
(* leaves a form dead.  The transfer button's flag says exactly that.      *)
NoDeadForm ==
  /\ orders.loading => Pending({"submit", "cancel"}) # {} \/ orders.submissions # <<>>
  /\ portfolio.txLoading <=> Pending({"deposit", "withdraw"}) # {}

(* Why the forms are never dead and the account is never overdrawn: a      *)
(* transfer is the only thing its page waits for, what it takes is there   *)
(* until it is taken, and a page that is not mounted is as it starts.      *)
TransferInv ==
  IF activeView = "portfolio"
  THEN /\ Len(timers) <= 1
       /\ portfolio.txLoading <=> timers # <<>>
       /\ \A i \in DOMAIN timers :
            timers[i].kind = "withdraw" => timers[i].arg <= portfolio.depositedTotal
  ELSE portfolio = PortfolioStart

OrdersInv == activeView # "trading" => orders = OrdersStart

FrontendInv == FrontendTypeOK /\ NoDeadForm /\ TransferInv /\ OrdersInv

(* A submission whose transactions were never executed ends with a message *)
(* to the user, unless the page was left: the fallback's error is not      *)
(* swallowed as the first one is.                                          *)
NoSilentFailure ==
  [][\A i \in DOMAIN orders.submissions :
       /\ orders'.submissions = RemoveAt(orders.submissions, i)
       /\ orders.submissions[i].executed = {}
       /\ activeView' = activeView
       => orders'.lastError # "none"]_vars

(* The forms implement the account they show: the check made before the    *)
(* await still holds when the amount is subtracted after it.               *)
Requested ==
  IF Pending({"deposit", "withdraw"}) # {}
  THEN [kind |-> timers[1].kind, amount |-> timers[1].arg]
  ELSE [kind |-> "none", amount |-> 0]

DA == INSTANCE DemoAccount WITH total <- portfolio.depositedTotal, request <- Requested

TransfersAreAtomic == DA!Spec

(* A transfer that ends, whatever the wallet did meanwhile, moves the total *)
(* equity and the available margin by its amount, both alike, and neither   *)
(* the wallet's balance nor the used margin; the health ratio follows.      *)
FiguresFollowTransfers ==
  [][LET moved == portfolio'.depositedTotal - portfolio.depositedTotal IN
     activeView = "portfolio" /\ activeView' = activeView /\ moved # 0
       => /\ accountSummary'.totalEquity - accountSummary.totalEquity = moved
          /\ accountSummary'.availableMargin - accountSummary.availableMargin = moved
          /\ accountSummary'.walletBalance = accountSummary.walletBalance
          /\ accountSummary'.usedMargin = accountSummary.usedMargin
          /\ IF moved > 0 THEN accountSummary'.healthRatio >= accountSummary.healthRatio
                          ELSE accountSummary'.healthRatio <= accountSummary.healthRatio]_vars

(* The figures of the terminal: the PnL of a position is its size times     *)
(* the price move, for either sign, and its percentage that of the margin,  *)
(* rounded down; at the liquidation price shown for a form the margin put   *)
(* down has shrunk to the maintenance margin.  The same formulas written    *)
(* out in useOrders agree with those of lib/utils.ts.                       *)
PnLAgrees(p) ==
  LET row == updatedPosition(p) IN
  /\ row.pnl = p.size * (row.current - p.entry)
  /\ p.margin # 0 => /\ row.pnlPercent * p.margin <= 100 * row.pnl
                     /\ 100 * row.pnl < (row.pnlPercent + 1) * p.margin

LiquidationAgrees ==
  LET size == IF form.orderSide = "long" THEN 1 ELSE -1 IN
  calcMarginRequired(size, entryPrice, Unit \div form.leverage)
    + calcPnL(size, Unit * entryPrice, formFigures.liquidation) = Mmr * entryPrice

EstimatesAgree ==
  /\ formFigures.margin = calcMarginRequired(1, selectedPrice, Imr)
  /\ estimates.liquidation = calcLiquidationPrice(selectedPrice, 10, "long")

FiguresAgree == (\A p \in positions : PnLAgrees(p)) /\ LiquidationAgrees /\ EstimatesAgree
=============================================================================
