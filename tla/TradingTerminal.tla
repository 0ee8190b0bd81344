--------------------------- MODULE TradingTerminal -------------------------
(***************************************************************************)
(* frontend/src/components/TradingTerminal.tsx: the order form, and the    *)
(* hooks of the page.  An empty input is NoSize or, for a price, NaN,      *)
(* which is what parseFloat makes of it.                                   *)
(***************************************************************************)
EXTENDS Orders

CONSTANTS ChartViews, ExecModes,
          TypedPrices, TypedSizes,      \* what is typed; sizes may be negative
          NoSize,
          DefaultLeverage,              \* 10
          Leverages                     \* bound: stops of the slider that are tried

ASSUME TerminalAssumption ==
  /\ "price" \in ChartViews /\ "low-latency" \in ExecModes
  /\ TypedPrices \subseteq Nat \cup {NaN} /\ TypedSizes \subseteq Int /\ NoSize \notin Int
  /\ DefaultLeverage \in Nat \ {0} /\ Leverages \subseteq Nat \ {0}

VARIABLE form

(* The price is read once, when the page is mounted. *)
FormStart ==
  [chartView |-> "price", orderType |-> "limit", orderSide |-> "long",
   execMode |-> "low-latency", price |-> MockPrice[FirstSymbol], size |-> NoSize,
   leverage |-> DefaultLeverage]

Form ==
  [chartView : ChartViews, orderType : OrderTypes, orderSide : Sides, execMode : ExecModes,
   price : TypedPrices \cup {NaN} \cup Quotes[FirstSymbol], size : TypedSizes \cup {NoSize},
   leverage : Nat \ {0}]

tradingVars == <<markets, positions, orders, form>>

SelectMarket(s) ==
  /\ selectMarket(s)
  /\ UNCHANGED <<positions, orders, form, timers>>

Ticks ==
  /\ MarketTick
  /\ UNCHANGED <<positions, orders, form, timers>>

setForm(new) ==
  /\ form' = new
  /\ UNCHANGED <<markets, positions, orders, timers>>

SetChartView(v) == setForm([form EXCEPT !.chartView = v])
SetExecMode(m) == setForm([form EXCEPT !.execMode = m])
SetOrderSide(side) == setForm([form EXCEPT !.orderSide = side])
SetOrderType(t) == setForm([form EXCEPT !.orderType = t])

(* The price input is there for every order but a market order. *)
SetPrice(p) ==
  /\ form.orderType # "market"
  /\ setForm([form EXCEPT !.price = p])

SetSize(z) == setForm([form EXCEPT !.size = z])

(* The slider ends at the selected market's maximum.  Selecting a market   *)
(* with a lower one leaves the value where it is.                          *)
SetLeverage(l) ==
  /\ l <= MaxLeverage[markets.selected]
  /\ setForm([form EXCEPT !.leverage = l])

(* parseFloat(price) || selectedMarket.price *)
entryPrice == IF form.price \in {NaN, 0} THEN selectedPrice ELSE form.price

liqPrice == calcLiquidationPrice(entryPrice, form.leverage, form.orderSide)

(* The box under the button: the liquidation price follows the form, the   *)
(* margin and the fee do not.                                              *)
formFigures ==
  [margin |-> estimates.margin, liquidation |-> liqPrice, fee |-> estimates.fee]

(* Its leverage goes into the Cosmos message only, and its executionMode    *)
(* nowhere: both are left out.                                             *)
request ==
  [market |-> markets.selected, side |-> form.orderSide, type |-> form.orderType,
   size |-> form.size,
   price |-> IF form.orderType # "market" THEN form.price ELSE Undefined]

(* The button is disabled while loading and while there is no size. *)
SubmitEnabled == ~orders.loading /\ form.size # NoSize

HandleSubmit ==
  /\ SubmitEnabled /\ RoomToAwait
  /\ form.size > 0
  /\ \/ AskToConnect /\ UNCHANGED timers
     \/ SubmitDemo(request)
     \/ SubmitReal(request) /\ UNCHANGED timers
  /\ UNCHANGED <<markets, positions, form>>

(* setSize(""), after submitOrder returned: it clears what has been typed since. *)
SubmitReturns ==
  /\ form' = [form EXCEPT !.size = NoSize]
  /\ UNCHANGED <<markets, positions>>

(* The wallet's or the network's answer to a submission. *)
Answers ==
  /\ \/ ConnectResolves
     \/ ConnectRejects
     \/ \E i \in DOMAIN orders.submissions :
          EvmResolves(i) \/ CosmosResolves(i) \/ CosmosRejects(i)
  /\ SubmitReturns
  /\ UNCHANGED timers

Network ==
  /\ \E i \in DOMAIN orders.submissions :
       SignerResolves(i) \/ SignerRejects(i) \/ Executed(i) \/ EvmRejects(i)
  /\ UNCHANGED <<markets, positions, form, timers>>

(* The cross of an order's row and the Close button of a position's: neither is *)
(* ever disabled.                                                               *)
ClickCancel(i) ==
  /\ RoomToAwait
  /\ cancelOrder(orders.open[i].market, i)
  /\ UNCHANGED <<markets, positions, form>>

ClickClose(p) ==
  /\ RoomToAwait
  /\ closePosition(p.market)
  /\ UNCHANGED <<markets, positions, orders, form>>

TradingTimer(i) ==
  \/ DemoSubmitted(i) /\ SubmitReturns
  \/ OrderCancelled(i) /\ UNCHANGED <<markets, positions, form>>
  \/ PositionClosed(i) /\ UNCHANGED <<markets, orders, form>>

UserTrades ==
  \/ \E s \in Symbols : SelectMarket(s)
  \/ \E v \in ChartViews : SetChartView(v)
  \/ \E m \in ExecModes : SetExecMode(m)
  \/ \E side \in Sides : SetOrderSide(side)
  \/ \E t \in OrderTypes : SetOrderType(t)
  \/ \E p \in TypedPrices : SetPrice(p)
  \/ \E z \in TypedSizes \cup {NoSize} : SetSize(z)
  \/ \E l \in Leverages : SetLeverage(l)
  \/ HandleSubmit
  \/ \E i \in DOMAIN orders.open : ClickCancel(i)
  \/ \E p \in positions : ClickClose(p)

TradingNext ==
  UserTrades \/ Ticks \/ Answers \/ Network \/ \E i \in DOMAIN timers : TradingTimer(i)
=============================================================================
