----------------------------- MODULE MarketData ----------------------------
(***************************************************************************)
(* frontend/src/hooks/index.ts: useMarkets.  A price is a random walk,     *)
(* here any quote of its market.  The series of the chart is left out.     *)
(***************************************************************************)
EXTENDS PriceMath

CONSTANTS Symbols,      \* the markets' symbols
          FirstSymbol,  \* MOCK_MARKETS[0].symbol
          Quotes,       \* symbol -> the prices it may have
          MockPrice,    \* symbol -> the price it starts with
          MaxLeverage   \* symbol -> market.maxLeverage

ASSUME MarketDataAssumption ==
  /\ FirstSymbol \in Symbols
  /\ Quotes \in [Symbols -> SUBSET Nat]
  /\ MockPrice \in [Symbols -> Nat]
  /\ \A s \in Symbols : MockPrice[s] \in Quotes[s]
  /\ MaxLeverage \in [Symbols -> Nat \ {0}]

VARIABLE markets        \* [price, selected]

(* Of a market only the price ever changes. *)
MarketsState == [price : [Symbols -> Nat], selected : Symbols]

(* useState(MOCK_MARKETS), useState(MOCK_MARKETS[0].symbol) *)
MarketsStart == [price |-> MockPrice, selected |-> FirstSymbol]

selectedPrice == markets.price[markets.selected]

selectMarket(s) == markets' = [markets EXCEPT !.selected = s]

(* setInterval(..., 2000): every market's price moves. *)
MarketTick ==
  \E p \in [Symbols -> UNION {Quotes[s] : s \in Symbols}] :
    /\ \A s \in Symbols : p[s] \in Quotes[s]
    /\ markets' = [markets EXCEPT !.price = p]
=============================================================================
