----------------------------- MODULE MCTradeFeed ---------------------------
(***************************************************************************)
(* Two price subscriptions, to two markets.  Two slots for sockets and     *)
(* timers are one more than OneConnection allows.                          *)
(***************************************************************************)
EXTENDS TradeFeed

CONSTANTS chart, ticker, btc, eth

ChartAndTicker == [f \in {chart, ticker} |-> IF f = chart THEN btc ELSE eth]
=============================================================================
