------------------------------ MODULE Positions ----------------------------
(***************************************************************************)
(* frontend/src/hooks/index.ts: usePositions.  The hook's loading flag is  *)
(* left out, for no component reads it: a position may be closed again     *)
(* while it is being closed.                                               *)
(***************************************************************************)
EXTENDS MarketData, EventLoop

CONSTANTS MockPositions \* the positions a terminal starts with

(* A short has a negative size; price and PnL are computed when it is shown. *)
Position == [market : Symbols, size : Int, entry : Nat, margin : Nat]

ASSUME PositionsAssumption == MockPositions \subseteq Position

VARIABLE positions

(* The row of the table: the price is the market's, not the stored one. *)
updatedPosition(p) ==
  LET current == markets.price[p.market]
      pnl == calcPnL(p.size, p.entry, current)
  IN [market |-> p.market, current |-> current, pnl |-> pnl,
      pnlPercent |-> calcPnLPercent(pnl, p.margin)]

closePosition(market) == SetTimeout("close", 800, market)

PositionClosed(i) ==
  /\ Fires(i, "close")
  /\ positions' = {p \in positions : p.market # timers[i].arg}
=============================================================================
