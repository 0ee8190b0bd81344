---------------------------- MODULE Liquidation ----------------------------
(***************************************************************************)
(* x/liquidation: MsgLiquidate from an external liquidator.  The reward is *)
(* returned and emitted in an event; neither it nor the penalty is         *)
(* credited to any store, so neither who the liquidator is nor how much    *)
(* is announced changes anything, and both are left out.  The rate is a    *)
(* constant of this keeper, equal to the default of x/margin.              *)
(***************************************************************************)
EXTENDS Settlement

VARIABLE removed    \* market -> signed size liquidated off the market (history)

LiquidationTypeOK == removed \in [Markets -> Int]

LiquidationInit == removed = [m \in Markets |-> 0]

PartialRate == One \div 2

SizeOf(p) == IF p \in {NoEntry, Blank} THEN 0 ELSE p.size

Liquidate(target, m) ==
  /\ Readable(target)
  /\ IsLiquidatable(target)
  /\ HasPosition(target, m)
  /\ ExecuteLiquidation(target, m, PartialRate)
  /\ removed' = [removed EXCEPT
       ![m] = @ + positions[target][m].size - SizeOf(positions'[target][m])]
=============================================================================
