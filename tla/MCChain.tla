------------------------------ MODULE MCChain ------------------------------
(***************************************************************************)
(* Instances of the chain for TLC.  One = 100: two decimal digits, so the  *)
(* rates of the code (0.05, 0.03, 0.02, 0.50) are 5, 3, 2 and 50.          *)
(***************************************************************************)
EXTENDS ChainProperties

CONSTANTS alice, bob, btc, eth

T(maker, taker, market, price, size, takerLong) ==
  [maker |-> maker, taker |-> taker, market |-> market,
   price |-> price, size |-> size, takerLong |-> takerLong]

(* One market: opening, increasing, reducing and flipping trades, a batch  *)
(* whose second trade reduces what its first one opened, an empty batch, a *)
(* self-trade and a zero size.                                             *)
TradingBatches ==
  { <<T(bob, alice, btc, 100, 1000, TRUE)>>,
    <<T(alice, bob, btc, 50, 400, TRUE)>>,
    <<T(alice, bob, btc, 100, 1000, TRUE), T(bob, alice, btc, 50, 400, TRUE)>>,
    <<T(alice, alice, btc, 50, 400, FALSE)>>,
    <<T(alice, bob, btc, 100, 0, TRUE)>>,
    <<>> }

(* An order sent through the settlement precompile, a deposit, and calls   *)
(* that are refused: one word missing, an unknown selector.                *)
EvmCalls ==
  { [selector |-> "executeTrade", market |-> btc, words |-> <<400, 50>>],
    [selector |-> "executeTrade", market |-> btc, words |-> <<400>>],
    [selector |-> "deposit",      market |-> btc, words |-> <<60>>],
    [selector |-> "unknown",      market |-> btc, words |-> <<400, 50>>] }

(* Two markets: alice is long one and short the other, and adds to either. *)
CrossBatches ==
  { <<T(bob, alice, btc, 100, 1000, TRUE), T(bob, alice, eth, 100, 1000, FALSE)>>,
    <<T(alice, bob, eth, 50, 600, TRUE)>> }

(* Both sides of one market, opened and increased. *)
FundedBatches ==
  { <<T(bob, alice, btc, 100, 1000, TRUE)>>, <<T(bob, alice, btc, 100, 333, TRUE)>> }
=============================================================================
