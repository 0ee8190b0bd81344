---------------------------- MODULE MarginSummary --------------------------
(***************************************************************************)
(* The account of frontend/src/hooks/index.ts: usePortfolio, which is no   *)
(* one's: its assets are the mock data, and its margins fixed shares of    *)
(* their value.  The values are multiples of 20, so that the shares are    *)
(* exact, and a haircut is a percentage.                                   *)
(***************************************************************************)
EXTENDS Integers, FiniteSets, FiniteSetsExt

CONSTANTS AssetNames,
          Assets        \* MOCK_PORTFOLIO_ASSETS

PortfolioAsset == [asset : AssetNames, value : Nat, haircut : 0..100]

MarginSummary ==
  [totalEquity : Nat, initialMargin : Nat, maintenanceMargin : Nat, availableBalance : Nat,
   imRatio : Nat, mmRatio : Nat, usagePercent : Nat, bufferPercent : Nat]

ASSUME AssetsAssumption ==
  /\ Assets \subseteq PortfolioAsset /\ IsFiniteSet(Assets)
  /\ \A a \in Assets : a.value % 20 = 0

Percent(value, percentage) == (value * percentage) \div 100

totalValue == SumFunction([a \in Assets |-> a.value])

imr == 10
mmr == 5

summary ==
  [totalEquity |-> totalValue,
   initialMargin |-> Percent(totalValue, imr),
   maintenanceMargin |-> Percent(totalValue, mmr),
   availableBalance |-> Percent(totalValue, 100 - imr),
   imRatio |-> imr, mmRatio |-> mmr, usagePercent |-> imr, bufferPercent |-> 100 - imr]
=============================================================================
