------------------------------ MODULE Funding ------------------------------
(***************************************************************************)
(* x/funding: a cumulative index per market and the funding accumulated by *)
(* each address in each market.  The index price of a funding round is the *)
(* oracle's price, the mark price is the caller's argument.                *)
(***************************************************************************)
EXTENDS Oracle

CONSTANTS Addrs,
          FundingInterval,    \* FundingIntervalSeconds, a decimal; 3600 in the code
          MaxFundingRate      \* 75 basis points, a decimal

ASSUME FundingAssumption ==
  /\ FundingInterval \in Nat \ {0}
  /\ MaxFundingRate \in Nat

ASSUME AddrsAssumption == IsFiniteSet(Addrs)

VARIABLES cumIndex,     \* market -> cumulative index
          cumFunding    \* market -> address -> accumulated funding

fundingVars == <<cumIndex, cumFunding>>

FundingTypeOK ==
  /\ cumIndex \in [Markets -> Int]
  /\ cumFunding \in [Markets -> [Addrs -> Int]]

FundingInit ==
  /\ cumIndex = [m \in Markets |-> 0]
  /\ cumFunding = [m \in Markets |-> [a \in Addrs |-> 0]]

Clamp(x, bound) == IF x > bound THEN bound ELSE IF x < -bound THEN -bound ELSE x

ComputeFundingRate(m, markPrice) ==
  Clamp(Quo(GetPrice(m) - markPrice, FundingInterval), MaxFundingRate)

(* Mutated form: shorts pay like longs. *)
ApplyFundingUnsigned(m, markPrice, sizes) ==
  LET rate == ComputeFundingRate(m, markPrice)
  IN  /\ cumIndex' = [cumIndex EXCEPT ![m] = @ + rate]
      /\ cumFunding' = [cumFunding EXCEPT ![m] =
           [a \in Addrs |-> @[a] + IF a \in DOMAIN sizes THEN Mul(Abs(sizes[a]), rate) ELSE 0]]

(* sizes: the caller's map from addresses to position sizes. *)
ApplyFunding(m, markPrice, sizes) ==
  LET rate == ComputeFundingRate(m, markPrice)
  IN  /\ cumIndex' = [cumIndex EXCEPT ![m] = @ + rate]
      /\ cumFunding' = [cumFunding EXCEPT ![m] =
           [a \in Addrs |-> @[a] + IF a \in DOMAIN sizes THEN Mul(sizes[a], rate) ELSE 0]]
=============================================================================
