------------------------------- MODULE Oracle ------------------------------
(***************************************************************************)
(* x/oracle: one mark price per market.  The timestamp stored beside the   *)
(* price is read by no keeper, so it is left out here.  Prices are stored  *)
(* with LegacyDec's own encoding, not with the stubs of Codec.             *)
(***************************************************************************)
EXTENDS Codec, FiniteSets

CONSTANT Markets

ASSUME MarketsAssumption == IsFiniteSet(Markets)

VARIABLE prices     \* market -> mark price, or NoEntry

OracleTypeOK == prices \in [Markets -> Nat \cup {NoEntry}]

OracleInit == prices = [m \in Markets |-> NoEntry]

(* A market without a price is priced at zero, not refused. *)
GetPrice(m) == IF prices[m] = NoEntry THEN 0 ELSE prices[m]

(* SetPrice, behind the check of MsgSetPrice.ValidateBasic. *)
SetPrice(m, price) ==
  /\ price >= 0
  /\ prices' = [prices EXCEPT ![m] = price]
=============================================================================
