----------------------------- MODULE MCFrontend ----------------------------
(***************************************************************************)
(* One market whose price moves across the entry price of a short          *)
(* position, a resting order that a user may enter again, and two          *)
(* addresses between which the wallet may switch.                          *)
(***************************************************************************)
EXTENDS FrontendProperties

CONSTANTS eth, alice, bob

MCQuotes == [s \in {eth} |-> {2, 4}]
MCPrice == [s \in {eth} |-> 2]
MCLeverage == [s \in {eth} |-> 10]
ShortPosition == {[market |-> eth, size |-> -1, entry |-> 3, margin |-> 1]}
RestingOrder ==
  <<[market |-> eth, type |-> "limit", side |-> "long", size |-> 1, price |-> 2,
     filled |-> 0, status |-> "Open"]>>
MCBank == [a \in {alice, bob} |-> IF a = alice THEN 1 ELSE 0]
MockAssets ==
  {[asset |-> "BTC", value |-> 40, haircut |-> 95], [asset |-> "USDC", value |-> 20, haircut |-> 100]}
=============================================================================
