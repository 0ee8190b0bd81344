----------------------------- MODULE MCClients -----------------------------
(***************************************************************************)
(* The two subscriptions of MCTradeFeed, and two addresses whose balances  *)
(* differ from each other and from the zero of a failed request.           *)
(***************************************************************************)
EXTENDS MCTradeFeed, Clients

CONSTANTS alice, bob

MCBank == [a \in {alice, bob} |-> IF a = alice THEN 1 ELSE 2]
=============================================================================
