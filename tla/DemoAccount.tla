----------------------------- MODULE DemoAccount ---------------------------
(***************************************************************************)
(* What the deposit and withdrawal forms promise: an account that serves   *)
(* one request at a time.  A withdrawal is accepted only if the account    *)
(* covers it, a request that is accepted changes the account in one step   *)
(* by its whole amount, and so the account is never overdrawn.  Leaving    *)
(* the page forgets both.                                                  *)
(***************************************************************************)
EXTENDS Integers

VARIABLES total, request

NoRequest == [kind |-> "none", amount |-> 0]

Init == total = 0 /\ request = NoRequest

Accept ==
  /\ request = NoRequest
  /\ request' \in [kind : {"deposit", "withdraw"}, amount : Nat \ {0}]
  /\ request'.kind = "withdraw" => request'.amount <= total
  /\ UNCHANGED total

Serve ==
  /\ request # NoRequest
  /\ total' = IF request.kind = "deposit" THEN total + request.amount ELSE total - request.amount
  /\ request' = NoRequest

Forget == Init'

Next == Accept \/ Serve \/ Forget

Spec == Init /\ [][Next]_<<total, request>>
=============================================================================
