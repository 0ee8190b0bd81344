------------------------------- MODULE Balance -----------------------------
(***************************************************************************)
(* frontend/src/hooks/index.ts: the account equity of useChain.  A mounted *)
(* page asks the bank for the balance of the connected address: when the   *)
(* address changes, and every ten seconds.  The clean-up of the effect     *)
(* stops the interval and not the requests on their way: whenever one is   *)
(* answered, its answer is shown.  Requests of an unmounted page change    *)
(* nothing and are forgotten.                                              *)
(*                                                                         *)
(* The exchange's header and the portfolio page have a copy each.  The     *)
(* block ticker is left out.                                               *)
(***************************************************************************)
EXTENDS Integers, FiniteSetsExt, Wallet

CONSTANTS BankBalance,  \* address -> its uusdc in the bank, external
          MaxRequests   \* bound: requests on their way

ASSUME BalanceAssumption == BankBalance \in [Addresses -> Nat]

VARIABLE balance        \* [equity, requests]: requests counts them by address

(* What the hook tells the page of the wallet. *)
WalletState ==
  [address : Addresses \cup {NoAddress}, connected : BOOLEAN, accountEquity : Nat]

wallet == [address |-> address, connected |-> connected, accountEquity |-> balance.equity]

NoRequests == [a \in Addresses |-> 0]

BalanceStart == [equity |-> 0, requests |-> NoRequests]

MayRequest == MapThenSumSet(LAMBDA a : balance.requests[a], Addresses) < MaxRequests

(* What the effect leaves when the page is mounted. *)
BalanceMounted ==
  IF connected THEN [BalanceStart EXCEPT !.requests[address] = 1] ELSE BalanceStart

(* The effect, when the address has become a. *)
BalanceEffect(a) ==
  IF a = NoAddress
  THEN balance' = [balance EXCEPT !.equity = 0]
  ELSE /\ MayRequest
       /\ balance' = [balance EXCEPT !.requests[a] = @ + 1]

Poll ==
  /\ connected
  /\ MayRequest
  /\ balance' = [balance EXCEPT !.requests[address] = @ + 1]

(* Mutated form: an answer is taken only while there is no figure yet. *)
BalanceAnsweredOnce(a, found) ==
  /\ balance.requests[a] > 0
  /\ balance' = [equity |-> IF found /\ balance.equity = 0 THEN BankBalance[a] ELSE balance.equity,
                 requests |-> [balance.requests EXCEPT ![a] = @ - 1]]

(* A request fails, or finds no uusdc, or finds the balance. *)
BalanceAnswered(a, found) ==
  /\ balance.requests[a] > 0
  /\ balance' = [equity |-> IF found THEN BankBalance[a] ELSE 0,
                 requests |-> [balance.requests EXCEPT ![a] = @ - 1]]

BalanceNext == Poll \/ \E a \in Addresses, found \in BOOLEAN : BalanceAnswered(a, found)
=============================================================================
