-------------------------- MODULE AtomicSettlement -------------------------
(***************************************************************************)
(* What the settlement chain promises its users, without legs, snapshots   *)
(* or scanners: a batch is settled in one step or not at all, a settled    *)
(* batch balances and pays nobody, a payment touches one account and a     *)
(* liquidation one position, which it shrinks.                             *)
(***************************************************************************)
EXTENDS Integers, Functions

CONSTANTS Addrs, Markets, NoEntry,
          Uint64        \* number of batch ids

VARIABLES accts,        \* address -> collateral, or an entry that has none
          posns,        \* address -> market -> position, or NoEntry
          batchNo       \* batches settled

ledgerVars == <<accts, posns, batchNo>>

Collateral(a) == IF accts[a] \in Int THEN accts[a] ELSE 0
Size(a, m)    == IF posns[a][m] = NoEntry THEN 0 ELSE posns[a][m].size
Locked(a, m)  == IF posns[a][m] = NoEntry THEN 0 ELSE posns[a][m].margin

OpenInterest(m) == SumFunction([a \in Addrs |-> Size(a, m)])

(* What an address owns: free collateral and the margin of its positions. *)
Holdings(a) == Collateral(a) + SumFunction([m \in Markets |-> Locked(a, m)])

OnlyAccountOf(a) == accts' = [accts EXCEPT ![a] = accts'[a]]

Init ==
  /\ accts = [a \in Addrs |-> NoEntry]
  /\ posns = [a \in Addrs |-> [m \in Markets |-> NoEntry]]
  /\ batchNo = 0

Pay(a) ==
  /\ OnlyAccountOf(a)
  /\ UNCHANGED <<posns, batchNo>>

Settle ==
  /\ \A m \in Markets : OpenInterest(m)' = OpenInterest(m)
  /\ \A a \in Addrs : Collateral(a)' <= Collateral(a) /\ Holdings(a)' <= Holdings(a)
  /\ batchNo' = (batchNo + 1) % Uint64

(* A trade of one party, which moves one position and pays for it. *)
TradeAlone(a, m) ==
  /\ OnlyAccountOf(a)
  /\ Collateral(a)' < Collateral(a) /\ Holdings(a)' <= Holdings(a)
  /\ posns' = [posns EXCEPT ![a][m] = posns'[a][m]]
  /\ UNCHANGED batchNo

Liquidate(a, m) ==
  /\ OnlyAccountOf(a)
  /\ Collateral(a)' <= Collateral(a)
  /\ posns' = [posns EXCEPT ![a][m] = posns'[a][m]]
  /\ \/ 0 <= Size(a, m)' /\ Size(a, m)' < Size(a, m)
     \/ Size(a, m) < Size(a, m)' /\ Size(a, m)' <= 0
  /\ UNCHANGED batchNo

Next ==
  \/ \E a \in Addrs : Pay(a)
  \/ Settle
  \/ \E a \in Addrs, m \in Markets : TradeAlone(a, m) \/ Liquidate(a, m)

Spec == Init /\ [][Next]_ledgerVars
=============================================================================
