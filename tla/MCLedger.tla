------------------------------ MODULE MCLedger -----------------------------
(***************************************************************************)
(* An instance of the ledger for TLC: charges of one to three units of the *)
(* last decimal place, so that halving one rounds both down and up.        *)
(***************************************************************************)
EXTENDS LedgerProperties

CONSTANTS alice, bob

OddAndEvenCharges == {1, 2, 3}
PaymentsBothWays == {-2, 0, 3}
=============================================================================
