------------------------------- MODULE Wallet ------------------------------
(***************************************************************************)
(* frontend/src/lib/wallet.ts: usePerpilizeWallet.  The wallet widget is   *)
(* the environment's: it restores an address at start, and connects,       *)
(* disconnects or switches it whenever its user does.  The promise that    *)
(* connect() returns may resolve or reject at any time, with an address or *)
(* without one.                                                            *)
(***************************************************************************)
CONSTANTS Addresses, NoAddress

ASSUME WalletAssumption == NoAddress \notin Addresses

VARIABLE address

WalletInit == address \in Addresses \cup {NoAddress}

connected == address # NoAddress

SwitchAddress(a) ==
  /\ a # address
  /\ address' = a
=============================================================================
