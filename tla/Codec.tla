------------------------------- MODULE Codec -------------------------------
(***************************************************************************)
(* What the margin and position stores give back for what was written.     *)
(* The Marshal and Unmarshal methods of Account and Position are           *)
(* hand-written stubs: Marshal yields no bytes and Unmarshal assigns       *)
(* nothing, so what is read back is a zero struct whose LegacyDec fields   *)
(* are nil, and arithmetic on it panics.  A comment beside the stubs says  *)
(* that protoc output replaces them; with it a value is read back as       *)
(* written.  Both builds are instances of this module.                     *)
(***************************************************************************)
EXTENDS Dec

CONSTANTS CodecBuild,   \* "stub": as checked in; "protoc": as announced
          NoEntry,      \* the key is not in the store
          Blank         \* an entry that reads back as a zero struct

ASSUME CodecAssumption ==
  /\ CodecBuild \in {"stub", "protoc"}
  /\ NoEntry \notin Int
  /\ Blank \notin Int
  /\ Blank # NoEntry

(* The entry a later Get finds after Set(x). *)
Stored(x) == IF CodecBuild = "protoc" THEN x ELSE Blank
=============================================================================
