------------------------------ MODULE Sequencer ----------------------------
(***************************************************************************)
(* sequencer/service: goroutines call SubmitOrder and BuildBlock on one    *)
(* Sequencer.  Both hold its mutex from their first statement to their     *)
(* return (defer); under it, each reads the mempool slice and then writes  *)
(* it back.  The reads and the writes are separate steps here, so that     *)
(* what the mutex excludes is part of the model.  The deferred Unlock is   *)
(* taken with the write before it.                                         *)
(***************************************************************************)
EXTENDS Integers, Sequences

CONSTANTS Traders,      \* each submits one order from its own goroutine
          Builder,      \* the goroutine that builds blocks
          NoOne         \* the mutex is free

ASSUME SequencerAssumption == Builder \notin Traders /\ NoOne \notin Traders \cup {Builder}

VARIABLES orders,       \* trader -> the order it submits
          mu,           \* the goroutine holding the mutex, or NoOne
          mempool,      \* the orders submitted and not yet in a block
          pc,           \* goroutine -> its next statement
          slice,        \* goroutine -> the mempool as it read it
          delivered     \* the orders of all blocks, as handed to the matcher

sequencerVars == <<orders, mu, mempool, pc, slice, delivered>>

Goroutines == Traders \cup {Builder}

SequencerInit ==
  /\ mu = NoOne
  /\ mempool = <<>>
  /\ pc = [g \in Goroutines |-> "outside"]
  /\ slice = [g \in Goroutines |-> <<>>]
  /\ delivered = <<>>

(* Mutated form: the mutex is not awaited. *)
LockUnchecked(g) ==
  /\ pc[g] = "outside"
  /\ mu' = g
  /\ pc' = [pc EXCEPT ![g] = "read"]
  /\ UNCHANGED <<orders, mempool, slice, delivered>>

Lock(g) ==
  /\ pc[g] = "outside" /\ mu = NoOne
  /\ mu' = g
  /\ pc' = [pc EXCEPT ![g] = "read"]
  /\ UNCHANGED <<orders, mempool, slice, delivered>>

(* orders := s.mempool, and the argument of append. *)
ReadMempool(g) ==
  /\ pc[g] = "read"
  /\ slice' = [slice EXCEPT ![g] = mempool]
  /\ pc' = [pc EXCEPT ![g] = "write"]
  /\ UNCHANGED <<orders, mu, mempool, delivered>>

(* Mutated form: the mutex is not released. *)
AppendOrderLocked(t) ==
  /\ pc[t] = "write"
  /\ mempool' = Append(slice[t], orders[t])
  /\ slice' = [slice EXCEPT ![t] = <<>>]
  /\ pc' = [pc EXCEPT ![t] = "returned"]
  /\ UNCHANGED <<orders, mu, delivered>>

AppendOrder(t) ==
  /\ pc[t] = "write"
  /\ mempool' = Append(slice[t], orders[t])
  /\ slice' = [slice EXCEPT ![t] = <<>>]
  /\ mu' = NoOne
  /\ pc' = [pc EXCEPT ![t] = "returned"]
  /\ UNCHANGED <<orders, delivered>>

(* The mempool is emptied and what was read becomes the block.  Nothing    *)
(* sorts it: the block has the orders as they arrived.                     *)
ReturnBlock ==
  /\ pc[Builder] = "write"
  /\ mempool' = <<>>
  /\ delivered' = delivered \o slice[Builder]
  /\ slice' = [slice EXCEPT ![Builder] = <<>>]
  /\ mu' = NoOne
  /\ pc' = [pc EXCEPT ![Builder] = "outside"]
  /\ UNCHANGED orders

SubmitOrder(t) == Lock(t) \/ ReadMempool(t) \/ AppendOrder(t)

BuildBlock == Lock(Builder) \/ ReadMempool(Builder) \/ ReturnBlock
=============================================================================
