------------------------------ MODULE EventLoop ----------------------------
(***************************************************************************)
(* The timers of the browser's event loop that the mounted page waits for: *)
(* every demo operation is "await new Promise(r => setTimeout(r, ms))" and *)
(* then a run of state changes that nothing interrupts.  Timers are kept   *)
(* in the order they were set.  One fires before another only if it was    *)
(* set earlier or waits for a shorter time; of two timers of one length    *)
(* the first set is the first to fire.                                     *)
(***************************************************************************)
EXTENDS Integers, Sequences, SequencesExt

CONSTANTS MaxPending,   \* bound: timers and promises a page awaits at one time
          DemoModes     \* the builds: values of DEMO_MODE

VARIABLES timers,       \* sequence of [kind, delay, arg]
          demoMode      \* DEMO_MODE, fixed when the frontend is built

SetTimeout(kind, delay, arg) ==
  timers' = Append(timers, [kind |-> kind, delay |-> delay, arg |-> arg])

Due(i) == \A j \in 1..(i - 1) : timers[j].delay > timers[i].delay

(* Timer i, of this kind, fires. *)
Fires(i, kind) ==
  /\ timers[i].kind = kind
  /\ Due(i)
  /\ timers' = RemoveAt(timers, i)
=============================================================================
