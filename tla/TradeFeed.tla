------------------------------ MODULE TradeFeed ----------------------------
(***************************************************************************)
(* frontend/src/lib/rpc.ts: subscribeTrades, and subscribePrice on top of  *)
(* it.  Each subscription has closure variables ws and reconnectTimer; the *)
(* handlers and the timer callback run one at a time on the event loop.    *)
(* A socket that has closed, and a timer that has fired or was cleared,    *)
(* gets no further event and is forgotten, so their slots are used again.  *)
(* The server and the browser's WebSocket are the environment's.           *)
(***************************************************************************)
EXTENDS Integers

CONSTANTS Feeds,        \* subscriptions
          Market,       \* feed -> the market it shows the price of
          Markets, Prices,
          Slots,        \* bound: sockets, and timers, of a feed at one time
          None          \* null, or a socket or timer that is no more

ASSUME TradeFeedAssumption ==
  /\ Market \in [Feeds -> Markets]
  /\ None \notin Slots \cup Prices
  /\ Slots \subseteq Nat

VARIABLES phase,        \* feed -> "new", "mounted" or "unmounted"
          socket,       \* feed -> slot -> the ready state, "closed" when free
          ws,           \* feed -> the slot of the closure's socket
          timers,       \* feed -> the slots of its pending timers
          timer,        \* feed -> the slot of reconnectTimer
          shown         \* feed -> the price its callback received last

vars == <<phase, socket, ws, timers, timer, shown>>

ReadyStates == {"connecting", "open", "closing", "closed"}

TypeOK ==
  /\ phase \in [Feeds -> {"new", "mounted", "unmounted"}]
  /\ socket \in [Feeds -> [Slots -> ReadyStates]]
  /\ ws \in [Feeds -> Slots \cup {None}]
  /\ timers \in [Feeds -> SUBSET Slots]
  /\ timer \in [Feeds -> Slots \cup {None}]
  /\ shown \in [Feeds -> Prices \cup {None}]

Init ==
  /\ phase = [f \in Feeds |-> "new"]
  /\ socket = [f \in Feeds |-> [i \in Slots |-> "closed"]]
  /\ ws = [f \in Feeds |-> None]
  /\ timers = [f \in Feeds |-> {}]
  /\ timer = [f \in Feeds |-> None]
  /\ shown = [f \in Feeds |-> None]

Live(f) == {i \in Slots : socket[f][i] # "closed"}

(* connect(): a new socket becomes the closure's. *)
Connect(f) ==
  \E i \in Slots \ Live(f) :
    /\ socket' = [socket EXCEPT ![f][i] = "connecting"]
    /\ ws' = [ws EXCEPT ![f] = i]

(* ws.close(): no effect on a socket that is closing or closed. *)
Closing(sockets, i) ==
  IF i # None /\ sockets[i] \in {"connecting", "open"}
  THEN [sockets EXCEPT ![i] = "closing"]
  ELSE sockets

Subscribe(f) ==
  /\ phase[f] = "new"
  /\ phase' = [phase EXCEPT ![f] = "mounted"]
  /\ Connect(f)
  /\ UNCHANGED <<timers, timer, shown>>

Open(f, i) ==
  /\ socket[f][i] = "connecting"
  /\ socket' = [socket EXCEPT ![f][i] = "open"]
  /\ UNCHANGED <<phase, ws, timers, timer, shown>>

(* subscribePrice's filter *)
Wanted(f, market) == market = Market[f]

(* onmessage.  Malformed messages change nothing, and a socket that is     *)
(* closing delivers none.                                                  *)
Message(f, i, market, price) ==
  /\ socket[f][i] = "open"
  /\ Wanted(f, market)
  /\ shown' = [shown EXCEPT ![f] = price]
  /\ UNCHANGED <<phase, socket, ws, timers, timer>>

(* setTimeout(connect, 3000) *)
Schedule(f) ==
  \E t \in Slots \ timers[f] :
    /\ timers' = [timers EXCEPT ![f] = @ \cup {t}]
    /\ timer' = [timer EXCEPT ![f] = t]

(* onclose *)
Closed(f, i) ==
  /\ ws' = [ws EXCEPT ![f] = IF @ = i THEN None ELSE @]
  /\ Schedule(f)
  /\ UNCHANGED <<phase, shown>>

(* The connection is closed, by either end, and onclose runs. *)
Close(f, i) ==
  /\ i \in Live(f)
  /\ socket' = [socket EXCEPT ![f][i] = "closed"]
  /\ Closed(f, i)

(* Mutated form: the error handler reconnects by itself, too. *)
FailAndConnect(f, i) ==
  /\ i \in Live(f)
  /\ \E j \in Slots \ Live(f) :
       /\ socket' = [socket EXCEPT ![f][i] = "closed", ![f][j] = "connecting"]
       /\ ws' = [ws EXCEPT ![f] = j]
  /\ Schedule(f)
  /\ UNCHANGED <<phase, shown>>

(* The connection fails: onerror closes the closure's socket, which is     *)
(* closed already if it is this one, and onclose runs next.                *)
Fail(f, i) ==
  /\ i \in Live(f)
  /\ socket' = [socket EXCEPT ![f] = Closing([@ EXCEPT ![i] = "closed"], ws[f])]
  /\ Closed(f, i)

(* Mutated form: only the first connection is made. *)
ReconnectNever(f, t) ==
  /\ t \in timers[f]
  /\ timers' = [timers EXCEPT ![f] = @ \ {t}]
  /\ timer' = [timer EXCEPT ![f] = IF @ = t THEN None ELSE @]
  /\ UNCHANGED <<phase, socket, ws, shown>>

Reconnect(f, t) ==
  /\ t \in timers[f]
  /\ timers' = [timers EXCEPT ![f] = @ \ {t}]
  /\ timer' = [timer EXCEPT ![f] = IF @ = t THEN None ELSE @]
  /\ Connect(f)
  /\ UNCHANGED <<phase, shown>>

(* Mutated form: the hook's variables are lent to the next subscription    *)
(* although the close of the former one's socket is still to come.         *)
CleanupLent(f) ==
  /\ phase[f] = "mounted"
  /\ phase' = [phase EXCEPT ![f] = "new"]
  /\ timers' = [timers EXCEPT ![f] = @ \ {timer[f]}]
  /\ timer' = [timer EXCEPT ![f] = None]
  /\ socket' = [socket EXCEPT ![f] = Closing(@, ws[f])]
  /\ UNCHANGED <<ws, shown>>

(* The function subscribeTrades returns. *)
Cleanup(f) ==
  /\ phase[f] = "mounted"
  /\ phase' = [phase EXCEPT ![f] = "unmounted"]
  /\ timers' = [timers EXCEPT ![f] = @ \ {timer[f]}]
  /\ timer' = [timer EXCEPT ![f] = None]
  /\ socket' = [socket EXCEPT ![f] = Closing(@, ws[f])]
  /\ UNCHANGED <<ws, shown>>

Next ==
  \E f \in Feeds :
    \/ Subscribe(f)
    \/ Cleanup(f)
    \/ \E i \in Slots : Open(f, i) \/ Close(f, i) \/ Fail(f, i) \/ Reconnect(f, i)
    \/ \E i \in Slots, market \in Markets, price \in Prices : Message(f, i, market, price)

Spec == Init /\ [][Next]_vars

(* The browser runs the callback of a pending timer. *)
FairSpec == Spec /\ \A f \in Feeds, t \in Slots : WF_vars(Reconnect(f, t))

(* Properties *************************************************************)

(* A feed has at most one connection, or one reconnection pending, at any  *)
(* time, and its closure variables name it: an error and the close that    *)
(* follows it do not connect twice, a close that races the clean-up does   *)
(* not either, and the clean-up always reaches what there is to stop.      *)
OneConnection ==
  \A f \in Feeds :
    /\ Live(f) \subseteq {ws[f]}
    /\ timers[f] \subseteq {timer[f]}
    /\ Live(f) = {} \/ timers[f] = {}

(* The inductive invariant behind it: a feed that has not started has      *)
(* neither.                                                                *)
FeedInv ==
  /\ TypeOK
  /\ OneConnection
  /\ \A f \in Feeds : phase[f] = "new" => Live(f) = {} /\ timers[f] = {}

(* A mounted feed that has lost its connection tries again.                *)
FeedReconnects ==
  \A f \in Feeds :
    (phase[f] = "mounted" /\ Live(f) = {}) ~> (Live(f) # {} \/ phase[f] = "unmounted")

(* rpc.ts: "Returns a cleanup function", and "Reconnect after 3s on        *)
(* unexpected close": after the clean-up no callback is called.            *)
SilentAfterCleanup ==
  [][\A f \in Feeds : phase[f] = "unmounted" => shown'[f] = shown[f]]_vars
=============================================================================
