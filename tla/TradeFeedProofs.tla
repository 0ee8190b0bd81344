-------------------------- MODULE TradeFeedProofs --------------------------
(***************************************************************************)
(* Proofs about trade subscriptions, for any number of them.  The actions  *)
(* touch one feed, so the invariant is proved for one feed at a time.      *)
(***************************************************************************)
EXTENDS TradeFeed, TLAPS

(* One feed's part of FeedInv. *)
Orderly(f) ==
  /\ Live(f) \subseteq {ws[f]}
  /\ timers[f] \subseteq {timer[f]}
  /\ Live(f) = {} \/ timers[f] = {}
  /\ phase[f] = "new" => Live(f) = {} /\ timers[f] = {}

LEMMA FeedInvMeans == FeedInv <=> TypeOK /\ \A f \in Feeds : Orderly(f)
BY DEF FeedInv, OneConnection, Orderly

LEMMA FeedInit == Init => FeedInv
BY DEF Init, FeedInv, TypeOK, OneConnection, Live, ReadyStates

(* A feed keeps its part when none of its variables changes.               *)
LEMMA OtherFeedsStay ==
  ASSUME NEW f \in Feeds, Orderly(f),
         phase'[f] = phase[f], socket'[f] = socket[f], ws'[f] = ws[f],
         timers'[f] = timers[f], timer'[f] = timer[f]
  PROVE  Orderly(f)'
BY DEF Orderly, Live

(* Connecting an idle feed leaves it with one socket, the closure's.       *)
LEMMA ConnectEffect ==
  ASSUME TypeOK, NEW f \in Feeds, Live(f) = {}, Connect(f)
  PROVE  /\ socket' \in [Feeds -> [Slots -> ReadyStates]]
         /\ ws' \in [Feeds -> Slots \cup {None}]
         /\ Live(f)' \subseteq {ws'[f]}
         /\ \A g \in Feeds \ {f} : socket'[g] = socket[g] /\ ws'[g] = ws[g]
BY DEF TypeOK, Connect, Live, ReadyStates

(* Closing the socket of a feed leaves one timer, the closure's.           *)
LEMMA ScheduleEffect ==
  ASSUME TypeOK, NEW f \in Feeds, timers[f] = {}, Schedule(f)
  PROVE  /\ timers' \in [Feeds -> SUBSET Slots]
         /\ timer' \in [Feeds -> Slots \cup {None}]
         /\ timers'[f] \subseteq {timer'[f]}
         /\ \A g \in Feeds \ {f} : timers'[g] = timers[g] /\ timer'[g] = timer[g]
BY DEF TypeOK, Schedule

(* Closing never opens a socket.                                           *)
LEMMA ClosingEffect ==
  ASSUME NEW s \in [Slots -> ReadyStates], NEW i \in Slots \cup {None}
  PROVE  /\ Closing(s, i) \in [Slots -> ReadyStates]
         /\ \A k \in Slots : Closing(s, i)[k] # "closed" <=> s[k] # "closed"
BY TradeFeedAssumption DEF Closing, ReadyStates

LEMMA FeedStep == FeedInv /\ [Next]_vars => FeedInv'
<1> SUFFICES ASSUME FeedInv, [Next]_vars PROVE FeedInv'
  OBVIOUS
<1>1. TypeOK /\ \A f \in Feeds : Orderly(f)
  BY FeedInvMeans
<1>2. SUFFICES TypeOK' /\ \A f \in Feeds : Orderly(f)'
  BY DEF FeedInv, OneConnection, Orderly
<1>3. ASSUME NEW f \in Feeds, Subscribe(f)
      PROVE  TypeOK' /\ \A g \in Feeds : Orderly(g)'
  <2>1. Live(f) = {} /\ timers[f] = {}
    BY <1>1, <1>3 DEF Subscribe, Orderly
  <2>2. TypeOK'
    BY <1>1, <1>3, <2>1, ConnectEffect DEF Subscribe, TypeOK
  <2>3. Orderly(f)'
    BY <1>1, <1>3, <2>1, ConnectEffect DEF Subscribe, Orderly, TypeOK
  <2>4. ASSUME NEW g \in Feeds \ {f} PROVE Orderly(g)'
    BY <1>1, <1>3, <2>1, ConnectEffect, OtherFeedsStay DEF Subscribe, TypeOK
  <2> QED BY <2>2, <2>3, <2>4
<1>4. ASSUME NEW f \in Feeds, Cleanup(f)
      PROVE  TypeOK' /\ \A g \in Feeds : Orderly(g)'
  <2>1. /\ socket[f] \in [Slots -> ReadyStates] /\ ws[f] \in Slots \cup {None}
        /\ socket'[f] = Closing(socket[f], ws[f])
    BY <1>1, <1>4 DEF Cleanup, TypeOK
  <2>2. Live(f)' = Live(f)
    BY <2>1, ClosingEffect DEF Live
  <2>3. TypeOK'
    BY <1>1, <1>4, <2>1, ClosingEffect DEF Cleanup, TypeOK
  <2>4. Orderly(f)'
    BY <1>1, <1>4, <2>2 DEF Cleanup, Orderly, TypeOK
  <2>5. ASSUME NEW g \in Feeds \ {f} PROVE Orderly(g)'
    BY <1>1, <1>4, OtherFeedsStay DEF Cleanup, TypeOK
  <2> QED BY <2>3, <2>4, <2>5
<1>5. ASSUME NEW f \in Feeds, NEW i \in Slots, Open(f, i)
      PROVE  TypeOK' /\ \A g \in Feeds : Orderly(g)'
  <2>1. TypeOK' /\ Live(f)' = Live(f)
    BY <1>1, <1>5 DEF Open, TypeOK, Live, ReadyStates
  <2>2. Orderly(f)'
    BY <1>1, <1>5, <2>1 DEF Open, Orderly
  <2>3. ASSUME NEW g \in Feeds \ {f} PROVE Orderly(g)'
    BY <1>1, <1>5, OtherFeedsStay DEF Open, TypeOK
  <2> QED BY <2>1, <2>2, <2>3
<1>6. ASSUME NEW f \in Feeds, NEW i \in Slots, Closed(f, i), i \in Live(f),
             socket' \in [Feeds -> [Slots -> ReadyStates]], Live(f)' = {},
             \A g \in Feeds \ {f} : socket'[g] = socket[g]
      PROVE  TypeOK' /\ \A g \in Feeds : Orderly(g)'
  <2>1. timers[f] = {} /\ phase[f] # "new"
    BY <1>1, <1>6 DEF Orderly
  <2>2. TypeOK'
    BY <1>1, <1>6, <2>1, ScheduleEffect DEF Closed, TypeOK
  <2>3. Orderly(f)'
    BY <1>1, <1>6, <2>1, ScheduleEffect DEF Closed, Orderly, TypeOK
  <2>4. ASSUME NEW g \in Feeds \ {f} PROVE Orderly(g)'
    BY <1>1, <1>6, <2>1, ScheduleEffect, OtherFeedsStay DEF Closed, TypeOK
  <2> QED BY <2>2, <2>3, <2>4
<1>7. ASSUME NEW f \in Feeds, NEW i \in Slots, Close(f, i)
      PROVE  TypeOK' /\ \A g \in Feeds : Orderly(g)'
  <2>1. Live(f) = {i}
    BY <1>1, <1>7 DEF Close, Orderly
  <2>2. socket' \in [Feeds -> [Slots -> ReadyStates]] /\ Live(f)' = {}
    BY <1>1, <1>7, <2>1 DEF Close, TypeOK, Live, ReadyStates
  <2> QED BY <1>1, <1>6, <1>7, <2>2 DEF Close, TypeOK
<1>8. ASSUME NEW f \in Feeds, NEW i \in Slots, Fail(f, i)
      PROVE  TypeOK' /\ \A g \in Feeds : Orderly(g)'
  <2> DEFINE cut == [socket[f] EXCEPT ![i] = "closed"]
  <2>1. Live(f) = {i} /\ ws[f] \in Slots \cup {None}
    BY <1>1, <1>8 DEF Fail, Orderly, TypeOK
  <2>2. cut \in [Slots -> ReadyStates] /\ \A k \in Slots : cut[k] = "closed"
    BY <1>1, <2>1 DEF TypeOK, Live, ReadyStates
  <2>3. socket' = [socket EXCEPT ![f] = Closing(cut, ws[f])]
    BY <1>1, <1>8 DEF Fail, TypeOK
  <2> HIDE DEF cut
  <2>4. socket' \in [Feeds -> [Slots -> ReadyStates]] /\ Live(f)' = {}
    BY <1>1, <2>1, <2>2, <2>3, ClosingEffect DEF TypeOK, Live
  <2> QED BY <1>1, <1>6, <1>8, <2>3, <2>4 DEF Fail, TypeOK
<1>9. ASSUME NEW f \in Feeds, NEW t \in Slots, Reconnect(f, t)
      PROVE  TypeOK' /\ \A g \in Feeds : Orderly(g)'
  <2>1. Live(f) = {} /\ timers[f] = {t} /\ phase[f] # "new"
    BY <1>1, <1>9 DEF Reconnect, Orderly
  <2>2. TypeOK'
    BY <1>1, <1>9, <2>1, ConnectEffect DEF Reconnect, TypeOK
  <2>3. timers'[f] = {} /\ phase'[f] # "new"
    BY <1>1, <1>9, <2>1 DEF Reconnect, TypeOK
  <2>4. Orderly(f)'
    BY <1>1, <1>9, <2>1, <2>3, ConnectEffect DEF Reconnect, Orderly
  <2>5. ASSUME NEW g \in Feeds \ {f} PROVE Orderly(g)'
    BY <1>1, <1>9, <2>1, ConnectEffect, OtherFeedsStay DEF Reconnect, TypeOK
  <2> QED BY <2>2, <2>4, <2>5
<1>10. ASSUME NEW f \in Feeds, NEW i \in Slots, NEW market \in Markets,
              NEW price \in Prices, Message(f, i, market, price)
       PROVE  TypeOK' /\ \A g \in Feeds : Orderly(g)'
  <2>1. TypeOK'
    BY <1>1, <1>10 DEF Message, TypeOK
  <2> QED BY <1>1, <1>10, <2>1, OtherFeedsStay DEF Message
<1>11. CASE UNCHANGED vars
  <2>1. TypeOK'
    BY <1>1, <1>11 DEF vars, TypeOK
  <2> QED BY <1>1, <1>11, <2>1, OtherFeedsStay DEF vars
<1> QED BY <1>3, <1>4, <1>5, <1>7, <1>8, <1>9, <1>10, <1>11 DEF Next

(* The invariant itself, types included: a feed that has not started has   *)
(* neither socket nor timer, and any other at most one of the two.         *)
THEOREM FeedsOrderly == Spec => []FeedInv
BY FeedInit, FeedStep, PTL DEF Spec

(* Whatever the order of opens, failures, closes, timers and clean-ups, no *)
(* subscription ever has two sockets, or a socket and a pending reconnect. *)
THEOREM AtMostOneConnection == Spec => []OneConnection
<1>1. FeedInv => OneConnection
  BY DEF FeedInv
<1> QED BY <1>1, FeedsOrderly, PTL
=============================================================================
