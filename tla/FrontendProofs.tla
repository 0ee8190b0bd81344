--------------------------- MODULE FrontendProofs --------------------------
(***************************************************************************)
(* Proofs about the frontend's pages, for every set of markets, addresses, *)
(* assets and inputs and with no bound on what a page awaits: FrontendInv  *)
(* is inductive, the transfers refine DemoAccount, and the figures shown   *)
(* agree and follow the transfers.                                         *)
(***************************************************************************)
EXTENDS FrontendProperties, SumTheorems, SequenceTheorems

(* Sequences **************************************************************)

(* Removing an element keeps the others, in their order.                   *)
LEMMA RemoveAtProperties ==
  ASSUME NEW S, NEW s \in Seq(S), NEW i \in DOMAIN s
  PROVE  /\ RemoveAt(s, i) \in Seq(S)
         /\ Len(RemoveAt(s, i)) = Len(s) - 1
         /\ \A j \in 1..(i - 1) : RemoveAt(s, i)[j] = s[j]
         /\ \A j \in i..(Len(s) - 1) : RemoveAt(s, i)[j] = s[j + 1]
<1> DEFINE front == SubSeq(s, 1, i - 1)
           back == SubSeq(s, i + 1, Len(s))
<1>1. Len(s) \in Nat /\ DOMAIN s = 1..Len(s) /\ \A j \in 1..Len(s) : s[j] \in S
  BY LenProperties
<1>2. front \in Seq(S) /\ Len(front) = i - 1 /\ \A j \in 1..(i - 1) : front[j] = s[j]
  BY <1>1, SubSeqProperties
<1>3. /\ back \in Seq(S) /\ Len(back) = Len(s) - i
      /\ \A j \in 1..(Len(s) - i) : back[j] = s[i + j]
  BY <1>1, SubSeqProperties
<1> HIDE DEF front, back
<1>4. /\ front \o back \in Seq(S)
      /\ Len(front \o back) = Len(front) + Len(back)
      /\ \A j \in 1..(Len(front) + Len(back)) :
           (front \o back)[j] = IF j <= Len(front) THEN front[j] ELSE back[j - Len(front)]
  BY <1>2, <1>3, ConcatProperties
<1>5. Len(front \o back) = Len(s) - 1
  BY <1>1, <1>2, <1>3, <1>4
<1>6. \A j \in 1..(i - 1) : (front \o back)[j] = s[j]
  BY <1>1, <1>2, <1>3, <1>4
<1>7. \A j \in i..(Len(s) - 1) : (front \o back)[j] = s[j + 1]
  <2> TAKE j \in i..(Len(s) - 1)
  <2>1. (front \o back)[j] = back[j - (i - 1)] /\ j - (i - 1) \in 1..(Len(s) - i)
    BY <1>1, <1>2, <1>3, <1>4
  <2>2. back[j - (i - 1)] = s[i + (j - (i - 1))]
    BY <1>3, <2>1
  <2> QED  BY <1>1, <2>1, <2>2
<1>8. RemoveAt(s, i) = front \o back
  BY DEF RemoveAt, front, back
<1> QED  BY <1>4, <1>5, <1>6, <1>7, <1>8

(* Every element but the removed one is still there.                       *)
LEMMA RemoveAtKeeps ==
  ASSUME NEW S, NEW s \in Seq(S), NEW i \in DOMAIN s, NEW j \in DOMAIN s, j # i
  PROVE  \E k \in DOMAIN RemoveAt(s, i) : RemoveAt(s, i)[k] = s[j]
<1>1. Len(s) \in Nat /\ DOMAIN s = 1..Len(s)
  BY LenProperties
<1>2. DOMAIN RemoveAt(s, i) = 1..(Len(s) - 1)
  BY RemoveAtProperties, LenProperties
<1>3. CASE j < i
  <2>1. j \in 1..(i - 1) /\ j \in 1..(Len(s) - 1)
    BY <1>1, <1>3
  <2>2. RemoveAt(s, i)[j] = s[j]
    BY <2>1, RemoveAtProperties
  <2> QED  BY <1>2, <2>1, <2>2
<1>4. CASE j > i
  <2>1. j - 1 \in i..(Len(s) - 1) /\ (j - 1) + 1 = j
    BY <1>1, <1>4
  <2>2. RemoveAt(s, i)[j - 1] = s[j]
    BY <2>1, RemoveAtProperties
  <2> QED  BY <1>1, <1>2, <2>1, <2>2
<1> QED  BY <1>1, <1>3, <1>4

(* The trading terminal ***************************************************)

(* Its part of the invariant.                                              *)
OrdersLive == orders.loading => Pending({"submit", "cancel"}) # {} \/ orders.submissions # <<>>

TradingOK == TradingTypeOK /\ timers \in Seq(OrderTimer) /\ OrdersLive

LEMMA TradingStartTyped ==
  /\ MarketsStart \in MarketsState
  /\ OrdersStart \in OrdersState
  /\ FormStart \in Form
<1>1. MarketsStart \in MarketsState
  BY MarketDataAssumption DEF MarketsStart, MarketsState
<1>2. OrdersStart \in OrdersState
  BY OrdersAssumption DEF OrdersStart, OrdersState
<1>3. FormStart \in Form
  BY MarketDataAssumption, OrdersAssumption, TerminalAssumption DEF FormStart, Form
<1> QED  BY <1>1, <1>2, <1>3

(* What a form asks for is a request.                                      *)
LEMMA RequestTyped ==
  ASSUME markets \in MarketsState, form \in Form, SubmitEnabled
  PROVE  request \in OrderRequest
<1>1. form.price \in Nat \cup {NaN}
  BY MarketDataAssumption, TerminalAssumption DEF Form
<1>2. form.size \in Int
  BY TerminalAssumption DEF Form, SubmitEnabled
<1>3. form.orderType \in OrderTypes /\ form.orderSide \in Sides
  BY DEF Form
<1> QED  BY <1>1, <1>2, <1>3 DEF request, OrderRequest, MarketsState

LEMMA NewOrderTyped ==
  ASSUME TradingTypeOK, NEW req \in OrderRequest, req.size > 0
  PROVE  newOrder(req) \in Order
<1>1. OrderPrice(req) \in Nat \cup {NaN}
  BY DEF OrderPrice, OrderRequest, selectedPrice, TradingTypeOK, MarketsState
<1>2. req.size \in Nat \ {0}
  BY DEF OrderRequest
<1> QED  BY <1>1, <1>2 DEF newOrder, Order, OrderRequest

(* A new row makes a list of rows.                                         *)
LEMMA ListedTyped ==
  ASSUME orders \in OrdersState, NEW order \in Order
  PROVE  Listed(order) \in Seq(Order)
BY DEF Listed, OrdersState

(* A form that is typed after a step asks for a request.                   *)
LEMMA RequestTypedAfter ==
  ASSUME markets' \in MarketsState, form' \in Form
  PROVE  (SubmitEnabled => request \in OrderRequest)'
<1>1. form'.price \in Nat \cup {NaN}
  BY MarketDataAssumption, TerminalAssumption DEF Form
<1>2. SubmitEnabled' => form'.size \in Int
  BY TerminalAssumption DEF Form, SubmitEnabled
<1>3. form'.orderType \in OrderTypes /\ form'.orderSide \in Sides
  BY DEF Form
<1> QED  BY <1>1, <1>2, <1>3 DEF request, OrderRequest, MarketsState

(* Choosing a market, a new quote, an input: the lists are left alone.     *)
LEMMA InputStep ==
  ASSUME TradingOK, UNCHANGED <<positions, orders, timers>>,
         \/ form' = form /\ \E s \in Symbols : selectMarket(s)
         \/ form' = form /\ MarketTick
         \/ markets' = markets /\ form' \in Form
  PROVE  TradingOK'
<1>1. markets' \in MarketsState
  <2>1. CASE \E s \in Symbols : selectMarket(s)
    BY <2>1 DEF TradingOK, TradingTypeOK, selectMarket, MarketsState
  <2>2. CASE MarketTick
    <3>1. PICK p \in [Symbols -> UNION {Quotes[s] : s \in Symbols}] :
            /\ \A s \in Symbols : p[s] \in Quotes[s]
            /\ markets' = [markets EXCEPT !.price = p]
      BY <2>2 DEF MarketTick
    <3>2. p \in [Symbols -> Nat]
      BY <3>1, MarketDataAssumption
    <3> QED  BY <3>1, <3>2 DEF TradingOK, TradingTypeOK, MarketsState
  <2> QED  BY <2>1, <2>2 DEF TradingOK, TradingTypeOK
<1>2. form' \in Form
  BY DEF TradingOK, TradingTypeOK
<1>3. TradingTypeOK'
  BY <1>1, <1>2, RequestTypedAfter DEF TradingOK, TradingTypeOK
<1>4. OrdersLive'
  BY DEF TradingOK, OrdersLive, Pending
<1> QED  BY <1>3, <1>4 DEF TradingOK

(* A step that sets a timer keeps what was awaited.                        *)
LEMMA AwaitStep ==
  ASSUME timers \in Seq(OrderTimer), NEW kind, NEW delay, NEW arg,
         [kind |-> kind, delay |-> delay, arg |-> arg] \in OrderTimer,
         SetTimeout(kind, delay, arg)
  PROVE  /\ timers' \in Seq(OrderTimer)
         /\ Pending({"submit", "cancel"}) \subseteq Pending({"submit", "cancel"})'
         /\ kind \in {"submit", "cancel"} => Pending({"submit", "cancel"})' # {}
<1> DEFINE timer == [kind |-> kind, delay |-> delay, arg |-> arg]
<1>1. /\ timers' = Append(timers, timer)
      /\ timer.kind = kind
  BY DEF SetTimeout
<1> HIDE DEF timer
<1>2. /\ timers' \in Seq(OrderTimer) /\ Len(timers') = Len(timers) + 1
      /\ \A i \in 1..Len(timers) : timers'[i] = timers[i]
      /\ timers'[Len(timers) + 1] = timer
  BY <1>1, AppendProperties DEF timer
<1>3. DOMAIN timers = 1..Len(timers) /\ DOMAIN timers' = 1..(Len(timers) + 1) /\ Len(timers) \in Nat
  BY <1>2, LenProperties
<1> QED  BY <1>1, <1>2, <1>3 DEF Pending

(* A timer that fires leaves the others waiting.                           *)
LEMMA FireStep ==
  ASSUME timers \in Seq(OrderTimer), NEW i \in DOMAIN timers, NEW kind, Fires(i, kind)
  PROVE  /\ timers[i] \in OrderTimer /\ timers[i].kind = kind
         /\ timers' \in Seq(OrderTimer)
         /\ kind \notin {"submit", "cancel"} /\ Pending({"submit", "cancel"}) # {}
              => Pending({"submit", "cancel"})' # {}
<1>1. timers[i] \in OrderTimer /\ timers[i].kind = kind /\ timers' = RemoveAt(timers, i)
  BY LenProperties, ElementOfSeq DEF Fires
<1>2. timers' \in Seq(OrderTimer)
  BY <1>1, RemoveAtProperties
<1>3. ASSUME kind \notin {"submit", "cancel"}, Pending({"submit", "cancel"}) # {}
      PROVE  Pending({"submit", "cancel"})' # {}
  <2>1. PICK j \in DOMAIN timers : timers[j].kind \in {"submit", "cancel"}
    BY <1>3 DEF Pending
  <2>2. j # i
    BY <1>1, <1>3, <2>1
  <2>3. PICK k \in DOMAIN timers' : timers'[k] = timers[j]
    BY <1>1, <2>2, RemoveAtKeeps
  <2> QED  BY <2>1, <2>3 DEF Pending
<1> QED  BY <1>1, <1>2, <1>3

(* What a step of the orders must show: the form is typed in any case,     *)
(* for it is left alone or its size is emptied.                            *)
LEMMA OrdersStep ==
  ASSUME TradingOK, orders' \in OrdersState, timers' \in Seq(OrderTimer), OrdersLive',
         positions' \subseteq MockPositions, markets' = markets,
         form' \in {form, [form EXCEPT !.size = NoSize]}
  PROVE  TradingOK'
<1>1. form' \in Form
  BY DEF TradingOK, TradingTypeOK, Form
<1> QED  BY <1>1, RequestTypedAfter DEF TradingOK, TradingTypeOK

LEMMA SubmitStep ==
  ASSUME TradingOK, demoMode \in BOOLEAN, HandleSubmit
  PROVE  TradingOK'
<1> DEFINE order == newOrder(request)
<1>1. request \in OrderRequest /\ request.size > 0
  <2>1. request \in OrderRequest
    BY DEF TradingOK, TradingTypeOK, HandleSubmit
  <2> QED  BY <2>1 DEF HandleSubmit, request
<1>2. order \in Order
  BY <1>1, NewOrderTyped DEF TradingOK
<1> HIDE DEF order
<1>3. CASE AskToConnect /\ UNCHANGED timers
  <2>1. orders' \in OrdersState /\ timers' \in Seq(OrderTimer)
    <3>1. orders \in OrdersState /\ orders.connects + 1 \in Nat
      BY DEF TradingOK, TradingTypeOK, OrdersState
    <3>2. orders' = [orders EXCEPT !.lastError = "none", !.connects = orders.connects + 1]
      BY <1>3 DEF AskToConnect
    <3>3. orders' \in OrdersState
      BY <3>1, <3>2, Zenon DEF OrdersState
    <3> QED  BY <1>3, <3>3 DEF TradingOK
  <2>2. OrdersLive'
    BY <1>3 DEF AskToConnect, OrdersState, TradingOK, TradingTypeOK, OrdersLive, Pending
  <2> QED  BY <2>1, <2>2, OrdersStep DEF HandleSubmit, TradingOK, TradingTypeOK
<1>4. CASE SubmitDemo(request)
  <2>1. [kind |-> "submit", delay |-> 1200, arg |-> order] \in OrderTimer
    BY <1>2 DEF OrderTimer
  <2>2. timers' \in Seq(OrderTimer) /\ Pending({"submit", "cancel"})' # {}
    BY <1>4, <2>1, AwaitStep DEF SubmitDemo, TradingOK, order
  <2>3. orders' \in OrdersState
    <3>1. orders' = [orders EXCEPT !.lastError = "none", !.loading = TRUE]
      BY <1>4 DEF SubmitDemo
    <3> QED  BY <3>1 DEF OrdersState, TradingOK, TradingTypeOK
  <2>4. OrdersLive'
    BY <2>2 DEF OrdersLive
  <2> QED  BY <2>2, <2>3, <2>4, OrdersStep DEF HandleSubmit, TradingOK, TradingTypeOK
<1>5. CASE SubmitReal(request) /\ UNCHANGED timers
  <2> DEFINE submission == [order |-> order, stage |-> "signer", executed |-> {}]
  <2>1. submission \in Submission
    BY <1>2 DEF Submission
  <2> HIDE DEF submission
  <2>2. /\ Append(orders.submissions, submission) \in Seq(Submission)
        /\ Append(orders.submissions, submission) # <<>>
    BY <2>1, AppendProperties DEF TradingOK, TradingTypeOK, OrdersState
  <2>3. orders' = [orders EXCEPT !.lastError = "none", !.loading = TRUE,
                     !.submissions = Append(orders.submissions, submission)]
    BY <1>5 DEF SubmitReal, order, submission
  <2>4. orders' \in OrdersState /\ OrdersLive'
    BY <2>2, <2>3 DEF TradingOK, TradingTypeOK, OrdersState, OrdersLive
  <2> QED  BY <1>5, <2>4, OrdersStep DEF HandleSubmit, TradingOK, TradingTypeOK
<1> QED  BY <1>3, <1>4, <1>5 DEF HandleSubmit

LEMMA ClickStep ==
  ASSUME TradingOK,
         \/ \E i \in DOMAIN orders.open : ClickCancel(i)
         \/ \E p \in positions : ClickClose(p)
  PROVE  TradingOK'
<1>1. CASE \E i \in DOMAIN orders.open : ClickCancel(i)
  <2>1. PICK i \in DOMAIN orders.open : ClickCancel(i)
    BY <1>1
  <2>2. i \in Nat \ {0}
    BY LenProperties DEF TradingOK, TradingTypeOK, OrdersState
  <2>3. [kind |-> "cancel", delay |-> 400, arg |-> i] \in OrderTimer
    BY <2>2 DEF OrderTimer
  <2>4. timers' \in Seq(OrderTimer) /\ Pending({"submit", "cancel"})' # {}
    BY <2>1, <2>3, AwaitStep DEF ClickCancel, cancelOrder, TradingOK
  <2>5. orders' \in OrdersState
    BY <2>1 DEF ClickCancel, cancelOrder, OrdersState, TradingOK, TradingTypeOK
  <2>6. OrdersLive'
    BY <2>4 DEF OrdersLive
  <2> QED  BY <2>1, <2>4, <2>5, <2>6, OrdersStep DEF ClickCancel, TradingOK, TradingTypeOK
<1>2. CASE \E p \in positions : ClickClose(p)
  <2>1. PICK p \in positions : ClickClose(p)
    BY <1>2
  <2>2. p.market \in Symbols
    BY PositionsAssumption DEF TradingOK, TradingTypeOK, Position
  <2>3. [kind |-> "close", delay |-> 800, arg |-> p.market] \in OrderTimer
    BY <2>2 DEF OrderTimer
  <2>4. /\ timers' \in Seq(OrderTimer)
        /\ Pending({"submit", "cancel"}) \subseteq Pending({"submit", "cancel"})'
    BY <2>1, <2>3, AwaitStep DEF ClickClose, closePosition, TradingOK
  <2>5. OrdersLive'
    BY <2>1, <2>4 DEF OrdersLive, ClickClose, TradingOK
  <2> QED  BY <2>1, <2>4, <2>5, OrdersStep DEF ClickClose, TradingOK, TradingTypeOK
<1> QED  BY <1>1, <1>2

(* A submission that is answered leaves the list of submissions.           *)
LEMMA AnswerStep ==
  ASSUME TradingOK, Answers
  PROVE  TradingOK'
<1>1. /\ form' = [form EXCEPT !.size = NoSize]
      /\ UNCHANGED <<markets, positions, timers>>
  BY DEF Answers, SubmitReturns
<1>2. /\ orders \in OrdersState /\ orders.open \in Seq(Order)
      /\ orders.submissions \in Seq(Submission) /\ orders.connects \in Nat
  BY DEF TradingOK, TradingTypeOK, OrdersState
<1>3. SUFFICES orders' \in OrdersState /\ OrdersLive'
  BY <1>1, OrdersStep DEF TradingOK, TradingTypeOK
<1>4. CASE ConnectResolves \/ ConnectRejects
  <2>1. orders.connects - 1 \in Nat
    BY <1>2, <1>4 DEF ConnectResolves, ConnectRejects
  <2>2. /\ orders'.loading = orders.loading /\ orders'.submissions = orders.submissions
        /\ orders' \in OrdersState
    BY <1>2, <1>4, <2>1, Zenon DEF ConnectResolves, ConnectRejects, OrdersState
  <2> QED  BY <1>1, <2>2 DEF TradingOK, OrdersLive, Pending
<1>5. CASE \E i \in DOMAIN orders.submissions :
             EvmResolves(i) \/ CosmosResolves(i) \/ CosmosRejects(i)
  <2>1. PICK i \in DOMAIN orders.submissions :
          EvmResolves(i) \/ CosmosResolves(i) \/ CosmosRejects(i)
    BY <1>5
  <2>2. RemoveAt(orders.submissions, i) \in Seq(Submission)
    BY <1>2, RemoveAtProperties
  <2>3. orders.submissions[i].order \in Order
    <3>1. orders.submissions[i] \in Submission
      BY <1>2, <2>1, LenProperties, ElementOfSeq
    <3> QED  BY <3>1 DEF Submission
  <2>4. Listed(orders.submissions[i].order) \in Seq(Order)
    BY <1>2, <2>3, ListedTyped
  <2>5. orders' \in OrdersState /\ orders'.loading = FALSE
    <3>1. CASE EvmResolves(i)
      <4>1. PICK open \in Seq(Order) :
              orders' = [orders EXCEPT !.open = open,
                           !.submissions = RemoveAt(orders.submissions, i), !.loading = FALSE]
        BY <1>2, <2>4, <3>1 DEF EvmResolves
      <4> QED  BY <1>2, <2>2, <4>1, Zenon DEF OrdersState
    <3>2. CASE CosmosResolves(i)
      BY <1>2, <2>2, <3>2, Zenon DEF CosmosResolves, OrdersState
    <3>3. CASE CosmosRejects(i)
      BY <1>2, <2>2, <3>3, Zenon DEF CosmosRejects, OrdersState
    <3> QED  BY <2>1, <3>1, <3>2, <3>3
  <2> QED  BY <2>5 DEF OrdersLive
<1> QED  BY <1>4, <1>5 DEF Answers

(* A submission that goes on is still pending.                             *)
LEMMA NetworkStep ==
  ASSUME TradingOK, Network
  PROVE  TradingOK'
<1>1. UNCHANGED <<markets, positions, form, timers>>
  BY DEF Network
<1>2. orders \in OrdersState /\ orders.submissions \in Seq(Submission)
  BY DEF TradingOK, TradingTypeOK, OrdersState
<1>3. PICK i \in DOMAIN orders.submissions :
        SignerResolves(i) \/ SignerRejects(i) \/ Executed(i) \/ EvmRejects(i)
  BY DEF Network
<1> DEFINE submission == orders.submissions[i]
<1>4. submission \in Submission /\ i \in 1..Len(orders.submissions)
  BY <1>2, LenProperties, ElementOfSeq
<1>5. PICK next \in Submission :
        orders' = [orders EXCEPT !.submissions = [orders.submissions EXCEPT ![i] = next]]
  <2>1. CASE \E stage \in {"evm", "cosmos"} : ToStage(i, stage)
    <3>1. PICK stage \in {"evm", "cosmos"} : ToStage(i, stage)
      BY <2>1
    <3>2. [submission EXCEPT !.stage = stage] \in Submission
      BY <1>4 DEF Submission
    <3> QED  BY <3>1, <3>2 DEF ToStage
  <2>2. CASE Executed(i)
    <3>1. [submission EXCEPT !.executed = submission.executed \cup {submission.stage}] \in Submission
      BY <1>4, <2>2 DEF Submission, Executed
    <3> QED  BY <2>2, <3>1 DEF Executed
  <2> QED  BY <1>3, <2>1, <2>2 DEF SignerResolves, SignerRejects, EvmRejects
<1>6. /\ [orders.submissions EXCEPT ![i] = next] \in Seq(Submission)
      /\ Len([orders.submissions EXCEPT ![i] = next]) = Len(orders.submissions)
  BY <1>2, <1>4, ExceptSeq
<1>7. [orders.submissions EXCEPT ![i] = next] # <<>>
  BY <1>4, <1>6, EmptySeq
<1>8. orders' \in OrdersState
  BY <1>2, <1>5, <1>6, Zenon DEF OrdersState
<1>9. OrdersLive'
  BY <1>2, <1>5, <1>7 DEF OrdersLive, OrdersState
<1> QED  BY <1>1, <1>8, <1>9, OrdersStep DEF TradingOK, TradingTypeOK

LEMMA TimerStep ==
  ASSUME TradingOK, NEW i \in DOMAIN timers, TradingTimer(i)
  PROVE  TradingOK'
<1>1. timers \in Seq(OrderTimer) /\ orders \in OrdersState /\ orders.open \in Seq(Order)
  BY DEF TradingOK, TradingTypeOK, OrdersState
<1>2. CASE DemoSubmitted(i) /\ SubmitReturns
  <2>1. timers[i] \in OrderTimer /\ timers[i].kind = "submit" /\ timers' \in Seq(OrderTimer)
    BY <1>1, <1>2, FireStep DEF DemoSubmitted
  <2>2. Listed(timers[i].arg) \in Seq(Order)
    BY <1>1, <2>1, ListedTyped DEF OrderTimer
  <2>3. orders' \in OrdersState /\ orders'.loading = FALSE
    BY <1>1, <1>2, <2>2, Zenon DEF DemoSubmitted, OrdersState
  <2>4. OrdersLive'
    BY <2>3 DEF OrdersLive
  <2> QED  BY <1>2, <2>1, <2>3, <2>4, OrdersStep DEF SubmitReturns, TradingOK, TradingTypeOK
<1>3. CASE OrderCancelled(i) /\ UNCHANGED <<markets, positions, form>>
  <2>1. timers[i] \in OrderTimer /\ timers[i].kind = "cancel" /\ timers' \in Seq(OrderTimer)
    BY <1>1, <1>3, FireStep DEF OrderCancelled
  <2>2. PICK open \in Seq(Order) : orders' = [orders EXCEPT !.open = open, !.loading = FALSE]
    <3>1. CASE timers[i].arg <= Len(orders.open)
      <4>1. timers[i].arg \in DOMAIN orders.open
        BY <1>1, <2>1, <3>1, LenProperties DEF OrderTimer
      <4> QED  BY <1>1, <1>3, <3>1, <4>1, RemoveAtProperties DEF OrderCancelled
    <3>2. CASE ~(timers[i].arg <= Len(orders.open))
      BY <1>1, <1>3, <3>2 DEF OrderCancelled
    <3> QED  BY <3>1, <3>2
  <2>3. orders' \in OrdersState /\ orders'.loading = FALSE
    BY <1>1, <2>2, Zenon DEF OrdersState
  <2>4. OrdersLive'
    BY <2>3 DEF OrdersLive
  <2> QED  BY <1>3, <2>1, <2>3, <2>4, OrdersStep DEF TradingOK, TradingTypeOK
<1>4. CASE PositionClosed(i) /\ UNCHANGED <<markets, orders, form>>
  <2>1. /\ timers' \in Seq(OrderTimer)
        /\ Pending({"submit", "cancel"}) # {} => Pending({"submit", "cancel"})' # {}
    BY <1>1, <1>4, FireStep DEF PositionClosed
  <2>2. positions' \subseteq MockPositions
    BY <1>4 DEF PositionClosed, TradingOK, TradingTypeOK
  <2>3. OrdersLive'
    BY <1>4, <2>1 DEF OrdersLive, TradingOK
  <2> QED  BY <1>1, <1>4, <2>1, <2>2, <2>3, OrdersStep
<1> QED  BY <1>2, <1>3, <1>4 DEF TradingTimer

LEMMA TradingStep ==
  ASSUME TradingOK, demoMode \in BOOLEAN, TradingNext
  PROVE  TradingOK'
<1>1. form \in Form
  BY DEF TradingOK, TradingTypeOK
<1>2. CASE \E s \in Symbols : SelectMarket(s)
  BY <1>2, InputStep DEF SelectMarket
<1>3. CASE Ticks
  BY <1>3, InputStep DEF Ticks
<1>4. ASSUME NEW new \in Form, setForm(new) PROVE TradingOK'
  BY <1>4, InputStep DEF setForm
<1>5. CASE \E v \in ChartViews : SetChartView(v)
  BY <1>1, <1>4, <1>5 DEF SetChartView, Form
<1>6. CASE \E m \in ExecModes : SetExecMode(m)
  BY <1>1, <1>4, <1>6 DEF SetExecMode, Form
<1>7. CASE \E side \in Sides : SetOrderSide(side)
  BY <1>1, <1>4, <1>7 DEF SetOrderSide, Form
<1>8. CASE \E t \in OrderTypes : SetOrderType(t)
  BY <1>1, <1>4, <1>8 DEF SetOrderType, Form
<1>9. CASE \E p \in TypedPrices : SetPrice(p)
  BY <1>1, <1>4, <1>9 DEF SetPrice, Form
<1>10. CASE \E z \in TypedSizes \cup {NoSize} : SetSize(z)
  BY <1>1, <1>4, <1>10 DEF SetSize, Form
<1>11. CASE \E l \in Leverages : SetLeverage(l)
  BY <1>1, <1>4, <1>11, TerminalAssumption DEF SetLeverage, Form
<1>12. CASE HandleSubmit
  BY <1>12, SubmitStep
<1>13. CASE \/ \E i \in DOMAIN orders.open : ClickCancel(i)
            \/ \E p \in positions : ClickClose(p)
  BY <1>13, ClickStep
<1>14. CASE Answers \/ Network
  BY <1>14, AnswerStep, NetworkStep
<1>15. CASE \E i \in DOMAIN timers : TradingTimer(i)
  BY <1>15, TimerStep
<1> QED
  BY <1>2, <1>3, <1>5, <1>6, <1>7, <1>8, <1>9, <1>10, <1>11, <1>12, <1>13, <1>14, <1>15
  DEF TradingNext, UserTrades

(* The portfolio page *****************************************************)

(* Its part of the invariant.                                              *)
TransferOK ==
  /\ PortfolioTypeOK
  /\ timers \in Seq(TransferTimer) /\ Len(timers) <= 1
  /\ portfolio.txLoading <=> timers # <<>>
  /\ \A i \in DOMAIN timers :
       timers[i].kind = "withdraw" => timers[i].arg <= portfolio.depositedTotal

(* What a step of the account may be.                                      *)
AccountStep == [DA!Next]_<<portfolio.depositedTotal, Requested>>

LEMMA BalanceStartTyped ==
  ASSUME address \in Addresses \cup {NoAddress}
  PROVE  {BalanceStart, BalanceMounted} \subseteq [equity : Nat, requests : [Addresses -> Nat]]
BY DEF BalanceStart, BalanceMounted, NoRequests, connected

LEMMA PortfolioStartTyped == PortfolioStart \in PortfolioState
BY DEF PortfolioStart, PortfolioState, Messages

LEMMA TransferTimers ==
  ASSUME NEW s \in Seq(TransferTimer)
  PROVE  /\ DOMAIN s = 1..Len(s) /\ Len(s) \in Nat
         /\ s = <<>> <=> Len(s) = 0
         /\ \A i \in DOMAIN s : /\ s[i].kind \in {"deposit", "withdraw"}
                               /\ s[i].arg \in Nat \ {0}
<1>1. DOMAIN s = 1..Len(s) /\ Len(s) \in Nat
  BY LenProperties
<1>2. s = <<>> <=> Len(s) = 0
  BY EmptySeq
<1>3. \A i \in DOMAIN s : s[i] \in TransferTimer
  BY <1>1, ElementOfSeq
<1> QED  BY <1>1, <1>2, <1>3 DEF TransferTimer

(* The requested transfer is the timer's.                                  *)
LEMMA RequestedIs ==
  ASSUME timers \in Seq(TransferTimer)
  PROVE  /\ Pending({"deposit", "withdraw"}) = DOMAIN timers
         /\ timers = <<>> => Requested = [kind |-> "none", amount |-> 0]
         /\ timers # <<>> => Requested = [kind |-> timers[1].kind, amount |-> timers[1].arg]
<1>1. \A i \in DOMAIN timers : timers[i].kind \in {"deposit", "withdraw"}
  BY TransferTimers
<1>2. Pending({"deposit", "withdraw"}) = DOMAIN timers
  BY <1>1 DEF Pending
<1>3. timers # <<>> <=> DOMAIN timers # {}
  BY TransferTimers
<1> QED  BY <1>2, <1>3 DEF Requested

LEMMA RequestedIsAfter ==
  ASSUME timers' \in Seq(TransferTimer)
  PROVE  /\ Pending({"deposit", "withdraw"})' = DOMAIN timers'
         /\ timers' = <<>> => Requested' = [kind |-> "none", amount |-> 0]
         /\ timers' # <<>> => Requested' = [kind |-> timers'[1].kind, amount |-> timers'[1].arg]
<1>1. \A i \in DOMAIN timers' : timers'[i].kind \in {"deposit", "withdraw"}
  BY TransferTimers
<1>2. Pending({"deposit", "withdraw"})' = DOMAIN timers'
  BY <1>1 DEF Pending
<1>3. timers' # <<>> <=> DOMAIN timers' # {}
  BY TransferTimers
<1> QED  BY <1>2, <1>3 DEF Requested

(* Answers for a balance and the wallet's own messages move no money.      *)
LEMMA BalanceStep ==
  ASSUME PortfolioTypeOK, BalanceNext, UNCHANGED <<address, portfolio>>
  PROVE  PortfolioTypeOK'
<1>1. /\ balance \in [equity : Nat, requests : [Addresses -> Nat]]
      /\ address \in Addresses \cup {NoAddress}
  BY DEF PortfolioTypeOK, wallet, WalletState
<1>2. balance' \in [equity : Nat, requests : [Addresses -> Nat]]
  <2>1. CASE Poll
    BY <1>1, <2>1 DEF Poll, connected
  <2>2. CASE \E a \in Addresses, found \in BOOLEAN : BalanceAnswered(a, found)
    <3>1. PICK a \in Addresses, found \in BOOLEAN : BalanceAnswered(a, found)
      BY <2>2
    <3>2. (IF found THEN BankBalance[a] ELSE 0) \in Nat
      BY BalanceAssumption
    <3>3. [balance.requests EXCEPT ![a] = @ - 1] \in [Addresses -> Nat]
      BY <1>1, <3>1 DEF BalanceAnswered
    <3> QED  BY <3>1, <3>2, <3>3 DEF BalanceAnswered
  <2> QED  BY <2>1, <2>2 DEF BalanceNext
<1> QED  BY <1>1, <1>2 DEF PortfolioTypeOK, wallet, WalletState, connected

(* A step that neither sets a timer nor moves money is none of the         *)
(* account's.                                                              *)
LEMMA QuietStep ==
  ASSUME TransferOK, PortfolioTypeOK', timers' = timers,
         portfolio'.depositedTotal = portfolio.depositedTotal,
         portfolio'.txLoading = portfolio.txLoading
  PROVE  TransferOK' /\ AccountStep
<1>1. TransferOK'
  BY DEF TransferOK
<1>2. Requested' = Requested
  BY DEF Requested, Pending
<1> QED  BY <1>1, <1>2 DEF AccountStep

LEMMA StartStep ==
  ASSUME TransferOK, ~portfolio.txLoading,
         NEW kind \in {"deposit", "withdraw"}, NEW amount \in Nat \ {0},
         kind = "withdraw" => amount <= portfolio.depositedTotal,
         StartTransfer(kind, amount), UNCHANGED <<address, balance>>
  PROVE  TransferOK' /\ AccountStep
<1> DEFINE timer == [kind |-> kind, delay |-> 1400, arg |-> amount]
<1>1. timer \in TransferTimer /\ timer.kind = kind /\ timer.arg = amount
  BY DEF TransferTimer
<1>2. timers = <<>> /\ timers \in Seq(TransferTimer) /\ timers' = Append(timers, timer)
  BY DEF TransferOK, StartTransfer, SetTimeout
<1> HIDE DEF timer
<1>3. timers' \in Seq(TransferTimer) /\ Len(timers') = 1 /\ timers' # <<>> /\ timers'[1] = timer
  BY <1>1, <1>2, AppendProperties, EmptySeq
<1>4. /\ portfolio \in PortfolioState
      /\ portfolio' = [portfolio EXCEPT !.txLoading = TRUE, !.txMessage = "none"]
  BY DEF TransferOK, PortfolioTypeOK, StartTransfer
<1>5. /\ portfolio' \in PortfolioState /\ portfolio'.txLoading
      /\ portfolio'.depositedTotal = portfolio.depositedTotal
  BY <1>4 DEF PortfolioState, Messages
<1>6. PortfolioTypeOK'
  BY <1>5 DEF TransferOK, PortfolioTypeOK, wallet, WalletState, connected
<1>7. TransferOK'
  BY <1>1, <1>3, <1>5, <1>6, TransferTimers DEF TransferOK
<1>8. Requested = [kind |-> "none", amount |-> 0]
  BY <1>2, RequestedIs
<1>9. Requested' = [kind |-> kind, amount |-> amount]
  BY <1>1, <1>3, RequestedIsAfter
<1>10. DA!Accept
  BY <1>5, <1>8, <1>9 DEF DA!Accept, DA!NoRequest
<1> QED  BY <1>7, <1>10 DEF AccountStep, DA!Next

LEMMA EndStep ==
  ASSUME TransferOK, NEW i \in DOMAIN timers, Deposited(i) \/ Withdrew(i),
         UNCHANGED <<address, balance>>
  PROVE  TransferOK' /\ AccountStep
<1>1. /\ timers \in Seq(TransferTimer) /\ Len(timers) = 1 /\ i = 1 /\ timers # <<>>
      /\ timers[1].arg \in Nat \ {0}
  <2>1. timers \in Seq(TransferTimer) /\ Len(timers) <= 1
    BY DEF TransferOK
  <2>2. DOMAIN timers = 1..Len(timers) /\ Len(timers) \in Nat
    BY <2>1, TransferTimers
  <2>3. i = 1 /\ Len(timers) = 1
    BY <2>1, <2>2
  <2> QED  BY <2>1, <2>2, <2>3, TransferTimers
<1>2. timers' \in Seq(TransferTimer) /\ Len(timers') = 0
  BY <1>1, RemoveAtProperties DEF Deposited, Withdrew, Fires
<1>3. timers' = <<>>
  BY <1>2, TransferTimers
<1>4. Requested = [kind |-> timers[1].kind, amount |-> timers[1].arg]
  BY <1>1, RequestedIs
<1>5. Requested' = [kind |-> "none", amount |-> 0]
  BY <1>2, <1>3, RequestedIsAfter
<1>6. portfolio \in PortfolioState /\ portfolio.depositedTotal \in Nat
  BY DEF TransferOK, PortfolioTypeOK, PortfolioState
<1>7. PICK total \in Nat :
        /\ total = IF timers[1].kind = "deposit" THEN portfolio.depositedTotal + timers[1].arg
                   ELSE portfolio.depositedTotal - timers[1].arg
        /\ portfolio' \in PortfolioState
        /\ portfolio'.depositedTotal = total /\ portfolio'.txLoading = FALSE
  <2>1. CASE Deposited(i)
    <3>1. timers[1].kind = "deposit" /\ portfolio.depositedTotal + timers[1].arg \in Nat
      BY <1>1, <1>6, <2>1 DEF Deposited, Fires
    <3>2. portfolio' = [portfolio EXCEPT
             !.depositedTotal = portfolio.depositedTotal + timers[1].arg,
             !.txMessage = "deposited", !.depositAmount = NoAmount, !.txLoading = FALSE]
      BY <1>1, <2>1 DEF Deposited
    <3> QED  BY <1>6, <3>1, <3>2 DEF PortfolioState, Messages
  <2>2. CASE Withdrew(i)
    <3>1. timers[1].kind = "withdraw" /\ portfolio.depositedTotal - timers[1].arg \in Nat
      BY <1>1, <1>6, <2>2 DEF Withdrew, Fires, TransferOK
    <3>2. portfolio' = [portfolio EXCEPT
             !.depositedTotal = portfolio.depositedTotal - timers[1].arg,
             !.txMessage = "withdrew", !.withdrawAmount = NoAmount, !.txLoading = FALSE]
      BY <1>1, <2>2 DEF Withdrew
    <3> QED  BY <1>6, <3>1, <3>2 DEF PortfolioState, Messages
  <2> QED  BY <2>1, <2>2
<1>8. PortfolioTypeOK'
  BY <1>7 DEF TransferOK, PortfolioTypeOK, wallet, WalletState, connected
<1>9. TransferOK'
  BY <1>2, <1>3, <1>7, <1>8, TransferTimers DEF TransferOK
<1>10. DA!Serve
  BY <1>1, <1>4, <1>5, <1>7, TransferTimers DEF DA!Serve, DA!NoRequest
<1> QED  BY <1>9, <1>10 DEF AccountStep, DA!Next

(* The portfolio page's account *******************************************)

(* The value of the assets, whatever they are, is a multiple of 20.        *)
LEMMA TotalValue == \E k \in Nat : totalValue = 20 * k
<1> DEFINE f == [a \in Assets |-> a.value]
           g == [a \in Assets |-> a.value \div 20]
           zero == [a \in Assets |-> 0]
           k == SumFunctionOnSet(g, Assets)
<1>1. IsFiniteSet(Assets)
  BY AssetsAssumption
<1>2. \A a \in Assets : a.value \in Nat /\ a.value % 20 = 0
  <2>1. \A a \in Assets : a \in PortfolioAsset /\ a.value % 20 = 0
    BY AssetsAssumption
  <2> QED  BY <2>1 DEF PortfolioAsset
<1>3. \A a \in Assets : f[a] \in Int /\ g[a] \in Nat /\ zero[a] \in Int /\ f[a] = 20 * g[a] + zero[a]
  <2>1. ASSUME NEW v \in Nat, v % 20 = 0
        PROVE  v \div 20 \in Nat /\ v = 20 * (v \div 20) + 0
    BY <2>1
  <2>2. \A a \in Assets : f[a] = a.value /\ g[a] = a.value \div 20 /\ zero[a] = 0
    OBVIOUS
  <2> HIDE DEF f, g, zero
  <2> SUFFICES ASSUME NEW a \in Assets
               PROVE  f[a] \in Int /\ g[a] \in Nat /\ zero[a] \in Int /\ f[a] = 20 * g[a] + zero[a]
    OBVIOUS
  <2> DEFINE v == a.value
  <2>3. v \in Nat /\ v % 20 = 0 /\ f[a] = v /\ g[a] = v \div 20 /\ zero[a] = 0
    BY <1>2, <2>2
  <2> HIDE DEF v
  <2> QED  BY <2>1, <2>3
<1>4. \A a \in Assets \ {} : zero[a] = 0
  OBVIOUS
<1>5. totalValue = SumFunctionOnSet(f, Assets)
  BY DEF totalValue, SumFunction
<1> HIDE DEF f, g, zero
<1>6. SumFunctionOnSet(f, Assets) = 20 * SumFunctionOnSet(g, Assets) + SumFunctionOnSet(zero, Assets)
  BY <1>1, <1>3, SumLinear
<1>7. SumFunctionOnSet(zero, Assets) = 0
  <2>1. SumFunctionOnSet(zero, Assets) = SumFunctionOnSet(zero, {})
    BY <1>1, <1>3, <1>4, SumSupport
  <2> QED  BY <2>1, SumEmpty
<1>8. k \in Nat
  BY <1>1, <1>3, SumNat
<1>9. totalValue = 20 * k
  <2>1. totalValue = 20 * k + SumFunctionOnSet(zero, Assets)
    BY <1>5, <1>6
  <2> HIDE DEF k
  <2> QED  BY <1>7, <1>8, <2>1
<1> QED  BY <1>8, <1>9

(* The margins are exact shares of it.                                     *)
LEMMA Shares ==
  \E k \in Nat : /\ totalValue = 20 * k
                 /\ Percent(totalValue, 10) = 2 * k
                 /\ Percent(totalValue, 5) = k
                 /\ Percent(totalValue, 90) = 18 * k
<1>1. PICK k \in Nat : totalValue = 20 * k
  BY TotalValue
<1>2. /\ (20 * k) * 10 = 100 * (2 * k) /\ (20 * k) * 5 = 100 * k
      /\ (20 * k) * 90 = 100 * (18 * k)
  OBVIOUS
<1>3. \A n \in Nat : (100 * n) \div 100 = n
  OBVIOUS
<1>4. 2 * k \in Nat /\ 18 * k \in Nat
  OBVIOUS
<1> QED  BY <1>1, <1>2, <1>3, <1>4 DEF Percent

LEMMA SummaryTyped == summary \in MarginSummary
<1>1. PICK k \in Nat : /\ totalValue = 20 * k
                       /\ Percent(totalValue, 10) = 2 * k
                       /\ Percent(totalValue, 5) = k
                       /\ Percent(totalValue, 90) = 18 * k
  BY Shares
<1>2. 2 * k \in Nat /\ 18 * k \in Nat /\ 20 * k \in Nat
  OBVIOUS
<1>3. imr = 10 /\ mmr = 5 /\ 100 - imr = 90
  BY DEF imr, mmr
<1> QED  BY <1>1, <1>2, <1>3 DEF summary, MarginSummary

LEMMA PortfolioStep ==
  ASSUME TransferOK, demoMode \in BOOLEAN, address' = address, PortfolioNext
  PROVE  TransferOK' /\ AccountStep
<1>1. portfolio \in PortfolioState /\ wallet \in WalletState
  BY DEF TransferOK, PortfolioTypeOK
<1>2. ASSUME UNCHANGED <<balance, timers>>, portfolio' \in PortfolioState,
             portfolio'.depositedTotal = portfolio.depositedTotal,
             portfolio'.txLoading = portfolio.txLoading
      PROVE  TransferOK' /\ AccountStep
  <2>1. PortfolioTypeOK'
    BY <1>2 DEF TransferOK, PortfolioTypeOK, wallet, WalletState, connected
  <2> QED  BY <1>2, <2>1, QuietStep
<1>3. CASE ClickTransfer /\ UNCHANGED balance
  <2>1. ~portfolio.txLoading
    BY <1>3 DEF ClickTransfer, TransferEnabled
  <2>2. CASE PromptWallet /\ UNCHANGED timers
    BY <1>1, <1>2, <1>3, <2>2 DEF PromptWallet, PortfolioState
  <2>3. CASE portfolio.tab = "deposit" /\ handleDeposit(portfolio.depositAmount)
    <3>1. portfolio.depositAmount \in Nat \ {0}
      BY <1>1, <2>3, PortfolioAssumption DEF handleDeposit, Positive, PortfolioState
    <3>2. CASE StartTransfer("deposit", portfolio.depositAmount)
      BY <1>3, <2>1, <3>1, <3>2, StartStep
    <3>3. CASE TransferNothing
      BY <1>1, <1>2, <1>3, <3>3 DEF TransferNothing, PortfolioState, Messages
    <3> QED  BY <2>3, <3>2, <3>3 DEF handleDeposit
  <2>4. CASE portfolio.tab = "withdraw" /\ Insufficient(portfolio.withdrawAmount)
    BY <1>1, <1>2, <1>3, <2>4 DEF Insufficient, PortfolioState, Messages
  <2>5. CASE portfolio.tab = "withdraw" /\ handleWithdraw(portfolio.withdrawAmount)
    <3>1. portfolio.withdrawAmount \in Nat \ {0}
      BY <1>1, <2>5, PortfolioAssumption DEF handleWithdraw, Positive, PortfolioState
    <3>2. /\ portfolio.withdrawAmount <= portfolio.depositedTotal
          /\ StartTransfer("withdraw", portfolio.withdrawAmount)
      BY <2>5 DEF handleWithdraw
    <3> QED  BY <1>3, <2>1, <3>1, <3>2, StartStep
  <2> QED  BY <1>3, <2>2, <2>3, <2>4, <2>5 DEF ClickTransfer
<1>4. CASE UNCHANGED <<balance, timers>> /\ \E t \in {"deposit", "withdraw"} : SetTab(t)
  BY <1>1, <1>2, <1>4 DEF SetTab, PortfolioState, Messages
<1>5. CASE /\ UNCHANGED <<balance, timers>>
           /\ \E a \in TypedAmounts \cup QuickAmounts \cup {NoAmount, MaxAmount} : SetAmount(a)
  <2>1. MaxAmount \in Int
    BY <1>1, SummaryTyped DEF MaxAmount, WalletState, MarginSummary
  <2>2. PICK a \in Int \cup {NoAmount} : SetAmount(a)
    BY <1>5, <2>1, PortfolioAssumption
  <2> QED  BY <1>1, <1>2, <1>5, <2>2 DEF SetAmount, PortfolioState
<1>6. CASE WalletAnswers /\ UNCHANGED <<balance, timers>>
  <2>1. portfolio.prompts - 1 \in Nat
    <3>1. portfolio.prompts \in Nat
      BY <1>1 DEF PortfolioState
    <3>2. portfolio.prompts > 0
      BY <1>6 DEF WalletAnswers
    <3> QED  BY <3>1, <3>2
  <2>2. PICK message \in Messages :
          portfolio' = [portfolio EXCEPT !.prompts = portfolio.prompts - 1, !.txMessage = message]
    BY <1>1, <1>6 DEF WalletAnswers, PortfolioState, Messages
  <2> QED  BY <1>1, <1>2, <1>6, <2>1, <2>2 DEF PortfolioState
<1>7. CASE \E i \in DOMAIN timers : (Deposited(i) \/ Withdrew(i)) /\ UNCHANGED balance
  BY <1>7, EndStep
<1>8. CASE BalanceNext /\ UNCHANGED <<portfolio, timers>>
  <2>1. PortfolioTypeOK'
    BY <1>8, BalanceStep DEF TransferOK
  <2> QED  BY <1>8, <2>1, QuietStep
<1> QED
  BY <1>3, <1>4, <1>5, <1>6, <1>7, <1>8 DEF PortfolioNext, UserTransfers

(* The pages together *****************************************************)

(* Nothing the terminal waits for is a transfer.                           *)
LEMMA OrderTimers ==
  ASSUME NEW s \in Seq(OrderTimer)
  PROVE  \A i \in DOMAIN s : s[i].kind \notin {"deposit", "withdraw"}
<1>1. \A i \in DOMAIN s : s[i] \in OrderTimer
  BY LenProperties, ElementOfSeq
<1> QED  BY <1>1 DEF OrderTimer

LEMMA NothingRequested ==
  ASSUME timers \in Seq(OrderTimer)
  PROVE  /\ Pending({"deposit", "withdraw"}) = {}
         /\ Requested = [kind |-> "none", amount |-> 0]
BY OrderTimers DEF Pending, Requested

LEMMA NothingRequestedAfter ==
  ASSUME timers' \in Seq(OrderTimer)
  PROVE  /\ Pending({"deposit", "withdraw"})' = {}
         /\ Requested' = [kind |-> "none", amount |-> 0]
BY OrderTimers DEF Pending, Requested

(* The invariant, page by page.                                            *)
LEMMA OnPage ==
  ASSUME FrontendInv
  PROVE  /\ activeView # "portfolio" => TradingOK /\ portfolio = PortfolioStart
         /\ activeView = "portfolio" => TransferOK
BY DEF FrontendInv, FrontendTypeOK, NoDeadForm, TransferInv, TradingOK, OrdersLive, TransferOK

LEMMA TradingPageInv ==
  ASSUME AppTypeOK', PortfolioTypeOK', OrdersInv', TradingOK',
         activeView' # "portfolio", portfolio' = PortfolioStart
  PROVE  FrontendInv'
<1>1. timers' \in Seq(OrderTimer) /\ FrontendTypeOK'
  BY DEF TradingOK, FrontendTypeOK
<1>2. Pending({"deposit", "withdraw"})' = {} /\ ~portfolio'.txLoading
  BY <1>1, NothingRequestedAfter DEF PortfolioStart
<1>3. NoDeadForm'
  BY <1>2 DEF NoDeadForm, TradingOK, OrdersLive
<1> QED  BY <1>1, <1>3 DEF FrontendInv, TransferInv

LEMMA PortfolioPageInv ==
  ASSUME AppTypeOK', TradingTypeOK', OrdersInv', TransferOK', activeView' = "portfolio"
  PROVE  FrontendInv'
<1>1. timers' \in Seq(TransferTimer) /\ FrontendTypeOK'
  BY DEF TransferOK, FrontendTypeOK
<1>2. Pending({"deposit", "withdraw"})' = DOMAIN timers'
  BY <1>1, RequestedIsAfter
<1>3. timers' # <<>> <=> DOMAIN timers' # {}
  BY <1>1, TransferTimers
<1>4. ~orders'.loading
  BY DEF OrdersInv, OrdersStart
<1>5. NoDeadForm'
  BY <1>2, <1>3, <1>4 DEF NoDeadForm, TransferOK
<1> QED  BY <1>1, <1>5 DEF FrontendInv, TransferInv, TransferOK

LEMMA FrontendInit == Init => FrontendInv /\ DA!Init
<1> SUFFICES ASSUME Init PROVE FrontendInv /\ DA!Init
  OBVIOUS
<1>1. TradingTypeOK
  BY TradingStartTyped, RequestTyped DEF Init, TradingTypeOK
<1>2. PortfolioTypeOK
  BY BalanceStartTyped, PortfolioStartTyped
  DEF Init, WalletInit, PortfolioTypeOK, wallet, WalletState, BalanceStart, connected
<1>3. AppTypeOK
  BY ExchangeAssumption, EmptySeq DEF Init, AppTypeOK, TabsOf, Views
<1>4. timers \in Seq(OrderTimer) /\ activeView # "portfolio"
  BY EmptySeq DEF Init
<1>5. /\ Pending({"deposit", "withdraw"}) = {}
      /\ Requested = [kind |-> "none", amount |-> 0]
  BY <1>4, NothingRequested
<1>6. ~orders.loading /\ ~portfolio.txLoading /\ portfolio.depositedTotal = 0
  BY DEF Init, OrdersStart, PortfolioStart
<1>7. FrontendInv
  BY <1>1, <1>2, <1>3, <1>4, <1>5, <1>6
  DEF FrontendInv, FrontendTypeOK, NoDeadForm, TransferInv, OrdersInv, Init
<1> QED  BY <1>5, <1>6, <1>7 DEF DA!Init, DA!NoRequest

(* What is left behind goes on, of its type, until it ends.                *)
LEMMA LeftTyped ==
  ASSUME left \in Seq(LeftSubmission), orders \in OrdersState, NEW p, Mount(p)
  PROVE  left' \in Seq(LeftSubmission)
<1> DEFINE s == orders.submissions
           behind == [i \in DOMAIN s |-> Left(s[i])]
<1>1. s \in Seq(Submission)
  BY DEF OrdersState
<1>2. DOMAIN s = 1..Len(s) /\ Len(s) \in Nat /\ \A i \in DOMAIN s : s[i] \in Submission
  BY <1>1, LenProperties, ElementOfSeq
<1>3. \A i \in DOMAIN s : Left(s[i]) \in LeftSubmission
  BY <1>2 DEF Left, LeftSubmission, Submission
<1>4. behind \in Seq(LeftSubmission)
  <2>1. behind \in [1..Len(s) -> LeftSubmission]
    BY <1>2, <1>3
  <2> HIDE DEF behind
  <2> QED  BY <1>2, <2>1, SeqDef
<1>5. left' = left \o behind
  BY DEF Mount
<1> HIDE DEF behind
<1> QED  BY <1>4, <1>5, ConcatProperties

LEMMA RunsOnTyped ==
  ASSUME left \in Seq(LeftSubmission), NEW i \in DOMAIN left, RunsOn(i)
  PROVE  left' \in Seq(LeftSubmission)
<1>1. left[i] \in LeftSubmission /\ i \in 1..Len(left)
  BY LenProperties, ElementOfSeq
<1>2. ASSUME NEW stage \in {"evm", "cosmos"}, left' = [left EXCEPT ![i].stage = stage]
      PROVE  left' \in Seq(LeftSubmission)
  <2> DEFINE next == [left[i] EXCEPT !.stage = stage]
  <2>1. next \in LeftSubmission
    BY <1>1 DEF LeftSubmission
  <2>2. left' = [left EXCEPT ![i] = next]
    BY <1>2
  <2> HIDE DEF next
  <2> QED  BY <1>1, <2>1, <2>2, ExceptSeq
<1>3. CASE Ends(i)
  BY <1>3, RemoveAtProperties DEF Ends
<1> QED  BY <1>2, <1>3 DEF RunsOn, GoesOn

(* A page that is mounted starts afresh.                                   *)
LEMMA MountStep ==
  ASSUME FrontendInv, NEW p, Mount(p), AppTypeOK', address' = address
  PROVE  FrontendInv' /\ AccountStep
<1>1. /\ timers' = <<>> /\ activeView' = p
      /\ markets' = MarketsStart /\ positions' = MockPositions /\ orders' = OrdersStart
      /\ form' = FormStart /\ portfolio' = PortfolioStart
      /\ balance' \in {BalanceStart, BalanceMounted}
  BY DEF Mount
<1>2. address \in Addresses \cup {NoAddress}
  BY DEF FrontendInv, FrontendTypeOK, PortfolioTypeOK, wallet, WalletState
<1>3. TradingTypeOK'
  BY <1>1, TradingStartTyped, RequestTypedAfter DEF TradingTypeOK
<1>4. /\ balance' \in [equity : Nat, requests : [Addresses -> Nat]]
      /\ portfolio' \in PortfolioState
  BY <1>1, <1>2, BalanceStartTyped, PortfolioStartTyped
<1>5. PortfolioTypeOK'
  BY <1>2, <1>4 DEF PortfolioTypeOK, wallet, WalletState, connected
<1>6. /\ timers' \in Seq(OrderTimer) /\ timers' \in Seq(TransferTimer) /\ Len(timers') = 0
      /\ DOMAIN timers' = {}
  BY <1>1, EmptySeq, TransferTimers
<1>7. ~orders'.loading /\ ~portfolio'.txLoading /\ portfolio'.depositedTotal = 0
  BY <1>1 DEF OrdersStart, PortfolioStart
<1>8. FrontendInv'
  <2>1. CASE p = "portfolio"
    BY <1>1, <1>3, <1>5, <1>6, <1>7, <2>1, PortfolioPageInv DEF TransferOK, OrdersInv
  <2>2. CASE p # "portfolio"
    BY <1>1, <1>3, <1>5, <1>6, <1>7, <2>2, TradingPageInv DEF TradingOK, OrdersInv, OrdersLive
  <2> QED  BY <2>1, <2>2
<1>9. Requested' = [kind |-> "none", amount |-> 0]
  BY <1>6, NothingRequestedAfter
<1>10. DA!Forget
  BY <1>7, <1>9 DEF DA!Forget, DA!Init, DA!NoRequest
<1> QED  BY <1>8, <1>10 DEF AccountStep, DA!Next

(* A step that leaves the mounted page alone.                              *)
LEMMA OutsideStep ==
  ASSUME FrontendInv, AppTypeOK', PortfolioTypeOK', activeView' = activeView,
         UNCHANGED <<timers, tradingVars, portfolio>>
  PROVE  FrontendInv' /\ AccountStep
<1>1. UNCHANGED <<timers, markets, positions, orders, form, portfolio, activeView>>
  BY DEF tradingVars
<1>2. TradingTypeOK'
  BY <1>1, RequestTypedAfter DEF FrontendInv, FrontendTypeOK, TradingTypeOK
<1>3. FrontendInv'
  BY <1>1, <1>2 DEF FrontendInv, FrontendTypeOK, NoDeadForm, Pending, TransferInv, OrdersInv
<1>4. Requested' = Requested
  BY <1>1 DEF Requested, Pending
<1> QED  BY <1>1, <1>3, <1>4 DEF AccountStep

LEMMA FrontendStep ==
  ASSUME FrontendInv, Next
  PROVE  FrontendInv' /\ AccountStep
<1>1. /\ AppTypeOK /\ TradingTypeOK /\ PortfolioTypeOK /\ OrdersInv
      /\ address \in Addresses \cup {NoAddress}
  BY DEF FrontendInv, FrontendTypeOK, PortfolioTypeOK, wallet, WalletState
<1>2. ASSUME UNCHANGED <<address, activeView, timers, tradingVars, portfolioVars>>, AppTypeOK'
      PROVE  FrontendInv' /\ AccountStep
  <2>1. PortfolioTypeOK'
    BY <1>1, <1>2 DEF PortfolioTypeOK, portfolioVars, wallet, WalletState, connected
  <2> QED  BY <1>2, <2>1, OutsideStep DEF portfolioVars
<1>3. ASSUME NEW v \in {"landing", "app"}, SetView(v), entering' \in Nat, UNCHANGED envVars
      PROVE  FrontendInv' /\ AccountStep
  <2>1. PICK p \in {"trading", "none"} : Mount(p) /\ p = IF v = "app" THEN "trading" ELSE "none"
    BY <1>3 DEF SetView
  <2>2. left' \in Seq(LeftSubmission)
    BY <1>1, <2>1, LeftTyped DEF AppTypeOK, TradingTypeOK
  <2>3. AppTypeOK'
    BY <1>1, <1>3, <2>1, <2>2
    DEF SetView, Mount, AppTypeOK, TabsOf, FirstTab, ActiveTabs, Sections, Views, envVars
  <2> QED  BY <1>3, <2>1, <2>3, MountStep DEF envVars
<1>4. ASSUME OnEnterApp, entering' \in Nat, UNCHANGED envVars
      PROVE  FrontendInv' /\ AccountStep
  <2>1. CASE view = "landing"
    BY <1>3, <1>4, <2>1 DEF OnEnterApp
  <2>2. CASE view # "landing"
    <3>1. UNCHANGED <<view, sidebarCollapsed, activeView, activeTab, timers, left, tradingVars, portfolioVars>>
      BY <1>4, <2>2 DEF OnEnterApp, appVars, pageVars
    <3> QED  BY <1>1, <1>2, <1>4, <3>1 DEF AppTypeOK, envVars, TabsOf
  <2> QED  BY <2>1, <2>2
<1>5. CASE HandleEnter
  <2>1. CASE OnEnterApp /\ UNCHANGED entering
    BY <1>1, <1>4, <1>5, <2>1 DEF HandleEnter, AppTypeOK
  <2>2. CASE entering' = entering + 1 /\ UNCHANGED appVars
    <3>1. UNCHANGED <<view, sidebarCollapsed, activeView, activeTab, timers, left, tradingVars, portfolioVars>>
      BY <2>2 DEF appVars, pageVars
    <3>2. UNCHANGED envVars
      BY <1>5 DEF HandleEnter
    <3> QED  BY <1>1, <1>2, <2>2, <3>1, <3>2 DEF AppTypeOK, envVars, TabsOf
  <2> QED  BY <1>5, <2>1, <2>2 DEF HandleEnter
<1>6. CASE EnterResolves \/ EnterRejects
  <2>1. entering' \in Nat
    BY <1>1, <1>6 DEF EnterResolves, EnterRejects, AppTypeOK
  <2>2. CASE EnterResolves
    BY <1>4, <2>1, <2>2 DEF EnterResolves
  <2>3. CASE EnterRejects
    <3>1. /\ UNCHANGED <<view, sidebarCollapsed, activeView, activeTab, timers, left, tradingVars, portfolioVars>>
          /\ UNCHANGED envVars
      BY <2>3 DEF EnterRejects, appVars, pageVars
    <3> QED  BY <1>1, <1>2, <2>1, <3>1 DEF AppTypeOK, envVars, TabsOf
  <2> QED  BY <1>6, <2>2, <2>3
<1>7. ASSUME NEW v \in Views, SelectView(v) PROVE FrontendInv' /\ AccountStep
  <2>1. Mount(v) /\ UNCHANGED <<envVars, entering, view, sidebarCollapsed>> /\ view = "app"
    BY <1>7 DEF SelectView
  <2>2. v # "none"
    BY DEF Views
  <2>3. left' \in Seq(LeftSubmission)
    BY <1>1, <2>1, LeftTyped DEF AppTypeOK, TradingTypeOK
  <2>4. AppTypeOK'
    BY <1>1, <1>7, <2>1, <2>2, <2>3
    DEF Mount, AppTypeOK, TabsOf, FirstTab, ActiveTabs, Sections, Views, envVars
  <2> QED  BY <2>1, <2>4, MountStep DEF envVars
<1>8. CASE ToggleSidebar
  BY <1>1, <1>2, <1>8 DEF ToggleSidebar, AppTypeOK, envVars, pageVars, TabsOf
<1>9. CASE BackToLanding
  BY <1>1, <1>3, <1>9 DEF BackToLanding, AppTypeOK
<1>10. ASSUME NEW a \in Addresses \cup {NoAddress}, ChangeAddress(a)
       PROVE  FrontendInv' /\ AccountStep
  <2>1. /\ address' = a
        /\ UNCHANGED <<demoMode, entering, view, sidebarCollapsed, activeView, activeTab,
                       timers, left, tradingVars, portfolio>>
        /\ balance' = balance \/ BalanceEffect(a)
    BY <1>10 DEF ChangeAddress, SwitchAddress
  <2>2. balance' \in [equity : Nat, requests : [Addresses -> Nat]]
    BY <1>1, <2>1 DEF BalanceEffect, PortfolioTypeOK
  <2>3. PortfolioTypeOK'
    BY <1>1, <2>1, <2>2 DEF PortfolioTypeOK, wallet, WalletState, connected
  <2>4. AppTypeOK'
    BY <1>1, <2>1 DEF AppTypeOK, TabsOf
  <2> QED  BY <2>1, <2>3, <2>4, OutsideStep
<1>11. CASE TradingPage
  <2>1. /\ activeView = "trading" /\ TradingNext
        /\ UNCHANGED <<envVars, entering, view, sidebarCollapsed, activeView, activeTab, left,
                       portfolioVars>>
    BY <1>11 DEF TradingPage
  <2>2. TradingOK /\ portfolio = PortfolioStart /\ demoMode \in BOOLEAN
    BY <1>1, <2>1, OnPage DEF AppTypeOK
  <2>3. TradingOK'
    BY <2>1, <2>2, TradingStep
  <2>4. AppTypeOK' /\ PortfolioTypeOK' /\ OrdersInv'
    BY <1>1, <2>1
    DEF AppTypeOK, TabsOf, envVars, portfolioVars, PortfolioTypeOK, wallet, WalletState, connected, OrdersInv
  <2>5. FrontendInv'
    BY <2>1, <2>2, <2>3, <2>4, TradingPageInv DEF portfolioVars
  <2>6. Requested' = Requested
    BY <2>2, <2>3, NothingRequested, NothingRequestedAfter DEF TradingOK
  <2> QED  BY <2>1, <2>5, <2>6 DEF AccountStep, portfolioVars
<1>12. CASE PortfolioPage
  <2>1. /\ activeView = "portfolio" /\ PortfolioNext
        /\ UNCHANGED <<envVars, entering, view, sidebarCollapsed, activeView, activeTab, left,
                       tradingVars>>
    BY <1>12 DEF PortfolioPage
  <2>2. TransferOK /\ demoMode \in BOOLEAN
    BY <1>1, <2>1, OnPage DEF AppTypeOK
  <2>3. TransferOK' /\ AccountStep
    BY <2>1, <2>2, PortfolioStep DEF envVars
  <2>4. AppTypeOK' /\ OrdersInv'
    BY <1>1, <2>1 DEF AppTypeOK, TabsOf, envVars, tradingVars, OrdersInv
  <2>5. TradingTypeOK'
    BY <1>1, <2>1, RequestTypedAfter DEF TradingTypeOK, tradingVars
  <2> QED  BY <2>1, <2>3, <2>4, <2>5, PortfolioPageInv
<1>13. CASE \/ \E t \in ActiveTabs : SetActiveTab(t)
            \/ \E t \in Sections : SetActiveSection(t)
  BY <1>1, <1>2, <1>13 DEF SetActiveTab, SetActiveSection, SetTabShown, AppTypeOK, TabsOf, envVars
<1>14. CASE LeftPage
  <2>1. PICK i \in DOMAIN left : RunsOn(i)
    BY <1>14 DEF LeftPage
  <2>2. left' \in Seq(LeftSubmission)
    BY <1>1, <2>1, RunsOnTyped DEF AppTypeOK
  <2>3. /\ UNCHANGED <<envVars, entering, view, sidebarCollapsed, activeView, activeTab>>
        /\ UNCHANGED <<timers, tradingVars, portfolioVars>>
    BY <1>14, <2>1 DEF LeftPage, RunsOn, tradingVars
  <2>4. AppTypeOK'
    BY <1>1, <2>2, <2>3 DEF AppTypeOK, TabsOf, envVars
  <2> QED  BY <1>2, <2>3, <2>4 DEF envVars
<1> QED
  BY <1>5, <1>6, <1>7, <1>8, <1>9, <1>10, <1>11, <1>12, <1>13, <1>14 DEF Next

LEMMA FrontendStutter ==
  ASSUME FrontendInv, UNCHANGED vars
  PROVE  FrontendInv' /\ AccountStep
<1>1. /\ UNCHANGED <<address, demoMode, entering, view, sidebarCollapsed, activeView, activeTab>>
      /\ UNCHANGED <<timers, left, tradingVars, balance, portfolio>>
  BY DEF vars, envVars, appVars, pageVars, portfolioVars
<1>2. AppTypeOK' /\ PortfolioTypeOK'
  BY <1>1 DEF FrontendInv, FrontendTypeOK, AppTypeOK, TabsOf, PortfolioTypeOK, wallet, WalletState, connected
<1> QED  BY <1>1, <1>2, OutsideStep

(* Figures ****************************************************************)

LEMMA PnLIsSizeTimesMove ==
  ASSUME NEW size \in Int, NEW entry \in Int, NEW current \in Int
  PROVE  calcPnL(size, entry, current) = size * (current - entry)
<1>1. (entry - current) * (-size) = size * (current - entry)
  OBVIOUS
<1>2. (current - entry) * size = size * (current - entry)
  OBVIOUS
<1> QED  BY <1>1, <1>2 DEF calcPnL, AbsSize

LEMMA PercentRoundsDown ==
  ASSUME NEW pnl \in Int, NEW margin \in Nat \ {0}
  PROVE  /\ calcPnLPercent(pnl, margin) * margin <= 100 * pnl
         /\ 100 * pnl < (calcPnLPercent(pnl, margin) + 1) * margin
BY DEF calcPnLPercent

(* What a position of one unit has lost at its liquidation price is its    *)
(* margin, but for the maintenance margin.                                 *)
LEMMA LiquidationLeavesMaintenance ==
  ASSUME NEW entry \in Nat, NEW leverage \in Nat \ {0}, NEW side \in {"long", "short"}
  PROVE  LET size == IF side = "long" THEN 1 ELSE -1 IN
         calcMarginRequired(size, entry, Unit \div leverage)
           + calcPnL(size, Unit * entry, calcLiquidationPrice(entry, leverage, side)) = Mmr * entry
<1> DEFINE share == Unit \div leverage
<1>1. Unit \in Int /\ Mmr \in Int /\ share \in Int
  BY PriceMathAssumption
<1> HIDE DEF share
<1>2. entry * (Unit - share + Mmr) - Unit * entry = Mmr * entry - entry * share
  BY <1>1
<1>3. Unit * entry - entry * (Unit + share - Mmr) = Mmr * entry - entry * share
  BY <1>1
<1>4. entry * (Unit - share + Mmr) \in Int /\ entry * (Unit + share - Mmr) \in Int
      /\ Unit * entry \in Int /\ entry * share \in Int /\ Mmr * entry \in Int
  BY <1>1
<1>5. CASE side = "long"
  <2>1. calcMarginRequired(1, entry, share) = entry * share
    BY <1>1 DEF calcMarginRequired, AbsSize
  <2>2. calcPnL(1, Unit * entry, calcLiquidationPrice(entry, leverage, side)) = Mmr * entry - entry * share
    BY <1>2, <1>4, <1>5 DEF calcPnL, calcLiquidationPrice, share
  <2> QED  BY <1>4, <1>5, <2>1, <2>2 DEF share
<1>6. CASE side = "short"
  <2>1. calcMarginRequired(-1, entry, share) = entry * share
    BY <1>1 DEF calcMarginRequired, AbsSize
  <2>2. calcPnL(-1, Unit * entry, calcLiquidationPrice(entry, leverage, side)) = Mmr * entry - entry * share
    BY <1>3, <1>4, <1>6 DEF calcPnL, calcLiquidationPrice, AbsSize, share
  <2> QED  BY <1>4, <1>6, <2>1, <2>2 DEF share
<1> QED  BY <1>5, <1>6

LEMMA FiguresAgreeWhenTyped == ASSUME TradingTypeOK PROVE FiguresAgree
<1>1. /\ selectedPrice \in Nat /\ form \in Form /\ positions \subseteq Position
      /\ markets.price \in [Symbols -> Nat] /\ entryPrice \in Nat
  <2>1. markets.price \in [Symbols -> Nat] /\ selectedPrice \in Nat /\ form \in Form
    BY DEF TradingTypeOK, selectedPrice, MarketsState
  <2>2. positions \subseteq Position
    BY PositionsAssumption DEF TradingTypeOK
  <2>3. entryPrice \in Nat
    BY <2>1, TerminalAssumption, MarketDataAssumption DEF Form, entryPrice
  <2> QED  BY <2>1, <2>2, <2>3
<1>2. ASSUME NEW p \in positions PROVE PnLAgrees(p)
  <2> DEFINE current == markets.price[p.market]
  <2>1. p.size \in Int /\ p.entry \in Int /\ p.margin \in Nat /\ current \in Int
    BY <1>1 DEF Position
  <2>2. calcPnL(p.size, p.entry, current) = p.size * (current - p.entry)
    BY <2>1, PnLIsSizeTimesMove
  <2>3. calcPnL(p.size, p.entry, current) \in Int
    BY <2>1, <2>2
  <2>4. p.margin # 0 =>
          LET pnl == calcPnL(p.size, p.entry, current) IN
          /\ calcPnLPercent(pnl, p.margin) * p.margin <= 100 * pnl
          /\ 100 * pnl < (calcPnLPercent(pnl, p.margin) + 1) * p.margin
    BY <2>1, <2>3, PercentRoundsDown
  <2> QED  BY <2>2, <2>4 DEF PnLAgrees, updatedPosition
<1>3. LiquidationAgrees
  <2>1. form.leverage \in Nat \ {0} /\ form.orderSide \in {"long", "short"}
    BY <1>1, OrdersAssumption DEF Form
  <2>2. formFigures.liquidation = calcLiquidationPrice(entryPrice, form.leverage, form.orderSide)
    BY DEF formFigures, liqPrice
  <2> QED  BY <1>1, <2>1, <2>2, LiquidationLeavesMaintenance DEF LiquidationAgrees
<1>4. EstimatesAgree
  <2>1. calcMarginRequired(1, selectedPrice, Imr) = selectedPrice * Imr
    BY <1>1, PriceMathAssumption DEF calcMarginRequired, AbsSize
  <2> QED  BY <2>1 DEF EstimatesAgree, formFigures, estimates, calcLiquidationPrice
<1> QED  BY <1>2, <1>3, <1>4 DEF FiguresAgree

LEMMA DivMonotone ==
  ASSUME NEW x \in Int, NEW y \in Int, NEW m \in Nat \ {0}, x <= y
  PROVE  x \div m <= y \div m
<1> DEFINE p == x \div m
           q == y \div m
<1>1. p \in Int /\ q \in Int /\ p * m <= x /\ y < (q + 1) * m
  OBVIOUS
<1> HIDE DEF p, q
<1>2. p * m < (q + 1) * m
  <2>1. p * m \in Int /\ (q + 1) * m \in Int
    BY <1>1
  <2> QED  BY <1>1, <2>1
<1>3. p < q + 1
  BY <1>1, <1>2
<1> QED  BY <1>1, <1>3 DEF p, q

(* More equity, no lower ratio.                                            *)
LEMMA RatioMonotone ==
  ASSUME NEW x \in Nat, NEW y \in Nat, NEW m \in Nat \ {0}, x <= y
  PROVE  (100 * x) \div m <= (100 * y) \div m
<1>1. 100 * x \in Int /\ 100 * y \in Int /\ 100 * x <= 100 * y
  OBVIOUS
<1> QED  BY <1>1, DivMonotone

(* While the portfolio page stays mounted, a step that changes its state   *)
(* leaves the wallet and its balance alone.                                *)
LEMMA OnlyPortfolioMoves ==
  ASSUME FrontendInv, [Next]_vars, activeView = "portfolio", activeView' = activeView,
         portfolio' # portfolio
  PROVE  UNCHANGED <<address, balance>>
<1>1. view = "app"
  BY DEF FrontendInv, FrontendTypeOK, AppTypeOK
<1>2. CASE HandleEnter \/ EnterResolves \/ EnterRejects
  BY <1>1, <1>2
  DEF HandleEnter, EnterResolves, EnterRejects, OnEnterApp, appVars, pageVars, portfolioVars
<1>3. CASE \/ \E v \in Views : SelectView(v)
           \/ BackToLanding
  BY <1>3 DEF SelectView, Remounts, BackToLanding, SetView, Mount
<1>4. CASE \/ ToggleSidebar
           \/ \E a \in Addresses \cup {NoAddress} : ChangeAddress(a)
           \/ TradingPage \/ LeftPage
           \/ \E t \in ActiveTabs : SetActiveTab(t)
           \/ \E t \in Sections : SetActiveSection(t)
  BY <1>4 DEF ToggleSidebar, ChangeAddress, TradingPage, LeftPage, SetActiveTab, SetActiveSection,
              SetTabShown, pageVars, portfolioVars
<1>5. CASE PortfolioPage
  BY <1>5 DEF PortfolioPage, PortfolioNext, UserTransfers, envVars
<1>6. CASE UNCHANGED vars
  BY <1>6 DEF vars, appVars, pageVars, portfolioVars
<1> QED  BY <1>2, <1>3, <1>4, <1>5, <1>6 DEF Next

LEMMA FiguresFollowStep ==
  ASSUME FrontendInv, FrontendInv', [Next]_vars, activeView = "portfolio", activeView' = activeView,
         portfolio'.depositedTotal - portfolio.depositedTotal # 0
  PROVE  LET moved == portfolio'.depositedTotal - portfolio.depositedTotal IN
         /\ accountSummary'.totalEquity - accountSummary.totalEquity = moved
         /\ accountSummary'.availableMargin - accountSummary.availableMargin = moved
         /\ accountSummary'.walletBalance = accountSummary.walletBalance
         /\ accountSummary'.usedMargin = accountSummary.usedMargin
         /\ IF moved > 0 THEN accountSummary'.healthRatio >= accountSummary.healthRatio
                         ELSE accountSummary'.healthRatio <= accountSummary.healthRatio
<1> DEFINE moved == portfolio'.depositedTotal - portfolio.depositedTotal
           base == IF wallet.connected THEN wallet.accountEquity ELSE summary.totalEquity
           divisor == IF summary.maintenanceMargin > 1 THEN summary.maintenanceMargin ELSE 1
<1>1. /\ portfolio.depositedTotal \in Nat /\ portfolio'.depositedTotal \in Nat
      /\ wallet \in WalletState
  BY DEF FrontendInv, FrontendTypeOK, PortfolioTypeOK, PortfolioState
<1>2. portfolio' # portfolio
  BY <1>1
<1>3. wallet' = wallet
  BY <1>2, OnlyPortfolioMoves DEF wallet, connected
<1>4. base \in Nat /\ divisor \in Nat \ {0} /\ summary.availableBalance \in Nat
  BY <1>1, SummaryTyped DEF WalletState, MarginSummary
<1>5. /\ totalEquity = base + portfolio.depositedTotal
      /\ totalEquity' = base + portfolio'.depositedTotal
  BY <1>3 DEF totalEquity
<1> HIDE DEF base
<1>6. /\ accountSummary.totalEquity = totalEquity /\ accountSummary'.totalEquity = totalEquity'
      /\ accountSummary.availableMargin = summary.availableBalance + portfolio.depositedTotal
      /\ accountSummary'.availableMargin = summary.availableBalance + portfolio'.depositedTotal
      /\ accountSummary'.walletBalance = accountSummary.walletBalance
      /\ accountSummary'.usedMargin = accountSummary.usedMargin
      /\ accountSummary.healthRatio = (100 * totalEquity) \div divisor
      /\ accountSummary'.healthRatio = (100 * totalEquity') \div divisor
  BY <1>3 DEF accountSummary
<1> HIDE DEF divisor
<1>7. totalEquity' - totalEquity = moved /\ totalEquity \in Nat /\ totalEquity' \in Nat
  BY <1>1, <1>4, <1>5
<1>8. (100 * totalEquity) \div divisor \in Int /\ (100 * totalEquity') \div divisor \in Int
  BY <1>4, <1>7
<1>9. CASE moved > 0
  <2>1. totalEquity <= totalEquity'
    BY <1>1, <1>7, <1>9
  <2>2. (100 * totalEquity) \div divisor <= (100 * totalEquity') \div divisor
    BY <1>4, <1>7, <2>1, RatioMonotone
  <2> QED  BY <1>1, <1>4, <1>6, <1>7, <1>8, <1>9, <2>2
<1>10. CASE ~(moved > 0)
  <2>1. totalEquity' <= totalEquity
    BY <1>1, <1>7, <1>10
  <2>2. (100 * totalEquity') \div divisor <= (100 * totalEquity) \div divisor
    BY <1>4, <1>7, <2>1, RatioMonotone
  <2> QED  BY <1>1, <1>4, <1>6, <1>7, <1>8, <1>10, <2>2
<1> QED  BY <1>9, <1>10

(* Failures ***************************************************************)

(* Removing either of two elements gives the same list only if the two are *)
(* alike, as is everything between them.                                   *)
LEMMA RemovedAlike ==
  ASSUME NEW S, NEW s \in Seq(S), NEW i \in DOMAIN s, NEW j \in DOMAIN s, i <= j,
         RemoveAt(s, i) = RemoveAt(s, j)
  PROVE  s[i] = s[j]
<1> DEFINE T == {n \in Nat : i + n <= j => s[i + n] = s[i]}
<1>1. Len(s) \in Nat /\ DOMAIN s = 1..Len(s)
  BY LenProperties
<1>2. 0 \in T
  BY <1>1
<1>3. ASSUME NEW n \in Nat, n \in T
      PROVE  n + 1 \in T
  <2> SUFFICES ASSUME i + (n + 1) <= j PROVE s[i + (n + 1)] = s[i]
    OBVIOUS
  <2> DEFINE k == i + n
  <2>1. k \in i..(Len(s) - 1) /\ k \in 1..(j - 1) /\ i + (n + 1) = k + 1
    BY <1>1
  <2>2. s[k] = s[i]
    BY <1>1, <1>3
  <2> HIDE DEF k
  <2>3. RemoveAt(s, i)[k] = s[k + 1]
    BY <2>1, RemoveAtProperties
  <2>4. RemoveAt(s, j)[k] = s[k]
    BY <2>1, RemoveAtProperties
  <2> QED  BY <2>1, <2>2, <2>3, <2>4
<1> HIDE DEF T
<1>4. j - i \in T /\ i + (j - i) = j
  <2>1. j - i \in Nat /\ i + (j - i) = j
    BY <1>1
  <2> QED  BY <1>2, <1>3, <2>1, NaturalInduction
<1> QED  BY <1>4 DEF T

(* Off the trading page, and on it but for the answers, no submission of a *)
(* page that stays mounted goes.                                           *)
LEMMA SubmissionsStay ==
  ASSUME FrontendInv, [Next]_vars, activeView' = activeView,
         ~(TradingPage /\ Answers)
  PROVE  \A i \in DOMAIN orders.submissions :
           orders'.submissions # RemoveAt(orders.submissions, i)
<1>1. /\ orders \in OrdersState /\ orders.submissions \in Seq(Submission)
      /\ AppTypeOK
  BY DEF FrontendInv, FrontendTypeOK, TradingTypeOK, OrdersState
<1>2. SUFFICES ASSUME orders'.submissions # orders.submissions
               PROVE  Len(orders'.submissions) >= Len(orders.submissions)
  <2> SUFFICES ASSUME NEW i \in DOMAIN orders.submissions,
                      orders'.submissions = RemoveAt(orders.submissions, i)
               PROVE  FALSE
    OBVIOUS
  <2>1. Len(orders'.submissions) = Len(orders.submissions) - 1
    BY <1>1, RemoveAtProperties
  <2>2. Len(orders.submissions) \in Nat
    BY <1>1, LenProperties
  <2> QED  BY <1>2, <2>1, <2>2
<1>3. CASE HandleEnter \/ EnterResolves \/ EnterRejects
  BY <1>1, <1>2, <1>3
  DEF AppTypeOK, HandleEnter, EnterResolves, EnterRejects, OnEnterApp, SetView, Mount,
      appVars, pageVars, tradingVars
<1>4. CASE (\E v \in Views : SelectView(v)) \/ BackToLanding
  BY <1>1, <1>4 DEF AppTypeOK, SelectView, Remounts, BackToLanding, SetView, Mount
<1>5. CASE \/ ToggleSidebar
           \/ \E a \in Addresses \cup {NoAddress} : ChangeAddress(a)
           \/ PortfolioPage \/ LeftPage
           \/ \E t \in ActiveTabs : SetActiveTab(t)
           \/ \E t \in Sections : SetActiveSection(t)
           \/ UNCHANGED vars
  BY <1>2, <1>5 DEF ToggleSidebar, ChangeAddress, PortfolioPage, LeftPage, RunsOn, SetActiveTab, SetActiveSection,
                    SetTabShown, vars, appVars, pageVars, tradingVars
<1>6. CASE TradingPage
  <2> DEFINE s == orders.submissions
  <2>1. CASE UserTrades
    <3>1. CASE HandleSubmit
      <4>1. CASE AskToConnect \/ SubmitDemo(request)
        <5>1. orders'.submissions = s
          BY <1>1, <4>1 DEF AskToConnect, SubmitDemo, OrdersState
        <5> QED  BY <1>2, <5>1
      <4>2. CASE SubmitReal(request)
        <5> DEFINE new == [order |-> newOrder(request), stage |-> "signer", executed |-> {}]
        <5>1. orders'.submissions = Append(s, new)
          BY <1>1, <4>2 DEF SubmitReal, OrdersState
        <5> HIDE DEF new
        <5>2. Len(Append(s, new)) = Len(s) + 1 /\ Len(s) \in Nat
          BY <1>1, AppendProperties, LenProperties
        <5> QED  BY <5>1, <5>2
      <4> QED  BY <3>1, <4>1, <4>2 DEF HandleSubmit
    <3>2. CASE \E i \in DOMAIN orders.open : ClickCancel(i)
      BY <1>1, <1>2, <3>2 DEF ClickCancel, cancelOrder, OrdersState
    <3>3. CASE orders' = orders
      BY <1>2, <3>3
    <3> QED
      BY <2>1, <3>1, <3>2, <3>3
      DEF UserTrades, SelectMarket, SetChartView, SetExecMode, SetOrderSide, SetOrderType,
          SetPrice, SetSize, SetLeverage, setForm, ClickClose
  <2>2. CASE Ticks
    BY <1>2, <2>2 DEF Ticks
  <2>3. CASE Network
    <3>1. PICK i \in DOMAIN s : \E e \in Submission : orders'.submissions = [s EXCEPT ![i] = e]
      <4>1. PICK i \in DOMAIN s :
              SignerResolves(i) \/ SignerRejects(i) \/ Executed(i) \/ EvmRejects(i)
        BY <2>3 DEF Network
      <4>2. s[i] \in Submission
        BY <1>1, ElementOfSeq, LenProperties
      <4>3. ASSUME NEW stage \in {"signer", "evm", "cosmos"}, ToStage(i, stage)
            PROVE  \E e \in Submission : orders'.submissions = [s EXCEPT ![i] = e]
        <5>1. [s[i] EXCEPT !.stage = stage] \in Submission
          BY <4>2 DEF Submission
        <5>2. orders'.submissions = [s EXCEPT ![i] = [s[i] EXCEPT !.stage = stage]]
          BY <1>1, <4>3 DEF ToStage, OrdersState
        <5> QED  BY <5>1, <5>2
      <4>4. ASSUME Executed(i)
            PROVE  \E e \in Submission : orders'.submissions = [s EXCEPT ![i] = e]
        <5>1. [s[i] EXCEPT !.executed = s[i].executed \cup {s[i].stage}] \in Submission
          BY <4>2, <4>4 DEF Submission, Executed
        <5>2. orders'.submissions
                = [s EXCEPT ![i] = [s[i] EXCEPT !.executed = s[i].executed \cup {s[i].stage}]]
          BY <1>1, <4>4 DEF Executed, OrdersState
        <5> QED  BY <5>1, <5>2
      <4> QED  BY <4>1, <4>3, <4>4 DEF SignerResolves, SignerRejects, EvmRejects
    <3>2. PICK e \in Submission : orders'.submissions = [s EXCEPT ![i] = e]
      BY <3>1
    <3>3. Len([s EXCEPT ![i] = e]) = Len(s) /\ Len(s) \in Nat
      BY <1>1, ExceptSeq, LenProperties
    <3> QED  BY <3>2, <3>3
  <2>4. CASE \E i \in DOMAIN timers : TradingTimer(i)
    BY <1>1, <1>2, <2>4
    DEF TradingTimer, DemoSubmitted, OrderCancelled, PositionClosed, OrdersState
  <2>5. ~Answers
    BY <1>6
  <2> QED  BY <1>6, <2>1, <2>2, <2>3, <2>4, <2>5 DEF TradingPage, TradingNext
<1> QED  BY <1>3, <1>4, <1>5, <1>6 DEF Next

(* An answer that takes a submission of which nothing was executed is the  *)
(* fallback's rejection.                                                   *)
LEMMA AnswersTell ==
  ASSUME FrontendInv, Answers, NEW i \in DOMAIN orders.submissions,
         orders'.submissions = RemoveAt(orders.submissions, i),
         orders.submissions[i].executed = {}
  PROVE  orders'.lastError # "none"
<1> DEFINE s == orders.submissions
<1>1. orders \in OrdersState /\ s \in Seq(Submission)
  BY DEF FrontendInv, FrontendTypeOK, TradingTypeOK, OrdersState
<1>2. Len(s) \in Nat /\ DOMAIN s = 1..Len(s) /\ Len(RemoveAt(s, i)) = Len(s) - 1
  BY <1>1, LenProperties, RemoveAtProperties
<1>3. CASE ConnectResolves \/ ConnectRejects
  <2>1. orders'.submissions = s
    BY <1>1, <1>3 DEF ConnectResolves, ConnectRejects, OrdersState
  <2> QED  BY <1>2, <2>1
<1>4. ASSUME NEW j \in DOMAIN s, orders'.submissions = RemoveAt(s, j)
      PROVE  s[j].executed = {}
  <2>1. i \in Int /\ j \in Int /\ RemoveAt(s, i) = RemoveAt(s, j)
    BY <1>2, <1>4
  <2>2. s[i] = s[j]
    <3>1. CASE i <= j
      BY <1>1, <1>4, <2>1, <3>1, RemovedAlike
    <3>2. CASE j <= i
      BY <1>1, <1>4, <2>1, <3>2, RemovedAlike
    <3> QED  BY <2>1, <3>1, <3>2
  <2> QED  BY <2>2
<1>5. ASSUME NEW j \in DOMAIN s, EvmResolves(j) \/ CosmosResolves(j)
      PROVE  FALSE
  <2>1. orders'.submissions = RemoveAt(s, j) /\ s[j].executed # {}
    BY <1>1, <1>5 DEF EvmResolves, CosmosResolves, OrdersState
  <2> QED  BY <1>4, <2>1
<1>6. ASSUME NEW j \in DOMAIN s, CosmosRejects(j)
      PROVE  orders'.lastError = "failed"
  BY <1>1, <1>6 DEF CosmosRejects, OrdersState
<1> QED  BY <1>3, <1>5, <1>6 DEF Answers

(* Theorems ***************************************************************)

(* The forms are never dead, a page waits for its own timers only, a       *)
(* pending transfer is alone and covered, and a page that is left is as it *)
(* starts: whatever the order of clicks, timers, answers of wallets and of *)
(* the network, and changes of page and address.                           *)
THEOREM Invariance == Spec => []FrontendInv
<1>1. FrontendInv /\ [Next]_vars => FrontendInv'
  BY FrontendStep, FrontendStutter
<1> QED  BY <1>1, FrontendInit, PTL DEF Spec

(* Every state variable of every page keeps its type: no transfer takes    *)
(* more than was deposited, and every row of the order list has a price.   *)
THEOREM TypesCorrect == Spec => []FrontendTypeOK
<1>1. FrontendInv => FrontendTypeOK
  BY DEF FrontendInv
<1> QED  BY <1>1, Invariance, PTL

(* The flags that disable the buttons of the order and transfer forms are  *)
(* only ever set while something is pending that clears them.              *)
THEOREM FormsStayAlive == Spec => []NoDeadForm
<1>1. FrontendInv => NoDeadForm
  BY DEF FrontendInv
<1> QED  BY <1>1, Invariance, PTL

(* Every PnL shown is the size times the price move, for either sign; at   *)
(* the liquidation price shown, for any leverage, side and entry price,    *)
(* what is left of the margin is the maintenance margin; the copies of the *)
(* formulas agree.                                                         *)
THEOREM FiguresCorrect == Spec => []FiguresAgree
<1>1. FrontendInv => FiguresAgree
  BY FiguresAgreeWhenTyped DEF FrontendInv, FrontendTypeOK
<1> QED  BY <1>1, Invariance, PTL

(* A transfer that ends moves the total equity and the available margin by *)
(* its amount and nothing else of the summary but the health ratio, which  *)
(* follows: whatever the wallet's balance did while it was processed.      *)
THEOREM FiguresFollow == Spec => FiguresFollowTransfers
<1> DEFINE A ==
      LET moved == portfolio'.depositedTotal - portfolio.depositedTotal IN
      activeView = "portfolio" /\ activeView' = activeView /\ moved # 0
        => /\ accountSummary'.totalEquity - accountSummary.totalEquity = moved
           /\ accountSummary'.availableMargin - accountSummary.availableMargin = moved
           /\ accountSummary'.walletBalance = accountSummary.walletBalance
           /\ accountSummary'.usedMargin = accountSummary.usedMargin
           /\ IF moved > 0 THEN accountSummary'.healthRatio >= accountSummary.healthRatio
                           ELSE accountSummary'.healthRatio <= accountSummary.healthRatio
<1>1. FrontendInv /\ FrontendInv' /\ [Next]_vars => [A]_vars
  BY FiguresFollowStep
<1> QED  BY <1>1, Invariance, PTL DEF Spec, FiguresFollowTransfers

(* A submission none of whose transactions was executed never goes without *)
(* a message while its page is there: the error of the EVM path is         *)
(* swallowed, that of the fallback is not, and no other step takes it.     *)
THEOREM FailuresAreTold == Spec => NoSilentFailure
<1> DEFINE A == \A i \in DOMAIN orders.submissions :
                  /\ orders'.submissions = RemoveAt(orders.submissions, i)
                  /\ orders.submissions[i].executed = {}
                  /\ activeView' = activeView
                  => orders'.lastError # "none"
<1>1. FrontendInv /\ [Next]_vars => [A]_vars
  BY SubmissionsStay, AnswersTell
<1> QED  BY <1>1, Invariance, PTL DEF Spec, NoSilentFailure

(* The transfer form, which checks before its await and subtracts after    *)
(* it, implements an account that serves one covered request at a time.    *)
THEOREM TransfersRefine == Spec => TransfersAreAtomic
<1>1. FrontendInv /\ [Next]_vars => AccountStep
  BY FrontendStep, FrontendStutter
<1>2. Init => DA!Init
  BY FrontendInit
<1> QED  BY <1>1, <1>2, Invariance, PTL DEF Spec, TransfersAreAtomic, DA!Spec, AccountStep

=============================================================================
