------------------------------- MODULE Orders ------------------------------
(***************************************************************************)
(* frontend/src/hooks/index.ts: useOrders.  A submission awaits three      *)
(* things in turn: a wallet, when none is connected; in a demo build a     *)
(* timer; in a real build an EVM signer, the EVM transaction and, when     *)
(* either throws, the same trade again as a Cosmos message.  Whatever is used after an await  *)
(* was captured before it: the request and the market's price, here the    *)
(* row they make, and the index of a cancelled row.                        *)
(*                                                                         *)
(* The network is the environment's: a transaction may be executed and     *)
(* its receipt be lost, so a rejected promise says nothing of the trade.   *)
(* A promise that resolves says that it was executed.  "executed" holds,   *)
(* for each submission, which of its transactions were.                    *)
(***************************************************************************)
EXTENDS Positions, Wallet

CONSTANTS OrderTypes,           \* "market" and the others
          Sides,                \* "long", "short"
          MockOpenOrders,       \* the orders a terminal starts with
          NaN,                  \* parseFloat("")
          Undefined,            \* a property that is not there
          MaxOrders             \* bound: rows in the list

VARIABLES orders,               \* [open, loading, lastError, connects, submissions]
          left                  \* the submissions whose page was left

(* A row of the list, a trade the page has sent, and what the hook keeps. *)
Order ==
  [market : Symbols, type : OrderTypes, side : Sides, size : Nat \ {0},
   price : Nat \cup {NaN}, filled : {0, 100}, status : {"Open", "Filled"}]

Submission ==
  [order : Order, stage : {"signer", "evm", "cosmos"}, executed : SUBSET {"evm", "cosmos"}]

(* A market order has no price. *)
OrderRequest ==
  [market : Symbols, type : OrderTypes, side : Sides, size : Int,
   price : Nat \cup {NaN, Undefined}]

OrdersState ==
  [open : Seq(Order), loading : BOOLEAN, lastError : {"none", "connect", "failed"},
   connects : Nat, submissions : Seq(Submission)]

ASSUME OrdersAssumption ==
  /\ "limit" \in OrderTypes /\ Sides \subseteq {"long", "short"} /\ "long" \in Sides
  /\ NaN \notin Int /\ Undefined \notin Int \cup {NaN}
  /\ MockOpenOrders \in Seq(Order)

OrdersStart ==
  [open |-> MockOpenOrders, loading |-> FALSE, lastError |-> "none",
   connects |-> 0, submissions |-> <<>>]

(* What the page shows beside the form, for whatever size and leverage are  *)
(* entered: the figures of one unit at ten times leverage.                 *)
estimates ==
  [margin |-> selectedPrice * Imr, fee |-> selectedPrice * TakerFee,
   liquidation |-> selectedPrice * (Unit - Unit \div 10 + Mmr)]

(* req.price ?? selectedMarket.price: a market order carries no price, and *)
(* NaN is one.                                                             *)
OrderPrice(req) == IF req.price = Undefined THEN selectedPrice ELSE req.price

(* Mutated form: the fallback is forgotten. *)
newOrderUnpriced(req) ==
  [market |-> req.market, type |-> req.type, side |-> req.side, size |-> req.size,
   price |-> req.price,
   filled |-> IF req.type = "market" THEN 100 ELSE 0,
   status |-> IF req.type = "market" THEN "Filled" ELSE "Open"]

newOrder(req) ==
  [market |-> req.market, type |-> req.type, side |-> req.side, size |-> req.size,
   price |-> OrderPrice(req),
   filled |-> IF req.type = "market" THEN 100 ELSE 0,
   status |-> IF req.type = "market" THEN "Filled" ELSE "Open"]

(* setOpenOrders((prev) => [newOrder, ...prev]) *)
Listed(order) == <<order>> \o orders.open

(* The bound on the list: whatever is pending may add a row. *)
RoomToList == Len(orders.open) + Len(timers) + Len(orders.submissions) < MaxOrders

(* The bound on what the page awaits. *)
RoomToAwait ==
  Len(timers) + orders.connects + Len(orders.submissions) + Len(left) < MaxPending

(* submitOrder with no wallet: the order is dropped once the wallet answers. *)
AskToConnect ==
  /\ ~connected
  /\ orders' = [orders EXCEPT !.lastError = "none", !.connects = @ + 1]

ConnectResolves ==
  /\ orders.connects > 0
  /\ orders' = [orders EXCEPT !.connects = @ - 1]

ConnectRejects ==
  /\ orders.connects > 0
  /\ orders' = [orders EXCEPT !.connects = @ - 1, !.lastError = "connect"]

SubmitDemo(req) ==
  /\ connected /\ demoMode /\ RoomToList
  /\ SetTimeout("submit", 1200, newOrder(req))
  /\ orders' = [orders EXCEPT !.lastError = "none", !.loading = TRUE]

DemoSubmitted(i) ==
  /\ Fires(i, "submit")
  /\ orders' = [orders EXCEPT !.open = Listed(timers[i].arg), !.loading = FALSE]

SubmitReal(req) ==
  /\ connected /\ ~demoMode /\ RoomToList
  /\ orders' = [orders EXCEPT
       !.lastError = "none", !.loading = TRUE,
       !.submissions = Append(@, [order |-> newOrder(req), stage |-> "signer", executed |-> {}])]

ToStage(i, stage) == orders' = [orders EXCEPT !.submissions[i].stage = stage]

(* getEvmSigner: the user lets the page use an EVM account.  What follows   *)
(* it runs at once: ethers.parseEther("NaN") throws.                       *)
SignerResolves(i) ==
  /\ orders.submissions[i].stage = "signer"
  /\ ToStage(i, IF orders.submissions[i].order.price = NaN THEN "cosmos" ELSE "evm")

(* There is no EVM wallet, or its user refuses. *)
SignerRejects(i) ==
  /\ orders.submissions[i].stage = "signer"
  /\ ToStage(i, "cosmos")

(* The network executes the transaction of the stage; the frontend sees    *)
(* nothing yet.                                                            *)
Executed(i) ==
  LET s == orders.submissions[i] IN
  /\ s.stage \in {"evm", "cosmos"} \ s.executed
  /\ orders' = [orders EXCEPT !.submissions[i].executed = @ \cup {s.stage}]

(* openPosition returns: only orders that rest are listed. *)
EvmResolves(i) ==
  LET s == orders.submissions[i] IN
  /\ s.stage = "evm" /\ "evm" \in s.executed
  /\ orders' = [orders EXCEPT
       !.open = IF s.order.type # "market" THEN Listed(s.order) ELSE @,
       !.submissions = RemoveAt(@, i), !.loading = FALSE]

(* openPosition throws, the receipt of an executed transaction being lost  *)
(* included: the trade is sent again.                                      *)
EvmRejects(i) ==
  /\ orders.submissions[i].stage = "evm"
  /\ ToStage(i, "cosmos")

CosmosResolves(i) ==
  /\ "cosmos" \in orders.submissions[i].executed
  /\ orders' = [orders EXCEPT !.submissions = RemoveAt(@, i), !.loading = FALSE]

(* Mutated form: the second catch is empty, as the first one is. *)
CosmosRejectsSilently(i) ==
  /\ orders.submissions[i].stage = "cosmos"
  /\ orders' = [orders EXCEPT !.submissions = RemoveAt(@, i), !.loading = FALSE]

CosmosRejects(i) ==
  /\ orders.submissions[i].stage = "cosmos"
  /\ orders' = [orders EXCEPT !.submissions = RemoveAt(@, i), !.loading = FALSE,
                              !.lastError = "failed"]

(* submitOrder goes on without its page: it asks for the signer, sends the *)
(* EVM transaction and the Cosmos message as ever, and only what it writes *)
(* to the page's state has no effect.  Of such a submission it matters     *)
(* which of these it has still to send.                                    *)
Left(submission) == [priced |-> submission.order.price # NaN, stage |-> submission.stage]

LeftSubmission == [priced : BOOLEAN, stage : {"signer", "evm", "cosmos"}]

(* The EVM path is taken, or given up for the fallback. *)
GoesOn(i) ==
  \/ /\ left[i].stage = "signer" /\ left[i].priced
     /\ left' = [left EXCEPT ![i].stage = "evm"]
  \/ /\ left[i].stage \in {"signer", "evm"}
     /\ left' = [left EXCEPT ![i].stage = "cosmos"]

(* The EVM transaction or the message is answered. *)
Ends(i) ==
  /\ left[i].stage # "signer"
  /\ left' = RemoveAt(left, i)

(* Mutated form: what is written reaches the page mounted by then. *)
RunsOnMounted(i) ==
  \/ GoesOn(i) /\ UNCHANGED orders
  \/ Ends(i) /\ orders' = [orders EXCEPT !.loading = FALSE, !.lastError = "failed"]

RunsOn(i) ==
  /\ GoesOn(i) \/ Ends(i)
  /\ UNCHANGED orders

(* cancelOrder(_market, index): the market is not looked at. *)
cancelOrder(market, index) ==
  /\ SetTimeout("cancel", 400, index)
  /\ orders' = [orders EXCEPT !.loading = TRUE]

(* Mutated form: the spinner is not stopped. *)
OrderCancelledLoading(i) ==
  /\ Fires(i, "cancel")
  /\ orders' = [orders EXCEPT !.open = RemoveAt(@, timers[i].arg)]

(* prev.filter((_, i) => i !== index): nothing, when the list has got shorter. *)
OrderCancelled(i) ==
  /\ Fires(i, "cancel")
  /\ orders' = [orders EXCEPT
       !.open = IF timers[i].arg <= Len(@) THEN RemoveAt(@, timers[i].arg) ELSE @,
       !.loading = FALSE]
=============================================================================
