------------------------------- MODULE Matcher -----------------------------
(***************************************************************************)
(* backend/matcher: MatchingEngine.match.  A book has two sides, each an   *)
(* array in order of arrival.  An incoming order is filled against the     *)
(* front of the other side while that crosses, and what is left of it goes *)
(* to the back of its own side.  The front is called bestAsk or bestBid in *)
(* the code; nothing keeps the sides sorted.                               *)
(***************************************************************************)
EXTENDS Integers, Sequences

CONSTANTS Markets,
          NoOrder       \* match is not running

VARIABLES book,         \* market -> side -> the resting orders
          incoming,     \* the order being matched, or NoOrder
          trades        \* the trades made so far

matcherVars == <<book, incoming, trades>>

Sides == {"buy", "sell"}
Opposite(side) == IF side = "buy" THEN "sell" ELSE "buy"

MatcherInit ==
  /\ book = [m \in Markets |-> [s \in Sides |-> <<>>]]
  /\ incoming = NoOrder
  /\ trades = <<>>

Crosses(order, resting) ==
  IF order.side = "buy" THEN resting.price <= order.price ELSE resting.price >= order.price

OtherSide(order) == book[order.market][Opposite(order.side)]

CanFill ==
  /\ incoming # NoOrder
  /\ incoming.size > 0
  /\ OtherSide(incoming) # <<>>
  /\ Crosses(incoming, Head(OtherSide(incoming)))

(* Mutated form: the resting order that is used up stays, with size zero. *)
TakeFromFrontKept(queue, size) == [queue EXCEPT ![1].size = @ - size]

(* The queue after its front order gives up size. *)
TakeFromFront(queue, size) ==
  IF Head(queue).size = size THEN Tail(queue) ELSE [queue EXCEPT ![1].size = @ - size]

StartMatch(order) ==
  /\ incoming = NoOrder
  /\ incoming' = order
  /\ UNCHANGED <<book, trades>>

Fill ==
  LET front == Head(OtherSide(incoming))
      size  == IF incoming.size < front.size THEN incoming.size ELSE front.size
  IN  /\ CanFill
      /\ trades' = Append(trades,
           [buyer  |-> IF incoming.side = "buy" THEN incoming.trader ELSE front.trader,
            seller |-> IF incoming.side = "buy" THEN front.trader ELSE incoming.trader,
            price  |-> front.price,
            size   |-> size])
      /\ incoming' = [incoming EXCEPT !.size = @ - size]
      /\ book' = [book EXCEPT ![incoming.market][Opposite(incoming.side)] =
                    TakeFromFront(@, size)]

(* Mutated form: what is left goes to the front. *)
RestInFront ==
  /\ incoming # NoOrder /\ ~CanFill
  /\ book' = IF incoming.size > 0
             THEN [book EXCEPT ![incoming.market][incoming.side] = <<incoming>> \o @]
             ELSE book
  /\ incoming' = NoOrder
  /\ UNCHANGED trades

Rest ==
  /\ incoming # NoOrder /\ ~CanFill
  /\ book' = IF incoming.size > 0
             THEN [book EXCEPT ![incoming.market][incoming.side] = Append(@, incoming)]
             ELSE book
  /\ incoming' = NoOrder
  /\ UNCHANGED trades
=============================================================================
