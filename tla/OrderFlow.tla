------------------------------ MODULE OrderFlow ----------------------------
(***************************************************************************)
(* The off-chain path of an order: a trader's goroutine hands it to the    *)
(* sequencer, a block carries it to the matcher, and processBlock matches  *)
(* the orders of the blocks one after the other.  How blocks travel is not *)
(* under src/: they arrive once and in order here.                         *)
(***************************************************************************)
EXTENDS Sequencer, Matcher, SequencesExt

CONSTANTS Prices, Sizes     \* of the orders; an order of size zero is never rested

(* An order in the matcher's hands, whatever is left of it. *)
Taken == [trader : Traders, market : Markets, side : Sides, price : Prices, size : Nat]

ASSUME OrderFlowAssumption ==
  /\ Prices \subseteq Nat /\ Sizes \subseteq Nat
  /\ NoOrder \notin Taken

VARIABLE done       \* how many of the delivered orders the matcher has taken

vars == <<sequencerVars, matcherVars, done>>

Order == [trader : Traders, market : Markets, side : Sides, price : Prices, size : Sizes]

Resting == [trader : Traders, market : Markets, side : Sides, price : Prices, size : Nat \ {0}]

TypeOK ==
  /\ orders \in [Traders -> Order]
  /\ mu \in Goroutines \cup {NoOne}
  /\ mempool \in Seq(Order)
  /\ pc \in [Goroutines -> {"outside", "read", "write", "returned"}]
  /\ slice \in [Goroutines -> Seq(Order)]
  /\ delivered \in Seq(Order)
  /\ book \in [Markets -> [Sides -> Seq(Resting)]]
  /\ incoming \in Taken \cup {NoOrder}
  /\ trades \in Seq([buyer : Traders, seller : Traders, price : Prices, size : Nat])
  /\ done \in 0 .. Len(delivered)

Init ==
  /\ orders \in {f \in [Traders -> Order] : \A t \in Traders : f[t].trader = t}
  /\ SequencerInit
  /\ MatcherInit
  /\ done = 0

(* processBlock's loop takes the next order. *)
ProcessNext ==
  /\ done < Len(delivered)
  /\ StartMatch(delivered[done + 1])
  /\ done' = done + 1
  /\ UNCHANGED sequencerVars

Match == (Fill \/ Rest) /\ UNCHANGED <<sequencerVars, done>>

Sequence ==
  /\ (\E t \in Traders : SubmitOrder(t)) \/ BuildBlock
  /\ UNCHANGED <<matcherVars, done>>

Next == Sequence \/ ProcessNext \/ Match

Spec == Init /\ [][Next]_vars

(* Go's mutex does not starve a waiting goroutine; the matcher's loops run *)
(* to their end; and blocks are built again and again.                     *)
FairSpec ==
  /\ Spec
  /\ \A t \in Traders : SF_vars(SubmitOrder(t) /\ UNCHANGED <<matcherVars, done>>)
  /\ SF_vars(BuildBlock /\ UNCHANGED <<matcherVars, done>>)
  /\ WF_vars(ProcessNext \/ Match)

(* Properties *************************************************************)

SizeIn(queue, t) ==
  SumFunction([i \in DOMAIN queue |-> IF queue[i].trader = t THEN queue[i].size ELSE 0])

Filled(t) ==
  SumFunction([i \in DOMAIN trades |->
                 IF t \in {trades[i].buyer, trades[i].seller} THEN trades[i].size ELSE 0])

OnBook(t) == SizeIn(book[orders[t].market]["buy"], t) + SizeIn(book[orders[t].market]["sell"], t)

InFlight(t) == IF incoming # NoOrder /\ incoming.trader = t THEN incoming.size ELSE 0

(* However submitters and the block builder interleave, the size a trader  *)
(* has submitted is at every moment accounted for exactly once: in the     *)
(* mempool, in a block, in the matcher's hands, on the book or in trades.  *)
QuantityConserved ==
  \A t \in Traders :
    SizeIn(mempool, t) + SizeIn(SubSeq(delivered, done + 1, Len(delivered)), t)
      + InFlight(t) + OnBook(t) + Filled(t)
      = IF pc[t] = "returned" THEN orders[t].size ELSE 0

Arrival(t) == CHOOSE i \in DOMAIN delivered : delivered[i].trader = t

Maker(trade) == IF incoming.trader = trade.buyer THEN trade.seller ELSE trade.buyer

(* Time priority: of the orders that rest at one price on a side of a      *)
(* market, none is filled before one that reached the matcher earlier, in  *)
(* whatever order the blocks hand them over.                               *)
FilledInArrivalOrder ==
  [][trades' # trades =>
       LET trade == Last(trades')
       IN  \A i \in DOMAIN OtherSide(incoming) :
             LET resting == OtherSide(incoming)[i]
             IN  resting.price = trade.price
                   => Arrival(Maker(trade)) <= Arrival(resting.trader)]_vars

(* The inductive invariant behind the three above.  The mutex: who works   *)
(* on the mempool holds it, and what was read is still there.              *)
MutexInv ==
  \A g \in Goroutines :
    /\ pc[g] \in {"read", "write"} <=> mu = g
    /\ pc[g] = "write" => slice[g] = mempool

(* All orders submitted so far, as they came in: each is in there once.    *)
Submitted == delivered \o mempool

SubmittedInv ==
  /\ \A t \in Traders : orders[t].trader = t
  /\ \A t \in Traders :
       pc[t] = "returned" <=> \E i \in DOMAIN Submitted : Submitted[i].trader = t
  /\ \A i \in DOMAIN Submitted : Submitted[i] = orders[Submitted[i].trader]
  /\ \A i, j \in DOMAIN Submitted : Submitted[i].trader = Submitted[j].trader => i = j

(* Each side of a book holds orders the matcher has been through, in the   *)
(* order they arrived.                                                     *)
BookInv ==
  \A m \in Markets, s \in Sides :
    LET queue == book[m][s] IN
    /\ \A i \in DOMAIN queue : \E k \in 1 .. done :
         /\ delivered[k].trader = queue[i].trader
         /\ delivered[k].market = m /\ delivered[k].side = s
         /\ incoming # NoOrder => k < done
    /\ \A i, j \in DOMAIN queue : i < j => Arrival(queue[i].trader) < Arrival(queue[j].trader)

(* What the matcher has in hand is the order it took last, and of every    *)
(* order it took, all that is neither in hand nor on the book is in trades. *)
MatchInv ==
  /\ incoming # NoOrder =>
       done > 0 /\ incoming = [delivered[done] EXCEPT !.size = incoming.size]
  /\ \A t \in Traders :
       InFlight(t) + OnBook(t) + Filled(t)
         = IF \E i \in 1 .. done : delivered[i].trader = t THEN orders[t].size ELSE 0

FlowInv == TypeOK /\ MutexInv /\ SubmittedInv /\ BookInv /\ MatchInv

(* A submitted order is matched or rests in the end, the mutex and the     *)
(* queue in front of the matcher notwithstanding.                          *)
EveryOrderProcessed ==
  \A t \in Traders : <>(\E i \in 1 .. done : delivered[i].trader = t)

(* What the code calls it *************************************************)

(* engine.ts: "const bestAsk = book.asks[0]", and bestBid likewise: a      *)
(* trade is made at the best price resting on the other side.              *)
MatchesAtBestPrice ==
  [][trades' # trades =>
       \A i \in DOMAIN OtherSide(incoming) :
         LET price == OtherSide(incoming)[i].price
         IN  IF incoming.side = "buy" THEN Last(trades').price <= price
                                      ELSE Last(trades').price >= price]_vars
=============================================================================
