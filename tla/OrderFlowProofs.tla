-------------------------- MODULE OrderFlowProofs --------------------------
(***************************************************************************)
(* Proofs about the path of an order, for any number of traders, markets,  *)
(* prices and sizes: the mutex keeps every order in the sequencer once,    *)
(* the matcher accounts for all of its size, and fills in arrival order.   *)
(***************************************************************************)
EXTENDS OrderFlow, SumTheorems

(***************************************************************************)
(* What a queue holds of a trader.                                         *)
(***************************************************************************)
Part(queue, t) == [i \in DOMAIN queue |-> IF queue[i].trader = t THEN queue[i].size ELSE 0]

LEMMA PartOf ==
  ASSUME NEW q \in Seq(Taken), NEW t
  PROVE  /\ DOMAIN Part(q, t) = 1 .. Len(q)
         /\ IsFiniteSet(1 .. Len(q)) /\ Len(q) \in Nat
         /\ \A i \in 1 .. Len(q) : Part(q, t)[i] \in Nat
         /\ \A i \in 1 .. Len(q) :
              Part(q, t)[i] = IF q[i].trader = t THEN q[i].size ELSE 0
         /\ SizeIn(q, t) = SumFunctionOnSet(Part(q, t), 1 .. Len(q))
<1>1. Len(q) \in Nat /\ DOMAIN q = 1 .. Len(q)
  OBVIOUS
<1>2. IsFiniteSet(1 .. Len(q))
  BY <1>1, FS_Interval
<1>3. \A i \in 1 .. Len(q) : q[i].size \in Nat
  <2>1. \A i \in 1 .. Len(q) : q[i] \in Taken
    OBVIOUS
  <2> QED BY <2>1 DEF Taken
<1> QED BY <1>1, <1>2, <1>3 DEF Part, SizeIn, SumFunction

LEMMA SizeInNat ==
  ASSUME NEW q \in Seq(Taken), NEW t
  PROVE  SizeIn(q, t) \in Nat
BY PartOf, SumNat

(* An order at the back. *)
LEMMA SizeInAppend ==
  ASSUME NEW q \in Seq(Taken), NEW e \in Taken, NEW t
  PROVE  SizeIn(Append(q, e), t) = SizeIn(q, t) + (IF e.trader = t THEN e.size ELSE 0)
<1> DEFINE p == Append(q, e)
           n == Len(q)
<1>1. p \in Seq(Taken) /\ Len(p) = n + 1 /\ n \in Nat
  OBVIOUS
<1>2. p[n + 1] = e /\ \A i \in 1 .. n : p[i] = q[i]
  OBVIOUS
<1> HIDE DEF p, n
<1>3. \A i \in 1 .. n + 1 : Part(p, t)[i] \in Int
  BY <1>1, PartOf
<1>4. SumFunctionOnSet(Part(p, t), 1 .. n + 1)
        = Part(p, t)[n + 1] + SumFunctionOnSet(Part(p, t), 1 .. n)
      /\ SumFunctionOnSet(Part(p, t), 1 .. n) \in Int
  BY <1>1, <1>3, SumLast
<1>5. Part(p, t)[n + 1] = IF e.trader = t THEN e.size ELSE 0
  <2>1. n + 1 \in 1 .. n + 1
    BY <1>1
  <2> QED BY <1>1, <1>2, <2>1, PartOf
<1>6. SumFunctionOnSet(Part(p, t), 1 .. n) = SumFunctionOnSet(Part(q, t), 1 .. n)
  <2>1. \A i \in 1 .. n : Part(p, t)[i] = IF p[i].trader = t THEN p[i].size ELSE 0
    BY <1>1, PartOf
  <2>2. \A i \in 1 .. n : Part(q, t)[i] = IF q[i].trader = t THEN q[i].size ELSE 0
    BY PartOf DEF n
  <2>3. \A i \in 1 .. n : Part(p, t)[i] = Part(q, t)[i]
    BY <1>2, <2>1, <2>2
  <2>4. IsFiniteSet(1 .. n)
    BY <1>1, FS_Interval
  <2> QED BY <2>3, <2>4, SumSame
<1>7. SizeIn(p, t) = SumFunctionOnSet(Part(p, t), 1 .. n + 1)
      /\ SizeIn(q, t) = SumFunctionOnSet(Part(q, t), 1 .. n)
  BY <1>1, PartOf DEF n
<1>8. e.size \in Int
  BY DEF Taken
<1>9. SizeIn(p, t) = SizeIn(q, t) + (IF e.trader = t THEN e.size ELSE 0)
  <2> DEFINE x == Part(p, t)[n + 1]
             y == SumFunctionOnSet(Part(p, t), 1 .. n)
  <2>1. SizeIn(p, t) = x + y /\ SizeIn(q, t) = y /\ y \in Int
    BY <1>4, <1>6, <1>7
  <2>2. x = (IF e.trader = t THEN e.size ELSE 0) /\ x \in Int
    BY <1>5, <1>8
  <2> HIDE DEF x, y
  <2> QED BY <2>1, <2>2
<1> QED BY <1>9 DEF p

(* The front gives up some of its size, or all of it and goes. *)
LEMMA SizeInFront ==
  ASSUME NEW q \in Seq(Taken), q # <<>>, NEW size \in Nat, size <= Head(q).size, NEW t
  PROVE  SizeIn(TakeFromFront(q, size), t)
           = SizeIn(q, t) - (IF Head(q).trader = t THEN size ELSE 0)
<1> DEFINE n == Len(q) - 1
           front == IF Head(q).trader = t THEN Head(q).size ELSE 0
           behind == SumFunctionOnSet(Part(q, t), 1 .. n + 1) - front
<1>1. Len(q) = n + 1 /\ n \in Nat /\ Head(q) = q[1] /\ Head(q) \in Taken
  OBVIOUS
<1>2. \A i \in 1 .. n + 1 :
        /\ Part(q, t)[i] \in Int
        /\ Part(q, t)[i] = IF q[i].trader = t THEN q[i].size ELSE 0
  BY <1>1, PartOf
<1>3. Part(q, t)[1] = front /\ front \in Int /\ Head(q).size \in Nat
  <2>1. 1 \in 1 .. n + 1
    BY <1>1
  <2> QED BY <1>1, <1>2, <2>1 DEF Taken
<1>4. SizeIn(q, t) = SumFunctionOnSet(Part(q, t), 1 .. n + 1)
  BY <1>1, PartOf
<1>5. CASE Head(q).size = size
  <2> DEFINE p == Tail(q)
  <2>1. p \in Seq(Taken) /\ Len(p) = n /\ \A i \in 1 .. n : p[i] = q[i + 1]
    BY <1>1
  <2>2. TakeFromFront(q, size) = p
    BY <1>5 DEF TakeFromFront
  <2> HIDE DEF p, n
  <2>3. \A i \in 1 .. n : Part(p, t)[i] = Part(q, t)[i + 1]
    <3> SUFFICES ASSUME NEW i \in 1 .. n PROVE Part(p, t)[i] = Part(q, t)[i + 1]
      OBVIOUS
    <3>1. i + 1 \in 1 .. n + 1
      BY <1>1
    <3>2. Part(p, t)[i] = IF p[i].trader = t THEN p[i].size ELSE 0
      BY <2>1, PartOf
    <3> QED BY <1>2, <2>1, <3>1, <3>2
  <2>4. SumFunctionOnSet(Part(q, t), 1 .. n + 1)
          = Part(q, t)[1] + SumFunctionOnSet(Part(p, t), 1 .. n)
    BY <1>1, <1>2, <2>3, SumShift
  <2>5. SizeIn(p, t) = SumFunctionOnSet(Part(p, t), 1 .. n) /\ SizeIn(p, t) \in Nat
    BY <2>1, PartOf, SizeInNat
  <2>6. SizeIn(q, t) = front + SizeIn(p, t)
    BY <1>3, <1>4, <2>4, <2>5
  <2>7. front = IF Head(q).trader = t THEN size ELSE 0
    BY <1>5
  <2> HIDE DEF front
  <2> QED BY <1>3, <2>2, <2>5, <2>6, <2>7
<1>6. CASE Head(q).size # size
  <2> DEFINE p == [q EXCEPT ![1].size = @ - size]
  <2>1. p \in Seq(Taken) /\ Len(p) = n + 1
        /\ p[1] = [q[1] EXCEPT !.size = @ - size]
        /\ \A i \in 1 .. n + 1 : i # 1 => p[i] = q[i]
    <3>1. q[1].size - size \in Nat /\ q[1] \in Taken
      BY <1>1, <1>3
    <3>2. [q[1] EXCEPT !.size = @ - size] \in Taken
      BY <3>1 DEF Taken
    <3>3. p = [q EXCEPT ![1] = [q[1] EXCEPT !.size = @ - size]]
      BY <1>1
    <3>4. 1 \in 1 .. Len(q) /\ DOMAIN q = 1 .. Len(q)
      BY <1>1
    <3> QED BY <1>1, <3>2, <3>3, <3>4
  <2>2. TakeFromFront(q, size) = p
    BY <1>6 DEF TakeFromFront
  <2> HIDE DEF p, n
  <2> DEFINE D == 1 .. n + 1
             less == IF Head(q).trader = t THEN size ELSE 0
             f == Part(q, t)
             g == Part(p, t)
  <2>3. \A i \in D : g[i] \in Int /\ g[i] = IF p[i].trader = t THEN p[i].size ELSE 0
    BY <2>1, PartOf
  <2>4. 1 \in D
    BY <1>1
  <2>5. p[1].trader = q[1].trader /\ p[1].size = q[1].size - size
    BY <1>1, <2>1 DEF Taken
  <2>6. g[1] - f[1] = -less /\ less \in Int
    <3>1. g[1] = IF q[1].trader = t THEN q[1].size - size ELSE 0
      BY <2>3, <2>4, <2>5
    <3>2. f[1] = IF q[1].trader = t THEN q[1].size ELSE 0
      BY <1>2, <2>4
    <3> HIDE DEF f, g
    <3> QED BY <1>1, <1>3, <3>1, <3>2
  <2>7. \A i \in D : i # 1 => g[i] = f[i]
    BY <1>2, <2>1, <2>3
  <2>8. IsFiniteSet(D) /\ \A i \in D : f[i] \in Int
    BY <1>1, <1>2, FS_Interval
  <2>9. SizeIn(p, t) = SumFunctionOnSet(g, D) /\ SizeIn(q, t) = SumFunctionOnSet(f, D)
    BY <1>4, <2>1, PartOf
  <2>10. SizeIn(q, t) \in Nat
    BY SizeInNat
  <2> HIDE DEF D, f, g, less
  <2>11. SumFunctionOnSet(g, D) = SumFunctionOnSet(f, D) + (g[1] - f[1])
    BY <2>3, <2>4, <2>7, <2>8, SumUpdate
  <2>12. SizeIn(p, t) = SizeIn(q, t) - less
    BY <2>6, <2>9, <2>10, <2>11
  <2> QED BY <2>2, <2>12 DEF less
<1> QED BY <1>5, <1>6

(* A trader with one order in the queue has its size there, one with none  *)
(* has nothing.                                                            *)
LEMMA SizeInOne ==
  ASSUME NEW q \in Seq(Taken), NEW t, NEW k \in 1 .. Len(q), q[k].trader = t,
         \A i \in 1 .. Len(q) : q[i].trader = t => i = k
  PROVE  SizeIn(q, t) = q[k].size
<1> DEFINE D == 1 .. Len(q)
           f == Part(q, t)
<1>1. /\ IsFiniteSet(D) /\ SizeIn(q, t) = SumFunctionOnSet(f, D)
      /\ \A i \in D : f[i] \in Int
      /\ \A i \in D : f[i] = IF q[i].trader = t THEN q[i].size ELSE 0
  BY PartOf
<1>2. k \in D /\ f[k] = q[k].size /\ \A i \in D \ {k} : f[i] = 0
  BY <1>1
<1>3. SumFunctionOnSet(f, {k}) = f[k]
  <2>1. f[k] \in Int
    BY <1>1, <1>2
  <2> HIDE DEF f
  <2> QED BY <2>1, SumSingle
<1> HIDE DEF D, f
<1>4. SumFunctionOnSet(f, D) = SumFunctionOnSet(f, {k})
  <2>1. {k} \in SUBSET D
    BY <1>2
  <2> QED BY <1>1, <1>2, <2>1, SumSupport, Zenon
<1> QED BY <1>1, <1>2, <1>3, <1>4

LEMMA SizeInNone ==
  ASSUME NEW q \in Seq(Taken), NEW t, \A i \in 1 .. Len(q) : q[i].trader # t
  PROVE  SizeIn(q, t) = 0
<1> DEFINE D == 1 .. Len(q)
           f == Part(q, t)
<1>1. /\ IsFiniteSet(D) /\ SizeIn(q, t) = SumFunctionOnSet(f, D)
      /\ \A i \in D : f[i] \in Int
      /\ \A i \in D : f[i] = IF q[i].trader = t THEN q[i].size ELSE 0
  BY PartOf
<1>2. \A i \in D \ {} : f[i] = 0
  BY <1>1
<1> HIDE DEF D, f
<1>3. SumFunctionOnSet(f, D) = SumFunctionOnSet(f, {})
  BY <1>1, <1>2, SumSupport
<1> QED BY <1>1, <1>3, SumEmpty

(***************************************************************************)
(* Types.                                                                  *)
(***************************************************************************)
LEMMA OrderTypes ==
  /\ Order \subseteq Taken /\ Resting \subseteq Taken
  /\ Seq(Order) \subseteq Seq(Taken) /\ Seq(Resting) \subseteq Seq(Taken)
<1>1. Order \subseteq Taken /\ Resting \subseteq Taken
  BY OrderFlowAssumption DEF Order, Resting, Taken
<1> QED BY <1>1

LEMMA TypesInit == Init => TypeOK
BY DEF Init, SequencerInit, MatcherInit, TypeOK, Sides

LEMMA TypesSequence ==
  ASSUME TypeOK, Sequence
  PROVE  TypeOK'
<1> USE DEF TypeOK, Goroutines
<1>1. ASSUME NEW g \in Goroutines, Lock(g) PROVE TypeOK'
  BY <1>1 DEF Sequence, Lock, matcherVars
<1>2. ASSUME NEW g \in Goroutines, ReadMempool(g) PROVE TypeOK'
  BY <1>2 DEF Sequence, ReadMempool, matcherVars
<1>3. ASSUME NEW t \in Traders, AppendOrder(t) PROVE TypeOK'
  BY <1>3 DEF Sequence, AppendOrder, matcherVars
<1>4. ASSUME ReturnBlock PROVE TypeOK'
  <2>1. slice[Builder] \in Seq(Order)
    OBVIOUS
  <2>2. delivered' \in Seq(Order) /\ Len(delivered') = Len(delivered) + Len(slice[Builder])
    BY <1>4, <2>1 DEF ReturnBlock
  <2>3. done' \in 0 .. Len(delivered')
    BY <2>1, <2>2 DEF Sequence
  <2> QED BY <1>4, <2>2, <2>3 DEF Sequence, ReturnBlock, matcherVars
<1> QED BY <1>1, <1>2, <1>3, <1>4 DEF Sequence, SubmitOrder, BuildBlock

LEMMA TypesProcessNext ==
  ASSUME TypeOK, ProcessNext
  PROVE  TypeOK'
<1>1. delivered[done + 1] \in Taken
  BY OrderTypes DEF TypeOK, ProcessNext
<1> QED BY <1>1 DEF TypeOK, ProcessNext, StartMatch, sequencerVars

(* The incoming order and the queues it meets. *)
LEMMA InHand ==
  ASSUME TypeOK, incoming # NoOrder
  PROVE  /\ incoming \in Taken /\ incoming.size \in Nat
         /\ incoming.trader \in Traders /\ incoming.market \in Markets
         /\ incoming.side \in Sides /\ Opposite(incoming.side) \in Sides
         /\ incoming.side # Opposite(incoming.side)
         /\ OtherSide(incoming) \in Seq(Resting)
         /\ OtherSide(incoming) = book[incoming.market][Opposite(incoming.side)]
<1>1. incoming \in Taken
  BY DEF TypeOK
<1>2. incoming.trader \in Traders /\ incoming.market \in Markets /\ incoming.side \in Sides
      /\ incoming.size \in Nat
  BY <1>1 DEF Taken
<1> QED BY <1>1, <1>2 DEF TypeOK, OtherSide, Opposite, Sides

(* What a trade moves. *)
FrontOrder == Head(OtherSide(incoming))
FillSize == IF incoming.size < FrontOrder.size THEN incoming.size ELSE FrontOrder.size

LEMMA FillEffect ==
  ASSUME TypeOK, Fill
  PROVE  /\ incoming # NoOrder /\ OtherSide(incoming) # <<>>
         /\ FrontOrder \in Resting /\ FrontOrder.size \in Nat /\ FrontOrder.trader \in Traders
         /\ FillSize \in Nat \ {0} /\ FillSize <= incoming.size /\ FillSize <= FrontOrder.size
         /\ trades' = Append(trades,
              [buyer  |-> IF incoming.side = "buy" THEN incoming.trader ELSE FrontOrder.trader,
               seller |-> IF incoming.side = "buy" THEN FrontOrder.trader ELSE incoming.trader,
               price  |-> FrontOrder.price, size |-> FillSize])
         /\ Last(trades') =
              [buyer  |-> IF incoming.side = "buy" THEN incoming.trader ELSE FrontOrder.trader,
               seller |-> IF incoming.side = "buy" THEN FrontOrder.trader ELSE incoming.trader,
               price  |-> FrontOrder.price, size |-> FillSize]
         /\ trades' \in Seq([buyer : Traders, seller : Traders, price : Prices, size : Nat])
         /\ incoming' = [incoming EXCEPT !.size = incoming.size - FillSize]
         /\ incoming' \in Taken
         /\ book' = [book EXCEPT ![incoming.market][Opposite(incoming.side)] =
                       TakeFromFront(OtherSide(incoming), FillSize)]
<1> DEFINE trade == [buyer  |-> IF incoming.side = "buy" THEN incoming.trader ELSE FrontOrder.trader,
                     seller |-> IF incoming.side = "buy" THEN FrontOrder.trader ELSE incoming.trader,
                     price  |-> FrontOrder.price, size |-> FillSize]
<1>1. incoming # NoOrder /\ OtherSide(incoming) # <<>> /\ incoming.size > 0
  BY DEF Fill, CanFill
<1>2. FrontOrder \in Resting
  BY <1>1, InHand DEF FrontOrder
<1>3. FrontOrder.size \in Nat \ {0} /\ FrontOrder.trader \in Traders /\ FrontOrder.price \in Prices
  BY <1>2 DEF Resting
<1>4. FillSize \in Nat \ {0} /\ FillSize <= incoming.size /\ FillSize <= FrontOrder.size
  BY <1>1, <1>3, InHand DEF FillSize
<1>5. trades' = Append(trades, trade)
  BY DEF Fill, FrontOrder, FillSize
<1>6. trade \in [buyer : Traders, seller : Traders, price : Prices, size : Nat]
  BY <1>1, <1>3, <1>4, InHand
<1> DEFINE Trade == [buyer : Traders, seller : Traders, price : Prices, size : Nat]
<1> HIDE DEF trade
<1>7. /\ trades' \in Seq([buyer : Traders, seller : Traders, price : Prices, size : Nat])
      /\ Last(trades') = trade
  <2>1. trades \in Seq(Trade) /\ trade \in Trade
    BY <1>6 DEF TypeOK
  <2> HIDE DEF Trade
  <2>2. trades' \in Seq(Trade) /\ Len(trades') = Len(trades) + 1
        /\ trades'[Len(trades) + 1] = trade
    BY <1>5, <2>1
  <2> QED BY <2>2 DEF Last, Trade
<1>8. incoming' = [incoming EXCEPT !.size = incoming.size - FillSize]
  BY DEF Fill, FrontOrder, FillSize
<1>9. incoming' \in Taken
  BY <1>1, <1>4, <1>8, InHand DEF Taken
<1>10. book' = [book EXCEPT ![incoming.market][Opposite(incoming.side)] =
                  TakeFromFront(OtherSide(incoming), FillSize)]
  BY DEF Fill, FrontOrder, FillSize, OtherSide
<1> QED BY <1>1, <1>2, <1>3, <1>4, <1>5, <1>7, <1>8, <1>9, <1>10 DEF trade

LEMMA FrontTaken ==
  ASSUME NEW q \in Seq(Resting), q # <<>>, NEW size \in Nat, size <= Head(q).size
  PROVE  /\ TakeFromFront(q, size) \in Seq(Resting)
         /\ Head(q).size = size =>
              /\ Len(TakeFromFront(q, size)) = Len(q) - 1
              /\ \A i \in 1 .. Len(q) - 1 : TakeFromFront(q, size)[i] = q[i + 1]
         /\ Head(q).size # size =>
              /\ Len(TakeFromFront(q, size)) = Len(q)
              /\ \A i \in 1 .. Len(q) : TakeFromFront(q, size)[i].trader = q[i].trader
<1>1. Head(q) = q[1] /\ q[1] \in Resting /\ Len(q) \in Nat /\ 1 \in 1 .. Len(q)
      /\ DOMAIN q = 1 .. Len(q)
  OBVIOUS
<1>2. CASE Head(q).size = size
  <2>1. TakeFromFront(q, size) = Tail(q)
    BY <1>2 DEF TakeFromFront
  <2>2. Tail(q) \in Seq(Resting) /\ Len(Tail(q)) = Len(q) - 1
        /\ \A i \in 1 .. Len(q) - 1 : Tail(q)[i] = q[i + 1]
    OBVIOUS
  <2> QED BY <1>2, <2>1, <2>2
<1>3. CASE Head(q).size # size
  <2> DEFINE left == [q[1] EXCEPT !.size = q[1].size - size]
  <2>1. q[1].size - size \in Nat \ {0}
    BY <1>1, <1>3 DEF Resting
  <2>2. left \in Resting /\ left.trader = q[1].trader
    BY <1>1, <2>1 DEF Resting
  <2>3. TakeFromFront(q, size) = [q EXCEPT ![1] = left]
    BY <1>1, <1>3 DEF TakeFromFront
  <2> HIDE DEF left
  <2>4. [q EXCEPT ![1] = left] \in Seq(Resting) /\ Len([q EXCEPT ![1] = left]) = Len(q)
        /\ \A i \in 1 .. Len(q) : [q EXCEPT ![1] = left][i] = IF i = 1 THEN left ELSE q[i]
    BY <1>1, <2>2
  <2> QED BY <1>3, <2>2, <2>3, <2>4
<1> QED BY <1>2, <1>3

LEMMA TypesFill ==
  ASSUME TypeOK, Fill, UNCHANGED <<sequencerVars, done>>
  PROVE  TypeOK'
<1> DEFINE q == TakeFromFront(OtherSide(incoming), FillSize)
<1>1. q \in Seq(Resting)
  BY FillEffect, InHand, FrontTaken DEF FrontOrder
<1> HIDE DEF q
<1>2. book' \in [Markets -> [Sides -> Seq(Resting)]]
  <2>1. book' = [book EXCEPT ![incoming.market][Opposite(incoming.side)] = q]
    BY FillEffect DEF q
  <2> QED BY <1>1, <2>1, FillEffect, InHand DEF TypeOK
<1> QED BY <1>2, FillEffect DEF TypeOK, sequencerVars

LEMMA TypesRest ==
  ASSUME TypeOK, Rest, UNCHANGED <<sequencerVars, done>>
  PROVE  TypeOK'
<1>1. incoming # NoOrder
  BY DEF Rest
<1>2. incoming.size > 0 => incoming \in Resting
  BY <1>1, InHand DEF Taken, Resting
<1>3. book' \in [Markets -> [Sides -> Seq(Resting)]]
  <2>1. CASE incoming.size > 0
    <3>1. Append(book[incoming.market][incoming.side], incoming) \in Seq(Resting)
      BY <1>1, <1>2, <2>1, InHand DEF TypeOK
    <3>2. book' = [book EXCEPT ![incoming.market][incoming.side] =
                     Append(book[incoming.market][incoming.side], incoming)]
      BY <2>1 DEF Rest
    <3> QED BY <1>1, <3>1, <3>2, InHand DEF TypeOK
  <2>2. CASE ~(incoming.size > 0)
    BY <2>2 DEF Rest, TypeOK
  <2> QED BY <2>1, <2>2
<1> QED BY <1>3 DEF TypeOK, Rest, sequencerVars

(***************************************************************************)
(* The sequencer: under the mutex no order is lost and none comes twice.   *)
(***************************************************************************)
LEMMA MutexInit == Init => MutexInv
BY SequencerAssumption DEF Init, SequencerInit, MutexInv, Goroutines

LEMMA MutexSequence ==
  ASSUME TypeOK, MutexInv, Sequence
  PROVE  MutexInv'
<1> USE SequencerAssumption DEF TypeOK, MutexInv, Goroutines
<1>1. ASSUME NEW g \in Goroutines, Lock(g) PROVE MutexInv'
  BY <1>1 DEF Lock
<1>2. ASSUME NEW g \in Goroutines, ReadMempool(g) PROVE MutexInv'
  BY <1>2 DEF ReadMempool
<1>3. ASSUME NEW t \in Traders, AppendOrder(t) PROVE MutexInv'
  BY <1>3 DEF AppendOrder
<1>4. ASSUME ReturnBlock PROVE MutexInv'
  BY <1>4 DEF ReturnBlock
<1> QED BY <1>1, <1>2, <1>3, <1>4 DEF Sequence, SubmitOrder, BuildBlock

LEMMA SubmittedIs ==
  ASSUME TypeOK
  PROVE  /\ Submitted \in Seq(Order)
         /\ Len(delivered) \in Nat /\ Len(mempool) \in Nat
         /\ Len(Submitted) = Len(delivered) + Len(mempool)
         /\ DOMAIN Submitted = 1 .. Len(delivered) + Len(mempool)
         /\ \A i \in 1 .. Len(delivered) : Submitted[i] = delivered[i]
         /\ \A i \in 1 .. Len(mempool) : Submitted[Len(delivered) + i] = mempool[i]
BY DEF TypeOK, Submitted

LEMMA SubmittedInit == Init => SubmittedInv
<1> SUFFICES ASSUME Init PROVE SubmittedInv
  OBVIOUS
<1>1. Submitted = <<>>
  BY DEF Init, SequencerInit, Submitted
<1>2. DOMAIN Submitted = {}
  BY <1>1
<1> QED BY <1>2 DEF Init, SequencerInit, SubmittedInv, Goroutines

(* What a step of the sequencer does to the orders submitted so far: an    *)
(* order that was not among them comes to the end, or nothing at all.      *)
LEMMA SubmittedEffect ==
  ASSUME TypeOK, MutexInv, Sequence
  PROVE  /\ UNCHANGED <<orders, book, incoming, trades, done>>
         /\ \/ /\ Submitted' = Submitted
               /\ \A t \in Traders : pc'[t] = "returned" <=> pc[t] = "returned"
            \/ \E t \in Traders :
                 /\ pc[t] # "returned" /\ pc' = [pc EXCEPT ![t] = "returned"]
                 /\ Submitted' = Append(Submitted, orders[t])
                 /\ delivered' = delivered
<1> USE DEF TypeOK, Goroutines
<1>1. UNCHANGED <<orders, book, incoming, trades, done>>
  BY DEF Sequence, matcherVars, SubmitOrder, BuildBlock, Lock, ReadMempool, AppendOrder, ReturnBlock
<1>2. ASSUME NEW g \in Goroutines, Lock(g)
      PROVE  Submitted' = Submitted
             /\ \A t \in Traders : pc'[t] = "returned" <=> pc[t] = "returned"
  BY <1>2 DEF Lock, Submitted
<1>3. ASSUME NEW g \in Goroutines, ReadMempool(g)
      PROVE  Submitted' = Submitted
             /\ \A t \in Traders : pc'[t] = "returned" <=> pc[t] = "returned"
  BY <1>3 DEF ReadMempool, Submitted
<1>4. ASSUME NEW t \in Traders, AppendOrder(t)
      PROVE  /\ pc[t] # "returned" /\ pc' = [pc EXCEPT ![t] = "returned"]
             /\ Submitted' = Append(Submitted, orders[t])
             /\ delivered' = delivered
  <2>1. slice[t] = mempool
    BY <1>4 DEF AppendOrder, MutexInv
  <2>2. mempool' = Append(mempool, orders[t]) /\ delivered' = delivered /\ orders[t] \in Order
    BY <1>4, <2>1 DEF AppendOrder
  <2>3. delivered \o Append(mempool, orders[t]) = Append(delivered \o mempool, orders[t])
    BY <2>2
  <2> QED BY <1>4, <2>2, <2>3 DEF AppendOrder, Submitted
<1>5. ASSUME ReturnBlock
      PROVE  Submitted' = Submitted
             /\ \A t \in Traders : pc'[t] = "returned" <=> pc[t] = "returned"
  <2>1. slice[Builder] = mempool
    BY <1>5 DEF ReturnBlock, MutexInv
  <2>2. mempool' = <<>> /\ delivered' = delivered \o mempool
    BY <1>5, <2>1 DEF ReturnBlock
  <2>3. (delivered \o mempool) \o <<>> = delivered \o mempool
    OBVIOUS
  <2>4. \A t \in Traders : pc'[t] = pc[t]
    BY <1>5, SequencerAssumption DEF ReturnBlock
  <2> QED BY <2>2, <2>3, <2>4 DEF Submitted
<1>6. CASE \E t \in Traders : SubmitOrder(t)
  BY <1>1, <1>2, <1>3, <1>4, <1>6 DEF SubmitOrder
<1>7. CASE BuildBlock
  BY <1>1, <1>2, <1>3, <1>5, <1>7 DEF BuildBlock
<1> QED BY <1>6, <1>7 DEF Sequence

LEMMA SubmittedSequence ==
  ASSUME TypeOK, MutexInv, SubmittedInv, Sequence
  PROVE  SubmittedInv'
<1>1. CASE Submitted' = Submitted
           /\ \A t \in Traders : pc'[t] = "returned" <=> pc[t] = "returned"
  BY <1>1, SubmittedEffect DEF SubmittedInv
<1>2. ASSUME NEW t \in Traders, pc[t] # "returned", pc' = [pc EXCEPT ![t] = "returned"],
             Submitted' = Append(Submitted, orders[t])
      PROVE  SubmittedInv'
  <2> DEFINE s == Submitted
             n == Len(Submitted)
             new == Append(Submitted, orders[t])
  <2>1. orders' = orders /\ orders[t] \in Order /\ orders[t].trader = t
    BY SubmittedEffect DEF TypeOK, SubmittedInv
  <2>2. s \in Seq(Order) /\ n \in Nat /\ DOMAIN s = 1 .. n
    BY SubmittedIs
  <2>3. DOMAIN new = 1 .. n + 1 /\ new[n + 1] = orders[t] /\ \A i \in 1 .. n : new[i] = s[i]
    BY <2>1, <2>2
  <2>4. \A i \in 1 .. n : s[i].trader # t
    BY <1>2, <2>2 DEF SubmittedInv
  <2>5. \A u \in Traders : pc'[u] = "returned" <=> (u = t \/ pc[u] = "returned")
    BY <1>2 DEF TypeOK, Goroutines
  <2>6. /\ \A u \in Traders : pc[u] = "returned" <=> \E i \in 1 .. n : s[i].trader = u
        /\ \A i \in 1 .. n : s[i] = orders[s[i].trader]
        /\ \A i, j \in 1 .. n : s[i].trader = s[j].trader => i = j
    BY <2>2 DEF SubmittedInv
  <2>7. \A i \in 1 .. n + 1 : i \in 1 .. n \/ i = n + 1
    BY <2>2
  <2>8. n + 1 \in 1 .. n + 1 /\ \A i \in 1 .. n : i \in 1 .. n + 1
    BY <2>2
  <2>9. Submitted' = new
    BY <1>2
  <2> HIDE DEF s, n, new
  <2>10. \A u \in Traders : orders'[u].trader = u
    BY <2>1 DEF SubmittedInv
  <2>11. \A u \in Traders : pc'[u] = "returned" <=> \E i \in 1 .. n + 1 : new[i].trader = u
    BY <2>1, <2>3, <2>5, <2>6, <2>7, <2>8
  <2>12. \A i \in 1 .. n + 1 : new[i] = orders'[new[i].trader]
    BY <2>1, <2>3, <2>6, <2>7
  <2>13. \A i, j \in 1 .. n + 1 : new[i].trader = new[j].trader => i = j
    BY <2>1, <2>3, <2>4, <2>6, <2>7
  <2> QED BY <2>3, <2>9, <2>10, <2>11, <2>12, <2>13 DEF SubmittedInv
<1> QED BY <1>1, <1>2, SubmittedEffect

(* A block adds to what was delivered and changes none of it. *)
LEMMA DeliveredEffect ==
  ASSUME TypeOK, Sequence
  PROVE  \A i \in 1 .. Len(delivered) : i \in DOMAIN delivered' /\ delivered'[i] = delivered[i]
<1>1. CASE delivered' = delivered
  BY <1>1 DEF TypeOK
<1>2. CASE ReturnBlock
  <2>1. delivered \in Seq(Order) /\ slice[Builder] \in Seq(Order)
        /\ delivered' = delivered \o slice[Builder]
    BY <1>2 DEF TypeOK, ReturnBlock, Goroutines
  <2> QED BY <2>1
<1> QED BY <1>1, <1>2 DEF Sequence, SubmitOrder, BuildBlock, Lock, ReadMempool, AppendOrder

(* Every delivered order is its trader's, and has its own place.           *)
LEMMA Delivered ==
  ASSUME TypeOK, SubmittedInv, NEW k \in 1 .. Len(delivered)
  PROVE  /\ delivered[k] \in Order /\ delivered[k].trader \in Traders
         /\ delivered[k] = orders[delivered[k].trader]
         /\ pc[delivered[k].trader] = "returned"
         /\ \A i \in 1 .. Len(delivered) : delivered[i].trader = delivered[k].trader => i = k
         /\ Arrival(delivered[k].trader) = k
<1>1. k \in DOMAIN Submitted /\ Submitted[k] = delivered[k] /\ DOMAIN delivered = 1 .. Len(delivered)
  BY SubmittedIs DEF TypeOK
<1>2. delivered[k] \in Order
  BY DEF TypeOK
<1>3. delivered[k].trader \in Traders
  BY <1>2 DEF Order
<1>4. \A i \in 1 .. Len(delivered) : i \in DOMAIN Submitted /\ Submitted[i] = delivered[i]
  BY SubmittedIs
<1>5. \A i \in 1 .. Len(delivered) : delivered[i].trader = delivered[k].trader => i = k
  BY <1>1, <1>4 DEF SubmittedInv
<1>6. Arrival(delivered[k].trader) = k
  BY <1>1, <1>5 DEF Arrival
<1> QED BY <1>1, <1>2, <1>3, <1>5, <1>6 DEF SubmittedInv

LEMMA ArrivalKept ==
  ASSUME TypeOK, MutexInv, SubmittedInv, Sequence,
         NEW k \in 1 .. Len(delivered), NEW t, delivered[k].trader = t
  PROVE  Arrival(t)' = k
<1>1. CASE delivered' = delivered
  BY <1>1, Delivered DEF Arrival
<1>2. CASE ReturnBlock
  <2>1. slice[Builder] = mempool
    BY <1>2 DEF ReturnBlock, MutexInv, Goroutines
  <2>2. delivered' = Submitted
    BY <1>2, <2>1 DEF ReturnBlock, Submitted
  <2>3. k \in DOMAIN Submitted /\ Submitted[k].trader = t
    BY SubmittedIs
  <2>4. \A i \in DOMAIN Submitted : Submitted[i].trader = t => i = k
    BY <2>3 DEF SubmittedInv
  <2>5. (CHOOSE i \in DOMAIN Submitted : Submitted[i].trader = t) = k
    BY <2>3, <2>4
  <2> QED BY <2>2, <2>5 DEF Arrival
<1> QED BY <1>1, <1>2 DEF Sequence, SubmitOrder, BuildBlock, Lock, ReadMempool, AppendOrder

(***************************************************************************)
(* The book: queues in order of arrival.                                   *)
(***************************************************************************)
Been(q, m, s) ==
  \A i \in DOMAIN q : \E k \in 1 .. done :
    /\ delivered[k].trader = q[i].trader
    /\ delivered[k].market = m /\ delivered[k].side = s
    /\ incoming # NoOrder => k < done

InOrder(q) == \A i, j \in DOMAIN q : i < j => Arrival(q[i].trader) < Arrival(q[j].trader)

LEMMA BookInvMeans ==
  BookInv <=> \A m \in Markets, s \in Sides : Been(book[m][s], m, s) /\ InOrder(book[m][s])
BY DEF BookInv, Been, InOrder

LEMMA BookInit == Init => BookInv
<1> SUFFICES ASSUME Init PROVE BookInv
  OBVIOUS
<1>1. \A m \in Markets, s \in Sides : DOMAIN book[m][s] = {}
  BY DEF Init, MatcherInit
<1> QED BY <1>1 DEF BookInv

(* Who rests arrived at a place the matcher has passed. *)
LEMMA RestingArrival ==
  ASSUME TypeOK, SubmittedInv, BookInv, NEW m \in Markets, NEW s \in Sides,
         NEW i \in DOMAIN book[m][s]
  PROVE  LET t == book[m][s][i].trader
             k == Arrival(t)
         IN  /\ k \in 1 .. done /\ k \in 1 .. Len(delivered) /\ t \in Traders
             /\ delivered[k] = orders[t] /\ orders[t].market = m /\ orders[t].side = s
             /\ incoming # NoOrder => k < done
<1> DEFINE t == book[m][s][i].trader
<1>1. PICK k \in 1 .. done :
        /\ delivered[k].trader = t
        /\ delivered[k].market = m /\ delivered[k].side = s
        /\ incoming # NoOrder => k < done
  BY DEF BookInv
<1>2. k \in 1 .. Len(delivered)
  BY DEF TypeOK
<1> HIDE DEF t
<1>3. Arrival(t) = k /\ delivered[k] = orders[t] /\ t \in Traders
  BY <1>1, <1>2, Delivered
<1> QED BY <1>1, <1>2, <1>3 DEF t

LEMMA BookSequence ==
  ASSUME TypeOK, MutexInv, SubmittedInv, BookInv, Sequence
  PROVE  BookInv'
<1>1. UNCHANGED <<orders, book, incoming, trades, done>>
  BY SubmittedEffect
<1> SUFFICES ASSUME NEW m \in Markets, NEW s \in Sides
             PROVE  Been(book[m][s], m, s)' /\ InOrder(book[m][s])'
  BY DEF BookInv, Been, InOrder
<1> DEFINE q == book[m][s]
<1>2. \A k \in 1 .. done : k \in 1 .. Len(delivered)
  BY DEF TypeOK
<1>3. Been(q, m, s) /\ InOrder(q)
  BY DEF BookInv, Been, InOrder
<1>4. Been(book[m][s], m, s)'
  BY <1>1, <1>2, <1>3, DeliveredEffect DEF Been
<1>5. \A i \in DOMAIN q : Arrival(q[i].trader)' = Arrival(q[i].trader)
  <2> SUFFICES ASSUME NEW i \in DOMAIN q, NEW t, t = q[i].trader
               PROVE  Arrival(t)' = Arrival(t)
    BY <1>1 DEF Arrival
  <2>1. Arrival(t) \in 1 .. Len(delivered) /\ delivered[Arrival(t)].trader = t
    BY RestingArrival DEF SubmittedInv
  <2> QED BY <2>1, ArrivalKept
<1>6. InOrder(book[m][s])'
  <2> SUFFICES ASSUME NEW i \in DOMAIN q, NEW j \in DOMAIN q, i < j
               PROVE  Arrival(q[i].trader)' < Arrival(q[j].trader)'
    BY <1>1 DEF InOrder, Arrival
  <2> QED BY <1>3, <1>5 DEF InOrder
<1> QED BY <1>4, <1>6

LEMMA BookProcessNext ==
  ASSUME TypeOK, BookInv, ProcessNext
  PROVE  BookInv'
<1>1. UNCHANGED <<book, delivered>> /\ incoming = NoOrder /\ done' = done + 1 /\ done \in Nat
  BY DEF TypeOK, ProcessNext, StartMatch, sequencerVars
<1>2. \A k \in 1 .. done : k \in 1 .. done' /\ k < done'
  BY <1>1
<1>3. \A t : Arrival(t)' = Arrival(t)
  BY <1>1 DEF Arrival
<1> SUFFICES ASSUME NEW m \in Markets, NEW s \in Sides
             PROVE  Been(book[m][s], m, s)' /\ InOrder(book[m][s])'
  BY DEF BookInv, Been, InOrder
<1> QED BY <1>1, <1>2, <1>3 DEF BookInv, Been, InOrder, Arrival

LEMMA BookFill ==
  ASSUME TypeOK, BookInv, Fill, UNCHANGED <<sequencerVars, done>>
  PROVE  BookInv'
<1>1. UNCHANGED <<delivered, done>> /\ \A t : Arrival(t)' = Arrival(t)
  BY DEF sequencerVars, Arrival
<1>2. incoming # NoOrder
  BY FillEffect
<1> SUFFICES ASSUME NEW m \in Markets, NEW s \in Sides
             PROVE  Been(book[m][s], m, s)' /\ InOrder(book[m][s])'
  BY DEF BookInv, Been, InOrder
<1> DEFINE q == book[m][s]
           p == book'[m][s]
<1>3. q \in Seq(Resting) /\ DOMAIN q = 1 .. Len(q) /\ Len(q) \in Nat
  BY DEF TypeOK
<1>4. Been(q, m, s) /\ InOrder(q)
  BY DEF BookInv, Been, InOrder
<1>5. \/ p = q
      \/ /\ DOMAIN p = 1 .. Len(q) /\ \A i \in 1 .. Len(q) : p[i].trader = q[i].trader
      \/ /\ DOMAIN p = 1 .. Len(q) - 1 /\ \A i \in 1 .. Len(q) - 1 : p[i] = q[i + 1]
  <2> DEFINE front == TakeFromFront(OtherSide(incoming), FillSize)
  <2>1. book' = [book EXCEPT ![incoming.market][Opposite(incoming.side)] = front]
    BY FillEffect
  <2>2. CASE m = incoming.market /\ s = Opposite(incoming.side)
    <3>1. OtherSide(incoming) = q
      BY <2>2 DEF OtherSide
    <3>2. q # <<>> /\ FillSize \in Nat /\ FillSize <= Head(q).size
      BY <3>1, FillEffect DEF FrontOrder
    <3>3. front = TakeFromFront(q, FillSize)
      BY <3>1
    <3> HIDE DEF front, q
    <3>4. \/ /\ DOMAIN front = 1 .. Len(q) /\ \A i \in 1 .. Len(q) : front[i].trader = q[i].trader
          \/ /\ DOMAIN front = 1 .. Len(q) - 1 /\ \A i \in 1 .. Len(q) - 1 : front[i] = q[i + 1]
      BY <1>3, <3>2, <3>3, FrontTaken
    <3>5. p = front
      BY <2>1, <2>2 DEF TypeOK
    <3> HIDE DEF p, q
    <3> QED BY <3>4, <3>5
  <2>3. CASE ~(m = incoming.market /\ s = Opposite(incoming.side))
    <3> HIDE DEF front
    <3> QED BY <2>1, <2>3 DEF TypeOK
  <2> QED BY <2>2, <2>3
<1> HIDE DEF p, q
<1>6. Been(p, m, s) /\ InOrder(p)
  <2>1. CASE p = q
    BY <1>4, <2>1
  <2>2. CASE /\ DOMAIN p = 1 .. Len(q) /\ \A i \in 1 .. Len(q) : p[i].trader = q[i].trader
    BY <1>3, <1>4, <2>2 DEF Been, InOrder
  <2>3. CASE /\ DOMAIN p = 1 .. Len(q) - 1 /\ \A i \in 1 .. Len(q) - 1 : p[i] = q[i + 1]
    <3>1. \A i \in DOMAIN p : i + 1 \in DOMAIN q /\ p[i] = q[i + 1] /\ i \in Int
      BY <1>3, <2>3
    <3>2. \A i, j \in DOMAIN p : i < j => i + 1 < j + 1
      BY <3>1
    <3>3. Been(p, m, s)
      BY <1>4, <3>1 DEF Been
    <3> QED BY <1>4, <3>1, <3>2, <3>3 DEF InOrder
  <2> QED BY <1>5, <2>1, <2>2, <2>3
<1>7. Been(book[m][s], m, s)'
  BY <1>1, <1>2, <1>6 DEF Been, p
<1> QED BY <1>1, <1>6, <1>7 DEF InOrder, Arrival, p

(* The order in hand is the last one taken. *)
LEMMA IncomingIs ==
  ASSUME TypeOK, SubmittedInv, MatchInv, incoming # NoOrder
  PROVE  /\ done \in 1 .. Len(delivered) /\ done \in Nat
         /\ incoming = [orders[incoming.trader] EXCEPT !.size = incoming.size]
         /\ delivered[done] = orders[incoming.trader]
         /\ delivered[done].trader = incoming.trader
         /\ delivered[done].market = incoming.market
         /\ delivered[done].side = incoming.side
         /\ Arrival(incoming.trader) = done
<1>1. done \in 1 .. Len(delivered) /\ done \in Nat
  BY DEF TypeOK, MatchInv
<1>2. incoming = [delivered[done] EXCEPT !.size = incoming.size]
  BY DEF MatchInv
<1>3. delivered[done] \in Order
  BY <1>1, Delivered
<1>4. incoming.trader = delivered[done].trader /\ incoming.market = delivered[done].market
      /\ incoming.side = delivered[done].side
  BY <1>2, <1>3 DEF Order
<1>5. delivered[done] = orders[incoming.trader] /\ Arrival(incoming.trader) = done
  BY <1>1, <1>4, Delivered
<1> QED BY <1>1, <1>2, <1>4, <1>5

LEMMA BookRest ==
  ASSUME TypeOK, SubmittedInv, BookInv, MatchInv, Rest, UNCHANGED <<sequencerVars, done>>
  PROVE  BookInv'
<1>1. UNCHANGED <<delivered, done>> /\ \A t : Arrival(t)' = Arrival(t)
  BY DEF sequencerVars, Arrival
<1>2. incoming # NoOrder /\ incoming' = NoOrder
  BY DEF Rest
<1> SUFFICES ASSUME NEW m \in Markets, NEW s \in Sides
             PROVE  Been(book[m][s], m, s)' /\ InOrder(book[m][s])'
  BY DEF BookInv, Been, InOrder
<1> DEFINE q == book[m][s]
           p == book'[m][s]
<1>3. q \in Seq(Resting) /\ DOMAIN q = 1 .. Len(q) /\ Len(q) \in Nat
  BY DEF TypeOK
<1>4. Been(q, m, s) /\ InOrder(q)
  BY DEF BookInv, Been, InOrder
<1>5. \/ p = q
      \/ p = Append(q, incoming) /\ m = incoming.market /\ s = incoming.side
  BY DEF Rest, TypeOK
<1>6. \A i \in DOMAIN q : Arrival(q[i].trader) \in 1 .. done /\ Arrival(q[i].trader) < done
  BY <1>2, RestingArrival
<1> HIDE DEF p
<1>7. CASE p = q
  <2>1. Been(book[m][s], m, s)'
    BY <1>1, <1>2, <1>4, <1>7 DEF Been, p
  <2> QED BY <1>1, <1>4, <1>7, <2>1 DEF InOrder, Arrival, p
<1>8. CASE p = Append(q, incoming) /\ m = incoming.market /\ s = incoming.side
  <2> DEFINE n == Len(q)
  <2>1. DOMAIN p = 1 .. n + 1 /\ p[n + 1] = incoming /\ \A i \in 1 .. n : p[i] = q[i]
    BY <1>3, <1>8
  <2> HIDE DEF q
  <2>2. \A i \in 1 .. n + 1 : i \in 1 .. n \/ i = n + 1
    BY <1>3
  <2>3. done \in 1 .. done /\ delivered[done].trader = incoming.trader
        /\ delivered[done].market = m /\ delivered[done].side = s
        /\ Arrival(incoming.trader) = done
    BY <1>2, <1>8, IncomingIs
  <2>4. \A i \in DOMAIN p : \E k \in 1 .. done :
          delivered[k].trader = p[i].trader /\ delivered[k].market = m /\ delivered[k].side = s
    <3> SUFFICES ASSUME NEW i \in DOMAIN p
                 PROVE  \E k \in 1 .. done : /\ delivered[k].trader = p[i].trader
                                             /\ delivered[k].market = m /\ delivered[k].side = s
      OBVIOUS
    <3>1. CASE i \in 1 .. n
      BY <1>3, <1>4, <2>1, <3>1 DEF Been
    <3>2. CASE i = n + 1
      BY <2>1, <2>3, <3>2
    <3> QED BY <2>1, <2>2, <3>1, <3>2
  <2>5. InOrder(p)
    <3> SUFFICES ASSUME NEW i \in DOMAIN p, NEW j \in DOMAIN p, i < j
                 PROVE  Arrival(p[i].trader) < Arrival(p[j].trader)
      BY DEF InOrder
    <3>1. i \in 1 .. n
      BY <1>3, <2>1
    <3>2. CASE j \in 1 .. n
      BY <1>3, <1>4, <2>1, <3>1, <3>2 DEF InOrder
    <3>3. CASE j = n + 1
      BY <1>3, <1>6, <2>1, <2>3, <3>1, <3>3
    <3> QED BY <2>1, <2>2, <3>2, <3>3
  <2>6. Been(book[m][s], m, s)'
    BY <1>1, <1>2, <2>4 DEF Been, p
  <2> QED BY <1>1, <2>5, <2>6 DEF InOrder, Arrival, p
<1> QED BY <1>5, <1>7, <1>8

(***************************************************************************)
(* The matcher: what it has taken is in hand, on the book or in trades.    *)
(***************************************************************************)
LEMMA FilledNat == ASSUME TypeOK, NEW t PROVE Filled(t) \in Nat
<1> DEFINE f == [i \in DOMAIN trades |->
                   IF t \in {trades[i].buyer, trades[i].seller} THEN trades[i].size ELSE 0]
<1>1. DOMAIN f = 1 .. Len(trades) /\ DOMAIN trades = 1 .. Len(trades) /\ Len(trades) \in Nat
  BY DEF TypeOK
<1>2. IsFiniteSet(1 .. Len(trades))
  BY <1>1, FS_Interval
<1>3. \A i \in DOMAIN trades :
        trades[i] \in [buyer : Traders, seller : Traders, price : Prices, size : Nat]
  <2> DEFINE Trade == [buyer : Traders, seller : Traders, price : Prices, size : Nat]
  <2>1. trades \in Seq(Trade)
    BY DEF TypeOK
  <2> HIDE DEF Trade, f
  <2>2. \A i \in DOMAIN trades : trades[i] \in Trade
    BY <2>1
  <2> QED BY <2>2 DEF Trade
<1>4. \A i \in DOMAIN trades : trades[i].size \in Nat
  BY <1>3
<1>5. \A i \in 1 .. Len(trades) : f[i] \in Nat
  BY <1>1, <1>4
<1>6. Filled(t) = SumFunctionOnSet(f, 1 .. Len(trades))
  BY <1>1 DEF Filled, SumFunction
<1> HIDE DEF f
<1> QED BY <1>2, <1>5, <1>6, SumNat

LEMMA FilledFill ==
  ASSUME TypeOK, Fill, NEW t
  PROVE  Filled(t)' = Filled(t) + (IF t \in {incoming.trader, FrontOrder.trader} THEN FillSize ELSE 0)
<1> DEFINE f == [i \in DOMAIN trades |->
                   IF t \in {trades[i].buyer, trades[i].seller} THEN trades[i].size ELSE 0]
           g == [i \in DOMAIN trades' |->
                   IF t \in {trades'[i].buyer, trades'[i].seller} THEN trades'[i].size ELSE 0]
           trade == [buyer  |-> IF incoming.side = "buy" THEN incoming.trader ELSE FrontOrder.trader,
                     seller |-> IF incoming.side = "buy" THEN FrontOrder.trader ELSE incoming.trader,
                     price  |-> FrontOrder.price, size |-> FillSize]
           n == Len(trades)
           S == 1 .. n
           k == n + 1
           Trade == [buyer : Traders, seller : Traders, price : Prices, size : Nat]
<1>1. trades \in Seq(Trade) /\ trades' \in Seq(Trade)
  BY FillEffect DEF TypeOK
<1>2. trades' = Append(trades, trade)
  BY FillEffect
<1>3. trade.size = FillSize /\ {trade.buyer, trade.seller} = {incoming.trader, FrontOrder.trader}
  OBVIOUS
<1> HIDE DEF trade
<1>4. n \in Nat /\ DOMAIN trades = S /\ DOMAIN trades' = S \cup {k} /\ k \notin S
      /\ trades'[k] = trade /\ \A i \in S : trades'[i] = trades[i]
  <2> HIDE DEF Trade
  <2> QED BY <1>1, <1>2
<1>5. IsFiniteSet(S)
  BY <1>4, FS_Interval
<1>6. \A i \in S : trades[i].size \in Nat
  <2>1. \A i \in S : trades[i] \in Trade
    <3> HIDE DEF Trade, S, f, g
    <3> QED BY <1>1, <1>4
  <2> QED BY <2>1
<1>7. FillSize \in Nat
  BY FillEffect
<1> HIDE DEF S, k
<1>8. DOMAIN f = S /\ DOMAIN g = S \cup {k} /\ \A i \in S : f[i] \in Int /\ g[i] = f[i]
  BY <1>4, <1>6
<1>9. g[k] = (IF t \in {incoming.trader, FrontOrder.trader} THEN FillSize ELSE 0) /\ g[k] \in Int
  BY <1>3, <1>4, <1>7
<1>10. Filled(t) = SumFunction(f) /\ Filled(t)' = SumFunction(g)
  BY DEF Filled
<1> HIDE DEF f, g
<1>11. SumFunction(g) = SumFunction(f) + g[k]
  BY <1>4, <1>5, <1>8, <1>9, SumExtend
<1> QED BY <1>9, <1>10, <1>11

LEMMA OnBookNat ==
  ASSUME TypeOK, NEW t \in Traders
  PROVE  /\ OnBook(t) \in Nat /\ orders[t].market \in Markets
         /\ \A m \in Markets, s \in Sides : SizeIn(book[m][s], t) \in Nat
<1>1. orders[t] \in Order
  BY DEF TypeOK
<1>2. orders[t].market \in Markets
  BY <1>1 DEF Order
<1>3. \A m \in Markets, s \in Sides : book[m][s] \in Seq(Taken)
  BY OrderTypes DEF TypeOK
<1>4. \A m \in Markets, s \in Sides : SizeIn(book[m][s], t) \in Nat
  BY <1>3, SizeInNat
<1> QED BY <1>2, <1>4 DEF OnBook, Sides

(* One queue of the book changes; a trader's part in it only when that is  *)
(* the market it trades.                                                   *)
LEMMA OnBookUpdate ==
  ASSUME TypeOK, orders' = orders, NEW t \in Traders,
         NEW m \in Markets, NEW s \in Sides, NEW q, NEW d \in Int,
         book' = [book EXCEPT ![m][s] = q],
         SizeIn(q, t) = SizeIn(book[m][s], t) + d,
         d # 0 => orders[t].market = m
  PROVE  OnBook(t)' = OnBook(t) + d
<1> DEFINE n == orders[t].market
           old(x) == SizeIn(book[n][x], t)
           new(x) == SizeIn(book'[n][x], t)
<1>1. n \in Markets
  BY OnBookNat
<1>2. old("buy") \in Nat /\ old("sell") \in Nat
  BY <1>1, OnBookNat DEF Sides
<1>3. OnBook(t) = old("buy") + old("sell") /\ OnBook(t)' = new("buy") + new("sell")
  BY DEF OnBook, SizeIn
<1>4. CASE n = m
  <2>1. \A x \in Sides : book'[n][x] = IF x = s THEN q ELSE book[n][x]
    BY <1>1, <1>4 DEF TypeOK
  <2>2. \A x \in Sides : new(x) = IF x = s THEN old(x) + d ELSE old(x)
    BY <1>4, <2>1
  <2>3. "buy" \in Sides /\ "sell" \in Sides /\ "buy" # "sell" /\ (s = "buy" \/ s = "sell")
    BY DEF Sides
  <2> HIDE DEF old, new
  <2> QED BY <1>2, <1>3, <2>2, <2>3
<1>5. CASE n # m
  <2>1. book'[n] = book[n] /\ d = 0
    BY <1>1, <1>5 DEF TypeOK
  <2>2. new("buy") = old("buy") /\ new("sell") = old("sell")
    BY <2>1
  <2> HIDE DEF old, new
  <2> QED BY <1>2, <1>3, <2>1, <2>2
<1> QED BY <1>4, <1>5

LEMMA InFlightNat == ASSUME TypeOK, NEW t PROVE InFlight(t) \in Nat
BY InHand DEF InFlight

IsTaken(t) == \E i \in 1 .. done : delivered[i].trader = t

LEMMA MatchInit == Init => MatchInv
<1> SUFFICES ASSUME Init PROVE MatchInv
  OBVIOUS
<1>1. incoming = NoOrder /\ trades = <<>> /\ done = 0 /\ TypeOK
  BY TypesInit DEF Init, MatcherInit
<1> SUFFICES ASSUME NEW t \in Traders
             PROVE  InFlight(t) + OnBook(t) + Filled(t)
                      = IF IsTaken(t) THEN orders[t].size ELSE 0
  BY <1>1 DEF MatchInv, IsTaken
<1>2. \A m \in Markets, s \in Sides : book[m][s] = <<>>
  BY DEF Init, MatcherInit
<1>3. SizeIn(<<>>, t) = 0
  <2>1. <<>> \in Seq(Taken) /\ \A i \in 1 .. Len(<<>>) : <<>>[i].trader # t
    OBVIOUS
  <2> QED BY <2>1, SizeInNone
<1>4. OnBook(t) = 0
  BY <1>1, <1>2, <1>3, OnBookNat DEF OnBook, Sides
<1>5. Filled(t) = 0
  BY <1>1, SumEmpty DEF Filled, SumFunction
<1> QED BY <1>1, <1>4, <1>5 DEF InFlight, IsTaken

LEMMA MatchSequence ==
  ASSUME TypeOK, MutexInv, MatchInv, Sequence
  PROVE  MatchInv'
<1>1. UNCHANGED <<orders, book, incoming, trades, done>>
  BY SubmittedEffect
<1>2. \A k \in 1 .. done : delivered'[k] = delivered[k]
  BY DeliveredEffect DEF TypeOK
<1>3. done > 0 => done \in 1 .. done
  BY DEF TypeOK
<1>4. \A t : /\ InFlight(t)' = InFlight(t) /\ OnBook(t)' = OnBook(t) /\ Filled(t)' = Filled(t)
             /\ IsTaken(t)' <=> IsTaken(t)
  BY <1>1, <1>2 DEF InFlight, OnBook, Filled, SizeIn, IsTaken
<1>5. \A t \in Traders : InFlight(t)' + OnBook(t)' + Filled(t)'
                           = IF IsTaken(t)' THEN orders'[t].size ELSE 0
  BY <1>1, <1>4 DEF MatchInv, IsTaken
<1> QED BY <1>1, <1>2, <1>3, <1>5 DEF MatchInv, IsTaken

LEMMA MatchProcessNext ==
  ASSUME TypeOK, SubmittedInv, MatchInv, ProcessNext
  PROVE  MatchInv'
<1> DEFINE k == done + 1
           u == delivered[k].trader
<1>1. /\ UNCHANGED <<orders, delivered, book, trades>>
      /\ incoming = NoOrder /\ incoming' = delivered[k] /\ done' = k
  BY DEF ProcessNext, StartMatch, sequencerVars
<1>2. k \in 1 .. Len(delivered) /\ done \in Nat /\ k > 0 /\ 1 .. k = (1 .. done) \cup {k}
      /\ \A i \in 1 .. done : i \in 1 .. Len(delivered) /\ i # k
  BY DEF TypeOK, ProcessNext
<1>3. delivered[k] \in Order /\ u \in Traders /\ delivered[k] = orders[u]
      /\ \A i \in 1 .. Len(delivered) : delivered[i].trader = u => i = k
  BY <1>2, Delivered
<1>4. delivered[k] # NoOrder
  BY <1>3, OrderTypes, OrderFlowAssumption
<1>5. delivered[k] = [delivered[k] EXCEPT !.size = delivered[k].size]
  BY <1>3 DEF Order
<1>6. ASSUME NEW t \in Traders
      PROVE  InFlight(t)' + OnBook(t)' + Filled(t)'
               = IF IsTaken(t)' THEN orders'[t].size ELSE 0
  <2>1. OnBook(t)' = OnBook(t) /\ Filled(t)' = Filled(t)
    BY <1>1 DEF OnBook, Filled, SizeIn
  <2>2. InFlight(t) = 0 /\ InFlight(t)' = IF t = u THEN orders[u].size ELSE 0
    BY <1>1, <1>3, <1>4 DEF InFlight
  <2>3. IsTaken(t)' <=> (IsTaken(t) \/ t = u)
    BY <1>1, <1>2 DEF IsTaken
  <2>4. t = u => ~ IsTaken(t)
    BY <1>2, <1>3 DEF IsTaken
  <2>5. InFlight(t) + OnBook(t) + Filled(t) = IF IsTaken(t) THEN orders[t].size ELSE 0
    BY DEF MatchInv, IsTaken
  <2>6. OnBook(t) \in Nat /\ Filled(t) \in Nat
    BY OnBookNat, FilledNat
  <2>7. orders[u].size \in Nat /\ orders' = orders
    BY <1>1, <1>3, OrderFlowAssumption DEF Order
  <2> HIDE DEF u
  <2>8. CASE t = u
    <3>1. OnBook(t) + Filled(t) = 0
      BY <2>2, <2>4, <2>5, <2>6, <2>8
    <3>2. InFlight(t)' = orders'[t].size /\ IsTaken(t)' /\ orders'[t].size \in Nat
      BY <2>2, <2>3, <2>7, <2>8
    <3> QED BY <2>1, <2>6, <3>1, <3>2
  <2>9. CASE t # u
    BY <2>1, <2>2, <2>3, <2>5, <2>6, <2>7, <2>9
  <2> QED BY <2>8, <2>9
<1> QED BY <1>1, <1>2, <1>5, <1>6 DEF MatchInv, IsTaken

(* The resting order met first is another trader's. *)
LEMMA FrontIs ==
  ASSUME TypeOK, SubmittedInv, BookInv, MatchInv, Fill
  PROVE  /\ FrontOrder.trader # incoming.trader /\ incoming.trader \in Traders
         /\ orders[FrontOrder.trader].market = incoming.market
         /\ orders[incoming.trader].market = incoming.market
<1> DEFINE m == incoming.market
           s == Opposite(incoming.side)
<1>1. incoming # NoOrder /\ m \in Markets /\ s \in Sides
      /\ OtherSide(incoming) = book[m][s] /\ book[m][s] \in Seq(Resting) /\ book[m][s] # <<>>
      /\ incoming.trader \in Traders
  BY FillEffect, InHand
<1>2. 1 \in DOMAIN book[m][s] /\ FrontOrder = book[m][s][1]
  BY <1>1 DEF FrontOrder
<1> HIDE DEF m, s
<1>3. Arrival(FrontOrder.trader) < done /\ Arrival(FrontOrder.trader) \in 1 .. done
      /\ orders[FrontOrder.trader].market = m
  BY <1>1, <1>2, RestingArrival
<1>4. Arrival(incoming.trader) = done /\ delivered[done].market = incoming.market
      /\ delivered[done] = orders[incoming.trader]
  BY <1>1, IncomingIs
<1>5. FrontOrder.trader # incoming.trader
  BY <1>3, <1>4
<1> QED BY <1>1, <1>3, <1>4, <1>5 DEF m

LEMMA MatchFill ==
  ASSUME TypeOK, SubmittedInv, BookInv, MatchInv, Fill, UNCHANGED <<sequencerVars, done>>
  PROVE  MatchInv'
<1>1. UNCHANGED <<orders, delivered, done>>
  BY DEF sequencerVars
<1>2. /\ incoming # NoOrder /\ incoming' \in Taken /\ incoming \in Taken
      /\ incoming' = [incoming EXCEPT !.size = incoming.size - FillSize]
      /\ FillSize \in Nat /\ incoming.size \in Nat
  BY FillEffect, InHand
<1>3. incoming' # NoOrder /\ incoming'.trader = incoming.trader
      /\ incoming'.size = incoming.size - FillSize
  BY <1>2, OrderFlowAssumption DEF Taken
<1>4. done > 0 /\ incoming' = [delivered[done] EXCEPT !.size = incoming'.size]
  <2>1. done > 0 /\ incoming = [delivered[done] EXCEPT !.size = incoming.size]
    BY <1>2 DEF MatchInv
  <2>2. delivered[done] \in Order
    BY <2>1 DEF TypeOK
  <2> QED BY <1>2, <1>3, <2>1, <2>2 DEF Order, Taken
<1>5. ASSUME NEW t \in Traders
      PROVE  InFlight(t)' + OnBook(t)' + Filled(t)'
               = IF IsTaken(t)' THEN orders'[t].size ELSE 0
  <2> DEFINE q == TakeFromFront(OtherSide(incoming), FillSize)
             m == incoming.market
             s == Opposite(incoming.side)
             d == IF FrontOrder.trader = t THEN -FillSize ELSE 0
             e == IF incoming.trader = t THEN FillSize ELSE 0
  <2>1. m \in Markets /\ s \in Sides /\ d \in Int /\ book' = [book EXCEPT ![m][s] = q]
        /\ OtherSide(incoming) = book[m][s]
    BY <1>2, FillEffect, InHand
  <2>2. SizeIn(q, t) = SizeIn(book[m][s], t) + d
    <3> DEFINE b == book[m][s]
    <3>1. b \in Seq(Taken) /\ b # <<>> /\ FillSize <= Head(b).size /\ Head(b) = FrontOrder
      BY <2>1, FillEffect, InHand, OrderTypes DEF FrontOrder
    <3>2. SizeIn(b, t) \in Nat
      BY <3>1, SizeInNat
    <3>3. SizeIn(q, t) = SizeIn(b, t) - (IF FrontOrder.trader = t THEN FillSize ELSE 0)
      BY <1>2, <2>1, <3>1, SizeInFront
    <3> HIDE DEF b, q
    <3> QED BY <1>2, <3>2, <3>3 DEF b
  <2>3. d # 0 => orders[t].market = m
    BY FrontIs
  <2> HIDE DEF q, m, s, d
  <2>4. OnBook(t)' = OnBook(t) + d
    BY <1>1, <2>1, <2>2, <2>3, OnBookUpdate
  <2>5. InFlight(t)' = InFlight(t) - e
    BY <1>2, <1>3 DEF InFlight
  <2>6. Filled(t)' = Filled(t) + (e - d)
    <3>1. Filled(t)' = Filled(t) + (IF t \in {incoming.trader, FrontOrder.trader} THEN FillSize ELSE 0)
      BY FilledFill
    <3>2. e - d = IF t \in {incoming.trader, FrontOrder.trader} THEN FillSize ELSE 0
      BY <1>2, FrontIs DEF d
    <3> QED BY <3>1, <3>2
  <2>7. e \in Int /\ InFlight(t) \in Nat /\ OnBook(t) \in Nat /\ Filled(t) \in Nat
    BY <1>2, InFlightNat, OnBookNat, FilledNat
  <2>8. InFlight(t)' + OnBook(t)' + Filled(t)' = InFlight(t) + OnBook(t) + Filled(t)
    <3> HIDE DEF e
    <3> QED BY <2>1, <2>4, <2>5, <2>6, <2>7
  <2>9. IsTaken(t)' <=> IsTaken(t)
    BY <1>1 DEF IsTaken
  <2> QED BY <1>1, <2>8, <2>9 DEF MatchInv, IsTaken
<1> QED BY <1>1, <1>4, <1>5 DEF MatchInv, IsTaken

LEMMA MatchRest ==
  ASSUME TypeOK, SubmittedInv, MatchInv, Rest, UNCHANGED <<sequencerVars, done>>
  PROVE  MatchInv'
<1>1. UNCHANGED <<orders, delivered, done, trades>> /\ incoming' = NoOrder /\ incoming # NoOrder
  BY DEF sequencerVars, Rest
<1>2. incoming \in Taken /\ incoming.size \in Nat /\ incoming.market \in Markets
      /\ incoming.side \in Sides
  BY <1>1, InHand
<1>3. ASSUME NEW t \in Traders
      PROVE  InFlight(t)' + OnBook(t)' + Filled(t)'
               = IF IsTaken(t)' THEN orders'[t].size ELSE 0
  <2> DEFINE d == IF incoming.trader = t THEN incoming.size ELSE 0
  <2>1. d \in Int /\ InFlight(t) = d /\ InFlight(t)' = 0
    BY <1>1, <1>2 DEF InFlight
  <2>2. OnBook(t)' = OnBook(t) + d
    <3>1. CASE incoming.size > 0
      <4> DEFINE m == incoming.market
                 s == incoming.side
                 q == Append(book[m][s], incoming)
      <4>1. book' = [book EXCEPT ![m][s] = q]
        BY <3>1 DEF Rest
      <4>2. SizeIn(q, t) = SizeIn(book[m][s], t) + d
        <5>1. book[m][s] \in Seq(Taken)
          BY <1>2, OrderTypes DEF TypeOK
        <5> QED BY <1>2, <5>1, SizeInAppend
      <4>3. d # 0 => orders[t].market = m
        BY <1>1, IncomingIs
      <4>4. m \in Markets /\ s \in Sides
        BY <1>2
      <4> HIDE DEF m, s, q, d
      <4> QED BY <1>1, <2>1, <4>1, <4>2, <4>3, <4>4, OnBookUpdate
    <3>2. CASE ~(incoming.size > 0)
      <4>1. book' = book /\ d = 0
        BY <1>2, <3>2 DEF Rest
      <4>2. OnBook(t)' = OnBook(t)
        BY <1>1, <4>1 DEF OnBook, SizeIn
      <4> QED BY <4>1, <4>2, OnBookNat
    <3> QED BY <3>1, <3>2
  <2>3. Filled(t)' = Filled(t) /\ (IsTaken(t)' <=> IsTaken(t))
    BY <1>1 DEF Filled, IsTaken
  <2>4. OnBook(t) \in Nat /\ Filled(t) \in Nat
    BY OnBookNat, FilledNat
  <2>5. InFlight(t)' + OnBook(t)' + Filled(t)' = InFlight(t) + OnBook(t) + Filled(t)
    <3> HIDE DEF d
    <3> QED BY <2>1, <2>2, <2>3, <2>4
  <2> QED BY <1>1, <2>3, <2>5 DEF MatchInv, IsTaken
<1> QED BY <1>1, <1>3 DEF MatchInv, IsTaken

(***************************************************************************)
(* The theorems.                                                           *)
(***************************************************************************)
LEMMA SequencerRests ==
  ASSUME MutexInv, SubmittedInv, UNCHANGED sequencerVars
  PROVE  MutexInv' /\ SubmittedInv'
BY DEF sequencerVars, MutexInv, SubmittedInv, Submitted

LEMMA FlowInit == Init => FlowInv
BY TypesInit, MutexInit, SubmittedInit, BookInit, MatchInit DEF FlowInv

LEMMA FlowStep == FlowInv /\ [Next]_vars => FlowInv'
<1> SUFFICES ASSUME FlowInv, [Next]_vars PROVE FlowInv'
  OBVIOUS
<1> USE DEF FlowInv
<1>1. CASE Sequence
  BY <1>1, TypesSequence, MutexSequence, SubmittedSequence, BookSequence, MatchSequence
<1>2. CASE ProcessNext
  <2>1. UNCHANGED sequencerVars
    BY <1>2 DEF ProcessNext
  <2> QED BY <1>2, <2>1, SequencerRests, TypesProcessNext, BookProcessNext, MatchProcessNext
<1>3. CASE Fill /\ UNCHANGED <<sequencerVars, done>>
  <2>1. UNCHANGED sequencerVars
    BY <1>3
  <2> QED BY <1>3, <2>1, SequencerRests, TypesFill, BookFill, MatchFill
<1>4. CASE Rest /\ UNCHANGED <<sequencerVars, done>>
  <2>1. UNCHANGED sequencerVars
    BY <1>4
  <2> QED BY <1>4, <2>1, SequencerRests, TypesRest, BookRest, MatchRest
<1>5. CASE UNCHANGED vars
  <2>1. UNCHANGED sequencerVars
    BY <1>5 DEF vars
  <2>2. MutexInv' /\ SubmittedInv'
    BY <2>1, SequencerRests
  <2>3. TypeOK'
    BY <1>5 DEF TypeOK, vars, sequencerVars, matcherVars
  <2>4. BookInv'
    BY <1>5 DEF BookInv, Arrival, vars, sequencerVars, matcherVars
  <2>5. MatchInv'
    BY <1>5 DEF MatchInv, InFlight, OnBook, Filled, SizeIn, vars, sequencerVars, matcherVars
  <2> QED BY <2>2, <2>3, <2>4, <2>5
<1> QED BY <1>1, <1>2, <1>3, <1>4, <1>5 DEF Next, Match

(* SubmitOrder and BuildBlock under the mutex, processBlock and match: in   *)
(* every reachable state the mutex has one holder whose reading of the     *)
(* mempool is current, every submitted order is in the sequencer's output  *)
(* once, the queues are in order of arrival and the matcher accounts for   *)
(* all it has taken.                                                       *)
THEOREM FlowIsOrderly == Spec => []FlowInv
<1>1. Init => FlowInv
  BY FlowInit
<1>2. FlowInv /\ [Next]_vars => FlowInv'
  BY FlowStep
<1> QED BY <1>1, <1>2, PTL DEF Spec

(* SubmitOrder, BuildBlock and match keep every variable's type: what a fill *)
(* leaves is a natural number, and no order of size zero rests on a book.   *)
THEOREM OrderFlowTypes == Spec => []TypeOK
<1>1. FlowInv => TypeOK
  BY DEF FlowInv
<1> QED BY <1>1, FlowIsOrderly, PTL

(* Where a trader's order is, it is alone, so a queue has its size or none *)
(* of it.                                                                  *)
LEMMA FlowConserves == FlowInv => QuantityConserved
<1> SUFFICES ASSUME FlowInv, NEW t \in Traders
             PROVE  SizeIn(mempool, t) + SizeIn(SubSeq(delivered, done + 1, Len(delivered)), t)
                      + InFlight(t) + OnBook(t) + Filled(t)
                      = IF pc[t] = "returned" THEN orders[t].size ELSE 0
  BY DEF QuantityConserved
<1> USE DEF FlowInv
<1> DEFINE n == Len(delivered)
           l == Len(mempool)
           behind == SubSeq(delivered, done + 1, n)
           have == InFlight(t) + OnBook(t) + Filled(t)
           size == orders[t].size
<1>1. n \in Nat /\ l \in Nat /\ done \in Nat /\ done <= n
      /\ mempool \in Seq(Taken) /\ delivered \in Seq(Taken)
  BY OrderTypes DEF TypeOK
<1>2. behind \in Seq(Taken) /\ Len(behind) = n - done
      /\ \A i \in 1 .. n - done : behind[i] = delivered[done + i]
  BY <1>1
<1>3. InFlight(t) \in Nat /\ OnBook(t) \in Nat /\ Filled(t) \in Nat
  BY InFlightNat, OnBookNat, FilledNat
<1>4. have = IF \E i \in 1 .. done : delivered[i].trader = t THEN size ELSE 0
  BY DEF MatchInv
<1>5. size \in Nat
  BY OrderFlowAssumption DEF TypeOK, Order
<1>6. SizeIn(mempool, t) \in Nat /\ SizeIn(behind, t) \in Nat
  BY <1>1, <1>2, SizeInNat
<1>7. /\ DOMAIN Submitted = 1 .. n + l
      /\ \A i \in 1 .. n : Submitted[i] = delivered[i]
      /\ \A i \in 1 .. l : Submitted[n + i] = mempool[i]
  BY SubmittedIs
<1>8. /\ pc[t] = "returned" <=> \E i \in 1 .. n + l : Submitted[i].trader = t
      /\ \A i \in 1 .. n + l : Submitted[i].trader = t => Submitted[i] = orders[t]
      /\ \A i, j \in 1 .. n + l : Submitted[i].trader = t /\ Submitted[j].trader = t => i = j
  BY <1>7 DEF SubmittedInv
<1> HIDE DEF behind, n, l, FlowInv
<1>9. /\ \A i \in 1 .. l : n + i \in 1 .. n + l /\ n + i > n
      /\ \A i \in 1 .. n - done : done + i \in 1 .. n /\ done + i \in 1 .. n + l /\ done + i > done
      /\ \A i \in 1 .. done : i \in 1 .. n
      /\ \A i \in 1 .. n : i \in 1 .. n + l /\ i <= n
  BY <1>1
<1>10. SizeIn(mempool, t) + SizeIn(behind, t) + have = IF pc[t] = "returned" THEN size ELSE 0
  <2>1. ASSUME NEW k \in 1 .. n + l, Submitted[k].trader = t
        PROVE  SizeIn(mempool, t) + SizeIn(behind, t) + have = size
    <3>1. \A i \in 1 .. n + l : Submitted[i].trader = t => i = k
      BY <1>8, <2>1
    <3>2. Submitted[k].size = size
      BY <1>8, <2>1
    <3>3. CASE k \in 1 .. done
      <4>1. have = size
        BY <1>4, <1>7, <1>9, <2>1, <3>3
      <4>2. SizeIn(mempool, t) = 0
        <5>1. \A i \in 1 .. l : mempool[i].trader # t
          BY <1>1, <1>7, <1>9, <3>1, <3>3
        <5> QED BY <1>1, <5>1, SizeInNone DEF l
      <4>3. SizeIn(behind, t) = 0
        <5>1. \A i \in 1 .. n - done : behind[i].trader # t
          BY <1>1, <1>2, <1>7, <1>9, <3>1, <3>3
        <5> QED BY <1>2, <5>1, SizeInNone
      <4> QED BY <1>5, <4>1, <4>2, <4>3
    <3>4. CASE k \in done + 1 .. n
      <4>1. have = 0
        BY <1>1, <1>4, <1>7, <1>9, <3>1, <3>4
      <4>2. SizeIn(mempool, t) = 0
        <5>1. \A i \in 1 .. l : mempool[i].trader # t
          BY <1>1, <1>7, <1>9, <3>1, <3>4
        <5> QED BY <1>1, <5>1, SizeInNone DEF l
      <4>3. SizeIn(behind, t) = size
        <5> DEFINE x == k - done
        <5>1. x \in 1 .. n - done /\ done + x = k /\ k \in 1 .. n
          BY <1>1, <3>4
        <5> HIDE DEF x
        <5>2. behind[x] = Submitted[k]
          BY <1>2, <1>7, <5>1
        <5>3. \A i \in 1 .. n - done : behind[i].trader = t => i = x
          <6> SUFFICES ASSUME NEW i \in 1 .. n - done, behind[i].trader = t PROVE i = x
            OBVIOUS
          <6>1. done + i = k
            BY <1>2, <1>7, <1>9, <3>1
          <6> QED BY <1>1, <5>1, <6>1
        <5> QED BY <1>2, <2>1, <3>2, <5>1, <5>2, <5>3, SizeInOne
      <4> QED BY <1>5, <4>1, <4>2, <4>3
    <3>5. CASE k \in n + 1 .. n + l
      <4>1. have = 0
        BY <1>1, <1>4, <1>7, <1>9, <3>1, <3>5
      <4>2. SizeIn(mempool, t) = size
        <5> DEFINE x == k - n
        <5>1. x \in 1 .. l /\ n + x = k
          BY <1>1, <3>5
        <5> HIDE DEF x
        <5>2. mempool[x] = Submitted[k]
          BY <1>7, <5>1
        <5>3. \A i \in 1 .. l : mempool[i].trader = t => i = x
          <6> SUFFICES ASSUME NEW i \in 1 .. l, mempool[i].trader = t PROVE i = x
            OBVIOUS
          <6>1. n + i = k
            BY <1>7, <1>9, <3>1
          <6> QED BY <1>1, <5>1, <6>1
        <5> QED BY <1>1, <2>1, <3>2, <5>1, <5>2, <5>3, SizeInOne DEF l
      <4>3. SizeIn(behind, t) = 0
        <5>1. \A i \in 1 .. n - done : behind[i].trader # t
          BY <1>1, <1>2, <1>7, <1>9, <3>1, <3>5
        <5> QED BY <1>2, <5>1, SizeInNone
      <4> QED BY <1>5, <4>1, <4>2, <4>3
    <3>6. k \in 1 .. done \/ k \in done + 1 .. n \/ k \in n + 1 .. n + l
      BY <1>1
    <3> QED BY <3>3, <3>4, <3>5, <3>6
  <2>2. ASSUME \A i \in 1 .. n + l : Submitted[i].trader # t
        PROVE  SizeIn(mempool, t) + SizeIn(behind, t) + have = 0
    <3>1. have = 0
      BY <1>4, <1>7, <1>9, <2>2
    <3>2. SizeIn(mempool, t) = 0
      <4>1. \A i \in 1 .. l : mempool[i].trader # t
        BY <1>7, <1>9, <2>2
      <4> QED BY <1>1, <4>1, SizeInNone DEF l
    <3>3. SizeIn(behind, t) = 0
      <4>1. \A i \in 1 .. n - done : behind[i].trader # t
        BY <1>2, <1>7, <1>9, <2>2
      <4> QED BY <1>2, <4>1, SizeInNone
    <3> QED BY <3>1, <3>2, <3>3
  <2> QED BY <1>8, <2>1, <2>2
<1>11. SizeIn(mempool, t) + SizeIn(behind, t) + have
         = SizeIn(mempool, t) + SizeIn(behind, t) + InFlight(t) + OnBook(t) + Filled(t)
  BY <1>3, <1>6
<1> QED BY <1>10, <1>11 DEF behind, n

(* However SubmitOrder, BuildBlock and match interleave, a submitted size  *)
(* is in one place, whole: no order is lost between a reading of the       *)
(* mempool and its writing, none is matched twice.                         *)
THEOREM NothingIsLost == Spec => []QuantityConserved
BY FlowIsOrderly, FlowConserves, PTL

LEMMA FillKeepsPriority ==
  ASSUME FlowInv, Fill
  PROVE  LET maker == Maker(Last(trades'))
         IN  \A i \in DOMAIN OtherSide(incoming) :
               Arrival(maker) <= Arrival(OtherSide(incoming)[i].trader)
<1> USE DEF FlowInv
<1> DEFINE q == OtherSide(incoming)
           m == incoming.market
           s == Opposite(incoming.side)
<1>1. m \in Markets /\ s \in Sides /\ q = book[m][s] /\ q \in Seq(Resting) /\ q # <<>>
  BY FillEffect, InHand
<1>2. DOMAIN q = 1 .. Len(q) /\ 1 \in DOMAIN q /\ FrontOrder = q[1]
  BY <1>1 DEF FrontOrder
<1>3. Maker(Last(trades')) = FrontOrder.trader
  <2>1. FrontOrder.trader # incoming.trader
    BY FrontIs
  <2>2. Last(trades').buyer = (IF incoming.side = "buy" THEN incoming.trader ELSE FrontOrder.trader)
        /\ Last(trades').seller = (IF incoming.side = "buy" THEN FrontOrder.trader ELSE incoming.trader)
    BY FillEffect
  <2> QED BY <2>1, <2>2 DEF Maker
<1> HIDE DEF q, m, s
<1>4. \A i \in DOMAIN q : Arrival(q[i].trader) \in Nat
  BY <1>1, RestingArrival DEF TypeOK
<1>5. \A i \in DOMAIN q : 1 < i => Arrival(q[1].trader) < Arrival(q[i].trader)
  BY <1>1, <1>2 DEF BookInv
<1>6. ASSUME NEW i \in DOMAIN q
      PROVE  Arrival(FrontOrder.trader) <= Arrival(q[i].trader)
  <2>1. CASE i = 1
    BY <1>2, <1>4, <2>1
  <2>2. CASE i # 1
    BY <1>2, <1>4, <1>5, <2>2
  <2> QED BY <2>1, <2>2
<1> QED BY <1>3, <1>6 DEF q

(* match fills the front of the other side, and of the orders at its price *)
(* that is the one that reached the matcher first: blocks, however cut,    *)
(* and partial fills never let a later order at the same price overtake it. *)
THEOREM FillsInArrivalOrder == Spec => FilledInArrivalOrder
<1> DEFINE A == trades' # trades =>
                  LET trade == Last(trades')
                  IN  \A i \in DOMAIN OtherSide(incoming) :
                        LET resting == OtherSide(incoming)[i]
                        IN  resting.price = trade.price
                              => Arrival(Maker(trade)) <= Arrival(resting.trader)
<1>1. FlowInv /\ [Next]_vars => [A]_vars
  <2> SUFFICES ASSUME FlowInv, [Next]_vars, trades' # trades PROVE Fill
    BY FillKeepsPriority
  <2> QED BY SubmittedEffect DEF Next, Match, Sequence, ProcessNext, StartMatch, Rest, vars, matcherVars
<1>2. [][A]_vars => FilledInArrivalOrder
  BY PTL DEF FilledInArrivalOrder
<1> QED BY <1>1, <1>2, FlowIsOrderly, PTL DEF Spec
=============================================================================
