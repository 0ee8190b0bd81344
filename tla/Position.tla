------------------------------ MODULE Position -----------------------------
(***************************************************************************)
(* x/position: at most one position per address and market.  Size is       *)
(* positive for a long and negative for a short.  The same weighted        *)
(* average serves increases, reductions and flips, and a position whose    *)
(* size reaches zero is deleted together with its margin.                  *)
(***************************************************************************)
EXTENDS Funding

CONSTANT Dust       \* LegacyNewDecWithPrec(1, 8): 1e-8

ASSUME DustAssumption == Dust \in Nat

VARIABLE positions  \* address -> market -> position, NoEntry or Blank

PositionRecord == [size : Int, avg : Int, margin : Int, lastCum : Int]

(* What marks an entry is not itself a position. *)
ASSUME EntryAssumption == NoEntry \notin PositionRecord /\ Blank \notin PositionRecord

PositionTypeOK ==
  positions \in [Addrs -> [Markets -> PositionRecord \cup {NoEntry, Blank}]]

PositionInit == positions = [a \in Addrs |-> [m \in Markets |-> NoEntry]]

HasPosition(a, m) == positions[a][m] # NoEntry

(* The markets of GetPositions(a). *)
OpenMarkets(a) == {m \in Markets : HasPosition(a, m)}

SetPosition(a, m, p) == positions' = [positions EXCEPT ![a][m] = Stored(p)]

DeletePosition(a, m) == positions' = [positions EXCEPT ![a][m] = NoEntry]

(* Mutated form: weights taken without their sign. *)
AvgEntryPriceUnsigned(old, size, price) ==
  Quo(Mul(Abs(old.size), old.avg) + Mul(Abs(size), price), Abs(old.size) + Abs(size))

AvgEntryPrice(old, size, price) ==
  Quo(Mul(old.size, old.avg) + Mul(size, price), old.size + size)

OpenPosition(a, m, size, price, margin, cum) ==
  LET old == positions[a][m]
  IN  \/ /\ ~HasPosition(a, m)
         /\ SetPosition(a, m, [size |-> size, avg |-> price, margin |-> margin, lastCum |-> cum])
      \/ /\ HasPosition(a, m)
         /\ old.size + size = 0
         /\ DeletePosition(a, m)
      \/ /\ HasPosition(a, m)
         /\ old.size + size # 0
         /\ SetPosition(a, m, [size    |-> old.size + size,
                               avg     |-> AvgEntryPrice(old, size, price),
                               margin  |-> old.margin + margin,
                               lastCum |-> cum])

(* Mutated form: the side is lost. *)
ReducedSizeUnsigned(size, reduceBy) == Mul(Abs(size), One - reduceBy)

(* What ReducePosition leaves of a size. *)
ReducedSize(size, reduceBy) == Mul(size, One - reduceBy)

ReducePosition(a, m, reduceBy) ==
  LET size == ReducedSize(positions[a][m].size, reduceBy)
  IN  /\ HasPosition(a, m)
      /\ \/ Abs(size) <= Dust /\ DeletePosition(a, m)
         \/ Abs(size) > Dust /\ SetPosition(a, m, [positions[a][m] EXCEPT !.size = size])
=============================================================================
