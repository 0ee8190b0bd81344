---------------------------- MODULE SumTheorems ----------------------------
(***************************************************************************)
(* Induction over finite sets and natural numbers, and from it the laws of *)
(* the sums the chain, the ledger and the order flow are conserved by.     *)
(*                                                                         *)
(* The library states induction with an operator parameter, which the      *)
(* provers cannot instantiate.  Here the predicate is a set, the set of    *)
(* what has it, so that a proof by induction is a first-order step: the    *)
(* smallest counterexample comes from the well-foundedness of strict       *)
(* inclusion.                                                              *)
(***************************************************************************)
EXTENDS Integers, FiniteSets, Functions, FiniteSetTheorems, TLAPS

(* What the empty set has, and a set has when all the sets with one element *)
(* less have it, every finite set has.                                     *)
LEMMA SubsetInduction ==
  ASSUME NEW D, IsFiniteSet(D), NEW P, {} \in P,
         \A s \in SUBSET D : s # {} /\ (\A x \in s : s \ {x} \in P) => s \in P
  PROVE  SUBSET D \subseteq P
<1> DEFINE T == {s \in SUBSET D : s \notin P}
<1> SUFFICES ASSUME T # {} PROVE FALSE
  OBVIOUS
<1>1. T \subseteq FiniteSubsetsOf(D)
  BY FS_Subset DEF FiniteSubsetsOf
<1>2. IsWellFoundedOn(StrictSubsetOrdering(D), FiniteSubsetsOf(D))
  BY FS_StrictSubsetOrderingWellFounded
<1> HIDE DEF T
<1>3. PICK s \in T : \A t \in T : <<t, s>> \notin StrictSubsetOrdering(D)
  BY <1>1, <1>2, WFMin
<1> USE DEF T
<1>4. PICK x \in s : s \ {x} \notin P
  OBVIOUS
<1>5. s \ {x} \in T
  BY <1>4
<1>6. <<s \ {x}, s>> \in StrictSubsetOrdering(D)
  BY <1>4, <1>5 DEF StrictSubsetOrdering
<1> QED BY <1>3, <1>5, <1>6

LEMMA NaturalInduction ==
  ASSUME NEW S, 0 \in S, \A n \in Nat : n \in S => n + 1 \in S
  PROVE  Nat \subseteq S
<1> SUFFICES ASSUME NEW m \in Nat PROVE m \in S
  OBVIOUS
<1> DEFINE D == 1 .. m
           P == {s \in SUBSET D : Cardinality(s) \in S}
<1>1. IsFiniteSet(D) /\ Cardinality(D) = m
  BY FS_Interval
<1> HIDE DEF D
<1>2. {} \in P
  BY FS_EmptySet
<1>3. ASSUME NEW s \in SUBSET D, s # {}, \A x \in s : s \ {x} \in P
      PROVE  s \in P
  <2>1. PICK x \in s : TRUE
    BY <1>3
  <2>2. IsFiniteSet(s) /\ Cardinality(s) \in Nat
    BY <1>1, FS_Subset, FS_CardinalityType
  <2>3. IsFiniteSet(s \ {x}) /\ Cardinality(s \ {x}) = Cardinality(s) - 1
    BY <2>2, FS_RemoveElement
  <2>4. Cardinality(s \ {x}) \in Nat
    BY <2>3, FS_CardinalityType
  <2>5. Cardinality(s \ {x}) \in S
    BY <1>3
  <2>6. Cardinality(s \ {x}) + 1 \in S
    BY <2>4, <2>5
  <2> QED BY <2>2, <2>3, <2>6
<1> HIDE DEF P
<1>4. SUBSET D \subseteq P
  BY <1>1, <1>2, <1>3, SubsetInduction
<1>5. D \in P
  BY <1>4
<1> QED BY <1>1, <1>5 DEF P

(* g adds up f over every subset of D, taking the elements in the order of  *)
(* CHOOSE: the recursion behind SumFunctionOnSet.                          *)
Adds(g, f, D) ==
  g = [s \in SUBSET D |->
         IF s = {} THEN 0
         ELSE f[CHOOSE x \in s : TRUE] + g[s \ {CHOOSE x \in s : TRUE}]]

LEMMA SumRecursion ==
  ASSUME NEW f, NEW D
  PROVE  SumFunctionOnSet(f, D) = (CHOOSE g : Adds(g, f, D))[D]
BY DEF SumFunctionOnSet, FoldFunctionOnSet, MapThenFoldSet, Adds

LEMMA AddsExists ==
  ASSUME NEW f, NEW D, IsFiniteSet(D)
  PROVE  \E g : Adds(g, f, D)
<1> DEFINE chosen(s) == CHOOSE x \in s : TRUE
           Small(n) == {s \in SUBSET D : Cardinality(s) <= n}
           step(g, s) == IF s = {} THEN 0 ELSE f[chosen(s)] + g[s \ {chosen(s)}]
           S == {n \in Nat : \E g : g = [s \in Small(n) |-> step(g, s)]}
<1>1. \A s \in SUBSET D : IsFiniteSet(s) /\ Cardinality(s) \in Nat
  BY FS_Subset, FS_CardinalityType
<1>2. \A s \in SUBSET D : s # {} =>
        /\ chosen(s) \in s
        /\ s \ {chosen(s)} \in SUBSET D
        /\ Cardinality(s \ {chosen(s)}) = Cardinality(s) - 1
  BY <1>1, FS_RemoveElement
<1> HIDE DEF chosen
<1>3. 0 \in S
  <2> DEFINE g == [s \in Small(0) |-> 0]
  <2>1. \A s \in Small(0) : s = {}
    BY <1>1, FS_EmptySet
  <2>2. g = [s \in Small(0) |-> step(g, s)]
    BY <2>1
  <2> HIDE DEF g
  <2> QED BY <2>2
<1>4. ASSUME NEW n \in Nat, n \in S
      PROVE  n + 1 \in S
  <2>1. PICK g : g = [s \in Small(n) |-> step(g, s)]
    BY <1>4
  <2> DEFINE h == [s \in Small(n + 1) |-> IF s \in Small(n) THEN g[s] ELSE step(g, s)]
  <2>2. \A s \in Small(n + 1) : s # {} => s \ {chosen(s)} \in Small(n) /\ s \ {chosen(s)} \in Small(n + 1)
    BY <1>1, <1>2
  <2>3. \A s \in Small(n + 1) : s # {} => h[s \ {chosen(s)}] = g[s \ {chosen(s)}]
    <3>1. \A t \in Small(n + 1) : t \in Small(n) => h[t] = g[t]
      OBVIOUS
    <3> HIDE DEF h, Small
    <3> QED BY <2>2, <3>1
  <2>4. \A s \in Small(n + 1) : step(h, s) = step(g, s)
    <3> HIDE DEF h, Small
    <3> QED BY <2>3
  <2>5. \A s \in Small(n) : g[s] = step(g, s)
    BY <2>1
  <2>6. h = [s \in Small(n + 1) |-> step(h, s)]
    <3>1. \A s \in Small(n + 1) : h[s] = step(h, s)
      BY <2>4, <2>5
    <3> HIDE DEF step, Small
    <3> QED BY <3>1
  <2>7. n + 1 \in Nat
    OBVIOUS
  <2> HIDE DEF h, Small, step
  <2> QED BY <2>6, <2>7
<1> HIDE DEF S
<1>5. Nat \subseteq S
  BY <1>3, <1>4, NaturalInduction
<1>6. Cardinality(D) \in Nat /\ Cardinality(D) \in S
  BY <1>5, FS_CardinalityType
<1>7. Small(Cardinality(D)) = SUBSET D
  BY <1>6, FS_Subset
<1>8. PICK g : g = [s \in SUBSET D |-> step(g, s)]
  BY <1>6, <1>7 DEF S
<1>9. Adds(g, f, D)
  BY <1>8 DEF Adds, chosen
<1> QED BY <1>9

(* A sum depends only on the summands. *)
LEMMA AddsSame ==
  ASSUME NEW f, NEW D, NEW g, Adds(g, f, D),
         NEW e, NEW E, NEW h, Adds(h, e, E),
         NEW S, IsFiniteSet(S), S \subseteq D, S \subseteq E, \A x \in S : f[x] = e[x]
  PROVE  g[S] = h[S]
<1> DEFINE chosen(s) == CHOOSE x \in s : TRUE
           P == {s \in SUBSET S : g[s] = h[s]}
<1>1. \A s \in SUBSET S :
        /\ g[s] = IF s = {} THEN 0 ELSE f[chosen(s)] + g[s \ {chosen(s)}]
        /\ h[s] = IF s = {} THEN 0 ELSE e[chosen(s)] + h[s \ {chosen(s)}]
  BY DEF Adds
<1>2. \A s : s # {} => chosen(s) \in s
  OBVIOUS
<1> HIDE DEF chosen
<1>3. {} \in P
  BY <1>1
<1>4. ASSUME NEW s \in SUBSET S, s # {}, \A x \in s : s \ {x} \in P
      PROVE  s \in P
  <2>1. chosen(s) \in s /\ f[chosen(s)] = e[chosen(s)]
    BY <1>2, <1>4
  <2>2. g[s \ {chosen(s)}] = h[s \ {chosen(s)}]
    BY <1>4, <2>1
  <2> QED BY <1>1, <1>4, <2>1, <2>2
<1> HIDE DEF P
<1>5. S \in P
  BY <1>3, <1>4, SubsetInduction
<1> QED BY <1>5 DEF P

LEMMA SumSame ==
  ASSUME NEW f, NEW g, NEW S, IsFiniteSet(S), \A x \in S : f[x] = g[x]
  PROVE  SumFunctionOnSet(f, S) = SumFunctionOnSet(g, S)
<1>1. Adds(CHOOSE h : Adds(h, f, S), f, S) /\ Adds(CHOOSE h : Adds(h, g, S), g, S)
  BY AddsExists
<1> QED BY <1>1, AddsSame, SumRecursion

LEMMA SumEmpty ==
  ASSUME NEW f
  PROVE  SumFunctionOnSet(f, {}) = 0
<1>1. Adds(CHOOSE h : Adds(h, f, {}), f, {})
  BY AddsExists, FS_EmptySet
<1> QED BY <1>1, SumRecursion DEF Adds

(* The function that adds up f over D gives the sum over any part of D. *)
LEMMA AddsSum ==
  ASSUME NEW f, NEW D, IsFiniteSet(D), NEW g, Adds(g, f, D), NEW s \in SUBSET D
  PROVE  SumFunctionOnSet(f, s) = g[s]
<1>1. IsFiniteSet(s)
  BY FS_Subset
<1>2. Adds(CHOOSE h : Adds(h, f, s), f, s)
  BY <1>1, AddsExists
<1> QED BY <1>1, <1>2, AddsSame, SumRecursion

(* The sum is that of what is left plus any one summand. *)
LEMMA SumRemove ==
  ASSUME NEW f, NEW D, IsFiniteSet(D), \A x \in D : f[x] \in Int
  PROVE  /\ SumFunctionOnSet(f, D) \in Int
         /\ \A x \in D : SumFunctionOnSet(f, D) = f[x] + SumFunctionOnSet(f, D \ {x})
<1> DEFINE chosen(s) == CHOOSE x \in s : TRUE
<1>1. PICK g : Adds(g, f, D)
  BY AddsExists
<1>2. \A s \in SUBSET D :
        g[s] = IF s = {} THEN 0 ELSE f[chosen(s)] + g[s \ {chosen(s)}]
  BY <1>1 DEF Adds
<1>3. \A s : s # {} => chosen(s) \in s
  OBVIOUS
<1> HIDE DEF chosen
<1> DEFINE Q == {s \in SUBSET D : g[s] \in Int}
<1>4. SUBSET D \subseteq Q
  <2>1. {} \in Q
    BY <1>2
  <2>2. ASSUME NEW s \in SUBSET D, s # {}, \A x \in s : s \ {x} \in Q
        PROVE  s \in Q
    <3>1. chosen(s) \in s /\ g[s] = f[chosen(s)] + g[s \ {chosen(s)}]
      BY <1>2, <1>3, <2>2
    <3>2. g[s \ {chosen(s)}] \in Int /\ f[chosen(s)] \in Int
      BY <2>2, <3>1
    <3> QED BY <3>1, <3>2
  <2> HIDE DEF Q
  <2> QED BY <2>1, <2>2, SubsetInduction
<1>5. \A s \in SUBSET D : g[s] \in Int
  BY <1>4
<1> DEFINE R == {s \in SUBSET D : \A x \in s : g[s] = f[x] + g[s \ {x}]}
<1>6. SUBSET D \subseteq R
  <2>1. {} \in R
    OBVIOUS
  <2>2. ASSUME NEW s \in SUBSET D, s # {}, \A x \in s : s \ {x} \in R
        PROVE  s \in R
    <3> SUFFICES ASSUME NEW x \in s PROVE g[s] = f[x] + g[s \ {x}]
      OBVIOUS
    <3> DEFINE y == chosen(s)
    <3>1. y \in s /\ g[s] = f[y] + g[s \ {y}]
      BY <1>2, <1>3
    <3> HIDE DEF y
    <3>2. CASE x = y
      BY <3>1, <3>2
    <3>3. CASE x # y
      <4>1. g[s \ {y}] = f[x] + g[(s \ {y}) \ {x}]
        BY <2>2, <3>1, <3>3
      <4>2. g[s \ {x}] = f[y] + g[(s \ {x}) \ {y}]
        BY <2>2, <3>1, <3>3
      <4>3. (s \ {y}) \ {x} = (s \ {x}) \ {y}
        OBVIOUS
      <4>4. f[x] \in Int /\ f[y] \in Int /\ g[(s \ {x}) \ {y}] \in Int
        BY <1>5, <3>1
      <4> DEFINE rest == g[(s \ {x}) \ {y}]
      <4>5. g[s] = f[y] + (f[x] + rest) /\ g[s \ {x}] = f[y] + rest /\ rest \in Int
        BY <3>1, <4>1, <4>2, <4>3, <4>4
      <4> HIDE DEF rest
      <4> QED BY <4>4, <4>5
    <3> QED BY <3>2, <3>3
  <2> HIDE DEF R
  <2> QED BY <2>1, <2>2, SubsetInduction
<1>7. \A s \in SUBSET D : SumFunctionOnSet(f, s) = g[s]
  BY <1>1, AddsSum
<1>8. D \in SUBSET D /\ \A x \in D : D \ {x} \in SUBSET D
  OBVIOUS
<1> QED BY <1>5, <1>6, <1>7, <1>8

(* The sum of one summand. *)
LEMMA SumSingle ==
  ASSUME NEW f, NEW k, f[k] \in Int
  PROVE  SumFunctionOnSet(f, {k}) = f[k]
<1> DEFINE D == {k}
           x == f[k]
<1>1. IsFiniteSet(D) /\ k \in D /\ D \ {k} = {} /\ \A i \in D : f[i] \in Int
  BY FS_Singleton
<1> HIDE DEF D
<1>2. SumFunctionOnSet(f, D) = x + SumFunctionOnSet(f, {})
  BY <1>1, SumRemove
<1>3. x \in Int
  OBVIOUS
<1> HIDE DEF x
<1>4. SumFunctionOnSet(f, D) = x
  BY <1>2, <1>3, SumEmpty
<1> QED BY <1>4 DEF D, x

(* What the empty set has, and a set keeps when it gains one element. *)
LEMMA GrowInduction ==
  ASSUME NEW D, IsFiniteSet(D), NEW P, {} \in P,
         \A s \in SUBSET D : \A x \in s : s \ {x} \in P => s \in P
  PROVE  SUBSET D \subseteq P
<1>1. \A s \in SUBSET D : s # {} /\ (\A x \in s : s \ {x} \in P) => s \in P
  OBVIOUS
<1> QED BY <1>1, SubsetInduction

(* SumRemove for every part of a set. *)
LEMMA SumParts ==
  ASSUME NEW f, NEW D, IsFiniteSet(D), \A x \in D : f[x] \in Int
  PROVE  \A s \in SUBSET D :
           /\ SumFunctionOnSet(f, s) \in Int
           /\ \A x \in s : SumFunctionOnSet(f, s) = f[x] + SumFunctionOnSet(f, s \ {x})
BY SumRemove, FS_Subset

(* One summand changes. *)
LEMMA SumUpdate ==
  ASSUME NEW f, NEW g, NEW D, IsFiniteSet(D),
         \A x \in D : f[x] \in Int, \A x \in D : g[x] \in Int,
         NEW k \in D, \A x \in D : x # k => g[x] = f[x]
  PROVE  SumFunctionOnSet(g, D) = SumFunctionOnSet(f, D) + (g[k] - f[k])
<1>1. SumFunctionOnSet(f, D \ {k}) = SumFunctionOnSet(g, D \ {k})
  BY SumSame, FS_Subset, IsFiniteSet(D \ {k})
<1>2. SumFunctionOnSet(f, D) = f[k] + SumFunctionOnSet(f, D \ {k})
      /\ SumFunctionOnSet(f, D \ {k}) \in Int
  BY SumParts
<1>3. SumFunctionOnSet(g, D) = g[k] + SumFunctionOnSet(g, D \ {k})
  BY SumParts
<1>4. f[k] \in Int /\ g[k] \in Int
  OBVIOUS
<1> QED BY <1>1, <1>2, <1>3, <1>4

(* The sum of c * f + g. *)
LEMMA SumLinear ==
  ASSUME NEW f, NEW g, NEW h, NEW c \in Int, NEW D, IsFiniteSet(D),
         \A x \in D : f[x] \in Int, \A x \in D : g[x] \in Int,
         \A x \in D : h[x] = c * f[x] + g[x]
  PROVE  SumFunctionOnSet(h, D) = c * SumFunctionOnSet(f, D) + SumFunctionOnSet(g, D)
<1> DEFINE P == {s \in SUBSET D :
                   SumFunctionOnSet(h, s) = c * SumFunctionOnSet(f, s) + SumFunctionOnSet(g, s)}
<1>1. {} \in P
  BY SumEmpty
<1>2. \A x \in D : h[x] \in Int
  OBVIOUS
<1>3. ASSUME NEW s \in SUBSET D, NEW x \in s, s \ {x} \in P
      PROVE  s \in P
  <2> DEFINE F == SumFunctionOnSet(f, s \ {x})
             G == SumFunctionOnSet(g, s \ {x})
  <2>1. SumFunctionOnSet(f, s) = f[x] + F /\ SumFunctionOnSet(g, s) = g[x] + G
        /\ F \in Int /\ G \in Int
    BY SumParts
  <2>2. SumFunctionOnSet(h, s) = h[x] + (c * F + G)
    BY <1>2, <1>3, SumParts
  <2>3. h[x] = c * f[x] + g[x] /\ f[x] \in Int /\ g[x] \in Int
    OBVIOUS
  <2> HIDE DEF F, G
  <2>4. SumFunctionOnSet(h, s) = c * (f[x] + F) + (g[x] + G)
    BY <2>1, <2>2, <2>3
  <2> QED BY <2>1, <2>4
<1> HIDE DEF P
<1>4. D \in P
  BY <1>1, <1>3, GrowInduction
<1> QED BY <1>4 DEF P

(* What is proportional to summands that cancel out, but for an error, sums *)
(* to the error.                                                           *)
LEMMA SumCancels ==
  ASSUME NEW f, NEW g, NEW h, NEW c \in Int, NEW D, IsFiniteSet(D),
         \A x \in D : f[x] \in Int, \A x \in D : g[x] \in Int,
         \A x \in D : h[x] = c * f[x] + g[x]
  PROVE  SumFunctionOnSet(f, D) = 0 => SumFunctionOnSet(h, D) = SumFunctionOnSet(g, D)
<1>1. SumFunctionOnSet(h, D) = c * SumFunctionOnSet(f, D) + SumFunctionOnSet(g, D)
  BY SumLinear
<1>2. SumFunctionOnSet(g, D) \in Int
  BY SumRemove
<1>3. c * 0 = 0
  OBVIOUS
<1> QED BY <1>1, <1>2, <1>3

LEMMA SumAtMost ==
  ASSUME NEW f, NEW g, NEW D, IsFiniteSet(D),
         \A x \in D : f[x] \in Int, \A x \in D : g[x] \in Int, \A x \in D : f[x] <= g[x]
  PROVE  SumFunctionOnSet(f, D) <= SumFunctionOnSet(g, D)
<1> DEFINE P == {s \in SUBSET D : SumFunctionOnSet(f, s) <= SumFunctionOnSet(g, s)}
<1>1. {} \in P
  BY SumEmpty
<1>2. ASSUME NEW s \in SUBSET D, NEW x \in s, s \ {x} \in P
      PROVE  s \in P
  <2>1. SumFunctionOnSet(f, s) = f[x] + SumFunctionOnSet(f, s \ {x})
        /\ SumFunctionOnSet(f, s \ {x}) \in Int
    BY SumParts
  <2>2. SumFunctionOnSet(g, s) = g[x] + SumFunctionOnSet(g, s \ {x})
        /\ SumFunctionOnSet(g, s \ {x}) \in Int
    BY SumParts
  <2>3. f[x] \in Int /\ g[x] \in Int /\ f[x] <= g[x]
    OBVIOUS
  <2>4. SumFunctionOnSet(f, s \ {x}) <= SumFunctionOnSet(g, s \ {x})
    BY <1>2
  <2> QED BY <2>1, <2>2, <2>3, <2>4
<1> HIDE DEF P
<1>3. D \in P
  BY <1>1, <1>2, GrowInduction
<1> QED BY <1>3 DEF P

(* A summand that is zero may be left out. *)
LEMMA SumSupport ==
  ASSUME NEW f, NEW D, IsFiniteSet(D), NEW E \in SUBSET D,
         \A x \in D : f[x] \in Int, \A x \in D \ E : f[x] = 0
  PROVE  SumFunctionOnSet(f, D) = SumFunctionOnSet(f, E)
<1> DEFINE P == {s \in SUBSET D : SumFunctionOnSet(f, s) = SumFunctionOnSet(f, s \cap E)}
<1>1. {} \in P
  BY {} \cap E = {}
<1>2. ASSUME NEW s \in SUBSET D, NEW x \in s, s \ {x} \in P
      PROVE  s \in P
  <2>1. SumFunctionOnSet(f, s) = f[x] + SumFunctionOnSet(f, s \ {x})
        /\ SumFunctionOnSet(f, s \ {x}) \in Int
    BY SumParts
  <2>2. SumFunctionOnSet(f, s \ {x}) = SumFunctionOnSet(f, (s \ {x}) \cap E)
    BY <1>2
  <2>3. CASE x \in E
    <3>1. x \in s \cap E /\ s \cap E \in SUBSET D
      BY <2>3
    <3>2. SumFunctionOnSet(f, s \cap E) = f[x] + SumFunctionOnSet(f, (s \cap E) \ {x})
      BY <3>1, SumParts
    <3>3. (s \cap E) \ {x} = (s \ {x}) \cap E
      OBVIOUS
    <3> QED BY <2>1, <2>2, <3>2, <3>3
  <2>4. CASE x \notin E
    <3>1. f[x] = 0 /\ (s \ {x}) \cap E = s \cap E
      BY <2>4
    <3> DEFINE rest == SumFunctionOnSet(f, s \ {x})
               kept == SumFunctionOnSet(f, s \cap E)
    <3>2. rest = kept /\ SumFunctionOnSet(f, s) = f[x] + rest /\ rest \in Int
      BY <2>1, <2>2, <3>1
    <3> HIDE DEF rest
    <3> QED BY <3>1, <3>2
  <2> QED BY <2>3, <2>4
<1> HIDE DEF P
<1>3. D \in P
  BY <1>1, <1>2, GrowInduction
<1>4. D \cap E = E
  OBVIOUS
<1> QED BY <1>3, <1>4 DEF P

(* Natural summands: the sum is at least any one of them. *)
LEMMA SumNat ==
  ASSUME NEW f, NEW D, IsFiniteSet(D), \A x \in D : f[x] \in Nat
  PROVE  /\ SumFunctionOnSet(f, D) \in Nat
         /\ \A x \in D : f[x] <= SumFunctionOnSet(f, D)
<1> DEFINE P == {s \in SUBSET D : SumFunctionOnSet(f, s) \in Nat}
<1>1. {} \in P
  BY SumEmpty
<1>2. ASSUME NEW s \in SUBSET D, NEW x \in s, s \ {x} \in P
      PROVE  s \in P
  <2>1. SumFunctionOnSet(f, s) = f[x] + SumFunctionOnSet(f, s \ {x})
    BY SumParts
  <2> QED BY <1>2, <2>1
<1> HIDE DEF P
<1>3. SUBSET D \subseteq P
  BY <1>1, <1>2, GrowInduction
<1>4. D \in P /\ \A x \in D : D \ {x} \in P
  BY <1>3
<1>5. \A x \in D : SumFunctionOnSet(f, D) = f[x] + SumFunctionOnSet(f, D \ {x})
  BY SumParts
<1>6. /\ SumFunctionOnSet(f, D) \in Nat
      /\ \A x \in D : SumFunctionOnSet(f, D \ {x}) \in Nat
  BY <1>4 DEF P
<1> SUFFICES ASSUME NEW x \in D PROVE f[x] <= SumFunctionOnSet(f, D)
  BY <1>6
<1> DEFINE rest == SumFunctionOnSet(f, D \ {x})
<1>7. rest \in Nat /\ SumFunctionOnSet(f, D) = f[x] + rest
  BY <1>5, <1>6
<1> HIDE DEF rest
<1> QED BY <1>7

(* Summands within a tolerance of one unit each add up to one unit per     *)
(* element.                                                                *)
LEMMA SumWithin ==
  ASSUME NEW f, NEW c \in Int, NEW D, IsFiniteSet(D),
         \A x \in D : f[x] \in Int /\ f[x] <= c /\ -c <= f[x]
  PROVE  /\ SumFunctionOnSet(f, D) <= c * Cardinality(D)
         /\ -(c * Cardinality(D)) <= SumFunctionOnSet(f, D)
<1> DEFINE P == {s \in SUBSET D : /\ SumFunctionOnSet(f, s) <= c * Cardinality(s)
                                  /\ -(c * Cardinality(s)) <= SumFunctionOnSet(f, s)}
<1>1. {} \in P
  BY SumEmpty, FS_EmptySet
<1>2. ASSUME NEW s \in SUBSET D, NEW x \in s, s \ {x} \in P
      PROVE  s \in P
  <2>1. SumFunctionOnSet(f, s) = f[x] + SumFunctionOnSet(f, s \ {x})
        /\ SumFunctionOnSet(f, s \ {x}) \in Int
    BY SumParts
  <2>2. IsFiniteSet(s) /\ Cardinality(s) \in Nat
    BY FS_Subset, FS_CardinalityType
  <2>3. Cardinality(s \ {x}) = Cardinality(s) - 1
    BY <2>2, FS_RemoveElement
  <2>4. c * Cardinality(s) = c * (Cardinality(s) - 1) + c
        /\ c * (Cardinality(s) - 1) \in Int
    BY <2>2
  <2>5. f[x] \in Int /\ f[x] <= c /\ -c <= f[x]
    OBVIOUS
  <2>6. SumFunctionOnSet(f, s \ {x}) <= c * (Cardinality(s) - 1)
        /\ -(c * (Cardinality(s) - 1)) <= SumFunctionOnSet(f, s \ {x})
    BY <1>2, <2>3
  <2> QED BY <2>1, <2>4, <2>5, <2>6
<1> HIDE DEF P
<1>3. D \in P
  BY <1>1, <1>2, GrowInduction
<1> QED BY <1>3 DEF P

(* A function gains one argument. *)
LEMMA SumExtend ==
  ASSUME NEW f, NEW g, NEW S, IsFiniteSet(S), NEW x, x \notin S,
         DOMAIN f = S, DOMAIN g = S \cup {x},
         \A y \in S : f[y] \in Int /\ g[y] = f[y], g[x] \in Int
  PROVE  SumFunction(g) = SumFunction(f) + g[x]
<1> DEFINE T == S \cup {x}
<1>1. IsFiniteSet(T)
  BY FS_AddElement
<1>2. \A y \in T : g[y] \in Int
  OBVIOUS
<1>3. T \ {x} = S /\ x \in T
  OBVIOUS
<1> HIDE DEF T
<1>4. SumFunctionOnSet(g, T) = g[x] + SumFunctionOnSet(g, S) /\ SumFunctionOnSet(g, S) \in Int
  BY <1>1, <1>2, <1>3, SumParts
<1>5. SumFunctionOnSet(g, S) = SumFunctionOnSet(f, S)
  BY SumSame
<1> QED BY <1>4, <1>5 DEF SumFunction, T

(* Adding up a sequence: the last summand on its own. *)
LEMMA SumLast ==
  ASSUME NEW f, NEW n \in Nat, \A i \in 1 .. n + 1 : f[i] \in Int
  PROVE  /\ SumFunctionOnSet(f, 1 .. n) \in Int
         /\ SumFunctionOnSet(f, 1 .. n + 1) = f[n + 1] + SumFunctionOnSet(f, 1 .. n)
<1> DEFINE D == 1 .. n + 1
           E == 1 .. n
           k == n + 1
<1>1. IsFiniteSet(D) /\ \A i \in D : f[i] \in Int
  BY FS_Interval
<1>2. k \in D /\ D \ {k} = E /\ E \in SUBSET D
  OBVIOUS
<1> HIDE DEF D, E, k
<1>3. SumFunctionOnSet(f, E) \in Int /\ SumFunctionOnSet(f, D) = f[k] + SumFunctionOnSet(f, E)
  BY <1>1, <1>2, SumParts
<1> QED BY <1>3 DEF D, E, k

(* Adding up a queue: the front, and what is behind it moved up by one. *)
LEMMA SumShift ==
  ASSUME NEW n \in Nat, NEW f, NEW g,
         \A i \in 1 .. n + 1 : f[i] \in Int, \A i \in 1 .. n : g[i] = f[i + 1]
  PROVE  SumFunctionOnSet(f, 1 .. n + 1) = f[1] + SumFunctionOnSet(g, 1 .. n)
<1> DEFINE F(k) == SumFunctionOnSet(f, 1 .. k)
           G(k) == SumFunctionOnSet(g, 1 .. k)
           P == {k \in Nat : k <= n => F(k + 1) = f[1] + G(k)}
<1>1. ASSUME NEW k \in Nat, k <= n
      PROVE  F(k + 1) = f[k + 1] + F(k) /\ F(k) \in Int
  <2>1. \A i \in 1 .. k + 1 : f[i] \in Int
    BY <1>1
  <2> QED BY <2>1, SumLast
<1>2. ASSUME NEW k \in Nat, k + 1 <= n
      PROVE  G(k + 1) = g[k + 1] + G(k) /\ G(k) \in Int
  <2>1. \A i \in 1 .. k + 1 : g[i] \in Int
    BY <1>2
  <2> QED BY <2>1, SumLast
<1>3. 0 \in P
  <2>1. 1 .. 0 = {}
    OBVIOUS
  <2>2. F(0) = 0 /\ G(0) = 0
    BY <2>1, SumEmpty
  <2>3. F(0 + 1) = f[0 + 1] + F(0)
    <3>1. 0 \in Nat /\ 0 <= n
      OBVIOUS
    <3> HIDE DEF F
    <3> QED BY <1>1, <3>1
  <2>4. f[0 + 1] = f[1] /\ f[1] \in Int
    OBVIOUS
  <2> HIDE DEF F, G
  <2> QED BY <2>2, <2>3, <2>4
<1>4. ASSUME NEW k \in Nat, k \in P
      PROVE  k + 1 \in P
  <2> SUFFICES ASSUME k + 1 <= n PROVE F((k + 1) + 1) = f[1] + G(k + 1)
    OBVIOUS
  <2>1. F(k + 1) = f[1] + G(k)
    BY <1>4
  <2>2. F((k + 1) + 1) = f[(k + 1) + 1] + F(k + 1)
    BY <1>1
  <2>3. G(k + 1) = g[k + 1] + G(k) /\ G(k) \in Int
    BY <1>2
  <2>4. g[k + 1] = f[(k + 1) + 1] /\ g[k + 1] \in Int /\ f[1] \in Int
    OBVIOUS
  <2> HIDE DEF F, G
  <2> QED BY <2>1, <2>2, <2>3, <2>4
<1> HIDE DEF P
<1>5. n \in P
  BY <1>3, <1>4, NaturalInduction
<1> QED BY <1>5 DEF P
=============================================================================
