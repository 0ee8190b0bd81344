----------------------------- MODULE DecProofs -----------------------------
(***************************************************************************)
(* Proofs about decimals, for every precision: the results of the          *)
(* operators of Dec are integers, natural numbers when their arguments     *)
(* are, and a rounded half lies between nothing and the whole.             *)
(***************************************************************************)
EXTENDS Dec, TLAPS

LEMMA AbsNat ==
  ASSUME NEW x \in Int
  PROVE  Abs(x) \in Nat
BY DEF Abs

LEMMA ChopNatNat ==
  ASSUME NEW n \in Nat
  PROVE  ChopNat(n) \in Nat
BY OneAssumption DEF ChopNat

LEMMA ChopType ==
  ASSUME NEW n \in Int
  PROVE  /\ Chop(n) \in Int
         /\ n >= 0 => Chop(n) \in Nat
<1>1. CASE n < 0
  BY <1>1, ChopNatNat, -n \in Nat DEF Chop
<1>2. CASE n >= 0
  BY <1>2, ChopNatNat DEF Chop
<1> QED BY <1>1, <1>2

LEMMA MulType ==
  ASSUME NEW x \in Int, NEW y \in Int
  PROVE  Mul(x, y) \in Int
BY ChopType, x * y \in Int DEF Mul

LEMMA MulNat ==
  ASSUME NEW x \in Nat, NEW y \in Nat
  PROVE  Mul(x, y) \in Nat
<1>1. x * y \in Nat
  OBVIOUS
<1> QED BY <1>1, ChopType DEF Mul

LEMMA TruncDivType ==
  ASSUME NEW n \in Int, NEW d \in Int, d # 0
  PROVE  TruncDiv(n, d) \in Int
<1>1. Abs(d) \in Nat /\ Abs(d) > 0 /\ Abs(n) \in Nat
  BY DEF Abs
<1>2. Abs(n) \div Abs(d) \in Int
  BY <1>1
<1> QED BY <1>2 DEF TruncDiv

LEMMA QuoType ==
  ASSUME NEW x \in Int, NEW y \in Int, y # 0
  PROVE  Quo(x, y) \in Int
<1>1. x * One * One \in Int
  BY OneAssumption
<1> QED BY <1>1, TruncDivType, ChopType DEF Quo

(* A charge leaves at most the balance, and never less than zero. *)
LEMMA ChargeBounds ==
  ASSUME NEW balance \in Nat, NEW charge \in Nat
  PROVE  /\ ChargeAtMost(balance, charge) \in Nat
         /\ ChargeAtMost(balance, charge) <= balance
BY DEF ChargeAtMost

(* Two charges come to the same as one of both, and none to none.         *)
LEMMA ChargesAdd ==
  ASSUME NEW balance \in Nat, NEW first \in Nat, NEW second \in Nat
  PROVE  /\ ChargeAtMost(ChargeAtMost(balance, first), second)
              = ChargeAtMost(balance, first + second)
         /\ ChargeAtMost(balance, 0) = balance
BY DEF ChargeAtMost

(* Rounding n / One does not pass the integer k when n / One does not.    *)
LEMMA ChopNatAtMost ==
  ASSUME NEW n \in Nat, NEW k \in Nat, n <= k * One
  PROVE  ChopNat(n) <= k
<1> DEFINE q == n \div One
           r == n % One
<1>1. q \in Nat /\ r \in Nat /\ r < One /\ n = q * One + r
  BY OneAssumption
<1>2. q <= k
  <2>1. SUFFICES ASSUME q >= k + 1 PROVE FALSE
    BY <1>1
  <2>2. q * One >= (k + 1) * One
    BY <1>1, <2>1, OneAssumption
  <2>3. (k + 1) * One = k * One + One
    BY OneAssumption
  <2> QED BY <1>1, <2>2, <2>3, OneAssumption
<1>3. q = k => r = 0
  BY <1>1, OneAssumption
<1>4. CASE q = k
  BY <1>1, <1>3, <1>4, OneAssumption DEF ChopNat
<1>5. CASE q < k
  BY <1>1, <1>5 DEF ChopNat
<1> QED BY <1>1, <1>2, <1>4, <1>5

(* Half of a decimal, rounded, is neither negative nor more than it.      *)
LEMMA HalfBounds ==
  ASSUME NEW x \in Nat
  PROVE  /\ Quo(x, 2 * One) \in Nat
         /\ Quo(x, 2 * One) <= x
<1> DEFINE n == x * One * One
           d == 2 * One
           t == n \div d
<1>1. n \in Nat /\ d \in Nat /\ d > 0
  BY OneAssumption
<1>2. t \in Nat /\ d * t <= n
  BY <1>1
<1>3. t <= x * One
  <2>1. SUFFICES ASSUME t > x * One PROVE FALSE
    BY <1>2, OneAssumption
  <2>2. x * One \in Nat
    BY OneAssumption
  <2>3. One * t > One * (x * One)
    BY <1>2, <2>1, <2>2, OneAssumption
  <2>4. n = One * (x * One)
    BY OneAssumption
  <2>5. d * t = One * t + One * t /\ One * t \in Nat
    BY <1>2, OneAssumption
  <2> HIDE DEF n, d, t
  <2> QED BY <1>1, <1>2, <2>2, <2>3, <2>4, <2>5, OneAssumption
<1>4. TruncDiv(n, d) = t
  BY <1>1, <1>2 DEF TruncDiv, Abs
<1>5. Quo(x, d) = ChopNat(t)
  BY <1>2, <1>4 DEF Quo, Chop
<1>6. ChopNat(t) \in Nat /\ ChopNat(t) <= x
  BY <1>2, <1>3, ChopNatNat, ChopNatAtMost
<1> QED BY <1>5, <1>6

(* Division with remainder by One is unique. *)
LEMMA DivideByOne ==
  ASSUME NEW k \in Nat, NEW s \in Nat, s < One
  PROVE  (k * One + s) \div One = k /\ (k * One + s) % One = s
<1> DEFINE n == k * One + s
           q == n \div One
           r == n % One
<1>1. n \in Nat /\ q \in Nat /\ r \in Nat /\ r < One /\ n = q * One + r
  BY OneAssumption
<1>2. ~(q > k)
  <2>1. SUFFICES ASSUME q >= k + 1 PROVE FALSE
    BY <1>1
  <2>2. q * One >= (k + 1) * One /\ (k + 1) * One = k * One + One
    BY <1>1, <2>1, OneAssumption
  <2> QED BY <1>1, <2>2, OneAssumption
<1>3. ~(q < k)
  <2>1. SUFFICES ASSUME k >= q + 1 PROVE FALSE
    BY <1>1
  <2>2. k * One >= (q + 1) * One /\ (q + 1) * One = q * One + One
    BY <1>1, <2>1, OneAssumption
  <2> QED BY <1>1, <2>2, OneAssumption
<1>4. q = k
  BY <1>1, <1>2, <1>3
<1>5. r = s
  BY <1>1, <1>4, OneAssumption
<1> QED BY <1>4, <1>5

(* A decimal times one half, rounded half to even, is zero or strictly     *)
(* between zero and the decimal.                                           *)
LEMMA HalfShrinksNat ==
  ASSUME NEW x \in Nat
  PROVE  /\ ChopNat(x * (One \div 2)) \in Nat
         /\ ChopNat(x * (One \div 2)) = 0 \/ ChopNat(x * (One \div 2)) < x
<1> DEFINE h == One \div 2
           k == x \div 2
<1>1. h \in Nat /\ h > 0 /\ One = 2 * h
  BY OneAssumption
<1>2. k \in Nat /\ (x = 2 * k \/ x = 2 * k + 1)
  OBVIOUS
<1> HIDE DEF h, k
<1>3. CASE x = 2 * k
  <2>1. x * h = k * One + 0
    BY <1>1, <1>2, <1>3
  <2>2. (x * h) \div One = k /\ (x * h) % One = 0
    BY <1>1, <1>2, <2>1, DivideByOne, OneAssumption
  <2>3. ChopNat(x * h) = k
    BY <1>1, <2>2 DEF ChopNat
  <2> QED BY <1>2, <1>3, <2>3 DEF h
<1>4. CASE x = 2 * k + 1
  <2>1. x * h = k * One + h
    BY <1>1, <1>2, <1>4
  <2>2. (x * h) \div One = k /\ (x * h) % One = h
    BY <1>1, <1>2, <2>1, DivideByOne, OneAssumption
  <2>3. ChopNat(x * h) = IF k % 2 = 1 THEN k + 1 ELSE k
    BY <1>1, <1>2, <2>2 DEF ChopNat
  <2> QED BY <1>2, <1>4, <2>3 DEF h
<1> QED BY <1>2, <1>3, <1>4

(* The same on either side of zero: the half keeps the side.               *)
LEMMA HalfShrinks ==
  ASSUME NEW x \in Int
  PROVE  LET y == Mul(x, One \div 2)
         IN  /\ y \in Int
             /\ y # 0 => Abs(y) < Abs(x) /\ (y > 0 <=> x > 0)
<1> DEFINE h == One \div 2
<1>1. h \in Nat /\ h > 0
  BY OneAssumption
<1> HIDE DEF h
<1>2. CASE x >= 0
  <2>1. x * h >= 0 /\ x * h \in Int
    BY <1>1, <1>2
  <2>2. Mul(x, h) = ChopNat(x * h)
    BY <2>1 DEF Mul, Chop
  <2>3. ChopNat(x * h) \in Nat /\ (ChopNat(x * h) = 0 \/ ChopNat(x * h) < x)
    BY <1>2, HalfShrinksNat DEF h
  <2> QED BY <1>2, <2>2, <2>3 DEF Abs, h
<1>3. CASE x < 0
  <2>1. -x \in Nat /\ x * h < 0 /\ x * h \in Int /\ -(x * h) = (-x) * h
    BY <1>1, <1>3
  <2>2. Mul(x, h) = -ChopNat((-x) * h)
    BY <2>1 DEF Mul, Chop
  <2>3. ChopNat((-x) * h) \in Nat /\ (ChopNat((-x) * h) = 0 \/ ChopNat((-x) * h) < -x)
    BY <2>1, HalfShrinksNat DEF h
  <2> QED BY <1>3, <2>2, <2>3 DEF Abs, h
<1> QED BY <1>2, <1>3

(***************************************************************************)
(* How much the rounding loses.                                            *)
(***************************************************************************)

(* A factor common to both sides of a comparison can be dropped. *)
LEMMA DropFactor ==
  ASSUME NEW c \in Int, c > 0, NEW x \in Int, NEW y \in Int
  PROVE  /\ c * x <= c * y => x <= y
         /\ c * x < c * y => x < y
<1>1. ASSUME x >= y + 1 PROVE c * x >= c * y + c
  <2>1. c * x >= c * (y + 1)
    BY <1>1
  <2>2. c * (y + 1) = c * y + c
    OBVIOUS
  <2> QED BY <2>1, <2>2
<1>2. ASSUME x >= y PROVE c * x >= c * y
  BY <1>2
<1>3. c * x \in Int /\ c * y \in Int
  OBVIOUS
<1> DEFINE cx == c * x
           cy == c * y
<1>4. cx \in Int /\ cy \in Int /\ (x >= y + 1 => cx >= cy + c) /\ (x >= y => cx >= cy)
  BY <1>1, <1>2, <1>3
<1> HIDE DEF cx, cy
<1>5. (cx <= cy => x <= y) /\ (cx < cy => x < y)
  BY <1>4
<1> QED BY <1>5 DEF cx, cy

(* A rounded result is within half a digit of the exact one. *)
LEMMA ChopNatError ==
  ASSUME NEW n \in Nat
  PROVE  2 * (One * ChopNat(n)) - 2 * n \in -One .. One
<1> DEFINE q == n \div One
           r == n % One
           w == q * One
<1>1. q \in Nat /\ r \in Nat /\ r < One /\ n = w + r /\ w \in Nat
  BY OneAssumption
<1>2. One * q = w /\ One * (q + 1) = w + One
  BY <1>1, OneAssumption
<1>3. ChopNat(n) = IF 2 * r > One \/ (2 * r = One /\ q % 2 = 1) THEN q + 1 ELSE q
  BY DEF ChopNat
<1> HIDE DEF q, r, w
<1>4. CASE 2 * r > One \/ (2 * r = One /\ q % 2 = 1)
  <2>1. One * ChopNat(n) = w + One /\ 2 * r >= One
    BY <1>1, <1>2, <1>3, <1>4, OneAssumption
  <2> QED BY <1>1, <2>1, OneAssumption
<1>5. CASE ~(2 * r > One \/ (2 * r = One /\ q % 2 = 1))
  <2>1. One * ChopNat(n) = w
    BY <1>2, <1>3, <1>5
  <2>2. 2 * r <= One
    BY <1>1, <1>5, OneAssumption
  <2> QED BY <1>1, <2>1, <2>2, OneAssumption
<1> QED BY <1>4, <1>5

LEMMA ChopError ==
  ASSUME NEW n \in Int
  PROVE  2 * (One * Chop(n)) - 2 * n \in -One .. One
<1>1. CASE n >= 0
  BY <1>1, ChopNatError DEF Chop
<1>2. CASE n < 0
  <2> DEFINE c == ChopNat(-n)
  <2>1. -n \in Nat /\ c \in Nat
    BY <1>2, ChopNatNat
  <2>2. 2 * (One * c) - 2 * (-n) \in -One .. One
    BY <2>1, ChopNatError
  <2>3. Chop(n) = -c
    BY <1>2 DEF Chop
  <2> HIDE DEF c
  <2> DEFINE p == One * c
  <2>4. p \in Int /\ One * (-c) = -p
    BY <2>1, OneAssumption
  <2> HIDE DEF p
  <2>5. 2 * p - 2 * (-n) \in -One .. One
    BY <2>2 DEF p
  <2>6. 2 * (-p) - 2 * n \in -One .. One
    BY <2>4, <2>5, OneAssumption
  <2> QED BY <2>3, <2>4, <2>6
<1> QED BY <1>1, <1>2

LEMMA MulError ==
  ASSUME NEW x \in Int, NEW y \in Int
  PROVE  2 * (One * Mul(x, y)) - 2 * (x * y) \in -One .. One
<1>1. x * y \in Int
  OBVIOUS
<1> QED BY <1>1, ChopError DEF Mul

(* Truncation loses less than one part, and never passes zero. *)
LEMMA TruncDivError ==
  ASSUME NEW n \in Int, NEW d \in Int, d # 0
  PROVE  /\ n - d * TruncDiv(n, d) \in -Abs(d) .. Abs(d)
         /\ d > 0 /\ TruncDiv(n, d) > 0 => d * TruncDiv(n, d) <= n
<1> DEFINE a == Abs(n)
           b == Abs(d)
           q == a \div b
           p == b * q
<1>1. a \in Nat /\ b \in Nat /\ b > 0
  BY DEF Abs
<1>2. q \in Nat /\ p \in Int /\ p <= a /\ a < p + b
  <2> HIDE DEF a, b
  <2> QED BY <1>1
<1>3. TruncDiv(n, d) = IF (n < 0) = (d < 0) THEN q ELSE -q
  BY DEF TruncDiv
<1>4. d * q = IF d < 0 THEN -p ELSE p
  <2> HIDE DEF q
  <2>1. q \in Int
    BY <1>2
  <2> QED BY <2>1 DEF Abs
<1>5. d * (-q) = IF d < 0 THEN p ELSE -p
  <2> HIDE DEF q
  <2>1. q \in Int
    BY <1>2
  <2> QED BY <2>1 DEF Abs
<1>6. b = IF d < 0 THEN -d ELSE d
  BY DEF Abs
<1>7. a = IF n < 0 THEN -n ELSE n
  BY DEF Abs
<1> HIDE DEF a, b, q, p
<1>8. d * TruncDiv(n, d) = IF n < 0 THEN -p ELSE p
  BY <1>1, <1>2, <1>3, <1>4, <1>5
<1>9. n - d * TruncDiv(n, d) \in -b .. b
  BY <1>1, <1>2, <1>7, <1>8
<1>10. d > 0 /\ TruncDiv(n, d) > 0 => ~(n < 0)
  BY <1>2, <1>3
<1>11. d > 0 /\ TruncDiv(n, d) > 0 => d * TruncDiv(n, d) <= n
  BY <1>2, <1>7, <1>8, <1>10
<1> QED BY <1>9, <1>11 DEF b

(* A quotient that is not below one has a numerator that is not below the  *)
(* denominator, but for the half digit the last rounding may add.          *)
LEMMA QuoAtLeastOne ==
  ASSUME NEW x \in Int, NEW y \in Int, y > 0, Quo(x, y) >= One
  PROVE  2 * One * x >= (2 * One - 1) * y
<1> DEFINE n == x * One * One
           t == TruncDiv(n, y)
           q == Quo(x, y)
           oq == One * q
           oo == One * One
           yt == y * t
<1>1. n \in Int /\ t \in Int /\ q \in Int
  <2>1. n \in Int
    BY OneAssumption
  <2> QED BY <2>1, TruncDivType, QuoType
<1>2. 2 * oq - 2 * t \in -One .. One
  BY <1>1, ChopError DEF Quo
<1>3. oq >= oo /\ oq \in Int /\ oo \in Int
  BY <1>1, OneAssumption
<1>4. oo >= One
  BY OneAssumption
<1>5. 2 * t >= 2 * oo - One
  <2> HIDE DEF t, oq, oo
  <2> QED BY <1>1, <1>2, <1>3, OneAssumption
<1>6. t > 0
  <2> HIDE DEF t, oo
  <2> QED BY <1>1, <1>3, <1>4, <1>5, OneAssumption
<1>7. yt <= n
  BY <1>1, <1>6, TruncDivError
<1>8. y * (2 * t) >= y * (2 * oo - One)
  <2> DEFINE u == 2 * t
             v == 2 * oo - One
  <2>1. u \in Int /\ v \in Int /\ u >= v
    BY <1>1, <1>3, <1>5, OneAssumption
  <2> HIDE DEF u, v
  <2>2. y * u >= y * v
    BY <2>1
  <2> QED BY <2>2 DEF u, v
<1>9. y * (2 * t) = 2 * yt /\ yt \in Int
  BY <1>1
<1>10. y * (2 * oo - One) = One * ((2 * One - 1) * y)
  <2>1. 2 * oo - One = One * (2 * One - 1)
    BY OneAssumption
  <2> QED BY <2>1, OneAssumption
<1>11. 2 * n = One * (2 * One * x)
  BY OneAssumption
<1> DEFINE low == (2 * One - 1) * y
           high == 2 * One * x
<1>12. low \in Int /\ high \in Int
  BY OneAssumption
<1>13. One * low <= One * high
  <2> HIDE DEF low, high, yt, n, t, oo
  <2> DEFINE ol == One * low
             oh == One * high
  <2>1. ol \in Int /\ oh \in Int
    BY <1>12, OneAssumption
  <2>2. 2 * yt >= ol
    <3>1. y * (2 * t) >= ol
      BY <1>8, <1>10 DEF low
    <3> QED BY <1>9, <3>1
  <2>3. 2 * n = oh
    BY <1>11 DEF high
  <2> HIDE DEF ol, oh
  <2>4. ol <= oh
    BY <1>1, <1>7, <1>9, <2>1, <2>2, <2>3
  <2> QED BY <2>4 DEF ol, oh
<1> HIDE DEF low, high
<1>14. low <= high
  BY <1>12, <1>13, DropFactor, OneAssumption
<1> QED BY <1>14 DEF low, high

(* What 2 * One * One times a quantity is bounded by bounds the quantity.  *)
LEMMA WithinTolerance ==
  ASSUME NEW diff \in Int, NEW total \in Nat,
         One * (2 * (One * diff)) <= One * (2 * total + 5 * One)
  PROVE  diff <= total \div One + 3
<1> DEFINE k == total \div One
           od == One * diff
           ok == One * k
<1>1. od \in Int /\ k \in Nat /\ ok \in Int /\ total < ok + One
  <2> DEFINE r == total % One
  <2>1. k \in Nat /\ r \in Nat /\ r < One /\ total = k * One + r
    BY OneAssumption
  <2>2. ok = k * One /\ ok \in Int /\ od \in Int
    BY <2>1, OneAssumption
  <2> HIDE DEF k, r, ok, od
  <2> DEFINE w == k * One
  <2>3. w \in Int /\ ok = w /\ total = w + r
    BY <2>1, <2>2
  <2> HIDE DEF w
  <2> QED BY <2>1, <2>2, <2>3, OneAssumption
<1> HIDE DEF k
<1>2. 2 * od <= 2 * total + 5 * One
  <2> DEFINE u == 2 * od
             v == 2 * total + 5 * One
  <2>1. u \in Int /\ v \in Int
    BY <1>1, OneAssumption
  <2>2. One * u <= One * v
    OBVIOUS
  <2> HIDE DEF u, v
  <2>3. u <= v
    BY <2>1, <2>2, DropFactor, OneAssumption
  <2> QED BY <2>3 DEF u, v
<1>3. 2 * od < 2 * ok + 7 * One
  <2> HIDE DEF od, ok
  <2> QED BY <1>1, <1>2, OneAssumption
<1>4. 2 * diff < 2 * k + 7
  <2> DEFINE u == 2 * diff
             v == 2 * k + 7
  <2>1. u \in Int /\ v \in Int
    BY <1>1
  <2>2. One * u = 2 * od /\ One * v = 2 * ok + 7 * One
    BY <1>1, OneAssumption
  <2>3. One * u < One * v
    BY <1>3, <2>2
  <2> HIDE DEF u, v
  <2>4. u < v
    BY <2>1, <2>3, DropFactor, OneAssumption
  <2> QED BY <2>4 DEF u, v
<1>5. diff <= k + 3
  BY <1>1, <1>4
<1> QED BY <1>5 DEF k

(* Opening, increasing, reducing or flipping a position at the weighted    *)
(* average price moves its profit at any mark price g by what the traded   *)
(* size gains against its own price, up to the rounding of the average.    *)
LEMMA AveragePriceKeepsProfit ==
  ASSUME NEW g \in Int, NEW p0 \in Int, NEW s0 \in Int, NEW p \in Int, NEW s \in Int,
         s0 + s # 0
  PROVE  LET q == Quo(Mul(s0, p0) + Mul(s, p), s0 + s)
         IN  Abs(Mul(g - q, s0 + s) - Mul(g - p0, s0) - Mul(g - p, s))
               <= Abs(s0 + s) \div One + 3
<1> DEFINE S  == s0 + s
           m4 == Mul(s0, p0)
           m5 == Mul(s, p)
           N  == m4 + m5
           n  == N * One * One
           t  == TruncDiv(n, S)
           q  == Quo(N, S)
           m1 == Mul(g - q, S)
           m2 == Mul(g - p0, s0)
           m3 == Mul(g - p, s)
           diff == m1 - m2 - m3
           z  == q * S
           x4 == s0 * p0
           x5 == s * p
<1>1. /\ S \in Int /\ S # 0 /\ N \in Int /\ n \in Int /\ t \in Int /\ q \in Int
      /\ m1 \in Int /\ m2 \in Int /\ m3 \in Int /\ m4 \in Int /\ m5 \in Int
  <2>1. m4 \in Int /\ m5 \in Int /\ S \in Int /\ S # 0
    BY MulType
  <2>2. N \in Int /\ n \in Int
    BY <2>1, OneAssumption
  <2>3. t \in Int /\ q \in Int
    BY <2>1, <2>2, TruncDivType, QuoType
  <2>4. g - q \in Int /\ g - p0 \in Int /\ g - p \in Int
    BY <2>3
  <2> HIDE DEF q, S, N, n, t, m4, m5
  <2>5. m1 \in Int /\ m2 \in Int /\ m3 \in Int
    BY <2>1, <2>4, MulType
  <2> QED BY <2>1, <2>2, <2>3, <2>5
<1>2. /\ 2 * (One * m1) - 2 * ((g - q) * S) \in -One .. One
      /\ 2 * (One * m2) - 2 * ((g - p0) * s0) \in -One .. One
      /\ 2 * (One * m3) - 2 * ((g - p) * s) \in -One .. One
      /\ 2 * (One * m4) - 2 * x4 \in -One .. One
      /\ 2 * (One * m5) - 2 * x5 \in -One .. One
  <2>1. g - q \in Int /\ g - p0 \in Int /\ g - p \in Int
    BY <1>1
  <2> HIDE DEF q, S
  <2> QED BY <1>1, <2>1, MulError
<1>3. 2 * (One * q) - 2 * t \in -One .. One
  BY <1>1, ChopError DEF Quo
<1>4. n - S * t \in -Abs(S) .. Abs(S)
  BY <1>1, TruncDivError
<1> HIDE DEF m1, m2, m3, m4, m5, t, q
<1>5. (g - q) * S - (g - p0) * s0 - (g - p) * s = x4 + x5 - z
  <2>1. (g - q) * S = g * s0 + g * s - z
    BY <1>1
  <2>2. (g - p0) * s0 = g * s0 - x4
    OBVIOUS
  <2>3. (g - p) * s = g * s - x5
    OBVIOUS
  <2>4. z \in Int /\ x4 \in Int /\ x5 \in Int /\ g * s0 \in Int /\ g * s \in Int
    BY <1>1
  <2> HIDE DEF z, x4, x5
  <2> QED BY <2>1, <2>2, <2>3, <2>4
<1> DEFINE E == 2 * (One * diff) - 2 * (One * N) + 2 * z
<1>6. E \in -(5 * One) .. 5 * One /\ diff \in Int /\ z \in Int
  <2> DEFINE o1 == One * m1
             o2 == One * m2
             o3 == One * m3
             o4 == One * m4
             o5 == One * m5
             y1 == (g - q) * S
             y2 == (g - p0) * s0
             y3 == (g - p) * s
  <2>1. One * diff = o1 - o2 - o3 /\ One * N = o4 + o5 /\ diff \in Int
    BY <1>1, OneAssumption
  <2>2. /\ o1 \in Int /\ o2 \in Int /\ o3 \in Int /\ o4 \in Int /\ o5 \in Int
        /\ y1 \in Int /\ y2 \in Int /\ y3 \in Int /\ x4 \in Int /\ x5 \in Int /\ z \in Int
    BY <1>1, OneAssumption
  <2>3. y1 - y2 - y3 = x4 + x5 - z
    BY <1>5
  <2>4. /\ 2 * o1 - 2 * y1 \in -One .. One /\ 2 * o2 - 2 * y2 \in -One .. One
        /\ 2 * o3 - 2 * y3 \in -One .. One /\ 2 * o4 - 2 * x4 \in -One .. One
        /\ 2 * o5 - 2 * x5 \in -One .. One
    BY <1>2
  <2> HIDE DEF o1, o2, o3, o4, o5, y1, y2, y3, x4, x5, z, diff, N
  <2>5. E = 2 * (o1 - o2 - o3) - 2 * (o4 + o5) + 2 * z
    BY <2>1
  <2> HIDE DEF E
  <2>6. E \in -(5 * One) .. 5 * One
    BY <2>2, <2>3, <2>4, <2>5, OneAssumption
  <2> QED BY <2>1, <2>2, <2>6
<1> DEFINE b == Abs(S)
           f == n - S * t
           e == 2 * (One * q) - 2 * t
           se == S * e
           oe == One * E
<1>7. b \in Nat /\ f \in -b .. b /\ e \in -One .. One /\ E \in Int
      /\ se \in Int /\ oe \in Int /\ f \in Int /\ e \in Int
  <2>1. b \in Nat
    BY <1>1, AbsNat
  <2>2. f \in -b .. b /\ e \in -One .. One
    BY <1>3, <1>4
  <2>3. f \in Int /\ e \in Int /\ E \in Int
    BY <1>6, <2>1, <2>2, OneAssumption
  <2> HIDE DEF b, f, e, E, S
  <2> QED BY <1>1, <2>1, <2>2, <2>3, OneAssumption
<1>8. One * (2 * (One * diff)) = 2 * f - se + oe
  <2> DEFINE st == S * t
             oz == One * z
             w == One * (One * N)
  <2>1. st \in Int /\ oz \in Int /\ w \in Int
    BY <1>1, <1>6, OneAssumption
  <2>2. n = w
    BY <1>1, OneAssumption
  <2>3. se = 2 * oz - 2 * st
    <3> HIDE DEF S
    <3>1. S * (2 * (One * q)) = 2 * (One * (q * S))
      BY <1>1, OneAssumption
    <3>2. S * (2 * (One * q) - 2 * t) = S * (2 * (One * q)) - S * (2 * t)
      BY <1>1, OneAssumption
    <3>3. S * (2 * t) = 2 * (S * t)
      BY <1>1
    <3> QED BY <3>1, <3>2, <3>3
  <2>4. One * (2 * (One * diff)) = One * (2 * (One * N) - 2 * z + E)
    <3> DEFINE l == 2 * (One * diff)
               r == 2 * (One * N) - 2 * z + E
    <3>1. l \in Int /\ r \in Int
      BY <1>1, <1>6, <1>7, OneAssumption
    <3>2. l = r
      <4> DEFINE od == One * diff
                 on == One * N
      <4>1. od \in Int /\ on \in Int
        BY <1>1, <1>6, OneAssumption
      <4>2. E = 2 * od - 2 * on + 2 * z
        OBVIOUS
      <4> HIDE DEF E, od, on, z
      <4>3. 2 * od = 2 * on - 2 * z + E
        BY <1>6, <4>1, <4>2
      <4> QED BY <4>3 DEF od, on
    <3> HIDE DEF l, r
    <3>3. One * l = One * r
      BY <3>2
    <3> QED BY <3>3 DEF l, r
  <2>5. One * (2 * (One * N) - 2 * z + E) = 2 * w - 2 * oz + oe
    <3> DEFINE on == One * N
    <3>1. on \in Int
      BY <1>1, OneAssumption
    <3> HIDE DEF E, z, on
    <3>2. One * (2 * on - 2 * z + E) = 2 * (One * on) - 2 * (One * z) + One * E
      BY <1>6, <1>7, <3>1, OneAssumption
    <3> QED BY <3>2 DEF on
  <2>6. f = w - st
    BY <2>2
  <2> HIDE DEF st, oz, w, f, se, oe
  <2>7. 2 * w - 2 * oz + oe = 2 * f - se + oe
    BY <1>7, <2>1, <2>3, <2>6
  <2> QED BY <2>4, <2>5, <2>7
<1> DEFINE ob == One * b
<1>9. ob \in Int /\ se \in -ob .. ob /\ 2 * b <= ob /\ oe \in -(5 * (One * One)) .. 5 * (One * One)
  <2> HIDE DEF b, e, E
  <2>1. ob \in Int /\ 2 * b <= ob
    BY <1>7, OneAssumption
  <2>2. oe \in -(5 * (One * One)) .. 5 * (One * One)
    BY <1>6, <1>7, OneAssumption
  <2>3. se \in -ob .. ob
    <3>1. b * e \in -(b * One) .. b * One /\ b * e \in Int
      BY <1>7, OneAssumption
    <3>2. se = b * e \/ se = -(b * e)
      <4>1. S = b \/ S = -b
        BY <1>1 DEF b, Abs
      <4> HIDE DEF S
      <4> QED BY <1>1, <1>7, <4>1
    <3> QED BY <1>7, <3>1, <3>2, OneAssumption
  <2> QED BY <2>1, <2>2, <2>3
<1>10. /\ One * (2 * (One * diff)) <= One * (2 * b + 5 * One)
       /\ One * (2 * (One * (-diff))) <= One * (2 * b + 5 * One)
  <2> DEFINE oo == One * One
             od == One * (2 * (One * diff))
  <2>1. oo \in Int /\ od \in Int
    BY <1>6, OneAssumption
  <2>2. One * (2 * b + 5 * One) = 2 * ob + 5 * oo
    <3> HIDE DEF b, f, e, E, se, oe
    <3> QED BY <1>7, OneAssumption
  <2>3. One * (2 * (One * (-diff))) = -od
    BY <1>6, OneAssumption
  <2>4. oe \in -(5 * oo) .. 5 * oo /\ od = 2 * f - se + oe
    BY <1>8, <1>9
  <2> HIDE DEF oo, od, ob, b, se, oe, f
  <2>5. od <= 2 * ob + 5 * oo /\ -od <= 2 * ob + 5 * oo
    BY <1>7, <1>9, <2>1, <2>4
  <2> QED BY <2>2, <2>3, <2>5 DEF od
<1> HIDE DEF diff, b
<1>11. diff <= b \div One + 3 /\ -diff <= b \div One + 3
  <2>1. -diff \in Int
    BY <1>6
  <2> QED BY <1>6, <1>7, <1>10, <2>1, WithinTolerance
<1>12. Abs(diff) <= b \div One + 3
  BY <1>11 DEF Abs
<1> QED BY <1>12 DEF diff, b, m1, m2, m3, m4, m5, q
=============================================================================
