------------------------- MODULE RiskEngineProofs --------------------------
(* Proofs about the accounting of PositionManager and RiskEngine, for every *)
(* set of symbols, integer prices and positive quantities: first that the   *)
(* fractions of Rationals calculate as fractions do, then the accounts.     *)
EXTENDS RiskEngine, Sums

----------------------------------------------------------------------------
(* Fractions.                                                               *)

LEMMA Cancel ==
    ASSUME NEW a \in Int, NEW b \in Int, NEW c \in Int, c # 0, a * c = b * c
    PROVE  a = b
<1>1. (a - b) * c = 0
  OBVIOUS
<1>2. PICK e : e = a - b
  OBVIOUS
<1>3. e \in Int /\ e * c = 0
  BY <1>1, <1>2
<1>4. e = 0
  BY <1>3
<1> QED
  BY <1>2, <1>4

LEMMA Positive ==
    ASSUME NEW a \in Nat \ {0}, NEW b \in Nat \ {0}
    PROVE  a * b \in Nat \ {0}
OBVIOUS

LEMMA Scale ==
    ASSUME NEW a \in Int, NEW b \in Int, NEW c \in Nat \ {0}
    PROVE  a <= b <=> a * c <= b * c
<1>1. PICK e : e = b - a
  OBVIOUS
<1>2. e \in Int /\ b * c = a * c + e * c
  BY <1>1
<1>3. e >= 0 => e * c >= 0
  BY <1>2
<1>4. e < 0 => e * c < 0
  BY <1>2
<1> QED
  BY <1>1, <1>2, <1>3, <1>4

(* Exact division.                                                          *)
LEMMA Divides ==
    ASSUME NEW n \in Int, NEW d \in Nat \ {0}
    PROVE  /\ n % d = 0 => (n \div d) * d = n /\ n \div d \in Int
           /\ \A j \in Int : n = j * d => n % d = 0
<1>1. n % d = 0 => (n \div d) * d = n /\ n \div d \in Int
  OBVIOUS
<1>2. ASSUME NEW j \in Int, n = j * d PROVE n % d = 0
  <2>1. PICK q, r : q = n \div d /\ r = n % d
    OBVIOUS
  <2>2. q \in Int /\ r \in 0 .. d - 1 /\ n = q * d + r
    BY <2>1
  <2>3. PICK e : e = j - q
    OBVIOUS
  <2>4. e \in Int /\ e * d = r
    BY <1>2, <2>2, <2>3
  <2>5. e <= 0
    <3>1. ASSUME e >= 1 PROVE e * d >= d
      BY <2>4, <3>1
    <3> QED
      BY <2>2, <2>4, <3>1
  <2>6. e >= 0
    <3>1. ASSUME e <= -1 PROVE e * d <= -d
      BY <2>4, <3>1
    <3> QED
      BY <2>2, <2>4, <3>1
  <2>7. e = 0
    BY <2>4, <2>5, <2>6
  <2> QED
    BY <2>1, <2>4, <2>7
<1> QED
  BY <1>1, <1>2

(* What Frac(n, d) is: n / d with the least possible denominator.           *)
LEMMA FracIs ==
    ASSUME NEW n \in Int, NEW d \in Int \ {0}
    PROVE  /\ Frac(n, d) = << Frac(n, d)[1], Frac(n, d)[2] >>
           /\ Frac(n, d)[1] \in Int /\ Frac(n, d)[2] \in Nat \ {0}
           /\ Frac(n, d)[1] * d = n * Frac(n, d)[2]
           /\ \A k \in Nat \ {0}, j \in Int : j * d = n * k => Frac(n, d)[2] <= k
<1>1. PICK D : D = Abs(d)
  OBVIOUS
<1>2. D \in Nat \ {0} /\ (D = d \/ D = -d) /\ (d < 0 => D = -d) /\ (~(d < 0) => D = d)
  BY <1>1 DEF Abs
<1>3. PICK K : K = Denominators(n, D)
  OBVIOUS
<1>4. K \subseteq 1 .. D /\ \A k \in 1 .. D : k \in K <=> (n * k) % D = 0
  BY <1>3 DEF Denominators
<1>5. D \in K
  <2>1. n * D \in Int /\ n * D = n * D
    BY <1>2
  <2>2. (n * D) % D = 0
    BY <1>2, <2>1, Divides
  <2> QED
    BY <1>2, <1>4, <2>2
<1>6. PICK b : b = Min(K)
  OBVIOUS
<1>7. b \in K /\ \A k \in K : b <= k
  <2>1. K \in SUBSET Nat /\ K # {}
    BY <1>2, <1>4, <1>5
  <2> QED
    BY <1>6, <2>1, MinIs
<1>8. b \in 1 .. D /\ b \in Nat \ {0} /\ (n * b) % D = 0
  BY <1>2, <1>4, <1>7
<1>9. PICK s : s = IF d < 0 THEN -1 ELSE 1
  OBVIOUS
<1>10. s \in {-1, 1} /\ s * D = d /\ s * d = D
  BY <1>2, <1>9
<1>11. PICK m : m = (s * n * b) \div D
  OBVIOUS
<1>12. Frac(n, d) = << m, b >>
  BY <1>1, <1>3, <1>6, <1>9, <1>11 DEF Frac
<1>13. m \in Int /\ m * D = s * n * b
  <2>1. PICK w : w = n * b
    OBVIOUS
  <2>2. w \in Int /\ w % D = 0
    BY <1>8, <2>1
  <2>3. PICK v : v = w \div D
    OBVIOUS
  <2>4. v \in Int /\ v * D = w
    BY <1>2, <2>2, <2>3, Divides
  <2>5. s * n * b = s * w
    BY <1>8, <1>10, <2>1
  <2>6. s * w \in Int /\ s * v \in Int /\ s * w = (s * v) * D
    BY <1>2, <1>10, <2>2, <2>4
  <2>7. (s * w) % D = 0
    BY <1>2, <2>6, Divides
  <2>8. PICK u : u = s * w
    OBVIOUS
  <2>9. u \in Int /\ (u \div D) * D = u /\ u \div D \in Int
    BY Zenon, <1>2, <2>6, <2>7, <2>8, Divides
  <2> QED
    BY <1>11, <2>5, <2>8, <2>9
<1>14. m * d = n * b
  <2>1. CASE s = 1
    BY <1>2, <1>8, <1>10, <1>13, <2>1
  <2>2. CASE s = -1
    BY <1>2, <1>8, <1>10, <1>13, <2>2
  <2> QED
    BY <1>10, <2>1, <2>2
<1>15. ASSUME NEW k \in Nat \ {0}, NEW j \in Int, j * d = n * k PROVE b <= k
  <2>1. CASE k > D
    BY <1>2, <1>8, <2>1
  <2>2. CASE k <= D
    <3>1. n * k \in Int /\ s * j \in Int /\ n * k = (s * j) * D
      BY <1>2, <1>10, <1>15
    <3>2. (n * k) % D = 0
      BY <1>2, <3>1, Divides
    <3>3. k \in K
      BY <1>2, <1>4, <2>2, <3>2
    <3> QED
      BY <1>7, <3>3
  <2> QED
    BY <1>2, <2>1, <2>2
<1> QED
  BY <1>8, <1>12, <1>13, <1>14, <1>15

(* Only one fraction has the value and the least denominator.               *)
LEMMA FracUnique ==
    ASSUME NEW n \in Int, NEW d \in Int \ {0}, NEW m \in Int, NEW b \in Nat \ {0},
           m * d = n * b,
           \A k \in Nat \ {0}, j \in Int : j * d = n * k => b <= k
    PROVE  Frac(n, d) = << m, b >>
<1>1. PICK x, y : x = Frac(n, d)[1] /\ y = Frac(n, d)[2]
  OBVIOUS
<1>2. /\ Frac(n, d) = << x, y >> /\ x \in Int /\ y \in Nat \ {0} /\ x * d = n * y
      /\ \A k \in Nat \ {0}, j \in Int : j * d = n * k => y <= k
  BY <1>1, FracIs
<1>3. y <= b /\ b <= y
  BY <1>2
<1>4. y = b
  BY <1>2, <1>3
<1>5. x * d = m * d
  BY <1>2, <1>4
<1>6. x = m
  BY <1>2, <1>5, Cancel
<1> QED
  BY <1>2, <1>4, <1>6

(* n / d and n2 / d2 are cross-multiplied.                                  *)
LEMMA Across ==
    ASSUME NEW n \in Int, NEW d \in Int \ {0}, NEW n2 \in Int, NEW d2 \in Int \ {0},
           n * d2 = n2 * d, NEW x \in Int, NEW y \in Int, x * d = n * y
    PROVE  x * d2 = n2 * y
<1>1. (x * d2) * d = (x * d) * d2
  OBVIOUS
<1>2. (x * d) * d2 = (n * y) * d2
  OBVIOUS
<1>3. (n * y) * d2 = (n * d2) * y
  OBVIOUS
<1>4. (n * d2) * y = (n2 * d) * y
  OBVIOUS
<1>5. (n2 * d) * y = (n2 * y) * d
  OBVIOUS
<1>6. (x * d2) * d = (n2 * y) * d /\ x * d2 \in Int /\ n2 * y \in Int
  BY <1>1, <1>2, <1>3, <1>4, <1>5
<1> QED
  BY <1>6, Cancel

(* The same, with the product hidden from the provers.                      *)
LowestTerms(n, d, m, b) ==
    /\ m * d = n * b
    /\ \A k \in Nat \ {0}, j \in Int : j * d = n * k => b <= k

LEMMA FracLowest ==
    ASSUME NEW n \in Int, NEW d \in Int \ {0}, NEW m \in Int, NEW b \in Nat \ {0},
           LowestTerms(n, d, m, b)
    PROVE  Frac(n, d) = << m, b >>
<1>1. m * d = n * b /\ \A k \in Nat \ {0}, j \in Int : j * d = n * k => b <= k
  BY DEF LowestTerms
<1> QED
  BY Zenon, <1>1, FracUnique

LEMMA FracEqual ==
    ASSUME NEW n \in Int, NEW d \in Int \ {0}, NEW n2 \in Int, NEW d2 \in Int \ {0},
           n * d2 = n2 * d
    PROVE  Frac(n, d) = Frac(n2, d2)
<1>1. PICK x, y : x = Frac(n2, d2)[1] /\ y = Frac(n2, d2)[2]
  OBVIOUS
<1>2. /\ Frac(n2, d2) = << x, y >> /\ x \in Int /\ y \in Nat \ {0} /\ x * d2 = n2 * y
      /\ \A k \in Nat \ {0}, j \in Int : j * d2 = n2 * k => y <= k
  BY <1>1, FracIs
<1>3. x * d = n * y
  BY <1>2, Across
<1>4. ASSUME NEW k \in Nat \ {0}, NEW j \in Int, j * d = n * k PROVE y <= k
  <2>1. j * d2 = n2 * k
    BY <1>4, Across
  <2> QED
    BY <1>2, <2>1
<1>5. \A k \in Nat \ {0}, j \in Int : j * d = n * k => y <= k
  BY <1>4
<1>6. x \in Int /\ y \in Nat \ {0}
  BY <1>2
<1>7. LowestTerms(n, d, x, y)
  BY <1>3, <1>5 DEF LowestTerms
<1>8. Frac(n, d) = << x, y >>
  BY <1>6, <1>7, FracLowest
<1> QED
  BY <1>2, <1>8

(* A fraction is no NaN.                                                    *)
LEMMA FracNumber ==
    ASSUME NEW n \in Int, NEW d \in Int \ {0}
    PROVE  Frac(n, d) # NaN
<1>1. PICK x, y : x = Frac(n, d)[1] /\ y = Frac(n, d)[2]
  OBVIOUS
<1>2. Frac(n, d) = << x, y >> /\ x \in Int /\ y \in Int
  BY <1>1, FracIs
<1>3. << x, y >> \in Int \X Int
  BY <1>2
<1> QED
  BY <1>2, <1>3, NaNAssumption

(* Sums of fractions.                                                       *)
LEMMA AddIs ==
    ASSUME NEW a \in Int, NEW b \in Int \ {0}, NEW c \in Int, NEW d \in Int \ {0}
    PROVE  Add(Frac(a, b), Frac(c, d)) = Frac(a * d + c * b, b * d)
<1>0. PICK x, y : x = Frac(a, b)[1] /\ y = Frac(a, b)[2]
  OBVIOUS
<1>1. /\ Frac(a, b) = << x, y >> /\ Frac(a, b) # NaN
      /\ x \in Int /\ y \in Nat \ {0} /\ x * b = a * y
  BY <1>0, FracIs, FracNumber
<1> PICK v, w : v = Frac(c, d)[1] /\ w = Frac(c, d)[2]
  OBVIOUS
<1>2. /\ Frac(c, d) = << v, w >> /\ Frac(c, d) # NaN
      /\ v \in Int /\ w \in Nat \ {0} /\ v * d = c * w
  BY FracIs, FracNumber
<1>3. Add(Frac(a, b), Frac(c, d)) = Frac(x * w + v * y, y * w)
  BY <1>1, <1>2 DEF Add
<1>4. (x * w + v * y) * (b * d) = (a * d + c * b) * (y * w)
  <2>1. (x * w) * (b * d) = (x * b) * (w * d)
    BY <1>1, <1>2
  <2>2. (x * b) * (w * d) = (a * y) * (w * d)
    BY <1>1, <1>2
  <2>3. (a * y) * (w * d) = (a * d) * (y * w)
    BY <1>1, <1>2
  <2>4. (v * y) * (b * d) = (v * d) * (y * b)
    BY <1>1, <1>2
  <2>5. (v * d) * (y * b) = (c * w) * (y * b)
    BY <1>1, <1>2
  <2>6. (c * w) * (y * b) = (c * b) * (y * w)
    BY <1>1, <1>2
  <2>7. /\ (x * w) * (b * d) = (a * d) * (y * w)
        /\ (v * y) * (b * d) = (c * b) * (y * w)
    BY <1>1, <1>2, <2>1, <2>2, <2>3, <2>4, <2>5, <2>6
  <2>8. /\ (x * w + v * y) * (b * d) = (x * w) * (b * d) + (v * y) * (b * d)
        /\ (a * d + c * b) * (y * w) = (a * d) * (y * w) + (c * b) * (y * w)
    BY <1>1, <1>2
  <2> QED
    BY <1>1, <1>2, <2>7, <2>8
<1>5. x * w + v * y \in Int /\ y * w \in Int \ {0} /\ a * d + c * b \in Int /\ b * d \in Int \ {0}
  BY <1>1, <1>2, Cancel
<1>6. PICK e, f, g, h : e = x * w + v * y /\ f = y * w /\ g = a * d + c * b /\ h = b * d
  OBVIOUS
<1>7. e \in Int /\ f \in Int \ {0} /\ g \in Int /\ h \in Int \ {0} /\ e * h = g * f
  BY <1>4, <1>5, <1>6
<1>8. Frac(e, f) = Frac(g, h)
  BY <1>7, FracEqual
<1> QED
  BY <1>3, <1>6, <1>8

LEMMA AddSame ==
    ASSUME NEW a \in Int, NEW c \in Int, NEW b \in Int \ {0}
    PROVE  Add(Frac(a, b), Frac(c, b)) = Frac(a + c, b)
<1>1. PICK g, h : g = a * b + c * b /\ h = b * b
  OBVIOUS
<1>2. g \in Int /\ h \in Int /\ h # 0
  BY <1>1
<1>3. g * b = (a + c) * h
  BY <1>1
<1>4. Frac(g, h) = Frac(a + c, b)
  BY <1>2, <1>3, FracEqual
<1> QED
  BY <1>1, <1>4, AddIs

LEMMA NegIs ==
    ASSUME NEW a \in Int, NEW b \in Int \ {0}
    PROVE  Neg(Frac(a, b)) = Frac(-a, b)
<1>1. PICK x, y : x = Frac(a, b)[1] /\ y = Frac(a, b)[2]
  OBVIOUS
<1>2. /\ Frac(a, b) = << x, y >> /\ x \in Int /\ y \in Nat \ {0} /\ x * b = a * y
      /\ \A k \in Nat \ {0}, j \in Int : j * b = a * k => y <= k
  BY <1>1, FracIs
<1>3. Neg(Frac(a, b)) = << -x, y >>
  BY <1>2, FracNumber DEF Neg
<1>4. -x \in Int /\ -a \in Int /\ (-x) * b = (-a) * y
  BY <1>2
<1>5. ASSUME NEW k \in Nat \ {0}, NEW j \in Int, j * b = (-a) * k PROVE y <= k
  <2>1. -j \in Int /\ (-j) * b = a * k
    BY <1>5
  <2> QED
    BY Zenon, <1>2, <2>1
<1>6. Frac(-a, b) = << -x, y >>
  BY Zenon, <1>2, <1>4, <1>5, FracUnique
<1> QED
  BY <1>3, <1>6

LEMMA SubSame ==
    ASSUME NEW a \in Int, NEW c \in Int, NEW b \in Int \ {0}
    PROVE  Sub(Frac(a, b), Frac(c, b)) = Frac(a - c, b)
<1>1. Sub(Frac(a, b), Frac(c, b)) = Add(Frac(a, b), Frac(-c, b))
  BY NegIs DEF Sub
<1>2. -c \in Int /\ a + (-c) = a - c
  OBVIOUS
<1> QED
  BY <1>1, <1>2, AddSame

LEMMA TimesIs ==
    ASSUME NEW i \in Int, NEW a \in Int, NEW b \in Int \ {0}
    PROVE  Times(i, Frac(a, b)) = Frac(i * a, b)
<1>0. PICK x, y : x = Frac(a, b)[1] /\ y = Frac(a, b)[2]
  OBVIOUS
<1>1. /\ Frac(a, b) = << x, y >> /\ Frac(a, b) # NaN
      /\ x \in Int /\ y \in Nat \ {0} /\ x * b = a * y
  BY <1>0, FracIs, FracNumber
<1>2. Times(i, Frac(a, b)) = Frac(i * x, y)
  BY <1>1 DEF Times
<1>3. (i * x) * b = (i * a) * y /\ i * x \in Int /\ i * a \in Int /\ y \in Int \ {0}
  BY <1>1
<1> QED
  BY <1>2, <1>3, FracEqual

LEMMA OverIs ==
    ASSUME NEW i \in Int \ {0}, NEW a \in Int, NEW b \in Int \ {0}
    PROVE  Over(Frac(a, b), i) = Frac(a, b * i)
<1>0. PICK x, y : x = Frac(a, b)[1] /\ y = Frac(a, b)[2]
  OBVIOUS
<1>1. /\ Frac(a, b) = << x, y >> /\ Frac(a, b) # NaN
      /\ x \in Int /\ y \in Nat \ {0} /\ x * b = a * y
  BY <1>0, FracIs, FracNumber
<1>2. Over(Frac(a, b), i) = Frac(x, y * i)
  BY <1>1 DEF Over
<1>3. x * (b * i) = a * (y * i)
  BY <1>1
<1>4. x \in Int /\ y * i \in Int \ {0} /\ b * i \in Int \ {0}
  BY <1>1, Cancel
<1> QED
  BY <1>2, <1>3, <1>4, FracEqual

LEMMA OfIntUnit ==
    ASSUME NEW i \in Int
    PROVE  OfInt(i) = Frac(i, 1)
<1>1. Frac(i, 1) = << i, 1 >>
  BY FracUnique
<1> QED
  BY <1>1 DEF OfInt

LEMMA OfIntIs ==
    ASSUME NEW i \in Int, NEW b \in Int \ {0}
    PROVE  OfInt(i) = Frac(i * b, b)
<1>1. Frac(i * b, b) = Frac(i, 1)
  BY FracEqual
<1> QED
  BY <1>1, OfIntUnit

(* The order of fractions.                                                  *)
LEMMA LessEqIs ==
    ASSUME NEW a \in Int, NEW b \in Nat \ {0}, NEW c \in Int, NEW d \in Nat \ {0}
    PROVE  LessEq(Frac(a, b), Frac(c, d)) <=> a * d <= c * b
<1>0. PICK x, y : x = Frac(a, b)[1] /\ y = Frac(a, b)[2]
  OBVIOUS
<1>1. /\ Frac(a, b) = << x, y >> /\ Frac(a, b) # NaN
      /\ x \in Int /\ y \in Nat \ {0} /\ x * b = a * y
  BY <1>0, FracIs, FracNumber
<1> PICK v, w : v = Frac(c, d)[1] /\ w = Frac(c, d)[2]
  OBVIOUS
<1>2. /\ Frac(c, d) = << v, w >> /\ Frac(c, d) # NaN
      /\ v \in Int /\ w \in Nat \ {0} /\ v * d = c * w
  BY FracIs, FracNumber
<1>3. LessEq(Frac(a, b), Frac(c, d)) <=> x * w <= v * y
  BY <1>1, <1>2 DEF LessEq
<1>4. (x * w) * (b * d) = (a * d) * (y * w)
  <2>1. (x * w) * (b * d) = (x * b) * (w * d)
    BY <1>1, <1>2
  <2>2. (x * b) * (w * d) = (a * y) * (w * d)
    BY <1>1, <1>2
  <2>3. (a * y) * (w * d) = (a * d) * (y * w)
    BY <1>1, <1>2
  <2> QED
    BY <2>1, <2>2, <2>3
<1>5. (v * y) * (b * d) = (c * b) * (y * w)
  <2>1. (v * y) * (b * d) = (v * d) * (y * b)
    BY <1>1, <1>2
  <2>2. (v * d) * (y * b) = (c * w) * (y * b)
    BY <1>1, <1>2
  <2>3. (c * w) * (y * b) = (c * b) * (y * w)
    BY <1>1, <1>2
  <2> QED
    BY <2>1, <2>2, <2>3
<1>6. PICK l, r, g, h, p, q : /\ l = x * w /\ r = v * y /\ g = a * d /\ h = c * b
                              /\ p = b * d /\ q = y * w
  OBVIOUS
<1>7. /\ l \in Int /\ r \in Int /\ g \in Int /\ h \in Int /\ p \in Nat \ {0} /\ q \in Nat \ {0}
      /\ l * p = g * q /\ r * p = h * q
  <2>1. p \in Nat \ {0} /\ q \in Nat \ {0}
    BY <1>1, <1>2, <1>6, Positive
  <2> QED
    BY <1>1, <1>2, <1>4, <1>5, <1>6, <2>1
<1>8. l <= r <=> g <= h
  <2>1. l <= r <=> l * p <= r * p
    BY <1>7, Scale
  <2>2. g <= h <=> g * q <= h * q
    BY <1>7, Scale
  <2> QED
    BY <1>7, <2>1, <2>2
<1> QED
  BY <1>3, <1>6, <1>8

----------------------------------------------------------------------------
(* One account.  Here n is the net quantity, c the cash, a / b the average  *)
(* entry price of the position before an execution of quantity q at price p.*)

Fractions == {Frac(n, d) : n \in Int, d \in Nat \ {0}}
Account == [quantity : Int, averageEntryPrice : Fractions, realisedPnl : Fractions]

(* What is realised is the cash plus the position at its entry price.       *)
Settled(pos, c) ==
    pos.realisedPnl = Add(OfInt(c), Times(pos.quantity, pos.averageEntryPrice))

LEMMA SettledIs ==
    ASSUME NEW n \in Int, NEW c \in Int, NEW a \in Int, NEW b \in Int \ {0}
    PROVE  Add(OfInt(c), Times(n, Frac(a, b))) = Frac(c * b + n * a, b)
<1>1. OfInt(c) = Frac(c * b, b) /\ Times(n, Frac(a, b)) = Frac(n * a, b)
  BY OfIntIs, TimesIs
<1>2. c * b \in Int /\ n * a \in Int
  OBVIOUS
<1> QED
  BY <1>1, <1>2, AddSame

(* Closing k of a position at price p when r / b has been realised so far.  *)
ClosesShort(s, r, k, a, b, p) == s = r + k * (a - p * b)
ClosesLong(s, r, k, a, b, p) == s = r + k * (p * b - a)

LEMMA RealiseShort ==
    ASSUME NEW r \in Int, NEW a \in Int, NEW b \in Int \ {0}, NEW k \in Int, NEW p \in Int,
           NEW s \in Int, ClosesShort(s, r, k, a, b, p)
    PROVE  Add(Frac(r, b), Times(k, Sub(Frac(a, b), OfInt(p)))) = Frac(s, b)
<1>1. PICK m : m = p * b
  OBVIOUS
<1>2. m \in Int /\ OfInt(p) = Frac(m, b)
  BY <1>1, OfIntIs
<1>3. PICK e : e = a - m
  OBVIOUS
<1>4. PICK g : g = k * e
  OBVIOUS
<1>5. e \in Int /\ g \in Int /\ s = r + g
  BY <1>1, <1>2, <1>3, <1>4 DEF ClosesShort
<1>6. Sub(Frac(a, b), OfInt(p)) = Frac(e, b)
  <2>1. Sub(Frac(a, b), Frac(m, b)) = Frac(a - m, b)
    BY <1>2, SubSame
  <2> QED
    BY <1>2, <1>3, <2>1
<1>7. Times(k, Frac(e, b)) = Frac(g, b)
  BY <1>4, <1>5, TimesIs
<1>8. Add(Frac(r, b), Frac(g, b)) = Frac(r + g, b)
  BY <1>5, AddSame
<1> QED
  BY <1>5, <1>6, <1>7, <1>8

LEMMA RealiseLong ==
    ASSUME NEW r \in Int, NEW a \in Int, NEW b \in Int \ {0}, NEW k \in Int, NEW p \in Int,
           NEW s \in Int, ClosesLong(s, r, k, a, b, p)
    PROVE  Add(Frac(r, b), Times(k, Sub(OfInt(p), Frac(a, b)))) = Frac(s, b)
<1>1. PICK m : m = p * b
  OBVIOUS
<1>2. m \in Int /\ OfInt(p) = Frac(m, b)
  BY <1>1, OfIntIs
<1>3. PICK e : e = m - a
  OBVIOUS
<1>4. PICK g : g = k * e
  OBVIOUS
<1>5. e \in Int /\ g \in Int /\ s = r + g
  BY <1>1, <1>2, <1>3, <1>4 DEF ClosesLong
<1>6. Sub(OfInt(p), Frac(a, b)) = Frac(e, b)
  <2>1. Sub(Frac(m, b), Frac(a, b)) = Frac(m - a, b)
    BY <1>2, SubSame
  <2> QED
    BY <1>2, <1>3, <2>1
<1>7. Times(k, Frac(e, b)) = Frac(g, b)
  BY <1>4, <1>5, TimesIs
<1>8. Add(Frac(r, b), Frac(g, b)) = Frac(r + g, b)
  BY <1>5, AddSame
<1> QED
  BY <1>5, <1>6, <1>7, <1>8

(* The new average.                                                         *)
LEMMA VwapIs ==
    ASSUME NEW n \in Int, NEW q \in Int, n + q # 0,
           NEW a \in Int, NEW b \in Int \ {0}, NEW p \in Int,
           NEW g, NEW h, g = n * a + q * p * b, h = b * (n + q)
    PROVE  g \in Int /\ Vwap(n, Frac(a, b), q, p) = Frac(g, h)
<1>1. PICK m : m = q * p
  OBVIOUS
<1>2. m \in Int /\ m * b \in Int /\ n * a \in Int /\ n * a + m * b \in Int
  BY <1>1
<1>3. OfInt(m) = Frac(m * b, b) /\ Times(n, Frac(a, b)) = Frac(n * a, b)
  BY <1>2, OfIntIs, TimesIs
<1>4. Add(Times(n, Frac(a, b)), OfInt(m)) = Frac(n * a + m * b, b)
  BY <1>2, <1>3, AddSame
<1>5. n + q \in Int \ {0}
  OBVIOUS
<1>6. Over(Frac(n * a + m * b, b), n + q) = Frac(n * a + m * b, b * (n + q))
  BY <1>2, <1>5, OverIs
<1> QED
  BY <1>1, <1>4, <1>6 DEF Vwap

(* An account in which r / b has been realised at an average of a / b.      *)
LEMMA AccountIs ==
    ASSUME NEW pos \in Account, NEW c \in Int, Settled(pos, c)
    PROVE  /\ pos.quantity \in Int
           /\ \E a \in Int, b \in Nat \ {0} :
                /\ pos.averageEntryPrice = Frac(a, b)
                /\ pos.realisedPnl = Frac(c * b + pos.quantity * a, b)
<1>1. pos.quantity \in Int /\ pos.averageEntryPrice \in Fractions
  BY DEF Account
<1>2. PICK a \in Int, b \in Nat \ {0} : pos.averageEntryPrice = Frac(a, b)
  BY <1>1 DEF Fractions
<1>3. pos.realisedPnl = Frac(c * b + pos.quantity * a, b)
  BY <1>1, <1>2, SettledIs DEF Settled
<1> QED
  BY <1>1, <1>2, <1>3

(* When is a record a settled account?                                      *)
LEMMA MakeAccount ==
    ASSUME NEW n \in Int, NEW c \in Int, NEW a \in Int, NEW b \in Nat \ {0},
           NEW r \in Int, NEW d \in Nat \ {0}, r * b = (c * b + n * a) * d,
           NEW pos, pos.quantity = n, pos.averageEntryPrice = Frac(a, b),
           pos.realisedPnl = Frac(r, d)
    PROVE  Settled(pos, c)
<1>1. PICK s : s = c * b + n * a
  OBVIOUS
<1>2. s \in Int /\ r * b = s * d
  BY <1>1
<1>3. Frac(r, d) = Frac(s, b)
  BY <1>2, FracEqual
<1> QED
  BY <1>1, <1>3, SettledIs DEF Settled

LEMMA InFractions ==
    ASSUME NEW a \in Int, NEW b \in Nat \ {0}
    PROVE  Frac(a, b) \in Fractions
  BY DEF Fractions

LEMMA CoverShortSettles ==
    ASSUME NEW pos \in Account, NEW c \in Int, Settled(pos, c), pos.quantity < 0,
           NEW q \in Nat \ {0}, NEW p \in Int
    PROVE  /\ CoverShort(pos, q, p) \in Account
           /\ CoverShort(pos, q, p).quantity = pos.quantity + q
           /\ Settled(CoverShort(pos, q, p), c - q * p)
<1>1. PICK n : n = pos.quantity
  OBVIOUS
<1>2. PICK a \in Int, b \in Nat \ {0} :
        pos.averageEntryPrice = Frac(a, b) /\ pos.realisedPnl = Frac(c * b + n * a, b)
  BY <1>1, AccountIs
<1>3. PICK k : k = Least(q, -n)
  OBVIOUS
<1>4. n \in Int /\ n < 0 /\ k \in Int
  BY <1>1, <1>3, AccountIs DEF Least
<1>5. PICK r : r = c * b + n * a
  OBVIOUS
<1>6. PICK s : s = r + k * (a - p * b)
  OBVIOUS
<1>7. r \in Int /\ s \in Int
  BY <1>4, <1>5, <1>6
<1>8. PICK res : res = CoverShort(pos, q, p)
  OBVIOUS
<1>9. PICK avg : avg = IF n + q > 0 THEN OfInt(p) ELSE Frac(a, b)
  OBVIOUS
<1>10. res = [quantity |-> n + q, realisedPnl |-> Frac(s, b), averageEntryPrice |-> avg]
  <2>1. ClosesShort(s, r, k, a, b, p)
    BY <1>6 DEF ClosesShort
  <2>2. Add(Frac(r, b), Times(k, Sub(Frac(a, b), OfInt(p)))) = Frac(s, b)
    BY <1>4, <1>7, <2>1, RealiseShort
  <2> QED
    BY <1>1, <1>2, <1>3, <1>5, <1>8, <1>9, <2>2 DEF CoverShort
<1>11. res.quantity = n + q /\ res.realisedPnl = Frac(s, b) /\ res.averageEntryPrice = avg
  BY <1>10
<1>12. avg \in Fractions
  <2>1. OfInt(p) = Frac(p, 1) /\ Frac(p, 1) \in Fractions /\ Frac(a, b) \in Fractions
    BY OfIntUnit, InFractions
  <2> QED
    BY <1>9, <2>1
<1>13. res \in Account
  BY <1>4, <1>7, <1>10, <1>12, InFractions DEF Account
<1>14. PICK d, t : d = c - q * p /\ t = n + q
  OBVIOUS
<1>15. d \in Int /\ t \in Int
  BY <1>4, <1>14
<1>16. CASE n + q > 0
  <2> PICK u : u = 1
    OBVIOUS
  <2>1. k = -n /\ avg = Frac(p, u)
    BY <1>3, <1>4, <1>9, <1>16, OfIntUnit DEF Least
  <2>2. s * u = (d * u + t * p) * b /\ u \in Nat \ {0}
    BY <1>4, <1>5, <1>6, <1>14, <2>1
  <2>3. Settled(res, d)
    BY ONLY Zenon, <1>7, <1>11, <1>14, <1>15, <2>1, <2>2, MakeAccount
  <2> QED
    BY <1>1, <1>8, <1>11, <1>13, <1>14, <2>3
<1>17. CASE ~(n + q > 0)
  <2>1. k = q /\ avg = Frac(a, b)
    BY <1>3, <1>4, <1>9, <1>17 DEF Least
  <2>2. s * b = (d * b + t * a) * b
    BY <1>4, <1>5, <1>6, <1>14, <2>1
  <2>3. Settled(res, d)
    BY Zenon, <1>7, <1>11, <1>14, <1>15, <2>1, <2>2, MakeAccount
  <2> QED
    BY <1>1, <1>8, <1>11, <1>13, <1>14, <2>3
<1> QED
  BY <1>16, <1>17

LEMMA AddToLongSettles ==
    ASSUME NEW pos \in Account, NEW c \in Int, Settled(pos, c), pos.quantity >= 0,
           NEW q \in Nat \ {0}, NEW p \in Int
    PROVE  /\ AddToLong(pos, q, p) \in Account
           /\ AddToLong(pos, q, p).quantity = pos.quantity + q
           /\ Settled(AddToLong(pos, q, p), c - q * p)
<1>1. PICK n : n = pos.quantity
  OBVIOUS
<1>2. PICK a \in Int, b \in Nat \ {0} :
        pos.averageEntryPrice = Frac(a, b) /\ pos.realisedPnl = Frac(c * b + n * a, b)
  BY <1>1, AccountIs
<1>3. n \in Int /\ n >= 0 /\ n + q # 0 /\ n + q \in Nat \ {0}
  BY <1>1, AccountIs
<1>4. PICK r, g, h : r = c * b + n * a /\ g = n * a + q * p * b /\ h = b * (n + q)
  OBVIOUS
<1>5. r \in Int /\ g \in Int /\ h \in Nat \ {0}
  BY <1>3, <1>4, Positive
<1>6. PICK res : res = AddToLong(pos, q, p)
  OBVIOUS
<1>7. res = [quantity |-> n + q, averageEntryPrice |-> Frac(g, h), realisedPnl |-> Frac(r, b)]
  <2>1. Vwap(n, Frac(a, b), q, p) = Frac(g, h)
    BY <1>3, <1>4, VwapIs
  <2> QED
    BY Zenon, <1>1, <1>2, <1>4, <1>6, <2>1 DEF AddToLong, Account
<1>8. res.quantity = n + q /\ res.realisedPnl = Frac(r, b) /\ res.averageEntryPrice = Frac(g, h)
  BY <1>7
<1>9. res \in Account
  BY <1>3, <1>5, <1>7, InFractions DEF Account
<1>10. PICK d, t : d = c - q * p /\ t = n + q
  OBVIOUS
<1>11. d \in Int /\ t \in Int
  BY <1>3, <1>10
<1>12. r * h = (d * h + t * g) * b
  BY <1>3, <1>4, <1>10
<1>13. Settled(res, d)
  BY ONLY Zenon, <1>5, <1>8, <1>10, <1>11, <1>12, MakeAccount
<1> QED
  BY <1>1, <1>6, <1>8, <1>9, <1>10, <1>13

LEMMA AddToShortSettles ==
    ASSUME NEW pos \in Account, NEW c \in Int, Settled(pos, c), pos.quantity < 0,
           NEW q \in Nat \ {0}, NEW p \in Int
    PROVE  /\ AddToShort(pos, q, p) \in Account
           /\ AddToShort(pos, q, p).quantity = pos.quantity - q
           /\ Settled(AddToShort(pos, q, p), c + q * p)
<1>1. PICK n, m : n = pos.quantity /\ m = -n
  OBVIOUS
<1>2. PICK a \in Int, b \in Nat \ {0} :
        pos.averageEntryPrice = Frac(a, b) /\ pos.realisedPnl = Frac(c * b + n * a, b)
  BY <1>1, AccountIs
<1>3. n \in Int /\ m \in Nat \ {0} /\ m + q # 0 /\ m + q \in Nat \ {0}
  BY <1>1, AccountIs
<1>4. PICK r, g, h : r = c * b + n * a /\ g = m * a + q * p * b /\ h = b * (m + q)
  OBVIOUS
<1>5. r \in Int /\ g \in Int /\ h \in Nat \ {0}
  BY <1>3, <1>4, Positive
<1>6. PICK res : res = AddToShort(pos, q, p)
  OBVIOUS
<1>7. res = [quantity |-> n - q, averageEntryPrice |-> Frac(g, h), realisedPnl |-> Frac(r, b)]
  <2>1. Vwap(m, Frac(a, b), q, p) = Frac(g, h)
    BY <1>3, <1>4, VwapIs
  <2> QED
    BY Zenon, <1>1, <1>2, <1>4, <1>6, <2>1 DEF AddToShort, Account
<1>8. res.quantity = n - q /\ res.realisedPnl = Frac(r, b) /\ res.averageEntryPrice = Frac(g, h)
  BY <1>7
<1>9. res \in Account
  BY <1>3, <1>5, <1>7, InFractions DEF Account
<1>10. PICK d, t : d = c + q * p /\ t = n - q
  OBVIOUS
<1>11. d \in Int /\ t \in Int
  BY <1>3, <1>10
<1>12. r * h = (d * h + t * g) * b
  BY <1>1, <1>3, <1>4, <1>10
<1>13. Settled(res, d)
  BY ONLY Zenon, <1>5, <1>8, <1>10, <1>11, <1>12, MakeAccount
<1> QED
  BY <1>1, <1>6, <1>8, <1>9, <1>10, <1>13

LEMMA CloseLongSettles ==
    ASSUME NEW pos \in Account, NEW c \in Int, Settled(pos, c),
           NEW q \in Nat \ {0}, NEW p \in Int, q >= pos.quantity
    PROVE  /\ CloseLong(pos, q, p) \in Account
           /\ CloseLong(pos, q, p).quantity = pos.quantity - q
           /\ Settled(CloseLong(pos, q, p), c + q * p)
<1>1. PICK n : n = pos.quantity
  OBVIOUS
<1>2. PICK a \in Int, b \in Nat \ {0} :
        pos.averageEntryPrice = Frac(a, b) /\ pos.realisedPnl = Frac(c * b + n * a, b)
  BY <1>1, AccountIs
<1>3. n \in Int
  BY <1>1, AccountIs
<1>4. PICK r : r = c * b + n * a
  OBVIOUS
<1>5. PICK s : s = r + n * (p * b - a)
  OBVIOUS
<1>6. r \in Int /\ s \in Int
  BY <1>3, <1>4, <1>5
<1>7. PICK res : res = CloseLong(pos, q, p)
  OBVIOUS
<1>8. PICK avg : avg = IF q - n > 0 THEN OfInt(p) ELSE Zero
  OBVIOUS
<1>9. res = [quantity |-> -(q - n), realisedPnl |-> Frac(s, b), averageEntryPrice |-> avg]
  <2>1. ClosesLong(s, r, n, a, b, p)
    BY <1>5 DEF ClosesLong
  <2>2. Add(Frac(r, b), Times(n, Sub(OfInt(p), Frac(a, b)))) = Frac(s, b)
    BY <1>3, <1>6, <2>1, RealiseLong
  <2> QED
    BY <1>1, <1>2, <1>4, <1>7, <1>8, <2>2 DEF CloseLong
<1>10. PICK d, t, u, e : d = c + q * p /\ t = n - q /\ u = 1 /\ e = IF q - n > 0 THEN p ELSE 0
  OBVIOUS
<1>11. res.quantity = t /\ res.realisedPnl = Frac(s, b) /\ res.averageEntryPrice = avg
  BY <1>3, <1>9, <1>10
<1>12. d \in Int /\ t \in Int /\ u \in Nat \ {0} /\ e \in Int
  BY <1>3, <1>10
<1>13. avg = Frac(e, u) /\ avg \in Fractions
  <2>1. OfInt(p) = Frac(p, 1) /\ OfInt(0) = Frac(0, 1)
    BY OfIntUnit
  <2>2. avg = Frac(e, u)
    BY <1>8, <1>10, <2>1 DEF Zero
  <2> QED
    BY <1>12, <2>2, InFractions
<1>14. res \in Account
  BY <1>3, <1>6, <1>9, <1>13, InFractions DEF Account
<1>15. s * u = (d * u + t * e) * b
  <2>1. CASE q > n
    <3>1. e = p
      BY <1>3, <1>10, <2>1
    <3> QED
      BY <1>3, <1>4, <1>5, <1>10, <3>1
  <2>2. CASE q = n
    <3>1. t = 0 /\ d = c + n * p
      BY <1>3, <1>10, <2>2
    <3> QED
      BY <1>3, <1>4, <1>5, <1>10, <1>12, <3>1
  <2> QED
    BY <1>1, <1>3, <2>1, <2>2
<1>16. Settled(res, d)
  BY <1>6, <1>11, <1>12, <1>13, <1>15, MakeAccount
<1> QED
  BY <1>1, <1>7, <1>10, <1>11, <1>14, <1>16

LEMMA ReduceLongSettles ==
    ASSUME NEW pos \in Account, NEW c \in Int, Settled(pos, c),
           NEW q \in Nat \ {0}, NEW p \in Int
    PROVE  /\ ReduceLong(pos, q, p) \in Account
           /\ ReduceLong(pos, q, p).quantity = pos.quantity - q
           /\ Settled(ReduceLong(pos, q, p), c + q * p)
<1>1. PICK n : n = pos.quantity
  OBVIOUS
<1>2. PICK a \in Int, b \in Nat \ {0} :
        pos.averageEntryPrice = Frac(a, b) /\ pos.realisedPnl = Frac(c * b + n * a, b)
  BY <1>1, AccountIs
<1>3. n \in Int
  BY <1>1, AccountIs
<1>4. PICK r : r = c * b + n * a
  OBVIOUS
<1>5. PICK s : s = r + q * (p * b - a)
  OBVIOUS
<1>6. r \in Int /\ s \in Int
  BY <1>3, <1>4, <1>5
<1>7. PICK res : res = ReduceLong(pos, q, p)
  OBVIOUS
<1>8. res = [quantity |-> n - q, averageEntryPrice |-> Frac(a, b), realisedPnl |-> Frac(s, b)]
  <2>1. ClosesLong(s, r, q, a, b, p)
    BY <1>5 DEF ClosesLong
  <2>2. Add(Frac(r, b), Times(q, Sub(OfInt(p), Frac(a, b)))) = Frac(s, b)
    BY <1>3, <1>6, <2>1, RealiseLong
  <2> QED
    BY Zenon, <1>1, <1>2, <1>4, <1>7, <2>2 DEF ReduceLong, Account
<1>9. PICK d, t : d = c + q * p /\ t = n - q
  OBVIOUS
<1>10. res.quantity = t /\ res.realisedPnl = Frac(s, b) /\ res.averageEntryPrice = Frac(a, b)
  BY <1>8, <1>9
<1>11. d \in Int /\ t \in Int
  BY <1>3, <1>9
<1>12. res \in Account
  BY <1>3, <1>6, <1>8, InFractions DEF Account
<1>13. s * b = (d * b + t * a) * b
  BY <1>3, <1>4, <1>5, <1>9
<1>14. Settled(res, d)
  BY ONLY Zenon, <1>6, <1>10, <1>11, <1>13, MakeAccount
<1> QED
  BY <1>1, <1>7, <1>9, <1>10, <1>12, <1>14

LEMMA OpenShortSettles ==
    ASSUME NEW pos \in Account, NEW c \in Int, Settled(pos, c), pos.quantity = 0,
           NEW q \in Nat \ {0}, NEW p \in Int
    PROVE  /\ OpenShort(pos, q, p) \in Account
           /\ OpenShort(pos, q, p).quantity = pos.quantity - q
           /\ Settled(OpenShort(pos, q, p), c + q * p)
<1>1. PICK a \in Int, b \in Nat \ {0} :
        pos.averageEntryPrice = Frac(a, b) /\ pos.realisedPnl = Frac(c * b + pos.quantity * a, b)
  BY AccountIs
<1>2. PICK r : r = c * b
  OBVIOUS
<1>3. r \in Int /\ pos.realisedPnl = Frac(r, b)
  BY <1>1, <1>2
<1>4. PICK res, d, t, u : res = OpenShort(pos, q, p) /\ d = c + q * p /\ t = -q /\ u = 1
  OBVIOUS
<1>5. d \in Int /\ t \in Int /\ u \in Nat \ {0}
  BY <1>4
<1>6. res = [quantity |-> t, averageEntryPrice |-> Frac(p, u), realisedPnl |-> Frac(r, b)]
  <2>1. OfInt(p) = Frac(p, u)
    BY <1>4, OfIntUnit
  <2> QED
    BY Zenon, <1>3, <1>4, <2>1 DEF OpenShort, Account
<1>7. res.quantity = t /\ res.realisedPnl = Frac(r, b) /\ res.averageEntryPrice = Frac(p, u)
  BY <1>6
<1>8. res \in Account
  BY <1>3, <1>5, <1>6, InFractions DEF Account
<1>9. r * u = (d * u + t * p) * b
  BY <1>2, <1>4
<1>10. Settled(res, d)
  BY Zenon, <1>3, <1>5, <1>7, <1>9, MakeAccount
<1> QED
  BY <1>4, <1>7, <1>8, <1>10

(* Every execution leaves a settled account.                                *)
LEMMA ExecutionSettles ==
    ASSUME NEW pos \in Account, NEW c \in Int, Settled(pos, c),
           NEW q \in Nat \ {0}, NEW p \in Int
    PROVE  /\ OnBuy(pos, q, p) \in Account
           /\ OnBuy(pos, q, p).quantity = pos.quantity + q
           /\ Settled(OnBuy(pos, q, p), c - q * p)
           /\ OnSell(pos, q, p) \in Account
           /\ OnSell(pos, q, p).quantity = pos.quantity - q
           /\ Settled(OnSell(pos, q, p), c + q * p)
<1>1. pos.quantity \in Int
  BY DEF Account
<1>2. /\ OnBuy(pos, q, p) \in Account
      /\ OnBuy(pos, q, p).quantity = pos.quantity + q
      /\ Settled(OnBuy(pos, q, p), c - q * p)
  <2>1. CASE pos.quantity < 0
    BY <2>1, CoverShortSettles DEF OnBuy
  <2>2. CASE ~(pos.quantity < 0)
    BY <1>1, <2>2, AddToLongSettles DEF OnBuy
  <2> QED
    BY <2>1, <2>2
<1>3. /\ OnSell(pos, q, p) \in Account
      /\ OnSell(pos, q, p).quantity = pos.quantity - q
      /\ Settled(OnSell(pos, q, p), c + q * p)
  <2>1. CASE pos.quantity > 0 /\ q >= pos.quantity
    BY <2>1, CloseLongSettles DEF OnSell
  <2>2. CASE pos.quantity > 0 /\ ~(q >= pos.quantity)
    BY Zenon, <2>2, ReduceLongSettles DEF OnSell
  <2>3. CASE ~(pos.quantity > 0) /\ pos.quantity = 0
    BY <2>3, OpenShortSettles DEF OnSell
  <2>4. CASE ~(pos.quantity > 0) /\ pos.quantity # 0
    BY <1>1, <2>4, AddToShortSettles DEF OnSell
  <2> QED
    BY <2>1, <2>2, <2>3, <2>4
<1> QED
  BY <1>2, <1>3

----------------------------------------------------------------------------
(* The average entry price and the prices that built it.                    *)

Bracketed(avg, E) ==
    /\ \E p \in E : LessEq(OfInt(p), avg)
    /\ \E p \in E : LessEq(avg, OfInt(p))

(* Entries(y, signed, p) of a position of n with the entry prices E.        *)
NextEntries(n, signed, E, p) ==
    IF n + signed = 0 THEN {}
    ELSE IF n * (n + signed) <= 0 THEN {p}
    ELSE IF n * signed > 0 THEN E \cup {p}
    ELSE E

LEMMA Signs ==
    ASSUME NEW x \in Int, NEW y \in Int
    PROVE  /\ x > 0 /\ y > 0 => x * y > 0
           /\ x < 0 /\ y < 0 => x * y > 0
           /\ x > 0 /\ y < 0 => x * y < 0
           /\ x < 0 /\ y > 0 => x * y < 0
           /\ x = 0 => x * y = 0
OBVIOUS

(* An integer below or above a fraction.                                    *)
LEMMA IntCompare ==
    ASSUME NEW l \in Int, NEW a \in Int, NEW b \in Nat \ {0}
    PROVE  /\ LessEq(OfInt(l), Frac(a, b)) <=> l * b <= a
           /\ LessEq(Frac(a, b), OfInt(l)) <=> a <= l * b
<1>1. PICK u : u = 1
  OBVIOUS
<1>2. u \in Nat \ {0} /\ OfInt(l) = Frac(l, u)
  BY <1>1, OfIntUnit
<1>3. /\ LessEq(Frac(l, u), Frac(a, b)) <=> l * b <= a * u
      /\ LessEq(Frac(a, b), Frac(l, u)) <=> a * u <= l * b
  BY <1>2, LessEqIs
<1> QED
  BY <1>1, <1>2, <1>3

LEMMA AtOnePrice ==
    ASSUME NEW p \in Int
    PROVE  Bracketed(OfInt(p), {p})
<1>1. PICK u : u = 1
  OBVIOUS
<1>2. u \in Nat \ {0} /\ OfInt(p) = Frac(p, u) /\ p * u <= p /\ p <= p * u
  BY <1>1, OfIntUnit
<1>3. LessEq(OfInt(p), Frac(p, u)) /\ LessEq(Frac(p, u), OfInt(p))
  BY <1>2, IntCompare
<1> QED
  BY <1>2, <1>3 DEF Bracketed

(* An average of m at a / b and q at p lies between the two.                *)
LEMMA Between ==
    ASSUME NEW m \in Nat \ {0}, NEW q \in Nat \ {0}, NEW a \in Int, NEW b \in Nat \ {0},
           NEW p \in Int, NEW l \in Int, NEW g \in Int, NEW h \in Int,
           g = m * a + q * p * b, h = b * (m + q)
    PROVE  /\ l * b <= a /\ l <= p => l * h <= g
           /\ a <= l * b /\ p <= l => g <= l * h
<1>1. PICK x, y, z : x = l * b /\ y = l * q * b /\ z = p * q * b
  OBVIOUS
<1>2. /\ x \in Int /\ y \in Int /\ z \in Int
      /\ l * h = x * m + y /\ g = a * m + z
  BY <1>1
<1>3. (x <= a <=> x * m <= a * m) /\ (a <= x <=> a * m <= x * m)
  BY <1>2, Scale
<1>4. PICK w : w = q * b
  OBVIOUS
<1>5. w \in Nat \ {0} /\ y = l * w /\ z = p * w
  BY <1>1, <1>4, Positive
<1>6. (l <= p <=> y <= z) /\ (p <= l <=> z <= y)
  BY <1>5, Scale
<1>7. PICK v, o : v = x * m /\ o = a * m
  OBVIOUS
<1>8. v \in Int /\ o \in Int /\ l * h = v + y /\ g = o + z
  BY <1>2, <1>7
<1> QED
  BY <1>1, <1>2, <1>3, <1>6, <1>7, <1>8

LEMMA VwapBracketed ==
    ASSUME NEW m \in Nat \ {0}, NEW q \in Nat \ {0}, NEW avg \in Fractions,
           NEW p \in Int, NEW E \in SUBSET Int, Bracketed(avg, E)
    PROVE  Bracketed(Vwap(m, avg, q, p), E \cup {p})
<1>1. PICK a \in Int, b \in Nat \ {0} : avg = Frac(a, b)
  BY DEF Fractions
<1>2. PICK g, h : g = m * a + q * p * b /\ h = b * (m + q)
  OBVIOUS
<1>3. m + q \in Nat \ {0} /\ m + q # 0 /\ m \in Int
  OBVIOUS
<1>4. g \in Int /\ h \in Nat \ {0}
  BY <1>2, <1>3, Positive
<1>5. Vwap(m, avg, q, p) = Frac(g, h)
  BY <1>1, <1>2, <1>3, VwapIs
<1>6. PICK l \in E : LessEq(OfInt(l), Frac(a, b))
  BY <1>1 DEF Bracketed
<1>7. PICK k \in E : LessEq(Frac(a, b), OfInt(k))
  BY Zenon, <1>1 DEF Bracketed
<1>8. l \in Int /\ k \in Int /\ l * b <= a /\ a <= k * b
  BY <1>6, <1>7, IntCompare
<1>9. \E j \in E \cup {p} : LessEq(OfInt(j), Frac(g, h))
  <2>1. PICK j \in {l, p} : j <= l /\ j <= p
    BY <1>8
  <2>2. j \in Int /\ j * b <= l * b
    BY <1>8, <2>1, Scale
  <2>3. j * b <= a
    BY <1>8, <2>2
  <2>4. j * h <= g
    BY <1>2, <1>4, <2>1, <2>2, <2>3, Between
  <2>5. LessEq(OfInt(j), Frac(g, h))
    BY <1>4, <2>2, <2>4, IntCompare
  <2> QED
    BY <2>1, <2>5
<1>10. \E j \in E \cup {p} : LessEq(Frac(g, h), OfInt(j))
  <2>1. PICK j \in {k, p} : k <= j /\ p <= j
    BY <1>8
  <2>2. j \in Int /\ k * b <= j * b
    BY <1>8, <2>1, Scale
  <2>3. a <= j * b
    BY <1>8, <2>2
  <2>4. g <= j * h
    BY <1>2, <1>4, <2>1, <2>2, <2>3, Between
  <2>5. LessEq(Frac(g, h), OfInt(j))
    BY <1>4, <2>2, <2>4, IntCompare
  <2> QED
    BY <2>1, <2>5
<1> QED
  BY Zenon, <1>5, <1>9, <1>10 DEF Bracketed

(* Adding to nothing opens at the price of the fill.                        *)
LEMMA VwapOpens ==
    ASSUME NEW avg \in Fractions, NEW q \in Nat \ {0}, NEW p \in Int
    PROVE  Vwap(0, avg, q, p) = OfInt(p)
<1>1. PICK a \in Int, b \in Nat \ {0} : avg = Frac(a, b)
  BY DEF Fractions
<1>2. PICK n, g, h : n = 0 /\ g = n * a + q * p * b /\ h = b * (n + q)
  OBVIOUS
<1>3. n \in Int /\ n + q # 0 /\ n + q \in Int
  BY <1>2
<1>4. h \in Nat \ {0} /\ h = b * q
  BY <1>2, Positive
<1>5. g \in Int /\ g = p * h
  BY <1>2, <1>4
<1>6. Vwap(n, avg, q, p) = Frac(g, h)
  BY <1>1, <1>2, <1>3, VwapIs
<1>7. OfInt(p) = Frac(p * h, h)
  BY <1>4, OfIntIs
<1> QED
  BY <1>2, <1>5, <1>6, <1>7

LEMMA BuyBracketed ==
    ASSUME NEW pos \in Account, NEW q \in Nat \ {0}, NEW p \in Int, NEW E \in SUBSET Int,
           pos.quantity # 0 => Bracketed(pos.averageEntryPrice, E),
           pos.quantity + q # 0
    PROVE  Bracketed(OnBuy(pos, q, p).averageEntryPrice, NextEntries(pos.quantity, q, E, p))
<1>1. PICK n, avg : n = pos.quantity /\ avg = pos.averageEntryPrice
  OBVIOUS
<1>2. n \in Int /\ avg \in Fractions /\ n + q \in Int /\ n + q # 0
  BY <1>1 DEF Account
<1>3. CASE n < 0 /\ n + q > 0
  <2>1. n * (n + q) <= 0
    BY <1>2, <1>3, Signs
  <2>2. NextEntries(n, q, E, p) = {p}
    BY <1>2, <2>1 DEF NextEntries
  <2>3. OnBuy(pos, q, p).averageEntryPrice = OfInt(p)
    BY <1>1, <1>3 DEF OnBuy, CoverShort
  <2> QED
    BY <1>1, <2>2, <2>3, AtOnePrice
<1>4. CASE n < 0 /\ ~(n + q > 0)
  <2>1. n * (n + q) > 0 /\ n * q < 0
    BY <1>2, <1>4, Signs
  <2>2. NextEntries(n, q, E, p) = E
    BY <1>2, <2>1 DEF NextEntries
  <2>3. OnBuy(pos, q, p).averageEntryPrice = avg
    BY <1>1, <1>4 DEF OnBuy, CoverShort
  <2> QED
    BY <1>1, <1>4, <2>2, <2>3
<1>5. CASE n = 0
  <2>1. n * (n + q) <= 0
    BY <1>2, <1>5, Signs
  <2>2. NextEntries(n, q, E, p) = {p}
    BY <1>2, <2>1 DEF NextEntries
  <2>3. OnBuy(pos, q, p).averageEntryPrice = Vwap(0, avg, q, p)
    BY <1>1, <1>5 DEF OnBuy, AddToLong, Account
  <2> QED
    BY <1>1, <1>2, <2>2, <2>3, AtOnePrice, VwapOpens
<1>6. CASE n > 0
  <2>1. n * (n + q) > 0 /\ n * q > 0
    BY <1>2, <1>6, Signs
  <2>2. NextEntries(n, q, E, p) = E \cup {p}
    BY <1>2, <2>1 DEF NextEntries
  <2>3. OnBuy(pos, q, p).averageEntryPrice = Vwap(n, avg, q, p)
    BY <1>1, <1>6 DEF OnBuy, AddToLong, Account
  <2>4. Bracketed(Vwap(n, avg, q, p), E \cup {p})
    BY <1>1, <1>2, <1>6, VwapBracketed
  <2> QED
    BY <1>1, <2>2, <2>3, <2>4
<1> QED
  BY <1>2, <1>3, <1>4, <1>5, <1>6

LEMMA SellBracketed ==
    ASSUME NEW pos \in Account, NEW q \in Nat \ {0}, NEW p \in Int, NEW E \in SUBSET Int,
           pos.quantity # 0 => Bracketed(pos.averageEntryPrice, E),
           pos.quantity - q # 0
    PROVE  Bracketed(OnSell(pos, q, p).averageEntryPrice, NextEntries(pos.quantity, -q, E, p))
<1>1. PICK n, avg, k : n = pos.quantity /\ avg = pos.averageEntryPrice /\ k = -q
  OBVIOUS
<1>2. /\ n \in Int /\ avg \in Fractions /\ k \in Int /\ k < 0
      /\ n + k = n - q /\ n + k \in Int /\ n + k # 0
  BY <1>1 DEF Account
<1>3. CASE n > 0 /\ q >= n
  <2>1. n * (n + k) <= 0
    BY <1>2, <1>3, Signs
  <2>2. NextEntries(n, k, E, p) = {p}
    BY <1>2, <2>1 DEF NextEntries
  <2>3. OnSell(pos, q, p).averageEntryPrice = OfInt(p)
    BY <1>1, <1>2, <1>3 DEF OnSell, CloseLong
  <2> QED
    BY <1>1, <2>2, <2>3, AtOnePrice
<1>4. CASE n > 0 /\ ~(q >= n)
  <2>1. n * (n + k) > 0 /\ n * k < 0
    BY <1>2, <1>4, Signs
  <2>2. NextEntries(n, k, E, p) = E
    BY <1>2, <2>1 DEF NextEntries
  <2>3. OnSell(pos, q, p).averageEntryPrice = avg
    BY <1>1, <1>4 DEF OnSell, ReduceLong, Account
  <2> QED
    BY <1>1, <1>4, <2>2, <2>3
<1>5. CASE n = 0
  <2>1. n * (n + k) <= 0
    BY <1>2, <1>5, Signs
  <2>2. NextEntries(n, k, E, p) = {p}
    BY <1>2, <2>1 DEF NextEntries
  <2>3. OnSell(pos, q, p).averageEntryPrice = OfInt(p)
    BY <1>1, <1>5 DEF OnSell, OpenShort, Account
  <2> QED
    BY <1>1, <2>2, <2>3, AtOnePrice
<1>6. CASE n < 0
  <2>1. n * (n + k) > 0 /\ n * k > 0
    BY <1>2, <1>6, Signs
  <2>2. NextEntries(n, k, E, p) = E \cup {p}
    BY <1>2, <2>1 DEF NextEntries
  <2>3. OnSell(pos, q, p).averageEntryPrice = Vwap(-n, avg, q, p)
    BY <1>1, <1>6 DEF OnSell, AddToShort, Account
  <2>4. PICK m : m = -n
    OBVIOUS
  <2>5. Bracketed(Vwap(m, avg, q, p), E \cup {p})
    BY <1>1, <1>2, <1>6, <2>4, VwapBracketed
  <2> QED
    BY Zenon, <1>1, <2>2, <2>3, <2>4, <2>5
<1> QED
  BY <1>2, <1>3, <1>4, <1>5, <1>6

----------------------------------------------------------------------------
(* Every execution moves something.  The engine can produce fills of 0,     *)
(* after which an average is 0 / 0; the results below are about the rest.   *)
NoEmptyFills == Quantities \subseteq Nat \ {0}

(* The inductive invariant of the position manager: every position is an    *)
(* account that the history of its fills explains.                          *)
PInv ==
    /\ positions \in [Symbols -> Account]
    /\ cash \in [Symbols -> Int]
    /\ net \in [Symbols -> Int]
    /\ entries \in [Symbols -> SUBSET Int]
    /\ \A y \in Symbols :
        /\ positions[y].quantity = net[y]
        /\ Settled(positions[y], cash[y])
        /\ net[y] # 0 => Bracketed(positions[y].averageEntryPrice, entries[y])

LEMMA PInvInit == Init => PInv
<1> SUFFICES ASSUME Init PROVE PInv
  OBVIOUS
<1>1. PICK o, u : o = 0 /\ u = 1
  OBVIOUS
<1>2. o \in Int /\ u \in Nat \ {0} /\ Zero = Frac(o, u)
  BY <1>1, OfIntUnit DEF Zero
<1>3. Flat \in Account /\ Flat.quantity = 0
  BY <1>1, <1>2, InFractions DEF Flat, Account
<1>4. Flat.quantity = o /\ Flat.averageEntryPrice = Frac(o, u) /\ Flat.realisedPnl = Frac(o, u)
  BY <1>1, <1>2 DEF Flat
<1>5. o * u = (o * u + o * o) * u
  BY <1>1
<1>6. Settled(Flat, o)
  BY Zenon, <1>2, <1>4, <1>5, MakeAccount
<1> QED
  BY <1>1, <1>3, <1>6 DEF Init, PInv

(* One execution, seen from the account it touches.                         *)
LEMMA ExecutionKeepsAccount ==
    ASSUME NoEmptyFills, PInv, NEW y \in Symbols, NEW side \in {"BUY", "SELL"},
           NEW q \in Quantities, NEW p \in Prices, onExecution(y, side, q, p)
    PROVE  /\ positions'[y] \in Account
           /\ cash'[y] \in Int /\ net'[y] \in Int /\ entries'[y] \in SUBSET Int
           /\ positions'[y].quantity = net'[y]
           /\ Settled(positions'[y], cash'[y])
           /\ net'[y] # 0 => Bracketed(positions'[y].averageEntryPrice, entries'[y])
<1>1. q \in Nat \ {0} /\ p \in Int
  BY PricesAssumption DEF NoEmptyFills
<1>2. PICK pos, c, n, E : pos = positions[y] /\ c = cash[y] /\ n = net[y] /\ E = entries[y]
  OBVIOUS
<1>3. /\ pos \in Account /\ c \in Int /\ n \in Int /\ E \in SUBSET Int
      /\ pos.quantity = n /\ Settled(pos, c)
      /\ n # 0 => Bracketed(pos.averageEntryPrice, E)
  BY <1>2 DEF PInv
<1>4. CASE side = "BUY"
  <2>1. /\ positions'[y] = OnBuy(pos, q, p)
        /\ cash'[y] = c - q * p
        /\ net'[y] = n + q
        /\ entries'[y] = NextEntries(n, q, E, p)
    BY <1>2, <1>4 DEF onExecution, Entries, NextEntries, PInv
  <2>2. entries'[y] \in SUBSET Int
    BY <1>1, <1>3, <2>1 DEF NextEntries
  <2>3. /\ OnBuy(pos, q, p) \in Account
        /\ OnBuy(pos, q, p).quantity = n + q
        /\ Settled(OnBuy(pos, q, p), c - q * p)
    BY Zenon, <1>1, <1>3, ExecutionSettles
  <2>4. n + q # 0 => Bracketed(OnBuy(pos, q, p).averageEntryPrice, NextEntries(n, q, E, p))
    BY <1>1, <1>3, BuyBracketed
  <2>5. c - q * p \in Int /\ n + q \in Int
    BY <1>1, <1>3
  <2> QED
    BY <2>1, <2>2, <2>3, <2>4, <2>5
<1>5. CASE side = "SELL"
  <2>1. /\ positions'[y] = OnSell(pos, q, p)
        /\ cash'[y] = c - (-q) * p
        /\ net'[y] = n + (-q)
        /\ entries'[y] = NextEntries(n, -q, E, p)
    BY <1>2, <1>5 DEF onExecution, Entries, NextEntries, PInv
  <2>2. entries'[y] \in SUBSET Int
    BY <1>1, <1>3, <2>1 DEF NextEntries
  <2>3. /\ OnSell(pos, q, p) \in Account
        /\ OnSell(pos, q, p).quantity = n - q
        /\ Settled(OnSell(pos, q, p), c + q * p)
    BY Zenon, <1>1, <1>3, ExecutionSettles
  <2>4. n - q # 0 => Bracketed(OnSell(pos, q, p).averageEntryPrice, NextEntries(n, -q, E, p))
    BY Zenon, <1>1, <1>3, SellBracketed
  <2>5. /\ c - (-q) * p = c + q * p /\ n + (-q) = n - q
        /\ c + q * p \in Int /\ n - q \in Int
    BY <1>1, <1>3
  <2> QED
    BY <2>1, <2>2, <2>3, <2>4, <2>5
<1> QED
  BY <1>4, <1>5

LEMMA PInvExecution ==
    ASSUME NoEmptyFills, PInv, NEW y \in Symbols, NEW side \in {"BUY", "SELL"},
           NEW q \in Quantities, NEW p \in Prices, onExecution(y, side, q, p)
    PROVE  PInv'
<1>1. /\ positions'[y] \in Account
      /\ cash'[y] \in Int /\ net'[y] \in Int /\ entries'[y] \in SUBSET Int
      /\ positions'[y].quantity = net'[y]
      /\ Settled(positions'[y], cash'[y])
      /\ net'[y] # 0 => Bracketed(positions'[y].averageEntryPrice, entries'[y])
  BY ExecutionKeepsAccount
<1>2. \A z \in Symbols \ {y} :
        /\ positions'[z] = positions[z] /\ cash'[z] = cash[z]
        /\ net'[z] = net[z] /\ entries'[z] = entries[z]
  BY DEF onExecution, PInv
<1>3. /\ DOMAIN positions' = Symbols /\ DOMAIN cash' = Symbols
      /\ DOMAIN net' = Symbols /\ DOMAIN entries' = Symbols
      /\ positions' = [z \in Symbols |-> positions'[z]]
      /\ cash' = [z \in Symbols |-> cash'[z]]
      /\ net' = [z \in Symbols |-> net'[z]]
      /\ entries' = [z \in Symbols |-> entries'[z]]
  BY Zenon DEF onExecution, PInv
<1>4. \A z \in Symbols :
        /\ positions'[z] \in Account /\ cash'[z] \in Int
        /\ net'[z] \in Int /\ entries'[z] \in SUBSET Int
        /\ positions'[z].quantity = net'[z]
        /\ Settled(positions'[z], cash'[z])
        /\ net'[z] # 0 => Bracketed(positions'[z].averageEntryPrice, entries'[z])
  <2> SUFFICES ASSUME NEW z \in Symbols \ {y}
               PROVE  /\ positions'[z] \in Account /\ cash'[z] \in Int
                      /\ net'[z] \in Int /\ entries'[z] \in SUBSET Int
                      /\ positions'[z].quantity = net'[z]
                      /\ Settled(positions'[z], cash'[z])
                      /\ net'[z] # 0 => Bracketed(positions'[z].averageEntryPrice, entries'[z])
    BY <1>1
  <2> QED
    BY <1>2 DEF PInv
<1> QED
  BY <1>3, <1>4 DEF PInv

LEMMA PInvNext == NoEmptyFills /\ PInv /\ [Next]_vars => PInv'
<1> SUFFICES ASSUME NoEmptyFills, PInv, [Next]_vars PROVE PInv'
  OBVIOUS
<1>1. CASE Next
  BY <1>1, PInvExecution DEF Next
<1>2. CASE UNCHANGED vars
  BY <1>2 DEF PInv, vars, history
<1> QED
  BY <1>1, <1>2

LEMMA PInvImplies == PInv => PnlAccountsForCash /\ AverageIsBracketed
  BY DEF PInv, PnlAccountsForCash, AverageIsBracketed, Settled, Bracketed

(* Spec => []PnlAccountsForCash: whatever sequence of fills a position goes *)
(* through, what has been realised is its cash flow plus the open position  *)
(* at its average entry price.                                              *)
THEOREM PnlAccountsForCashCorrect ==
    ASSUME NoEmptyFills PROVE Spec => []PnlAccountsForCash
<1>1. PInv /\ [Next]_vars => PInv'
  BY PInvNext
<1> QED
  BY <1>1, PInvInit, PInvImplies, PTL DEF Spec

(* Spec => []AverageIsBracketed: the average of an open position lies       *)
(* between the lowest and the highest price of the fills that built it.     *)
THEOREM AverageIsBracketedCorrect ==
    ASSUME NoEmptyFills PROVE Spec => []AverageIsBracketed
<1>1. PInv /\ [Next]_vars => PInv'
  BY PInvNext
<1> QED
  BY <1>1, PInvInit, PInvImplies, PTL DEF Spec

(* Spec => []AverageIsANumber: without empty fills no average is ever NaN,  *)
(* so a fill of quantity 0 is the only way to one.                          *)
THEOREM AverageIsANumberCorrect ==
    ASSUME NoEmptyFills PROVE Spec => []AverageIsANumber
<1>1. PInv /\ [Next]_vars => PInv'
  BY PInvNext
<1>2. PInv => AverageIsANumber
  <2> SUFFICES ASSUME PInv, NEW y \in Symbols PROVE positions[y].averageEntryPrice # NaN
    BY DEF AverageIsANumber
  <2>1. PICK a \in Int, b \in Nat \ {0} : positions[y].averageEntryPrice = Frac(a, b)
    BY DEF PInv, Account, Fractions
  <2> QED
    BY <2>1, FracNumber
<1> QED
  BY <1>1, <1>2, PInvInit, PTL DEF Spec

----------------------------------------------------------------------------
(* The risk engine: the position manager's invariant and integer ticks.     *)
RInv ==
    /\ PInv
    /\ DOMAIN latestPrices \subseteq Symbols
    /\ \A y \in DOMAIN latestPrices : latestPrices[y] \in Int

LEMMA RInvInit == RInit => RInv
<1>1. DOMAIN << >> = {}
  OBVIOUS
<1> QED
  BY <1>1, PInvInit DEF RInit, RInv

LEMMA RInvNext == NoEmptyFills /\ RInv /\ [RNext]_rvars => RInv'
<1> SUFFICES ASSUME NoEmptyFills, RInv, [RNext]_rvars PROVE RInv'
  OBVIOUS
<1>1. ASSUME NEW y \in Symbols, NEW p \in TickPrices, onTick(y, p)
      PROVE  RInv'
  <2>1. PInv'
    BY <1>1 DEF onTick, RInv, PInv, vars, history
  <2>2. p \in Int
    BY TickPricesAssumption
  <2>3. latestPrices' = [z \in DOMAIN latestPrices \cup {y} |->
                            IF z = y THEN p ELSE latestPrices[z]]
    BY <1>1 DEF onTick
  <2> QED
    BY <2>1, <2>2, <2>3 DEF RInv
<1>2. ASSUME NEW y \in Symbols, NEW side \in {"BUY", "SELL"},
             NEW q \in Quantities, NEW p \in Prices,
             onExecution(y, side, q, p), UNCHANGED latestPrices
      PROVE  RInv'
  <2>1. PInv'
    BY <1>2, PInvExecution DEF RInv
  <2> QED
    BY <1>2, <2>1 DEF RInv
<1>3. CASE UNCHANGED rvars
  BY <1>3 DEF RInv, PInv, rvars, vars, history
<1> QED
  BY <1>1, <1>2, <1>3 DEF RNext

(* A settled account at the price t of a tick, and at its own average.      *)
LEMMA AtTick ==
    ASSUME NEW pos \in Account, NEW c \in Int, Settled(pos, c), NEW t \in Int
    PROVE  Add(pos.realisedPnl, Times(pos.quantity, Sub(OfInt(t), pos.averageEntryPrice)))
             = OfInt(c + pos.quantity * t)
<1>1. PICK a \in Int, b \in Nat \ {0} :
        pos.averageEntryPrice = Frac(a, b) /\ pos.realisedPnl = Frac(c * b + pos.quantity * a, b)
  BY AccountIs
<1>2. PICK n, r, s, v : /\ n = pos.quantity /\ r = c * b + n * a
                        /\ v = c + n * t /\ s = v * b
  OBVIOUS
<1>3. n \in Int /\ r \in Int /\ v \in Int /\ s \in Int
  BY <1>1, <1>2 DEF Account
<1>4. ClosesLong(s, r, n, a, b, t)
  BY <1>2, <1>3 DEF ClosesLong
<1>5. b \in Int \ {0}
  OBVIOUS
<1>6. Add(Frac(r, b), Times(n, Sub(OfInt(t), Frac(a, b)))) = Frac(s, b)
  BY <1>3, <1>4, <1>5, RealiseLong
<1>7. OfInt(v) = Frac(s, b)
  BY Zenon, <1>2, <1>3, <1>5, OfIntIs
<1> QED
  BY <1>1, <1>2, <1>6, <1>7

LEMMA AtEntry ==
    ASSUME NEW pos \in Account
    PROVE  Add(pos.realisedPnl,
               Times(pos.quantity, Sub(pos.averageEntryPrice, pos.averageEntryPrice)))
             = pos.realisedPnl
<1>1. PICK a \in Int, b \in Nat \ {0} : pos.averageEntryPrice = Frac(a, b)
  BY DEF Account, Fractions
<1>2. PICK r \in Int, d \in Nat \ {0} : pos.realisedPnl = Frac(r, d)
  BY DEF Account, Fractions
<1>3. PICK n, o : n = pos.quantity /\ o = 0
  OBVIOUS
<1>4. n \in Int /\ o \in Int /\ b \in Int \ {0} /\ d \in Int \ {0} /\ a - a = o /\ n * o = o
  BY <1>3 DEF Account
<1>5. Sub(Frac(a, b), Frac(a, b)) = Frac(o, b)
  BY <1>4, SubSame
<1>6. Times(n, Frac(o, b)) = Frac(o, b)
  BY <1>4, TimesIs
<1>7. Frac(o, b) = Frac(o, d)
  BY <1>3, <1>4, FracEqual
<1>8. Add(Frac(r, d), Frac(o, d)) = Frac(r + o, d) /\ r + o = r
  BY <1>3, <1>4, AddSame
<1> QED
  BY <1>1, <1>2, <1>3, <1>5, <1>6, <1>7, <1>8

LEMMA RInvImplies == RInv => ReportValuesTheAccount
<1> SUFFICES ASSUME RInv, NEW y \in Symbols
             PROVE  Add(positions[y].realisedPnl, unrealisedPnl(y)) =
                        IF y \in DOMAIN latestPrices
                        THEN OfInt(cash[y] + net[y] * latestPrices[y])
                        ELSE positions[y].realisedPnl
  BY DEF ReportValuesTheAccount
<1>1. /\ positions[y] \in Account /\ cash[y] \in Int
      /\ positions[y].quantity = net[y] /\ Settled(positions[y], cash[y])
  BY DEF RInv, PInv
<1>2. CASE y \in DOMAIN latestPrices
  <2>1. PICK t : t = latestPrices[y]
    OBVIOUS
  <2>2. t \in Int
    BY <1>2, <2>1 DEF RInv
  <2>3. unrealisedPnl(y) = Times(net[y], Sub(OfInt(t), positions[y].averageEntryPrice))
    BY <1>1, <1>2, <2>1 DEF unrealisedPnl, currentPrice
  <2> QED
    BY <1>1, <1>2, <2>1, <2>2, <2>3, AtTick
<1>3. CASE y \notin DOMAIN latestPrices
  BY <1>1, <1>3, AtEntry DEF unrealisedPnl, currentPrice
<1> QED
  BY <1>2, <1>3

(* RSpec => []ReportValuesTheAccount: however ticks and fills interleave,   *)
(* realised plus unrealised P&L of the report is the cash flow of the fills *)
(* plus the open position at the latest price.                              *)
THEOREM ReportValuesTheAccountCorrect ==
    ASSUME NoEmptyFills PROVE RSpec => []ReportValuesTheAccount
<1>1. RInv /\ [RNext]_rvars => RInv'
  BY RInvNext
<1> QED
  BY <1>1, RInvInit, RInvImplies, PTL DEF RSpec

----------------------------------------------------------------------------
(* The value at risk of a market without negative prices and volatilities.  *)
NoNegatives ==
    /\ Prices \subseteq Nat /\ TickPrices \subseteq Nat /\ DefaultVol \in Nat
    /\ \A k \in DOMAIN SurfaceTable :
        \A e \in DOMAIN SurfaceTable[k] : SurfaceTable[k][e] \in Nat

LEMMA LowerBoundOnGrid ==
    ASSUME NEW K, IsGrid(K), NEW x
    PROVE  Surface!LowerBound(K, x) \in K
<1>1. K # {} /\ IsFiniteSet(K) /\ K \subseteq Int
  BY DEF IsGrid
<1>2. \A T \in SUBSET K : T # {} => Surface!Max(T) \in T /\ Surface!Min(T) \in T
  BY Zenon, <1>1, Extremes DEF Surface!Max, Surface!Min
<1> QED
  BY <1>1, <1>2 DEF Surface!LowerBound

LEMMA VolatilityIsNat ==
    ASSUME NoNegatives, NEW x, NEW e
    PROVE  Surface!getVol(x, e) \in Nat
<1>1. CASE SurfaceTable = << >>
  BY <1>1 DEF Surface!getVol, NoNegatives
<1>2. CASE SurfaceTable # << >>
  <2>1. PICK k : k = Surface!LowerBound(DOMAIN SurfaceTable, x)
    OBVIOUS
  <2>2. PICK d : d = Surface!LowerBound(DOMAIN SurfaceTable[k], Surface!OfInt(e))
    OBVIOUS
  <2>3. k \in DOMAIN SurfaceTable
    BY <1>2, <2>1, SurfaceAssumption, LowerBoundOnGrid
  <2>4. d \in DOMAIN SurfaceTable[k]
    BY <1>2, <2>2, <2>3, SurfaceAssumption, LowerBoundOnGrid
  <2>5. Surface!getVol(x, e) = SurfaceTable[k][d]
    BY <1>2, <2>1, <2>2 DEF Surface!getVol
  <2> QED
    BY <2>3, <2>4, <2>5 DEF NoNegatives
<1> QED
  BY <1>1, <1>2

(* Fractions that are not negative.                                         *)
Amounts == {Frac(n, d) : n \in Nat, d \in Nat \ {0}}

LEMMA ZeroLeast ==
    /\ Zero \in Amounts
    /\ \A x \in Amounts : LessEq(Zero, x)
<1>1. PICK o, u : o = 0 /\ u = 1
  OBVIOUS
<1>2. o \in Nat /\ u \in Nat \ {0} /\ Zero = Frac(o, u)
  BY <1>1, OfIntUnit DEF Zero
<1>3. Zero \in Amounts
  BY <1>2 DEF Amounts
<1>4. ASSUME NEW x \in Amounts PROVE LessEq(Zero, x)
  <2>1. PICK a \in Nat, b \in Nat \ {0} : x = Frac(a, b)
    BY DEF Amounts
  <2>2. o * b <= a
    BY <1>1
  <2>3. LessEq(OfInt(o), Frac(a, b))
    BY <1>2, <2>2, IntCompare
  <2> QED
    BY <1>1, <2>1, <2>3 DEF Zero
<1> QED
  BY <1>3, <1>4

LEMMA AddAmounts ==
    ASSUME NEW x \in Amounts, NEW y \in Amounts
    PROVE  /\ Add(x, y) \in Amounts
           /\ LessEq(x, Add(x, y))
           /\ LessEq(y, Add(x, y))
<1>1. PICK a \in Nat, b \in Nat \ {0} : x = Frac(a, b)
  BY DEF Amounts
<1>2. PICK c \in Nat, d \in Nat \ {0} : y = Frac(c, d)
  BY DEF Amounts
<1>3. PICK v, w, g, h : v = a * d /\ w = c * b /\ g = v + w /\ h = b * d
  OBVIOUS
<1>4. v \in Nat /\ w \in Nat /\ g \in Nat /\ h \in Nat \ {0}
  BY <1>3, Positive
<1>5. Add(x, y) = Frac(g, h)
  BY <1>1, <1>2, <1>3, AddIs
<1>6. a * h <= g * b /\ c * h <= g * d
  <2>1. a * h = v * b /\ c * h = w * d
    BY <1>3
  <2>2. v <= g /\ w <= g
    BY <1>3, <1>4
  <2>3. v * b <= g * b /\ w * d <= g * d
    BY <1>4, <2>2, Scale
  <2> QED
    BY <2>1, <2>3
<1>7. LessEq(Frac(a, b), Frac(g, h)) /\ LessEq(Frac(c, d), Frac(g, h))
  BY <1>4, <1>6, LessEqIs
<1> QED
  BY <1>1, <1>2, <1>4, <1>5, <1>7 DEF Amounts

LEMMA LessEqTransitive ==
    ASSUME NEW x \in Amounts, NEW y \in Amounts, NEW z \in Amounts,
           LessEq(x, y), LessEq(y, z)
    PROVE  LessEq(x, z)
<1>1. PICK a \in Nat, b \in Nat \ {0} : x = Frac(a, b)
  BY DEF Amounts
<1>2. PICK c \in Nat, d \in Nat \ {0} : y = Frac(c, d)
  BY DEF Amounts
<1>3. PICK e \in Nat, f \in Nat \ {0} : z = Frac(e, f)
  BY DEF Amounts
<1>4. PICK ad, cb, cf, ed, af, eb : /\ ad = a * d /\ cb = c * b /\ cf = c * f
                                    /\ ed = e * d /\ af = a * f /\ eb = e * b
  OBVIOUS
<1>5. /\ ad \in Int /\ cb \in Int /\ cf \in Int /\ ed \in Int /\ af \in Int /\ eb \in Int
  BY <1>4
<1>6. ad <= cb /\ cf <= ed
  BY <1>1, <1>2, <1>3, <1>4, LessEqIs
<1>7. ad * f <= cb * f /\ cf * b <= ed * b
  BY <1>5, <1>6, Scale
<1>8. ad * f = af * d /\ cb * f = cf * b /\ ed * b = eb * d
  BY <1>4
<1>9. PICK r, s, t : r = af * d /\ s = cf * b /\ t = eb * d
  OBVIOUS
<1>10. r \in Int /\ s \in Int /\ t \in Int /\ r <= s /\ s <= t
  BY <1>5, <1>7, <1>8, <1>9
<1>11. af * d <= eb * d
  BY <1>9, <1>10
<1>12. af <= eb
  BY <1>5, <1>11, Scale
<1>13. LessEq(Frac(a, b), Frac(e, f))
  BY <1>4, <1>12, LessEqIs
<1> QED
  BY <1>1, <1>3, <1>13

(* The equation behind vaR: g adds up the components of sets of symbols.    *)
Gathered(g, s) ==
    IF s = {} THEN Zero ELSE Add(Component(Picked(s)), g[s \ {Picked(s)}])
Gathers(g, S) == g = [s \in S |-> Gathered(g, s)]

LEMMA VaRIs == vaR = (CHOOSE g : Gathers(g, SUBSET Symbols))[Symbols]
  BY DEF vaR, MapThenFoldSet, Gathers, Gathered, Picked

LEMMA GathersExists == \E g : Gathers(g, SUBSET Symbols)
<1> DEFINE D(n) == {s \in SUBSET Symbols : Cardinality(s) <= n}
           P == {n \in Nat : \E g : Gathers(g, D(n))}
<1>1. \A s \in SUBSET Symbols : IsFiniteSet(s) /\ Cardinality(s) \in Nat
  BY SymbolsAssumption, FS_Subset, FS_CardinalityType
<1>2. 0 \in P
  <2> DEFINE g == [s \in D(0) |-> Zero]
  <2>1. \A s \in D(0) : s = {}
    BY <1>1, FS_EmptySet
  <2>2. Gathers(g, D(0))
    BY <2>1 DEF Gathers, Gathered
  <2> QED
    BY Zenon, <2>2
<1>3. ASSUME NEW n \in Nat, n \in P PROVE n + 1 \in P
  <2>1. PICK g : Gathers(g, D(n))
    BY <1>3
  <2> DEFINE h == [s \in D(n + 1) |-> Gathered(g, s)]
  <2>2. \A s \in D(n) : s \in D(n + 1) /\ h[s] = g[s]
    BY <1>1, <2>1 DEF Gathers
  <2>3. ASSUME NEW s \in D(n + 1) PROVE Gathered(g, s) = Gathered(h, s)
    <3>1. CASE s = {}
      BY <3>1 DEF Gathered
    <3>2. CASE s # {}
      <4>1. Picked(s) \in s
        BY <3>2 DEF Picked
      <4>2. s \ {Picked(s)} \in D(n)
        BY <1>1, <4>1, FS_RemoveElement
      <4> QED
        BY Zenon, <2>2, <4>2 DEF Gathered
    <3> QED
      BY <3>1, <3>2
  <2>4. Gathers(h, D(n + 1))
    BY <2>3 DEF Gathers
  <2> HIDE DEF h, D
  <2> QED
    BY <2>4
<1>4. Cardinality(Symbols) \in Nat /\ D(Cardinality(Symbols)) = SUBSET Symbols
  BY <1>1, SymbolsAssumption, FS_Subset
<1>5. Cardinality(Symbols) \in P
  <2> HIDE DEF P
  <2> QED
    BY <1>2, <1>3, <1>4, SetInduction
<1> QED
  BY <1>4, <1>5

(* Sums of amounts are amounts, and no less than any of their summands.     *)
LEMMA VaRBounds ==
    ASSUME \A y \in Symbols : Component(y) \in Amounts
    PROVE  vaR \in Amounts /\ \A y \in Symbols : LessEq(Component(y), vaR)
<1>1. PICK g : g = (CHOOSE h : Gathers(h, SUBSET Symbols))
  OBVIOUS
<1>2. Gathers(g, SUBSET Symbols) /\ vaR = g[Symbols]
  BY Zenon, <1>1, GathersExists, VaRIs
<1>3. \A s \in SUBSET Symbols : g[s] = Gathered(g, s)
  BY <1>2 DEF Gathers
<1> DEFINE P == {n \in Nat : \A s \in SUBSET Symbols : Cardinality(s) = n =>
                    g[s] \in Amounts /\ \A y \in s : LessEq(Component(y), g[s])}
<1>4. \A s \in SUBSET Symbols : IsFiniteSet(s) /\ Cardinality(s) \in Nat
  BY SymbolsAssumption, FS_Subset, FS_CardinalityType
<1>5. 0 \in P
  BY <1>3, <1>4, FS_EmptySet, ZeroLeast DEF Gathered
<1>6. ASSUME NEW n \in Nat, n \in P PROVE n + 1 \in P
  <2> SUFFICES ASSUME NEW s \in SUBSET Symbols, Cardinality(s) = n + 1
               PROVE  g[s] \in Amounts /\ \A y \in s : LessEq(Component(y), g[s])
    OBVIOUS
  <2>1. s # {}
    BY FS_EmptySet
  <2>2. PICK z, r : z = Picked(s) /\ r = s \ {z}
    BY Zenon
  <2>3. z \in s /\ z \in Symbols /\ r \in SUBSET Symbols
    BY <2>1, <2>2 DEF Picked
  <2>4. Cardinality(r) = Cardinality(s) - 1
    BY <1>4, <2>2, <2>3, FS_RemoveElement
  <2>5. g[r] \in Amounts /\ \A y \in r : LessEq(Component(y), g[r])
    BY <1>6, <2>3, <2>4
  <2>6. g[s] = Add(Component(z), g[r])
    BY <1>3, <2>1, <2>2 DEF Gathered
  <2>7. g[s] \in Amounts /\ LessEq(Component(z), g[s]) /\ LessEq(g[r], g[s])
    BY <2>3, <2>5, <2>6, AddAmounts
  <2>8. ASSUME NEW y \in s PROVE LessEq(Component(y), g[s])
    <3>1. CASE y = z
      BY <2>7, <3>1
    <3>2. CASE y # z
      <4>1. y \in r /\ y \in Symbols
        BY <2>2, <3>2
      <4> QED
        BY <2>5, <2>7, <4>1, LessEqTransitive
    <3> QED
      BY <3>1, <3>2
  <2> QED
    BY <2>7, <2>8
<1>7. Nat \subseteq P
  <2> HIDE DEF P
  <2> QED
    BY <1>5, <1>6, SetInduction
<1>8. g[Symbols] \in Amounts /\ \A y \in Symbols : LessEq(Component(y), g[Symbols])
  BY <1>4, <1>7
<1> QED
  BY <1>2, <1>8

(* Where the prices of entries and ticks come from.                         *)
VInv ==
    /\ RInv
    /\ \A y \in Symbols : entries[y] \subseteq Prices
    /\ \A y \in DOMAIN latestPrices : latestPrices[y] \in TickPrices

LEMMA VInvInit == RInit => VInv
<1>1. DOMAIN << >> = {}
  OBVIOUS
<1> QED
  BY <1>1, RInvInit DEF RInit, Init, VInv

LEMMA VInvNext == NoEmptyFills /\ VInv /\ [RNext]_rvars => VInv'
<1> SUFFICES ASSUME NoEmptyFills, VInv, [RNext]_rvars PROVE VInv'
  OBVIOUS
<1>1. RInv'
  BY RInvNext DEF VInv
<1>2. ASSUME NEW y \in Symbols, NEW p \in TickPrices, onTick(y, p)
      PROVE  VInv'
  <2>1. latestPrices' = [z \in DOMAIN latestPrices \cup {y} |->
                            IF z = y THEN p ELSE latestPrices[z]]
    BY <1>2 DEF onTick
  <2>2. entries' = entries
    BY <1>2 DEF onTick, vars, history
  <2> QED
    BY <1>1, <2>1, <2>2 DEF VInv
<1>3. ASSUME NEW y \in Symbols, NEW side \in {"BUY", "SELL"},
             NEW q \in Quantities, NEW p \in Prices,
             onExecution(y, side, q, p), UNCHANGED latestPrices
      PROVE  VInv'
  <2>1. PICK k : entries' = [entries EXCEPT ![y] = Entries(y, k, p)]
    BY Zenon, <1>3 DEF onExecution
  <2>2. Entries(y, k, p) \subseteq Prices
    BY DEF Entries, VInv
  <2>3. \A z \in Symbols : entries'[z] \subseteq Prices
    BY <2>1, <2>2 DEF VInv, RInv, PInv
  <2> QED
    BY <1>1, <1>3, <2>3 DEF VInv
<1>4. CASE UNCHANGED rvars
  BY <1>1, <1>4 DEF VInv, rvars, vars, history
<1> QED
  BY <1>2, <1>3, <1>4 DEF RNext

LEMMA ComponentIsAmount ==
    ASSUME NoNegatives, VInv, NEW y \in Symbols, net[y] >= 0
    PROVE  Component(y) \in Amounts
<1>1. PICK n, v, k : /\ n = net[y] /\ v = Surface!getVol(currentPrice(y), 30)
                     /\ k = n * v
  OBVIOUS
<1>2. /\ n \in Nat /\ v \in Nat /\ k \in Nat /\ (n = 0 => k = 0)
      /\ positions[y].quantity = n /\ positions[y].averageEntryPrice \in Fractions
  <2>1. v \in Nat
    BY <1>1, VolatilityIsNat
  <2>2. /\ n \in Nat /\ positions[y].quantity = n
        /\ positions[y].averageEntryPrice \in Fractions
    BY <1>1 DEF VInv, RInv, PInv, Account
  <2>3. k \in Nat /\ (n = 0 => k = 0)
    BY <1>1, <2>1, <2>2
  <2> QED
    BY <2>1, <2>2, <2>3
<1>3. Component(y) = Times(k, currentPrice(y))
  BY <1>1, <1>2 DEF Component
<1>4. \E a \in Int, b \in Nat \ {0} : currentPrice(y) = Frac(a, b) /\ (n = 0 \/ a >= 0)
  <2>1. CASE y \in DOMAIN latestPrices
    <3>1. PICK t, u : t = latestPrices[y] /\ u = 1
      OBVIOUS
    <3>2. t \in Nat /\ u \in Nat \ {0}
      <4>1. t \in TickPrices
        BY <2>1, <3>1 DEF VInv
      <4>2. TickPrices \subseteq Nat
        BY DEF NoNegatives
      <4>3. u \in Nat \ {0}
        BY <3>1
      <4> QED
        BY <4>1, <4>2, <4>3
    <3>3. currentPrice(y) = Frac(t, u)
      BY <2>1, <3>1, <3>2, OfIntUnit DEF currentPrice
    <3> QED
      BY <3>2, <3>3
  <2>2. CASE y \notin DOMAIN latestPrices
    <3>1. PICK a \in Int, b \in Nat \ {0} : positions[y].averageEntryPrice = Frac(a, b)
      BY <1>2 DEF Fractions
    <3>2. ASSUME n # 0 PROVE a >= 0
      <4>1. PICK p \in entries[y] : LessEq(OfInt(p), Frac(a, b))
        BY <1>1, <3>1, <3>2 DEF VInv, RInv, PInv, Bracketed
      <4>2. p \in Nat
        BY Zenon DEF VInv, NoNegatives
      <4>3. p * b <= a
        BY <4>1, <4>2, IntCompare
      <4>4. p * b >= 0
        BY <4>2
      <4> QED
        BY <4>2, <4>3, <4>4
    <3> QED
      BY <2>2, <3>1, <3>2 DEF currentPrice
  <2> QED
    BY <2>1, <2>2
<1>5. PICK a \in Int, b \in Nat \ {0} : currentPrice(y) = Frac(a, b) /\ (n = 0 \/ a >= 0)
  BY <1>4
<1>6. PICK m : m = k * a
  OBVIOUS
<1>7. m \in Nat
  <2>1. CASE n = 0
    BY <1>2, <1>6, <2>1
  <2>2. CASE n # 0
    <3>1. a \in Nat
      BY <1>2, <1>5, <2>2
    <3> QED
      BY <1>2, <1>6, <3>1
  <2> QED
    BY <2>1, <2>2
<1>8. Component(y) = Frac(m, b)
  BY <1>2, <1>3, <1>5, <1>6, TimesIs
<1> QED
  BY <1>7, <1>8 DEF Amounts

LEMMA VInvImplies == NoNegatives /\ VInv => LongBookRiskAddsUp
<1> SUFFICES ASSUME NoNegatives, VInv, \A y \in Symbols : net[y] >= 0
             PROVE  LessEq(Zero, vaR) /\ \A y \in Symbols : LessEq(Component(y), vaR)
  BY DEF LongBookRiskAddsUp
<1>1. \A y \in Symbols : Component(y) \in Amounts
  BY ComponentIsAmount
<1> QED
  BY <1>1, VaRBounds, ZeroLeast

(* RSpec => []LongBookRiskAddsUp: for any finite set of symbols and any     *)
(* surface, computeVar() of a book without shorts is not negative and no    *)
(* less than the risk of any of its positions.  That the average entry      *)
(* price, which stands in for a missing tick, is not negative is where the  *)
(* bracket of AverageIsBracketed is needed.                                 *)
THEOREM LongBookRiskAddsUpCorrect ==
    ASSUME NoEmptyFills, NoNegatives PROVE RSpec => []LongBookRiskAddsUp
<1>1. VInv /\ [RNext]_rvars => VInv'
  BY VInvNext
<1>2. VInv => LongBookRiskAddsUp
  BY VInvImplies
<1> QED
  BY <1>1, <1>2, VInvInit, PTL DEF RSpec

(* RSpec => Spec: ticks never touch the positions, so what holds of the     *)
(* position manager on its own holds of it inside the risk engine.          *)
THEOREM RiskEngineOnlyReadsPositions == RSpec => Spec
<1>1. RInit => Init
  BY DEF RInit
<1>2. [RNext]_rvars => [Next]_vars
  BY Zenon DEF RNext, Next, rvars, onTick
<1> QED
  BY <1>1, <1>2, PTL DEF RSpec, Spec

============================================================================
