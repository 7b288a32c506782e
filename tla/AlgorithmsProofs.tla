--------------------------- MODULE AlgorithmsProofs ---------------------------
(***************************************************************************)
(* Theorems of the protocol's arithmetic, for any job, any candidates and  *)
(* any reward settings:                                                    *)
(*   - fractions: Euclid's algorithm, what Plus, Times and AtMost compute; *)
(*   - selection: CohortsFitTheirJobs;                                     *)
(*   - the jobs an operator takes: TheBestAreTaken;                        *)
(*   - the reward rows: SplitKeepsTheBudget, SplitsKeepTheirBudgets.       *)
(***************************************************************************)
EXTENDS Algorithms, Sums, SequenceTheorems, TLAPS

(***************************************************************************)
(* Fractions: pairs of a number and a positive one.  Euclid's algorithm    *)
(* divides both by what divides both, so a fraction keeps its value, and   *)
(* their order is that of the products across.                             *)
(***************************************************************************)
Fraction == Int \X (Nat \ {0})

LEMMA Backwards ==
  ASSUME NEW a \in Nat, NEW b \in Nat, NEW q \in Nat, NEW r \in Nat, r = a - b * q
  PROVE  a = b * q + r
<1>1. b * q \in Int
  OBVIOUS
<1>. QED BY <1>1

LEMMA Remainder ==
  ASSUME NEW a \in Nat, NEW b \in Nat, b # 0
  PROVE  \E q, r \in Nat : q = a \div b /\ r = a % b /\ a = b * q + r /\ r < b
<1>1. a % b = a - b * (a \div b)
  OBVIOUS
<1>2. a \div b \in Nat /\ a % b \in Nat /\ a % b < b
  OBVIOUS
<1>3. PICK q \in Nat : q = a \div b
  BY <1>2
<1>4. PICK r \in Nat : r = a % b
  BY <1>2
<1>5. r = a - b * q /\ r < b
  BY <1>1, <1>2, <1>3, <1>4
<1>6. a = b * q + r
  BY <1>5, Backwards
<1>. QED BY <1>3, <1>4, <1>5, <1>6

Divides(k, a) == \E i \in Int : a = k * i

Makes(x, q, y, z) == z = x * q + y

LEMMA DividesSum ==
  ASSUME NEW k \in Int, NEW x \in Int, NEW y \in Int, NEW q \in Int, Divides(k, x), Divides(k, y),
         NEW z, Makes(x, q, y, z)
  PROVE  Divides(k, z)
<1>1. PICK i \in Int : x = k * i
  BY DEF Divides
<1>2. PICK j \in Int : y = k * j
  BY DEF Divides
<1>3. i * q + j \in Int /\ x * q + y = k * (i * q + j)
  BY <1>1, <1>2
<1>. QED BY <1>3 DEF Divides, Makes

Common(a, b) == {k \in Nat \ {0} : Divides(k, a) /\ Divides(k, b)}

LEMMA CommonSame ==
  ASSUME NEW a \in Nat, NEW b \in Nat, b # 0
  PROVE  Common(a, b) = Common(b, a % b)
<1>0. PICK q, r \in Nat : q = a \div b /\ r = a % b /\ a = b * q + r /\ r < b
  BY Remainder
<1>1. a = b * q + r /\ r = b * (-q) + a /\ -q \in Int
  <2>1. b * (-q) = -(b * q) /\ b * q \in Int
    OBVIOUS
  <2>. QED BY <1>0, <2>1
<1>2. ASSUME NEW k \in Nat \ {0} PROVE Divides(k, a) /\ Divides(k, b) <=> Divides(k, b) /\ Divides(k, r)
  <2>1. ASSUME Divides(k, a), Divides(k, b) PROVE Divides(k, r)
    <3>. DEFINE m == -q
    <3>1. m \in Int /\ Makes(b, m, a, r)
      BY <1>1 DEF Makes
    <3>. HIDE DEF m
    <3>. QED BY <2>1, <3>1, DividesSum, k \in Int
  <2>2. ASSUME Divides(k, b), Divides(k, r) PROVE Divides(k, a)
    <3>1. Makes(b, q, r, a)
      BY <1>1 DEF Makes
    <3>. QED BY <1>1, <2>2, <3>1, DividesSum, k \in Int
  <2>. QED BY <2>1, <2>2
<1>. QED BY <1>0, <1>2 DEF Common

GreatestCommon(a, b) ==
  IF a = 0 /\ b = 0 THEN 0 ELSE CHOOSE k \in Common(a, b) : \A l \in Common(a, b) : l <= k

LEMMA GreatestStep ==
  ASSUME NEW a \in Nat, NEW b \in Nat
  PROVE  GreatestCommon(a, b) = IF b = 0 THEN a ELSE GreatestCommon(b, a % b)
<1>1. CASE b # 0
  <2>1. Common(a, b) = Common(b, a % b)
    BY <1>1, CommonSame
  <2>. QED BY <1>1, <2>1 DEF GreatestCommon
<1>2. CASE b = 0 /\ a = 0
  BY <1>2 DEF GreatestCommon
<1>3. CASE b = 0 /\ a # 0
  <2>1. a \in Common(a, b)
    <3>1. a = a * 1 /\ b = a * 0
      BY <1>3
    <3>. QED BY <1>3, <3>1 DEF Common, Divides
  <2>2. ASSUME NEW k \in Common(a, b) PROVE k \in Nat /\ k <= a
    <3>1. PICK i \in Int : a = k * i
      BY DEF Common, Divides
    <3>2. k \in Nat /\ k > 0
      BY DEF Common
    <3>3. i > 0
      BY <1>3, <3>1, <3>2
    <3>. QED BY <3>1, <3>2, <3>3
  <2>3. \A k \in Common(a, b) : (\A l \in Common(a, b) : l <= k) => k = a
    BY <2>1, <2>2
  <2>. QED BY <1>3, <2>1, <2>2, <2>3 DEF GreatestCommon
<1>. QED BY <1>1, <1>2, <1>3

Euclids(f) == f = [p \in Nat \X Nat |-> IF p[2] = 0 THEN p[1] ELSE f[<<p[2], p[1] % p[2]>>]]

LEMMA GcdUnfolds ==
  ASSUME NEW a \in Nat, NEW b \in Nat
  PROVE  Gcd(a, b) = IF b = 0 THEN a ELSE Gcd(b, a % b)
<1>. DEFINE f == [p \in Nat \X Nat |-> GreatestCommon(p[1], p[2])]
<1>1. Euclids(f)
  <2>1. ASSUME NEW p \in Nat \X Nat
        PROVE  f[p] = IF p[2] = 0 THEN p[1] ELSE f[<<p[2], p[1] % p[2]>>]
    <3>1. p[1] \in Nat /\ p[2] \in Nat
      OBVIOUS
    <3>2. p[2] # 0 => <<p[2], p[1] % p[2]>> \in Nat \X Nat
      BY <3>1
    <3>3. GreatestCommon(p[1], p[2]) = IF p[2] = 0 THEN p[1] ELSE GreatestCommon(p[2], p[1] % p[2])
      BY <3>1, GreatestStep
    <3>. QED BY <3>2, <3>3
  <2>. QED BY <2>1 DEF Euclids
<1>. HIDE DEF f
<1>2. Euclids(euclid)
  <2>1. euclid = CHOOSE g : Euclids(g)
    BY Zenon DEF euclid, Euclids
  <2>. QED BY <1>1, <2>1
<1>3. <<a, b>> \in Nat \X Nat
  OBVIOUS
<1>4. euclid[<<a, b>>] = IF b = 0 THEN a ELSE euclid[<<b, a % b>>]
  BY <1>2, <1>3 DEF Euclids
<1>. QED BY <1>4 DEF Gcd

LEMMA GcdDivides ==
  ASSUME NEW a \in Nat, NEW b \in Nat, a # 0 \/ b # 0
  PROVE  Gcd(a, b) \in Nat \ {0} /\ Divides(Gcd(a, b), a) /\ Divides(Gcd(a, b), b)
<1>. DEFINE Right(x, y) == x # 0 \/ y # 0 => Gcd(x, y) \in Nat \ {0} /\ Divides(Gcd(x, y), x) /\ Divides(Gcd(x, y), y)
            Bad == {y \in Nat : \E x \in Nat : ~Right(x, y)}
<1>. SUFFICES ASSUME Bad # {} PROVE FALSE
  OBVIOUS
<1>1. PICK y \in Bad : \A z \in Bad : y <= z
  <2>. HIDE DEF Bad
  <2>1. Bad \subseteq Nat
    BY DEF Bad
  <2>. QED BY <2>1, LeastNumber
<1>2. PICK x \in Nat : ~Right(x, y)
  BY <1>1
<1>3. CASE y = 0
  <2>1. Gcd(x, y) = x
    BY <1>3, GcdUnfolds
  <2>2. x = x * 1 /\ y = x * 0
    BY <1>3
  <2>3. Divides(x, x) /\ Divides(x, y)
    BY <2>2 DEF Divides
  <2>. QED BY <1>2, <1>3, <2>1, <2>3
<1>4. CASE y # 0
  <2>1. PICK q, r \in Nat : q = x \div y /\ r = x % y /\ x = y * q + r /\ r < y
    BY <1>4, Remainder
  <2>. DEFINE g == Gcd(y, r)
  <2>2. Gcd(x, y) = g
    BY <1>4, <2>1, GcdUnfolds
  <2>3. r \notin Bad
    BY <1>1, <2>1
  <2>4. Right(y, r)
    BY <2>1, <2>3
  <2>5. g \in Nat \ {0} /\ Divides(g, y) /\ Divides(g, r)
    BY <1>4, <2>4
  <2>. HIDE DEF g
  <2>6. Divides(g, x)
    <3>1. Makes(y, q, r, x)
      BY <2>1 DEF Makes
    <3>. QED BY <2>1, <2>5, <3>1, DividesSum, g \in Int
  <2>. QED BY <1>2, <2>1, <2>2, <2>5, <2>6
<1>. QED BY <1>3, <1>4

LEMMA Cancel ==
  ASSUME NEW g \in Nat \ {0}, NEW i \in Int
  PROVE  (g * i) \div g = i
OBVIOUS

LEMMA DividedOut ==
  ASSUME NEW g \in Nat \ {0}, NEW a \in Int, Divides(g, a)
  PROVE  a \div g \in Int /\ g * (a \div g) = a
<1>1. PICK i \in Int : a = g * i
  BY DEF Divides
<1>2. a \div g = i
  BY <1>1, Cancel
<1>. QED BY <1>1, <1>2

LEMMA FracKeeps ==
  ASSUME NEW n \in Int, NEW d \in Nat \ {0}
  PROVE  /\ Frac(n, d) \in Fraction
         /\ Frac(n, d)[1] * d = n * Frac(n, d)[2]
<1>. DEFINE m == IF n < 0 THEN -n ELSE n
            g == Gcd(m, d)
            p == n \div g
            q == d \div g
<1>1. Frac(n, d) = <<p, q>>
  BY DEF Frac
<1>2. m \in Nat /\ (n = m \/ n = -m)
  OBVIOUS
<1>. HIDE DEF m
<1>3. g \in Nat \ {0} /\ Divides(g, m) /\ Divides(g, d)
  BY <1>2, GcdDivides
<1>. HIDE DEF g
<1>4. Divides(g, n)
  <2>1. PICK i \in Int : m = g * i
    BY <1>3 DEF Divides
  <2>2. -i \in Int /\ g * (-i) = -(g * i)
    BY <1>3
  <2>. QED BY <1>2, <2>1, <2>2 DEF Divides
<1>5. p \in Int /\ g * p = n /\ q \in Int /\ g * q = d
  BY <1>3, <1>4, DividedOut
<1>. HIDE DEF p, q
<1>6. q > 0
  BY <1>3, <1>5
<1>7. p * d = n * q
  <2>1. p * (g * q) = (g * p) * q
    BY <1>3, <1>5
  <2>. QED BY <1>5, <2>1
<1>. QED BY <1>1, <1>5, <1>6, <1>7 DEF Fraction

LEMMA FractionParts ==
  /\ \A x \in Fraction : x = <<x[1], x[2]>> /\ x[1] \in Int /\ x[2] \in Nat \ {0}
  /\ \A n \in Int : \A d \in Nat \ {0} : <<n, d>> \in Fraction
BY DEF Fraction

LEMMA PositiveProduct ==
  ASSUME NEW d \in Nat \ {0}, NEW e \in Nat \ {0}
  PROVE  d * e \in Nat \ {0}
OBVIOUS

(* The sum over the least common denominator is the sum across.             *)
IsProduct(d, g, u) == d = g * u
Across(s, t, n, d, m, e, v, u) == s * (d * v) = (n * e + m * u) * t

LEMMA AcrossSum ==
  ASSUME NEW n \in Int, NEW d \in Nat \ {0}, NEW m \in Int, NEW e \in Nat \ {0}, NEW g \in Nat \ {0},
         NEW u \in Nat \ {0}, NEW v \in Nat \ {0}, IsProduct(d, g, u), IsProduct(e, g, v),
         NEW s \in Int, NEW t \in Nat \ {0}, Across(s, t, n, d, m, v, v, u)
  PROVE  Across(s, t, n, d, m, e, e, d)
<1>0. d = g * u /\ e = g * v /\ s * (d * v) = (n * v + m * u) * t
  BY DEF IsProduct, Across
<1>1. d * e = g * (d * v)
  BY <1>0
<1>2. n * e + m * d = g * (n * v + m * u)
  <2>1. n * e = g * (n * v) /\ m * d = g * (m * u)
    BY <1>0
  <2>2. n * v \in Int /\ m * u \in Int
    OBVIOUS
  <2>. QED BY <2>1, <2>2
<1>3. s * (g * (d * v)) = g * (s * (d * v)) /\ (g * (n * v + m * u)) * t = g * ((n * v + m * u) * t)
  <2>1. d * v \in Int /\ n * v + m * u \in Int
    OBVIOUS
  <2>. DEFINE x == d * v
              y == n * v + m * u
  <2>. HIDE DEF x, y
  <2>2. s * (g * x) = g * (s * x) /\ (g * y) * t = g * (y * t)
    BY <2>1 DEF x, y
  <2>. QED BY <2>2 DEF x, y
<1>. QED BY <1>0, <1>1, <1>2, <1>3 DEF Across

LEMMA PlusKeeps ==
  ASSUME NEW x \in Fraction, NEW y \in Fraction
  PROVE  /\ Plus(x, y) \in Fraction
         /\ Plus(x, y)[1] * (x[2] * y[2]) = (x[1] * y[2] + y[1] * x[2]) * Plus(x, y)[2]
<1>. DEFINE g == Gcd(x[2], y[2])
            u == x[2] \div g
            v == y[2] \div g
            n == x[1] * v + y[1] * u
            d == x[2] * v
            p == Frac(n, d)
<1>1. x[1] \in Int /\ x[2] \in Nat \ {0} /\ y[1] \in Int /\ y[2] \in Nat \ {0}
  BY FractionParts
<1>2. Plus(x, y) = p
  BY DEF Plus, SumOver
<1>3. g \in Nat \ {0} /\ Divides(g, x[2]) /\ Divides(g, y[2])
  BY <1>1, GcdDivides
<1>. HIDE DEF g
<1>4. u \in Int /\ g * u = x[2] /\ v \in Int /\ g * v = y[2]
  BY <1>1, <1>3, DividedOut
<1>. HIDE DEF u, v
<1>5. u \in Nat \ {0} /\ v \in Nat \ {0}
  BY <1>1, <1>3, <1>4
<1>6. n \in Int /\ d \in Nat \ {0}
  BY <1>1, <1>5
<1>7. p \in Fraction /\ p[1] * d = n * p[2]
  <2>. HIDE DEF n, d
  <2>. QED BY <1>6, FracKeeps
<1>8. p[1] \in Int /\ p[2] \in Nat \ {0}
  BY <1>7, FractionParts
<1>9. p[1] * (x[2] * v) = (x[1] * v + y[1] * u) * p[2]
  BY <1>7
<1>. HIDE DEF p
<1>10. p[1] * (x[2] * y[2]) = (x[1] * y[2] + y[1] * x[2]) * p[2]
  <2>1. /\ IsProduct(x[2], g, u) /\ IsProduct(y[2], g, v)
        /\ Across(p[1], p[2], x[1], x[2], y[1], v, v, u)
    BY <1>4, <1>9 DEF IsProduct, Across
  <2>2. Across(p[1], p[2], x[1], x[2], y[1], y[2], y[2], x[2])
    BY <1>1, <1>3, <1>5, <1>8, <2>1, AcrossSum
  <2>. QED BY <2>2 DEF Across
<1>. QED BY <1>2, <1>7, <1>10

LEMMA TimesType ==
  ASSUME NEW x \in Fraction, NEW y \in Fraction
  PROVE  Times(x, y) \in Fraction
<1>1. x[1] \in Int /\ x[2] \in Nat \ {0} /\ y[1] \in Int /\ y[2] \in Nat \ {0}
  BY FractionParts
<1>. DEFINE p == Frac(x[1], y[2])
            q == Frac(y[1], x[2])
<1>2. p \in Fraction /\ q \in Fraction
  BY <1>1, FracKeeps
<1>. HIDE DEF p, q
<1>3. p[1] \in Int /\ p[2] \in Nat \ {0} /\ q[1] \in Int /\ q[2] \in Nat \ {0}
  BY <1>2, FractionParts
<1>4. p[1] * q[1] \in Int /\ p[2] * q[2] \in Nat \ {0}
  BY <1>3
<1>5. Times(x, y) = <<p[1] * q[1], p[2] * q[2]>>
  BY DEF Times, Product, p, q
<1>. QED BY <1>4, <1>5, FractionParts

LEMMA SameSign ==
  ASSUME NEW s \in Int, NEW t \in Nat \ {0}, NEW k \in Int, NEW d \in Nat \ {0}, s * d = k * t
  PROVE  (s <= 0 <=> k <= 0) /\ (s < 0 <=> k < 0)
<1>1. s <= 0 => s * d <= 0
  OBVIOUS
<1>2. s > 0 => s * d > 0
  OBVIOUS
<1>3. s < 0 => s * d < 0
  OBVIOUS
<1>4. k <= 0 => k * t <= 0
  OBVIOUS
<1>5. k > 0 => k * t > 0
  OBVIOUS
<1>6. k < 0 => k * t < 0
  OBVIOUS
<1>7. s = 0 => s * d = 0
  OBVIOUS
<1>8. k = 0 => k * t = 0
  OBVIOUS
<1>. QED BY <1>1, <1>2, <1>3, <1>4, <1>5, <1>6, <1>7, <1>8

LEMMA AtMostAcross ==
  ASSUME NEW x \in Fraction, NEW y \in Fraction
  PROVE  /\ AtMost(x, y) <=> x[1] * y[2] <= y[1] * x[2]
         /\ Below(x, y) <=> x[1] * y[2] < y[1] * x[2]
<1>1. x[1] \in Int /\ x[2] \in Nat \ {0} /\ y[1] \in Int /\ y[2] \in Nat \ {0}
  BY FractionParts
<1>. DEFINE z == <<-y[1], y[2]>>
            p == Plus(x, z)
            k == x[1] * y[2] + (-y[1]) * x[2]
            d == x[2] * y[2]
<1>2. z \in Fraction /\ z[1] = -y[1] /\ z[2] = y[2]
  BY <1>1, FractionParts
<1>3. Minus(x, y) = p
  BY DEF Minus
<1>. HIDE DEF z
<1>4. p \in Fraction /\ p[1] * d = k * p[2]
  BY <1>2, PlusKeeps
<1>5. p[1] \in Int /\ p[2] \in Nat \ {0} /\ d \in Nat \ {0} /\ k \in Int
  <2>1. p[1] \in Int /\ p[2] \in Nat \ {0}
    BY <1>4, FractionParts
  <2>2. d \in Nat \ {0} /\ k \in Int
    BY <1>1
  <2>. QED BY <2>1, <2>2
<1>6. (k <= 0 <=> x[1] * y[2] <= y[1] * x[2]) /\ (k < 0 <=> x[1] * y[2] < y[1] * x[2])
  <2>1. (-y[1]) * x[2] = -(y[1] * x[2]) /\ y[1] * x[2] \in Int /\ x[1] * y[2] \in Int
    BY <1>1
  <2>. QED BY <2>1
<1>. HIDE DEF p, k, d
<1>7. (p[1] <= 0 <=> k <= 0) /\ (p[1] < 0 <=> k < 0)
  BY <1>4, <1>5, SameSign
<1>. QED BY <1>3, <1>6, <1>7 DEF AtMost, Below

LEMMA AcrossTransitive ==
  ASSUME NEW a \in Int, NEW b \in Nat \ {0}, NEW c \in Int, NEW d \in Nat \ {0}, NEW e \in Int,
         NEW f \in Nat \ {0}, a * d <= c * b, c * f <= e * d
  PROVE  a * f <= e * b
<1>1. (a * d) * f <= (c * b) * f /\ (c * f) * b <= (e * d) * b
  OBVIOUS
<1>2. (a * d) * f = d * (a * f) /\ (c * b) * f = (c * f) * b /\ (e * d) * b = d * (e * b)
  OBVIOUS
<1>3. d * (a * f) <= d * (e * b) /\ a * f \in Int /\ e * b \in Int
  BY <1>1, <1>2
<1>. QED BY <1>3, TimesMonotone

(* The order of fractions, whatever they are fractions of.                  *)
LEMMA AtMostOrder ==
  /\ \A x, y \in Fraction : AtMost(x, y) \/ AtMost(y, x)
  /\ \A x, y, z \in Fraction : AtMost(x, y) /\ AtMost(y, z) => AtMost(x, z)
  /\ \A x, y \in Fraction : Below(x, y) <=> ~AtMost(y, x)
<1>1. ASSUME NEW x \in Fraction, NEW y \in Fraction
      PROVE  (AtMost(x, y) \/ AtMost(y, x)) /\ (Below(x, y) <=> ~AtMost(y, x))
  <2>1. x[1] * y[2] \in Int /\ y[1] * x[2] \in Int
    BY FractionParts
  <2>2. /\ AtMost(x, y) <=> x[1] * y[2] <= y[1] * x[2]
        /\ AtMost(y, x) <=> y[1] * x[2] <= x[1] * y[2]
        /\ Below(x, y) <=> x[1] * y[2] < y[1] * x[2]
    BY AtMostAcross
  <2>. QED BY <2>1, <2>2
<1>2. ASSUME NEW x \in Fraction, NEW y \in Fraction, NEW z \in Fraction, AtMost(x, y), AtMost(y, z)
      PROVE  AtMost(x, z)
  <2>1. /\ x[1] \in Int /\ x[2] \in Nat \ {0} /\ y[1] \in Int /\ y[2] \in Nat \ {0}
        /\ z[1] \in Int /\ z[2] \in Nat \ {0}
    BY FractionParts
  <2>2. x[1] * y[2] <= y[1] * x[2] /\ y[1] * z[2] <= z[1] * y[2]
    BY <1>2, AtMostAcross
  <2>3. x[1] * z[2] <= z[1] * x[2]
    BY <2>1, <2>2, AcrossTransitive
  <2>. QED BY <2>3, AtMostAcross
<1>. QED BY <1>1, <1>2

(***************************************************************************)
(* Totals and means.                                                        *)
(***************************************************************************)
Totals(s, g) == g = [i \in 0..Len(s) |-> IF i = 0 THEN Zero ELSE Plus(g[i - 1], s[i])]

LEMMA ZeroOne == Zero \in Fraction /\ One \in Fraction
BY FractionParts DEF Zero, One

LEMMA TotalUnfolds ==
  ASSUME NEW s \in Seq(Fraction)
  PROVE  \E g \in [0..Len(s) -> Fraction] :
           /\ g[0] = Zero /\ g[Len(s)] = Total(s)
           /\ \A i \in 1..Len(s) : g[i] = Plus(g[i - 1], s[i])
<1>. DEFINE n == Len(s)
            v == CHOOSE g : Totals(s, g)
            step == [p \in (1..n) \X Fraction |-> Plus(p[2], s[p[1]])]
<1>1. n \in Nat /\ \A i \in 1..n : s[i] \in Fraction
  OBVIOUS
<1>2. step \in [(1..n) \X Fraction -> Fraction]
  <2>1. ASSUME NEW p \in (1..n) \X Fraction PROVE Plus(p[2], s[p[1]]) \in Fraction
    BY <1>1, PlusKeeps
  <2>. QED BY <2>1
<1>3. \A i \in 1..n : \A x \in Fraction : step[<<i, x>>] = Plus(x, s[i])
  OBVIOUS
<1>4. Total(s) = v[n]
  BY Zenon DEF Total, Totals
<1>. HIDE DEF step, n
<1>5. PICK g : Iterate(n, Fraction, Zero, step, g)
  BY <1>1, <1>2, ZeroOne, Iterated
<1>6. g \in [0..n -> Fraction] /\ g[0] = Zero
  BY <1>5 DEF Iterate
<1>7. ASSUME NEW i \in 1..n PROVE g[i] = Plus(g[i - 1], s[i])
  <2>1. g[i - 1] \in Fraction
    BY <1>1, <1>6, i - 1 \in 0..n
  <2>. QED BY <1>3, <1>5, <2>1 DEF Iterate
<1>8. Totals(s, g)
  <2>1. \A i \in 0..n : g[i] = IF i = 0 THEN Zero ELSE Plus(g[i - 1], s[i])
    BY <1>1, <1>6, <1>7
  <2>. QED BY <1>6, <2>1 DEF Totals, n
<1>9. Totals(s, v)
  BY <1>8
<1>. HIDE DEF v
<1>10. v = [i \in 0..n |-> IF i = 0 THEN Zero ELSE Plus(v[i - 1], s[i])]
  BY <1>9 DEF Totals, n
<1>11. v[0] = Zero /\ \A i \in 1..n : v[i] = Plus(v[i - 1], s[i])
  BY <1>1, <1>10
<1>12. v \in [0..n -> Fraction]
  <2>. DEFINE P == {i \in 0..n : v[i] \in Fraction}
  <2>1. 0 \in P
    BY <1>1, <1>11, ZeroOne
  <2>2. ASSUME NEW i \in 1..n, i - 1 \in P PROVE i \in P
    BY <1>1, <1>11, <2>2, PlusKeeps
  <2>. HIDE DEF P
  <2>3. 0..n \subseteq P
    BY <1>1, <2>1, <2>2, Climb
  <2>. QED BY <1>10, <2>3 DEF P
<1>. QED BY <1>4, <1>11, <1>12 DEF n

LEMMA TotalType ==
  ASSUME NEW s \in Seq(Fraction)
  PROVE  Total(s) \in Fraction
<1>1. Len(s) \in 0..Len(s)
  OBVIOUS
<1>. QED BY <1>1, TotalUnfolds

LEMMA MeanType ==
  ASSUME NEW s \in Seq(Fraction), s # <<>>
  PROVE  Mean(s) \in Fraction
<1>. DEFINE part == <<1, Len(s)>>
<1>1. Len(s) \in Nat \ {0}
  OBVIOUS
<1>2. part \in Fraction
  BY <1>1 DEF Fraction
<1>3. Mean(s) = Times(Total(s), part)
  BY DEF Mean, Over
<1>. QED BY <1>2, <1>3, TotalType, TimesType

(* A set is listed once and entirely.                                       *)
Lists(S, g) ==
  g = [n \in 0..Cardinality(S) |->
         IF n = 0 THEN <<>>
         ELSE LET before == g[n - 1]
              IN  Append(before, CHOOSE x \in S : \A i \in 1..(n - 1) : before[i] # x)]

Enumerates(S, s) ==
  /\ s \in Seq(S) /\ Len(s) = Cardinality(S)
  /\ \A i, j \in DOMAIN s : s[i] = s[j] => i = j
  /\ \A x \in S : \E i \in DOMAIN s : s[i] = x

LEMMA SomeLeft ==
  ASSUME NEW S, IsFiniteSet(S), NEW s \in Seq(S), Len(s) < Cardinality(S)
  PROVE  \E x \in S : \A i \in 1..Len(s) : s[i] # x
<1>. SUFFICES ASSUME \A x \in S : \E i \in 1..Len(s) : s[i] = x PROVE FALSE
  OBVIOUS
<1>1. Len(s) \in Nat /\ IsFiniteSet(1..Len(s)) /\ Cardinality(1..Len(s)) = Len(s)
  <2>1. Len(s) \in Nat
    BY LenProperties
  <2>2. IsFiniteSet(1..Len(s)) /\ Cardinality(1..Len(s)) = IF 1 > Len(s) THEN 0 ELSE Len(s) - 1 + 1
    BY <2>1, FS_Interval, 1 \in Int, Len(s) \in Int
  <2>. QED BY <2>1, <2>2
<1>. DEFINE f == [i \in 1..Len(s) |-> s[i]]
<1>2. f \in Surjection(1..Len(s), S)
  BY DEF Surjection
<1>3. Cardinality(S) <= Cardinality(1..Len(s)) /\ Cardinality(S) \in Nat
  BY <1>1, <1>2, FS_Surjection, FS_CardinalityType
<1>. QED BY <1>1, <1>3

LEMMA ListedOnce ==
  ASSUME NEW S, IsFiniteSet(S)
  PROVE  Enumerates(S, Listed(S))
<1>. DEFINE n == Cardinality(S)
            v == CHOOSE g : Lists(S, g)
            Free(s, x) == \A i \in 1..Len(s) : s[i] # x
            more == [p \in (1..n) \X Seq(S) |->
                       IF \E x \in S : Free(p[2], x) THEN Append(p[2], CHOOSE x \in S : Free(p[2], x)) ELSE p[2]]
            Distinct(s, i) == s \in Seq(S) /\ Len(s) = i /\ \A j, k \in 1..i : s[j] = s[k] => j = k
<1>1. n \in Nat
  BY FS_CardinalityType
<1>2. Listed(S) = v[n]
  BY Zenon DEF Listed, Lists
<1>3. more \in [(1..n) \X Seq(S) -> Seq(S)]
  <2>1. ASSUME NEW p \in (1..n) \X Seq(S), \E x \in S : Free(p[2], x)
        PROVE  Append(p[2], CHOOSE x \in S : Free(p[2], x)) \in Seq(S)
    <3>1. (CHOOSE x \in S : Free(p[2], x)) \in S
      BY <2>1
    <3>. HIDE DEF Free
    <3>. QED BY <3>1, AppendProperties
  <2>. QED BY <2>1
<1>4. \A i \in 1..n : \A s \in Seq(S) : (\E x \in S : Free(s, x)) =>
        more[<<i, s>>] = Append(s, CHOOSE x \in S : Free(s, x))
  OBVIOUS
<1>. HIDE DEF n, more
<1>5. PICK g : Iterate(n, Seq(S), <<>>, more, g)
  BY <1>1, <1>3, EmptySeq, Iterated
<1>6. g \in [0..n -> Seq(S)] /\ g[0] = <<>>
  BY <1>5 DEF Iterate
<1>7. ASSUME NEW i \in 1..n, Distinct(g[i - 1], i - 1)
      PROVE  /\ Distinct(g[i], i)
             /\ g[i] = Append(g[i - 1], CHOOSE x \in S : \A k \in 1..(i - 1) : g[i - 1][k] # x)
  <2>. DEFINE s == g[i - 1]
              x == CHOOSE y \in S : Free(s, y)
  <2>1. s \in Seq(S) /\ Len(s) = i - 1 /\ Len(s) < Cardinality(S)
    BY <1>1, <1>7 DEF n
  <2>2. \E y \in S : Free(s, y)
    BY <2>1, SomeLeft
  <2>3. g[i] = more[<<i, s>>]
    BY <1>5 DEF Iterate
  <2>4. x \in S /\ Free(s, x)
    BY <2>2
  <2>. HIDE DEF s
  <2>5. g[i] = Append(s, x)
    BY <1>4, <2>1, <2>2, <2>3
  <2>6. (CHOOSE y \in S : \A k \in 1..(i - 1) : s[k] # y) = x
    BY <2>1
  <2>. HIDE DEF x
  <2>7. \A k \in 1..(i - 1) : s[k] # x
    BY <2>1, <2>4
  <2>8. Append(s, x) \in Seq(S) /\ Len(Append(s, x)) = i /\ Append(s, x)[i] = x
        /\ \A k \in 1..(i - 1) : Append(s, x)[k] = s[k]
    BY <2>1, <2>4, AppendProperties
  <2>9. \A j, k \in 1..(i - 1) : s[j] = s[k] => j = k
    BY <1>7 DEF s
  <2>10. Distinct(g[i], i)
    BY <2>5, <2>7, <2>8, <2>9
  <2>. QED BY <2>5, <2>6, <2>10 DEF s
<1>. HIDE DEF Free
<1>8. \A i \in 0..n : Distinct(g[i], i)
  <2>. DEFINE P == {i \in 0..n : Distinct(g[i], i)}
  <2>1. 0 \in P
    BY <1>1, <1>6
  <2>2. ASSUME NEW i \in 1..n, i - 1 \in P PROVE i \in P
    BY <1>1, <1>7, <2>2
  <2>. HIDE DEF P
  <2>3. 0..n \subseteq P
    BY <1>1, <2>1, <2>2, Climb
  <2>. QED BY <2>3 DEF P
<1>9. \A i \in 1..n : g[i] = Append(g[i - 1], CHOOSE x \in S : \A k \in 1..(i - 1) : g[i - 1][k] # x)
  BY <1>1, <1>7, <1>8, \A i \in 1..n : i - 1 \in 0..n
<1>10. Lists(S, g)
  BY <1>1, <1>6, <1>9 DEF Lists, n
<1>11. Lists(S, v)
  BY <1>10
<1>. HIDE DEF v
<1>12. v = g
  <2>. DEFINE P == {i \in 0..n : v[i] = g[i]}
  <2>1. 0 \in P
    BY <1>1, <1>10, <1>11 DEF Lists, n
  <2>2. ASSUME NEW i \in 1..n, i - 1 \in P PROVE i \in P
    <3>1. i # 0 /\ i \in 0..n /\ v[i - 1] = g[i - 1]
      BY <1>1, <2>2
    <3>2. v[i] = Append(v[i - 1], CHOOSE x \in S : \A k \in 1..(i - 1) : v[i - 1][k] # x)
      BY <1>11, <3>1 DEF Lists, n
    <3>3. g[i] = Append(g[i - 1], CHOOSE x \in S : \A k \in 1..(i - 1) : g[i - 1][k] # x)
      BY <1>9
    <3>. DEFINE Longer(s) == Append(s, CHOOSE x \in S : \A k \in 1..(i - 1) : s[k] # x)
    <3>4. v[i] = Longer(v[i - 1]) /\ g[i] = Longer(g[i - 1])
      BY <3>2, <3>3, Zenon
    <3>. HIDE DEF Longer
    <3>. QED BY <3>1, <3>4
  <2>. HIDE DEF P
  <2>3. 0..n \subseteq P
    BY <1>1, <2>1, <2>2, Climb
  <2>. QED BY <1>10, <1>11, <2>3 DEF Lists, n, P
<1>13. Distinct(Listed(S), n) /\ n \in 0..n
  BY <1>1, <1>2, <1>8, <1>12
<1>14. ASSUME NEW x \in S PROVE \E i \in 1..n : Listed(S)[i] = x
  <2>. DEFINE f == [i \in 1..n |-> Listed(S)[i]]
  <2>1. f \in Injection(1..n, S)
    BY <1>13 DEF Injection, IsInjective
  <2>2. Cardinality(1..n) = n
    <3>1. Cardinality(1..n) = IF 1 > n THEN 0 ELSE n - 1 + 1
      BY <1>1, FS_Interval, 1 \in Int, n \in Int
    <3>. QED BY <1>1, <3>1
  <2>3. f \in Surjection(1..n, S)
    BY <2>1, <2>2, FS_Injection DEF n
  <2>. QED BY <2>3 DEF Surjection
<1>. QED BY <1>13, <1>14 DEF Enumerates, n

(***************************************************************************)
(* Selection: of those left, the first of the best takes the next seat.     *)
(***************************************************************************)
IsBest(score, S, i) == \A k \in S : AtMost(score[k], score[i])

LEMMA SomeBest ==
  ASSUME NEW S, IsFiniteSet(S), S # {}, NEW score, \A i \in S : score[i] \in Fraction
  PROVE  \E i \in S : IsBest(score, S, i)
<1>. DEFINE Bad == {T \in SUBSET S : T # {} /\ ~ \E i \in T : IsBest(score, T, i)}
<1>. SUFFICES ASSUME Bad # {} PROVE FALSE
  OBVIOUS
<1>1. PICK T \in Bad : \A U \in SUBSET T : U # T => U \notin Bad
  <2>. HIDE DEF Bad
  <2>1. Bad \subseteq SUBSET S
    BY DEF Bad
  <2>. QED BY <2>1, LeastSubset
<1>2. PICK x \in T : TRUE
  BY <1>1
<1>3. T \subseteq S /\ \A i \in T : score[i] \in Fraction
  BY <1>1
<1>4. AtMost(score[x], score[x])
  BY <1>2, <1>3, AtMostOrder
<1>5. T \ {x} # {}
  <2>1. CASE T = {x}
    BY <1>1, <1>2, <1>4, <2>1 DEF IsBest
  <2>. QED BY <1>2, <2>1
<1>6. T \ {x} \in SUBSET S /\ T \ {x} \notin Bad
  BY <1>1, <1>2
<1>7. PICK m \in T \ {x} : IsBest(score, T \ {x}, m)
  BY <1>5, <1>6
<1>8. CASE AtMost(score[m], score[x])
  <2>1. ASSUME NEW k \in T PROVE AtMost(score[k], score[x])
    <3>1. CASE k = x
      BY <1>4, <3>1
    <3>2. CASE k # x
      <4>1. AtMost(score[k], score[m])
        BY <1>7, <3>2 DEF IsBest
      <4>. QED BY <1>2, <1>3, <1>7, <1>8, <4>1, AtMostOrder
    <3>. QED BY <3>1, <3>2
  <2>. QED BY <1>1, <1>2, <2>1 DEF IsBest
<1>9. CASE ~AtMost(score[m], score[x])
  <2>1. AtMost(score[x], score[m])
    BY <1>2, <1>3, <1>7, <1>9, AtMostOrder
  <2>2. \A k \in T : AtMost(score[k], score[m])
    BY <1>7, <2>1 DEF IsBest
  <2>. QED BY <1>1, <1>7, <2>2 DEF IsBest
<1>. QED BY <1>8, <1>9

LEMMA FirstOfBest ==
  ASSUME NEW S, IsFiniteSet(S), S # {}, S \subseteq Nat, NEW score, \A i \in S : score[i] \in Fraction
  PROVE  \E i \in S : \A k \in S : AtMost(score[k], score[i]) /\ (k < i => Below(score[k], score[i]))
<1>. DEFINE Best == {i \in S : IsBest(score, S, i)}
<1>1. Best # {} /\ Best \subseteq Nat
  BY SomeBest
<1>. HIDE DEF Best
<1>2. PICK n \in Best : \A m \in Best : n <= m
  BY <1>1, LeastNumber
<1>3. n \in S /\ IsBest(score, S, n)
  BY DEF Best
<1>4. ASSUME NEW k \in S, k < n PROVE Below(score[k], score[n])
  <2>1. k \notin Best
    BY <1>1, <1>2, <1>4, n \in Nat, k \in Nat
  <2>2. PICK l \in S : ~AtMost(score[l], score[k])
    BY <2>1 DEF Best, IsBest
  <2>3. AtMost(score[l], score[n])
    BY <1>3 DEF IsBest
  <2>4. score[k] \in Fraction /\ score[l] \in Fraction /\ score[n] \in Fraction
    BY <1>3
  <2>5. ~AtMost(score[n], score[k])
    BY <2>2, <2>3, <2>4, AtMostOrder
  <2>. QED BY <2>4, <2>5, AtMostOrder
<1>. QED BY <1>3, <1>4 DEF IsBest

IsRow(row) ==
  /\ row.price \in Int /\ row.limit \in Int
  /\ IsFiniteSet(row.capabilities) /\ \A c \in row.capabilities : c.declared \in Int
  /\ \A s \in DOMAIN row.assignments : row.assignments[s] \in Nat
  /\ row.snapshots \in Seq(ToSet(row.snapshots))
  /\ \A i \in DOMAIN row.snapshots : row.snapshots[i].overall \in Int

IsAgent(a) ==
  /\ a.price \in Int /\ a.limit \in Int /\ a.load \in Nat
  /\ IsFiniteSet(a.capabilities) /\ \A c \in a.capabilities : c.declared \in Int
  /\ a.reputation \in Int
  /\ \A d \in DOMAIN a.domainReputation : a.domainReputation[d] \in Int

LEMMA LeastIn ==
  ASSUME NEW S, S \subseteq Nat, S # {}
  PROVE  Min(S) \in S
<1>1. PICK n \in S : \A m \in S : n <= m
  BY LeastNumber
<1>. QED BY <1>1 DEF Min

LEMMA DescribedType ==
  ASSUME NEW row, IsRow(row)
  PROVE  IsAgent(Described(row))
<1>. DEFINE k == Min({SnapshotPage, Len(row.snapshots)})
            page == SubSeq(row.snapshots, 1, k)
            rated == {page[i].domain : i \in DOMAIN page}
            places(d) == {i \in DOMAIN page : page[i].domain = d}
            latest == [d \in rated |-> page[Min(places(d))].overall]
            waiting == {"PENDING", "ACCEPTED", "RUNNING"} \cap DOMAIN row.assignments
            load == SumFunctionOnSet(row.assignments, waiting)
<1>1. k \in 0..Len(row.snapshots)
  <2>1. Len(row.snapshots) \in Nat
    BY LenProperties DEF IsRow
  <2>2. k \in {SnapshotPage, Len(row.snapshots)}
    BY <2>1, InputsAssumption, LeastIn
  <2>3. SnapshotPage \in Nat
    BY InputsAssumption
  <2>4. \E n \in {SnapshotPage, Len(row.snapshots)} : \A m \in {SnapshotPage, Len(row.snapshots)} : n <= m
    BY <2>1, <2>3
  <2>5. k <= Len(row.snapshots)
    BY <2>1, <2>3, <2>4 DEF Min
  <2>. HIDE DEF k
  <2>. QED BY <2>1, <2>2, <2>3, <2>5
<1>2. DOMAIN page = 1..k /\ \A i \in 1..k : page[i] = row.snapshots[i]
  <2>. HIDE DEF k
  <2>1. row.snapshots \in Seq(ToSet(row.snapshots))
    BY DEF IsRow
  <2>. QED BY <1>1, <2>1
<1>3. \A i \in DOMAIN page : page[i].overall \in Int
  <2>. HIDE DEF k
  <2>1. row.snapshots \in Seq(ToSet(row.snapshots))
    BY DEF IsRow
  <2>2. DOMAIN row.snapshots = 1..Len(row.snapshots) /\ Len(row.snapshots) \in Nat
    BY <2>1, LenProperties
  <2>. QED BY <1>1, <1>2, <2>2 DEF IsRow
<1>4. \A d \in rated : latest[d] \in Int
  <2>. SUFFICES ASSUME NEW d \in rated PROVE latest[d] \in Int
    OBVIOUS
  <2>1. places(d) # {} /\ places(d) \subseteq Nat
    <3>. HIDE DEF k
    <3>1. DOMAIN page \subseteq Nat
      BY <1>1, <1>2
    <3>. HIDE DEF page
    <3>. QED BY <3>1
  <2>2. Min(places(d)) \in DOMAIN page
    <3>. HIDE DEF page
    <3>. QED BY <2>1, LeastIn
  <2>. HIDE DEF page
  <2>. QED BY <1>3, <2>2
<1>5. load \in Nat
  <2>1. IsFiniteSet({"PENDING", "ACCEPTED", "RUNNING"})
    <3>1. IsFiniteSet({} \cup {"PENDING"})
      BY FS_EmptySet, FS_AddElement
    <3>2. IsFiniteSet(({} \cup {"PENDING"}) \cup {"ACCEPTED"})
      BY <3>1, FS_AddElement
    <3>3. IsFiniteSet((({} \cup {"PENDING"}) \cup {"ACCEPTED"}) \cup {"RUNNING"})
      BY <3>2, FS_AddElement
    <3>4. (({} \cup {"PENDING"}) \cup {"ACCEPTED"}) \cup {"RUNNING"} = {"PENDING", "ACCEPTED", "RUNNING"}
      OBVIOUS
    <3>. QED BY <3>3, <3>4
  <2>2. IsFiniteSet(waiting)
    BY <2>1, FS_Subset
  <2>3. \A x \in waiting : row.assignments[x] \in Nat
    BY DEF IsRow
  <2>. HIDE DEF waiting
  <2>. QED BY <2>2, <2>3, SumNat
<1>6. Described(row) =
        [id |-> row.id, capabilities |-> row.capabilities, price |-> row.price,
         limit |-> row.limit, active |-> row.active, configured |-> row.configured, load |-> load,
         reputation |-> IF Everything \in rated THEN latest[Everything] ELSE 5,
         domainReputation |-> [d \in rated \ {Everything} |-> latest[d]]]
  BY DEF Described
<1>. HIDE DEF rated, latest, load
<1>. QED BY <1>4, <1>5, <1>6 DEF IsRow, IsAgent

LEMMA MeanOfType ==
  ASSUME NEW S, IsFiniteSet(S), S # {}, NEW v, \A x \in S : v[x] \in Fraction
  PROVE  Mean([i \in DOMAIN Listed(S) |-> v[Listed(S)[i]]]) \in Fraction
<1>. DEFINE s == Listed(S)
            t == [i \in DOMAIN s |-> v[s[i]]]
<1>1. Enumerates(S, s) /\ Cardinality(S) \in Nat \ {0}
  BY ListedOnce, FS_CardinalityType, FS_EmptySet
<1>. HIDE DEF s
<1>2. s \in Seq(S) /\ Len(s) \in Nat \ {0} /\ DOMAIN s = 1..Len(s) /\ \A i \in DOMAIN s : s[i] \in S
  BY <1>1, LenProperties, ElementOfSeq DEF Enumerates
<1>3. t \in Seq(Fraction) /\ Len(t) = Len(s)
  BY <1>2
<1>4. t # <<>>
  <2>. HIDE DEF t
  <2>. QED BY <1>2, <1>3
<1>. QED BY <1>3, <1>4, MeanType DEF s

LEMMA Percent == \A n \in Int : Frac(n, 100) \in Fraction /\ Frac(n, 10) \in Fraction /\ Frac(n, 5) \in Fraction
                                /\ Frac(n, 2) \in Fraction
<1>. QED BY FracKeeps

LEMMA SeatScoreType ==
  ASSUME NEW a, IsAgent(a), a.load < a.limit, NEW required, IsFiniteSet(required), NEW covered
  PROVE  SeatScore(a, required, covered) \in Fraction
<1>1. CapabilityMatch(a, required) \in Fraction
  <2>1. CASE required = {}
    BY <2>1, Percent, 1 \in Int DEF CapabilityMatch
  <2>2. CASE required # {}
    <3>1. Cardinality(required) \in Nat \ {0}
      BY <2>2, FS_CardinalityType, FS_EmptySet
    <3>2. IsFiniteSet(Covered(a, required))
      BY FS_Subset DEF Covered
    <3>3. Cardinality(Covered(a, required)) \in Int
      BY <3>2, FS_CardinalityType
    <3>. QED BY <2>2, <3>1, <3>3, FracKeeps DEF CapabilityMatch
  <2>. QED BY <2>1, <2>2
<1>2. MeanDomainReputation(a, required) \in Fraction
  <2>. DEFINE known == required \cap DOMAIN a.domainReputation
              v == [d \in known |-> Frac(a.domainReputation[d], 10)]
  <2>1. CASE known = {}
    <3>1. MeanDomainReputation(a, required) = Frac(a.reputation, 10)
      BY <2>1 DEF MeanDomainReputation
    <3>. QED BY <3>1, Percent DEF IsAgent
  <2>2. CASE known # {}
    <3>1. IsFiniteSet(known)
      BY FS_Subset
    <3>2. \A d \in known : v[d] \in Fraction
      BY Percent DEF IsAgent
    <3>3. Mean([i \in DOMAIN Listed(known) |-> v[Listed(known)[i]]]) \in Fraction
      <4>. HIDE DEF known, v
      <4>. QED BY <2>2, <3>1, <3>2, MeanOfType
    <3>4. [i \in DOMAIN Listed(known) |-> v[Listed(known)[i]]]
            = [i \in DOMAIN Listed(known) |-> Frac(a.domainReputation[Listed(known)[i]], 10)]
      <4>1. Listed(known) \in Seq(known)
        BY <3>1, ListedOnce DEF Enumerates
      <4>2. \A i \in DOMAIN Listed(known) : Listed(known)[i] \in known
        BY <4>1, LenProperties, ElementOfSeq
      <4>. QED BY <4>2
    <3>5. MeanDomainReputation(a, required)
            = Mean([i \in DOMAIN Listed(known) |-> Frac(a.domainReputation[Listed(known)[i]], 10)])
      BY <2>2 DEF MeanDomainReputation, MeanOfSet
    <3>. QED BY <3>3, <3>4, <3>5
  <2>. QED BY <2>1, <2>2
<1>3. MeanDeclared(a, required) \in Fraction
  <2>. DEFINE relevant == {c \in a.capabilities : required = {} \/ c.domain \in required}
              v == [c \in relevant |-> Frac(c.declared, 10)]
  <2>1. CASE relevant = {}
    <3>1. MeanDeclared(a, required) = Frac(1, 2)
      BY <2>1 DEF MeanDeclared
    <3>. QED BY <3>1, Percent, 1 \in Int
  <2>2. CASE relevant # {}
    <3>1. IsFiniteSet(relevant)
      BY FS_Subset DEF IsAgent
    <3>2. \A c \in relevant : v[c] \in Fraction
      BY Percent DEF IsAgent
    <3>3. Mean([i \in DOMAIN Listed(relevant) |-> v[Listed(relevant)[i]]]) \in Fraction
      <4>. HIDE DEF relevant, v
      <4>. QED BY <2>2, <3>1, <3>2, MeanOfType
    <3>4. [i \in DOMAIN Listed(relevant) |-> v[Listed(relevant)[i]]]
            = [i \in DOMAIN Listed(relevant) |-> Frac(Listed(relevant)[i].declared, 10)]
      <4>1. Listed(relevant) \in Seq(relevant)
        BY <3>1, ListedOnce DEF Enumerates
      <4>2. \A i \in DOMAIN Listed(relevant) : Listed(relevant)[i] \in relevant
        BY <4>1, LenProperties, ElementOfSeq
      <4>. QED BY <4>2
    <3>5. MeanDeclared(a, required)
            = Mean([i \in DOMAIN Listed(relevant) |-> Frac(Listed(relevant)[i].declared, 10)])
      BY <2>2 DEF MeanDeclared, MeanOfSet
    <3>. QED BY <3>3, <3>4, <3>5
  <2>. QED BY <2>1, <2>2
<1>4. Availability(a) \in Fraction
  <2>1. a.limit - a.load \in Int /\ a.limit \in Nat \ {0}
    BY DEF IsAgent
  <2>. QED BY <2>1, FracKeeps DEF Availability
<1>5. Diversity(a, covered) \in Fraction
  <2>. DEFINE fresh == {c \in a.capabilities : c.domain \notin covered}
  <2>1. CASE a.capabilities = {}
    BY <2>1, ZeroOne DEF Diversity
  <2>2. CASE a.capabilities # {}
    <3>1. IsFiniteSet(a.capabilities)
      BY DEF IsAgent
    <3>2. Cardinality(a.capabilities) \in Nat \ {0}
      BY <2>2, <3>1, FS_CardinalityType, FS_EmptySet
    <3>3. IsFiniteSet(fresh)
      BY <3>1, FS_Subset
    <3>4. Cardinality(fresh) \in Int
      BY <3>3, FS_CardinalityType
    <3>5. Diversity(a, covered) = Frac(Cardinality(fresh), Cardinality(a.capabilities))
      BY <2>2 DEF Diversity
    <3>. QED BY <3>2, <3>4, <3>5, FracKeeps
  <2>. QED BY <2>1, <2>2
<1>. DEFINE t == <<Times(CapabilityMatch(a, required), Frac(40, 100)),
                   Times(MeanDomainReputation(a, required), Frac(30, 100)),
                   Times(Frac(a.reputation, 10), Frac(15, 100)),
                   Times(Availability(a), Frac(15, 100))>>
            p == Plus(One, Times(Frac(1, 5), Diversity(a, covered)))
            q == Plus(Frac(85, 100), Times(Frac(15, 100), MeanDeclared(a, required)))
<1>6. t \in Seq(Fraction)
  <2>1. Frac(40, 100) \in Fraction /\ Frac(30, 100) \in Fraction /\ Frac(15, 100) \in Fraction
        /\ Frac(a.reputation, 10) \in Fraction
    BY Percent DEF IsAgent
  <2>2. /\ Times(CapabilityMatch(a, required), Frac(40, 100)) \in Fraction
        /\ Times(MeanDomainReputation(a, required), Frac(30, 100)) \in Fraction
        /\ Times(Frac(a.reputation, 10), Frac(15, 100)) \in Fraction
        /\ Times(Availability(a), Frac(15, 100)) \in Fraction
    BY <1>1, <1>2, <1>4, <2>1, TimesType
  <2>. QED BY <2>2
<1>7. p \in Fraction
  <2>1. Frac(1, 5) \in Fraction
    BY Percent
  <2>2. Times(Frac(1, 5), Diversity(a, covered)) \in Fraction
    BY <1>5, <2>1, TimesType
  <2>. QED BY <2>2, ZeroOne, PlusKeeps
<1>8. q \in Fraction
  <2>1. Frac(85, 100) \in Fraction /\ Frac(15, 100) \in Fraction
    BY Percent
  <2>2. Times(Frac(15, 100), MeanDeclared(a, required)) \in Fraction
    BY <1>3, <2>1, TimesType
  <2>. QED BY <2>1, <2>2, PlusKeeps
<1>9. SeatScore(a, required, covered) = Times(Times(Total(t), p), q)
  BY DEF SeatScore
<1>. HIDE DEF t, p, q
<1>10. Total(t) \in Fraction
  BY <1>6, TotalType
<1>11. Times(Total(t), p) \in Fraction
  BY <1>7, <1>10, TimesType
<1>. QED BY <1>8, <1>9, <1>11, TimesType

LEMMA NextSeatIn ==
  ASSUME NEW candidates, NEW remaining, IsFiniteSet(remaining), remaining # {}, remaining \subseteq Nat,
         NEW required, IsFiniteSet(required), NEW covered,
         \A i \in remaining : IsAgent(candidates[i]) /\ candidates[i].load < candidates[i].limit
  PROVE  NextSeat(candidates, remaining, required, covered) \in remaining
<1>. DEFINE score == [i \in remaining |-> SeatScore(candidates[i], required, covered)]
            IsNext(i) == \A k \in remaining : AtMost(score[k], score[i]) /\ (k < i => Below(score[k], score[i]))
<1>1. \A i \in remaining : score[i] \in Fraction
  BY SeatScoreType
<1>2. NextSeat(candidates, remaining, required, covered) = CHOOSE i \in remaining : IsNext(i)
  BY DEF NextSeat
<1>. HIDE DEF score
<1>3. \E i \in remaining : IsNext(i)
  BY <1>1, FirstOfBest
<1>. HIDE DEF IsNext
<1>. QED BY <1>2, <1>3

\* A sequence of places, none twice.
Places(S, s) == s \in Seq(S) /\ \A i, j \in 1..Len(s) : s[i] = s[j] => i = j

LEMMA PlacesFill ==
  ASSUME NEW S, IsFiniteSet(S), NEW s, Places(S, s)
  PROVE  /\ Cardinality(S) \in Nat /\ Len(s) \in Nat /\ Len(s) <= Cardinality(S)
         /\ S \ ToSet(s) = {} <=> Len(s) = Cardinality(S)
<1>1. s \in Seq(S) /\ Len(s) \in Nat /\ \A i \in 1..Len(s) : s[i] \in S
  BY LenProperties, ElementOfSeq DEF Places
<1>2. IsFiniteSet(1..Len(s)) /\ Cardinality(1..Len(s)) = Len(s)
  <2>1. IsFiniteSet(1..Len(s)) /\ Cardinality(1..Len(s)) = IF 1 > Len(s) THEN 0 ELSE Len(s) - 1 + 1
    BY <1>1, FS_Interval, 1 \in Int, Len(s) \in Int
  <2>. QED BY <1>1, <2>1
<1>. DEFINE f == [i \in 1..Len(s) |-> s[i]]
<1>3. f \in Injection(1..Len(s), S)
  BY <1>1 DEF Places, Injection, IsInjective
<1>4. Cardinality(S) \in Nat /\ Len(s) <= Cardinality(S)
  BY <1>2, <1>3, FS_Injection, FS_CardinalityType
<1>5. ToSet(s) = {s[i] : i \in 1..Len(s)}
  BY <1>1, LenProperties DEF ToSet
<1>6. ASSUME Len(s) = Cardinality(S) PROVE S \ ToSet(s) = {}
  <2>1. f \in Surjection(1..Len(s), S)
    BY <1>2, <1>3, <1>6, FS_Injection
  <2>. QED BY <1>5, <2>1 DEF Surjection
<1>7. ASSUME S \ ToSet(s) = {} PROVE Len(s) = Cardinality(S)
  <2>1. f \in Surjection(1..Len(s), S)
    BY <1>1, <1>5, <1>7 DEF Surjection
  <2>2. Cardinality(S) <= Len(s)
    BY <1>2, <2>1, FS_Surjection
  <2>. QED BY <1>1, <1>4, <2>2
<1>. QED BY <1>1, <1>4, <1>6, <1>7

LEMMA SeatOneKeeps ==
  ASSUME NEW candidates, NEW eligible, IsFiniteSet(eligible), eligible \subseteq Nat,
         NEW required, IsFiniteSet(required),
         \A i \in eligible : IsAgent(candidates[i]) /\ candidates[i].load < candidates[i].limit,
         NEW s, Places(eligible, s)
  PROVE  /\ Places(eligible, SeatOne(candidates, eligible, required, s))
         /\ Len(SeatOne(candidates, eligible, required, s)) =
              IF Len(s) = Cardinality(eligible) THEN Len(s) ELSE Len(s) + 1
<1>. DEFINE remaining == eligible \ ToSet(s)
            covered == UNION {Domains(candidates[s[k]]) : k \in DOMAIN s}
            x == NextSeat(candidates, remaining, required, covered)
<1>1. CASE remaining = {}
  <2>1. SeatOne(candidates, eligible, required, s) = s
    BY <1>1 DEF SeatOne
  <2>. QED BY <1>1, <2>1, PlacesFill
<1>2. CASE remaining # {}
  <2>1. x \in remaining
    <3>1. IsFiniteSet(remaining) /\ remaining \subseteq Nat
      BY FS_Subset
    <3>2. \A i \in remaining : IsAgent(candidates[i]) /\ candidates[i].load < candidates[i].limit
      OBVIOUS
    <3>. HIDE DEF remaining, covered
    <3>. QED BY <1>2, <3>1, <3>2, NextSeatIn
  <2>2. SeatOne(candidates, eligible, required, s) = Append(s, x)
    BY <1>2 DEF SeatOne
  <2>3. Len(s) # Cardinality(eligible)
    BY <1>2, PlacesFill
  <2>. HIDE DEF x
  <2>4. s \in Seq(eligible) /\ Len(s) \in Nat /\ x \in eligible
    BY <2>1, LenProperties DEF Places
  <2>5. \A i \in 1..Len(s) : s[i] # x
    BY <2>1, <2>4, LenProperties DEF ToSet
  <2>6. Append(s, x) \in Seq(eligible) /\ Len(Append(s, x)) = Len(s) + 1 /\ Append(s, x)[Len(s) + 1] = x
        /\ \A k \in 1..Len(s) : Append(s, x)[k] = s[k]
    BY <2>4, AppendProperties
  <2>7. ASSUME NEW i \in 1..(Len(s) + 1), NEW j \in 1..(Len(s) + 1), Append(s, x)[i] = Append(s, x)[j]
        PROVE  i = j
    <3>1. \A k \in 1..(Len(s) + 1) : k = Len(s) + 1 \/ k \in 1..Len(s)
      BY <2>4
    <3>. QED BY <2>5, <2>6, <2>7, <3>1 DEF Places
  <2>. QED BY <2>2, <2>3, <2>6, <2>7 DEF Places
<1>. QED BY <1>1, <1>2

Seats(candidates, eligible, required, seats, g) ==
  g = [n \in 0..seats |-> IF n = 0 THEN <<>> ELSE SeatOne(candidates, eligible, required, g[n - 1])]

LEMMA SeatedKeeps ==
  ASSUME NEW candidates, NEW eligible, IsFiniteSet(eligible), eligible \subseteq Nat,
         NEW required, IsFiniteSet(required), NEW seats \in Nat,
         \A i \in eligible : IsAgent(candidates[i]) /\ candidates[i].load < candidates[i].limit
  PROVE  /\ Places(eligible, Seated(candidates, eligible, required, seats))
         /\ Len(Seated(candidates, eligible, required, seats)) =
              IF seats <= Cardinality(eligible) THEN seats ELSE Cardinality(eligible)
<1>. DEFINE v == CHOOSE g : Seats(candidates, eligible, required, seats, g)
            After(s) == SeatOne(candidates, eligible, required, s)
            X == {s \in Seq(eligible) : Places(eligible, s)}
            step == [p \in (1..seats) \X X |-> After(p[2])]
            m == Cardinality(eligible)
            Held(n) == IF n <= m THEN n ELSE m
<1>1. Seated(candidates, eligible, required, seats) = v[seats]
  BY Zenon DEF Seated, Seats
<1>2. \A s \in X : After(s) \in X /\ Len(After(s)) = IF Len(s) = m THEN Len(s) ELSE Len(s) + 1
  <2>. SUFFICES ASSUME NEW s \in X
       PROVE  After(s) \in X /\ Len(After(s)) = IF Len(s) = m THEN Len(s) ELSE Len(s) + 1
    OBVIOUS
  <2>1. Places(eligible, s)
    OBVIOUS
  <2>2. Places(eligible, After(s)) /\ Len(After(s)) = IF Len(s) = m THEN Len(s) ELSE Len(s) + 1
    BY ZenonT(30), <2>1, SeatOneKeeps
  <2>. HIDE DEF After
  <2>. QED BY <2>2 DEF Places
<1>3. <<>> \in X /\ m \in Nat
  <2>1. <<>> \in Seq(eligible) /\ Len(<<>>) = 0
    BY EmptySeq
  <2>. QED BY <2>1, FS_CardinalityType DEF Places
<1>. HIDE DEF After, X, m
<1>4. step \in [(1..seats) \X X -> X]
  BY <1>2
<1>5. \A i \in 1..seats : \A s \in X : step[<<i, s>>] = After(s)
  OBVIOUS
<1>. HIDE DEF step
<1>6. PICK g : Iterate(seats, X, <<>>, step, g)
  BY <1>3, <1>4, Iterated
<1>7. g \in [0..seats -> X] /\ g[0] = <<>>
  BY <1>6 DEF Iterate
<1>8. \A i \in 1..seats : g[i] = After(g[i - 1])
  BY <1>5, <1>6, <1>7, \A i \in 1..seats : i - 1 \in 0..seats DEF Iterate
<1>9. Seats(candidates, eligible, required, seats, g)
  <2>1. \A i \in 0..seats : g[i] = IF i = 0 THEN <<>> ELSE After(g[i - 1])
    BY <1>7, <1>8
  <2>. QED BY <1>7, <2>1 DEF Seats, After
<1>10. Seats(candidates, eligible, required, seats, v)
  BY <1>9
<1>. HIDE DEF v
<1>11. v = [i \in 0..seats |-> IF i = 0 THEN <<>> ELSE After(v[i - 1])]
  BY <1>10 DEF Seats, After
<1>12. v[0] = <<>> /\ \A i \in 1..seats : v[i] = After(v[i - 1])
  BY <1>11
<1>. DEFINE P == {i \in 0..seats : v[i] \in X /\ Len(v[i]) = Held(i)}
<1>13. 0 \in P
  <2>1. Len(<<>>) = 0
    BY EmptySeq
  <2>. QED BY <1>3, <1>12, <2>1
<1>14. ASSUME NEW i \in 1..seats, i - 1 \in P PROVE i \in P
  <2>1. v[i - 1] \in X /\ Len(v[i - 1]) = Held(i - 1)
    BY <1>14
  <2>2. v[i] = After(v[i - 1])
    BY <1>12
  <2>3. v[i] \in X /\ Len(v[i]) = IF Len(v[i - 1]) = m THEN Len(v[i - 1]) ELSE Len(v[i - 1]) + 1
    BY <1>2, <2>1, <2>2
  <2>. QED BY <1>3, <2>1, <2>3
<1>15. seats \in P
  <2>. HIDE DEF P
  <2>1. 0..seats \subseteq P
    BY <1>13, <1>14, Climb
  <2>. QED BY <2>1
<1>. QED BY <1>1, <1>15 DEF X, m

(***************************************************************************)
(* The cohort of a job.                                                     *)
(***************************************************************************)
Affords(price, seats, budget) == price * seats <= budget

LEMMA Cheaper ==
  ASSUME NEW price \in Int, NEW seats \in Nat \ {0}, NEW budget \in Int, NEW n \in Int, NEW d \in Nat \ {0},
         n * seats = budget * d
  PROVE  price * d <= n <=> price * seats <= budget
<1>1. price * d <= n => (price * d) * seats <= n * seats
  OBVIOUS
<1>2. ~(price * d <= n) => (price * d) * seats > n * seats
  OBVIOUS
<1>3. price * seats <= budget => (price * seats) * d <= budget * d
  OBVIOUS
<1>4. ~(price * seats <= budget) => (price * seats) * d > budget * d
  OBVIOUS
<1>5. (price * d) * seats = (price * seats) * d
  OBVIOUS
<1>. DEFINE p == (price * d) * seats
            q == (price * seats) * d
            r == n * seats
            t == budget * d
<1>6. p \in Int /\ q \in Int /\ r \in Int /\ t \in Int
  OBVIOUS
<1>7. p = q /\ r = t
  BY <1>5
<1>8. (price * d <= n => p <= r) /\ (~(price * d <= n) => p > r)
  BY <1>1, <1>2
<1>9. (price * seats <= budget => q <= t) /\ (~(price * seats <= budget) => q > t)
  BY <1>3, <1>4
<1>. HIDE DEF p, q, r, t
<1>. QED BY <1>6, <1>7, <1>8, <1>9

LEMMA WithinItsPart ==
  ASSUME NEW price \in Int, NEW seats \in Nat \ {0}, NEW budget \in Int
  PROVE  /\ Frac(budget, seats) # <<>>
         /\ AtMost(<<price, 1>>, Frac(budget, seats)) <=> Affords(price, seats, budget)
<1>. DEFINE c == Frac(budget, seats)
            x == <<price, 1>>
<1>1. c \in Fraction /\ c[1] * seats = budget * c[2]
  BY FracKeeps
<1>2. x \in Fraction /\ x[1] = price /\ x[2] = 1
  BY FractionParts, 1 \in Nat \ {0}
<1>. HIDE DEF c, x
<1>3. c = <<c[1], c[2]>> /\ c[1] \in Int /\ c[2] \in Nat \ {0}
  BY <1>1, FractionParts
<1>4. c # <<>>
  <2>1. DOMAIN <<c[1], c[2]>> = 1..2 /\ 1 \in 1..2
    OBVIOUS
  <2>2. DOMAIN c = 1..2
    BY <1>3, <2>1
  <2>3. DOMAIN <<>> = {}
    OBVIOUS
  <2>. QED BY <2>1, <2>2, <2>3
<1>5. AtMost(x, c) <=> x[1] * c[2] <= c[1] * x[2]
  BY <1>1, <1>2, AtMostAcross
<1>6. AtMost(x, c) <=> price * c[2] <= c[1]
  BY <1>2, <1>3, <1>5
<1>7. AtMost(x, c) <=> price * seats <= budget
  BY <1>1, <1>3, <1>6, Cheaper
<1>. QED BY <1>4, <1>7 DEF Affords, c, x

LEMMA LesserOf ==
  ASSUME NEW m \in Nat, NEW n \in Nat
  PROVE  Min({m, n}) = IF m <= n THEN m ELSE n
<1>1. Min({m, n}) \in {m, n}
  BY LeastIn
<1>2. \E x \in {m, n} : \A y \in {m, n} : x <= y
  OBVIOUS
<1>3. \A y \in {m, n} : Min({m, n}) <= y
  BY <1>2 DEF Min
<1>. QED BY <1>1, <1>3

Fitting(rows, job) ==
  {i \in DOMAIN rows :
     LET a == Described(rows[i])
     IN  /\ a.configured /\ a.active /\ a.load < a.limit
         /\ job.budget = 0 \/ a.price * job.seats <= job.budget
         /\ job.requires = {} \/ Covered(a, job.requires) # {}}

IsJob(job) == IsFiniteSet(job.requires) /\ job.seats \in Nat \ {0} /\ job.budget \in Nat

\* The places taken, in order.
TakeSeats(rows, job, s) ==
  /\ Places(Fitting(rows, job), s)
  /\ Cohort(rows, job) = [k \in 1..Len(s) |-> Described(rows[s[k]])]
  /\ Len(s) = Min({job.seats, Cardinality(Fitting(rows, job))})

\* A cohort is made of those who fit, each at most once.
LEMMA CohortSeats ==
  ASSUME NEW n \in Nat, NEW rows, DOMAIN rows = 1..n, \A i \in 1..n : IsRow(rows[i]), NEW job, IsJob(job)
  PROVE  \E s : TakeSeats(rows, job, s)
<1>. DEFINE described == [i \in DOMAIN rows |-> Described(rows[i])]
            cands == Tuple(described)
            ceiling == IF job.budget > 0 THEN Frac(job.budget, job.seats) ELSE <<>>
            places == {i \in DOMAIN rows : rows[i].configured}
            eligible == {i \in places : Eligible(cands[i], job.requires, ceiling)}
            seated == Seated(cands, eligible, job.requires, job.seats)
<1>1. DOMAIN cands = 1..n /\ \A i \in 1..n : cands[i] = Described(rows[i])
  <2>1. described \in Seq({Described(rows[i]) : i \in 1..n})
    OBVIOUS
  <2>2. cands = described
    BY <2>1 DEF Tuple
  <2>. QED BY <2>2
<1>2. \A i \in 1..n : IsAgent(cands[i]) /\ cands[i].configured = rows[i].configured
  <2>1. \A i \in 1..n : IsAgent(Described(rows[i]))
    BY DescribedType
  <2>2. \A i \in 1..n : Described(rows[i]).configured = rows[i].configured
    BY Zenon DEF Described
  <2>. QED BY <1>1, <2>1, <2>2, Zenon
<1>. HIDE DEF cands
<1>3. eligible = Fitting(rows, job)
  <2>. SUFFICES ASSUME NEW i \in 1..n
       PROVE  rows[i].configured /\ Eligible(cands[i], job.requires, ceiling) <=>
                LET a == cands[i]
                IN  /\ a.configured /\ a.active /\ a.load < a.limit
                    /\ job.budget = 0 \/ a.price * job.seats <= job.budget
                    /\ job.requires = {} \/ Covered(a, job.requires) # {}
    BY <1>1 DEF Fitting
  <2>. DEFINE a == cands[i]
  <2>1. a.configured = rows[i].configured /\ a.price \in Int
    BY <1>2 DEF IsAgent
  <2>2. job.seats \in Nat \ {0} /\ job.budget \in Nat
    BY DEF IsJob
  <2>. HIDE DEF a
  <2>3. (ceiling # <<>> => AtMost(<<a.price, 1>>, ceiling)) <=> job.budget = 0 \/ Affords(a.price, job.seats, job.budget)
    <3>1. CASE job.budget = 0
      BY <3>1
    <3>2. CASE job.budget # 0
      <4>1. ceiling = Frac(job.budget, job.seats) /\ job.budget \in Int
        BY <2>2, <3>2
      <4>. HIDE DEF ceiling
      <4>. QED BY <2>1, <2>2, <3>2, <4>1, WithinItsPart
    <3>. QED BY <3>1, <3>2
  <2>. HIDE DEF ceiling
  <2>. QED BY <2>1, <2>3 DEF Eligible, a, Affords
<1>4. IsFiniteSet(eligible) /\ eligible \subseteq Nat
  <2>1. IsFiniteSet(1..n)
    BY FS_Interval, 1 \in Int, n \in Int
  <2>. QED BY <2>1, FS_Subset
<1>5. \A i \in eligible : IsAgent(cands[i]) /\ cands[i].load < cands[i].limit
  BY <1>2 DEF Eligible
<1>6. Cohort(rows, job) = [k \in DOMAIN seated |-> cands[seated[k]]]
  <2>1. Cohort(rows, job) = Select(cands, places, job.requires, job.seats, ceiling)
    BY DEF Cohort, cands
  <2>. QED BY <2>1 DEF Select
<1>. HIDE DEF eligible, seated
<1>7. /\ Places(eligible, seated)
      /\ Len(seated) = IF job.seats <= Cardinality(eligible) THEN job.seats ELSE Cardinality(eligible)
  BY <1>4, <1>5, SeatedKeeps DEF IsJob, seated
<1>8. seated \in Seq(eligible) /\ DOMAIN seated = 1..Len(seated)
  BY <1>7, LenProperties DEF Places
<1>9. \A k \in 1..Len(seated) : cands[seated[k]] = Described(rows[seated[k]])
  <2>1. \A k \in 1..Len(seated) : seated[k] \in eligible
    BY <1>8, LenProperties, ElementOfSeq
  <2>. QED BY <1>1, <2>1 DEF eligible
<1>10. Cohort(rows, job) = [k \in 1..Len(seated) |-> Described(rows[seated[k]])]
  BY <1>6, <1>8, <1>9
<1>11. Len(seated) = Min({job.seats, Cardinality(eligible)})
  BY <1>4, <1>7, LesserOf, FS_CardinalityType DEF IsJob
<1>. QED BY <1>3, <1>7, <1>10, <1>11 DEF TakeSeats

LEMMA CohortFits ==
  ASSUME NEW rows, rows \in Seq(ToSet(rows)), \A i \in DOMAIN rows : IsRow(rows[i]) /\ rows[i].id = i,
         NEW job, IsJob(job), input.job = job, input.candidates = rows, outcome.cohort = Cohort(rows, job)
  PROVE  CohortFitsTheJob
<1>. DEFINE cohort == outcome.cohort
            fit == Fitting(rows, job)
            ids == {cohort[i].id : i \in DOMAIN cohort}
            price == [i \in DOMAIN cohort |-> cohort[i].price]
<1>1. DOMAIN rows = 1..Len(rows) /\ Len(rows) \in Nat
  BY LenProperties
<1>2. PICK s : /\ Places(fit, s)
               /\ Cohort(rows, job) = [k \in 1..Len(s) |-> Described(rows[s[k]])]
               /\ Len(s) = Min({job.seats, Cardinality(fit)})
  <2>. HIDE DEF fit
  <2>1. \A i \in 1..Len(rows) : IsRow(rows[i])
    BY <1>1
  <2>2. \E s : TakeSeats(rows, job, s)
    BY <1>1, <2>1, CohortSeats
  <2>. QED BY <2>2 DEF fit, TakeSeats
<1>3. Len(s) \in Nat /\ \A k \in 1..Len(s) : s[k] \in fit
  BY <1>2, LenProperties, ElementOfSeq DEF Places
<1>4. DOMAIN cohort = 1..Len(s) /\ \A k \in 1..Len(s) : cohort[k] = Described(rows[s[k]])
  BY <1>2
<1>5. fit \subseteq DOMAIN rows
  BY DEF Fitting
<1>6. \A k \in 1..Len(s) : cohort[k].id = s[k] /\ IsAgent(cohort[k])
  <2>1. \A i \in DOMAIN rows : IsAgent(Described(rows[i]))
    BY DescribedType
  <2>2. \A i \in DOMAIN rows : Described(rows[i]).id = i
    <3>1. \A i \in DOMAIN rows : Described(rows[i]).id = rows[i].id
      BY Zenon DEF Described
    <3>. QED BY <3>1
  <2>. HIDE DEF cohort, fit
  <2>. SUFFICES ASSUME NEW k \in 1..Len(s) PROVE cohort[k].id = s[k] /\ IsAgent(cohort[k])
    OBVIOUS
  <2>3. s[k] \in DOMAIN rows /\ cohort[k] = Described(rows[s[k]])
    BY <1>3, <1>4, <1>5
  <2>. QED BY <2>1, <2>2, <2>3
<1>7. \A k \in 1..Len(s) : job.budget = 0 \/ cohort[k].price * job.seats <= job.budget
  BY <1>3, <1>4 DEF Fitting
<1>. HIDE DEF cohort, fit
<1>8. ids \subseteq fit
  BY <1>3, <1>4, <1>6
<1>9. Cardinality(ids) = Len(s)
  <2>. DEFINE f == [k \in 1..Len(s) |-> s[k]]
  <2>1. ids = {s[k] : k \in 1..Len(s)}
    BY <1>4, <1>6
  <2>2. f \in Bijection(1..Len(s), ids)
    BY <1>2, <2>1 DEF Places, Bijection, Injection, IsInjective, Surjection
  <2>3. IsFiniteSet(1..Len(s)) /\ Cardinality(1..Len(s)) = IF 1 > Len(s) THEN 0 ELSE Len(s) - 1 + 1
    BY <1>3, FS_Interval, 1 \in Int, Len(s) \in Int
  <2>. HIDE DEF ids, f
  <2>4. Cardinality(ids) = Cardinality(1..Len(s))
    BY <2>2, <2>3, FS_Bijection DEF ExistsBijection
  <2>. QED BY <1>3, <2>3, <2>4
<1>10. Len(cohort) = Len(s)
  <2>1. cohort = [k \in 1..Len(s) |-> Described(rows[s[k]])]
    BY <1>2 DEF cohort
  <2>. QED BY <1>3, <2>1, LenProperties
<1>11. Len(s) <= job.seats
  <2>1. IsFiniteSet(fit)
    <3>1. IsFiniteSet(DOMAIN rows)
      BY <1>1, FS_Interval, 1 \in Int, Len(rows) \in Int
    <3>. QED BY <1>5, <3>1, FS_Subset
  <2>2. Cardinality(fit) \in Nat
    BY <2>1, FS_CardinalityType
  <2>. QED BY <1>2, <2>2, LesserOf DEF IsJob
<1>12. ASSUME job.budget > 0 PROVE SumFunctionOnSet(price, DOMAIN cohort) <= job.budget
  <2>. DEFINE S == DOMAIN cohort
              total == SumFunctionOnSet(price, S)
  <2>1. IsFiniteSet(S) /\ Cardinality(S) = Len(s)
    <3>1. IsFiniteSet(1..Len(s)) /\ Cardinality(1..Len(s)) = IF 1 > Len(s) THEN 0 ELSE Len(s) - 1 + 1
      BY <1>3, FS_Interval, 1 \in Int, Len(s) \in Int
    <3>. QED BY <1>3, <1>4, <3>1
  <2>2. \A k \in S : price[k] \in Int
    BY <1>4, <1>6 DEF IsAgent
  <2>3. job.seats \in Nat \ {0} /\ job.budget \in Nat
    BY DEF IsJob
  <2>4. \A k \in S : job.seats * price[k] <= 0 * price[k] + job.budget
    <3>1. ASSUME NEW k \in S PROVE price[k] * job.seats <= job.budget
      BY <1>4, <1>7, <1>12, <2>3, <3>1
    <3>2. \A k \in S : job.seats * price[k] = price[k] * job.seats /\ 0 * price[k] = 0
      BY <2>2, <2>3
    <3>. QED BY <2>2, <2>3, <3>1, <3>2
  <2>. HIDE DEF price, S
  <2>5. total \in Int
    BY <2>1, <2>2, SumType
  <2>6. job.seats * total <= 0 * total + job.budget * Cardinality(S)
    BY <2>1, <2>2, <2>3, <2>4, SumBound, 0 \in Int, job.seats \in Int, job.budget \in Int
  <2>. HIDE DEF total
  <2>7. job.budget * Len(s) <= job.budget * job.seats
    BY <1>3, <1>11, <2>3
  <2>8. job.budget * job.seats = job.seats * job.budget /\ 0 * total = 0
    BY <2>3, <2>5
  <2>9. job.seats * total <= job.seats * job.budget
    BY <1>3, <2>1, <2>3, <2>5, <2>6, <2>7, <2>8, job.budget * Len(s) \in Int, job.seats * total \in Int
  <2>10. total <= job.budget
    BY <2>3, <2>5, <2>9, TimesMonotone
  <2>. QED BY <2>10 DEF total, S
<1>. HIDE DEF ids, price
<1>13. Cardinality(ids) = Len(cohort) /\ Len(cohort) = Min({job.seats, Cardinality(fit)})
  BY <1>2, <1>9, <1>10
<1>. QED BY <1>8, <1>12, <1>13 DEF CohortFitsTheJob, cohort, fit, ids, price, Fitting

(***************************************************************************)
(* What a stage was run on is still the input.                              *)
(***************************************************************************)
Chose(rows) == [i \in 1..3 |-> AsCandidate(rows[i], i)]

SelectInput ==
  input.of = "select" =>
    /\ input.job \in Postings
    /\ input.whole => \E rows \in [1..3 -> Candidates] : input.candidates = Chose(rows)

SelectOutcome ==
  outcome.stage = "selected" =>
    input.of = "select" /\ input.whole /\ outcome.cohort = Cohort(input.candidates, input.job)

SelectInv == SelectInput /\ SelectOutcome

LEMMA SelectInvInit == Init => SelectInv
BY DEF Init, SelectInv, SelectInput, SelectOutcome, Nothing, NotRun

LEMMA SelectInvNext == SelectInv /\ [Next]_vars => SelectInv'
<1>. SUFFICES ASSUME SelectInv, [Next]_vars PROVE SelectInv'
  OBVIOUS
<1>. USE DEF SelectInv
<1>1. CASE Choose /\ UNCHANGED outcome
  <2>1. ASSUME input = Nothing \/ ~input.whole PROVE SelectOutcome'
    BY <1>1, <2>1 DEF SelectOutcome, Nothing
  <2>2. CASE input = Nothing /\ (ChooseSplit \/ ChooseFirst \/ ChooseLength \/ ChoosePolicy)
    BY <2>1, <2>2 DEF SelectInput, ChooseSplit, ChooseFirst, ChooseLength, ChoosePolicy
  <2>3. CASE input = Nothing /\ ChoosePosting
    BY <2>1, <2>3 DEF SelectInput, ChoosePosting
  <2>4. CASE ChooseWeights \/ ChooseOthers \/ ChooseHistory \/ ChooseOffers
    BY <2>1, <2>4 DEF SelectInput, ChooseWeights, ChooseOthers, ChooseHistory, ChooseOffers
  <2>5. CASE ChooseCandidates
    <3>1. PICK a, b, c \in Candidates :
            input' = [of |-> "select", job |-> input.job, whole |-> TRUE,
                      candidates |-> [i \in 1..3 |-> AsCandidate(<<a, b, c>>[i], i)]]
      BY <2>5 DEF ChooseCandidates
    <3>2. <<a, b, c>> \in [1..3 -> Candidates] /\ input'.candidates = Chose(<<a, b, c>>)
      BY <3>1 DEF Chose
    <3>3. input.of = "select" /\ ~input.whole
      BY <2>5 DEF ChooseCandidates
    <3>. QED BY <2>1, <3>1, <3>2, <3>3 DEF SelectInput
  <2>. QED BY <1>1, <2>2, <2>3, <2>4, <2>5 DEF Choose
<1>2. CASE SelectAgents
  BY <1>2 DEF SelectAgents, Chosen, Outcome, SelectInput, SelectOutcome
<1>3. CASE PayRewards \/ RunEvaluation \/ RunConsensus \/ RunExplanation \/ RecomputeReputation \/ TakeJobs
  <2>1. input' = input /\ outcome'.stage # "selected"
    BY <1>3 DEF PayRewards, RunEvaluation, RunConsensus, RunExplanation, RecomputeReputation, TakeJobs, Outcome
  <2>. QED BY <2>1 DEF SelectInput, SelectOutcome
<1>4. CASE UNCHANGED vars
  BY <1>4 DEF vars, SelectInput, SelectOutcome
<1>. QED BY <1>1, <1>2, <1>3, <1>4 DEF Next

LEMMA SelectedFits == SelectInv => CohortFitsTheJob
<1>. SUFFICES ASSUME SelectInv, outcome.stage = "selected" PROVE CohortFitsTheJob
  BY DEF CohortFitsTheJob
<1>1. /\ input.of = "select" /\ input.whole /\ input.job \in Postings
      /\ outcome.cohort = Cohort(input.candidates, input.job)
  BY DEF SelectInv, SelectInput, SelectOutcome
<1>2. PICK rows \in [1..3 -> Candidates] : input.candidates = Chose(rows)
  BY <1>1 DEF SelectInv, SelectInput
<1>. DEFINE chose == input.candidates
<1>3. DOMAIN chose = 1..3 /\ \A i \in 1..3 : chose[i] = AsCandidate(rows[i], i)
  BY <1>2 DEF Chose
<1>4. chose \in Seq(ToSet(chose))
  <2>1. chose = [i \in 1..3 |-> AsCandidate(rows[i], i)]
    BY <1>2 DEF Chose
  <2>. HIDE DEF chose
  <2>2. \A i \in 1..3 : chose[i] \in ToSet(chose)
    BY <1>3 DEF ToSet
  <2>. QED BY <2>1, <2>2, <1>3
<1>5. ASSUME NEW i \in 1..3 PROVE IsRow(chose[i]) /\ chose[i].id = i
  <2>1. rows[i] \in Candidates
    OBVIOUS
  <2>. DEFINE a == rows[i]
  <2>2. IsRow(a)
    BY <2>1, InputsAssumption DEF IsRow
  <2>3. chose[i] = AsCandidate(a, i)
    BY <1>3
  <2>. HIDE DEF a, chose
  <2>. QED BY <2>2, <2>3 DEF IsRow, AsCandidate
<1>6. IsJob(input.job)
  BY <1>1, InputsAssumption DEF IsJob
<1>. HIDE DEF chose
<1>7. chose = input.candidates
  BY DEF chose
<1>. QED BY <1>1, <1>3, <1>4, <1>5, <1>6, <1>7, CohortFits

\* A cohort costs no more than its job pays, seats nobody twice and no more than
\* were asked for, and leaves a seat empty only when nobody eligible is left: what
\* ExecutionPipeline gets from AgentSelector, whatever the candidates and jobs.
THEOREM CohortsFitTheirJobs == Spec => []CohortFitsTheJob
<1>1. Spec => []SelectInv
  BY SelectInvInit, SelectInvNext, PTL DEF Spec
<1>. QED BY <1>1, SelectedFits, PTL

(***************************************************************************)
(* Sums of fractions over one denominator.                                 *)
(***************************************************************************)
Share == Nat \X (Nat \ {0})

LEMMA ShareParts ==
  /\ \A x \in Share : x = <<x[1], x[2]>> /\ x[1] \in Nat /\ x[2] \in Nat \ {0} /\ x \in Fraction
  /\ \A x \in Fraction : x[1] >= 0 => x \in Share
  /\ \A n \in Nat : \A d \in Nat \ {0} : <<n, d>> \in Share
BY DEF Share, Fraction

LEMMA NonNegative ==
  ASSUME NEW p \in Int, NEW d \in Nat \ {0}, NEW n \in Nat, NEW q \in Nat, p * d = n * q
  PROVE  p >= 0
<1>1. n * q \in Nat
  OBVIOUS
<1>2. p < 0 => p * d < 0
  OBVIOUS
<1>. QED BY <1>1, <1>2

LEMMA FracShare ==
  ASSUME NEW n \in Nat, NEW d \in Nat \ {0}
  PROVE  Frac(n, d) \in Share
<1>. DEFINE x == Frac(n, d)
<1>1. x \in Fraction /\ x[1] * d = n * x[2]
  BY FracKeeps
<1>. HIDE DEF x
<1>2. x[1] \in Int /\ x[2] \in Nat
  BY <1>1, FractionParts
<1>3. x[1] >= 0
  BY <1>1, <1>2, NonNegative
<1>. QED BY <1>1, <1>3, ShareParts DEF x

LEMMA TimesShare ==
  ASSUME NEW x \in Share, NEW y \in Share
  PROVE  Times(x, y) \in Share
<1>. DEFINE p == Frac(x[1], y[2])
            q == Frac(y[1], x[2])
<1>1. p \in Share /\ q \in Share
  BY ShareParts, FracShare
<1>. HIDE DEF p, q
<1>2. p[1] \in Nat /\ p[2] \in Nat \ {0} /\ q[1] \in Nat /\ q[2] \in Nat \ {0}
  BY <1>1, ShareParts
<1>3. p[1] * q[1] \in Nat /\ p[2] * q[2] \in Nat \ {0}
  BY <1>2, PositiveProduct, TimesNat
<1>4. Times(x, y) = <<p[1] * q[1], p[2] * q[2]>>
  BY DEF Times, Product, p, q
<1>. QED BY <1>3, <1>4, ShareParts

LEMMA PlusShare ==
  ASSUME NEW x \in Share, NEW y \in Share
  PROVE  Plus(x, y) \in Share
<1>. DEFINE z == Plus(x, y)
            d == x[2] * y[2]
            n == x[1] * y[2] + y[1] * x[2]
<1>1. x[1] \in Nat /\ x[2] \in Nat \ {0} /\ y[1] \in Nat /\ y[2] \in Nat \ {0} /\ x \in Fraction /\ y \in Fraction
  BY ShareParts
<1>2. z \in Fraction /\ z[1] * d = n * z[2]
  BY <1>1, PlusKeeps
<1>3. d \in Nat \ {0} /\ n \in Nat
  BY <1>1, PositiveProduct, TimesNat
<1>. HIDE DEF z, d, n
<1>4. z[1] \in Int /\ z[2] \in Nat
  BY <1>2, FractionParts
<1>5. z[1] >= 0
  BY <1>2, <1>3, <1>4, NonNegative
<1>. QED BY <1>2, <1>5, ShareParts DEF z

LEMMA TotalShare ==
  ASSUME NEW s \in Seq(Share)
  PROVE  Total(s) \in Share
<1>1. s \in Seq(Fraction) /\ Len(s) \in Nat /\ \A i \in 1..Len(s) : s[i] \in Share
  BY ShareParts, LenProperties, ElementOfSeq
<1>2. PICK g \in [0..Len(s) -> Fraction] :
           /\ g[0] = Zero /\ g[Len(s)] = Total(s)
           /\ \A i \in 1..Len(s) : g[i] = Plus(g[i - 1], s[i])
  BY <1>1, TotalUnfolds
<1>. DEFINE P == {i \in 0..Len(s) : g[i] \in Share}
<1>3. 0 \in P
  BY <1>1, <1>2, ShareParts DEF Zero
<1>4. ASSUME NEW i \in 1..Len(s), i - 1 \in P PROVE i \in P
  BY <1>1, <1>2, <1>4, PlusShare
<1>. HIDE DEF P
<1>5. 0..Len(s) \subseteq P
  BY <1>1, <1>3, <1>4, Climb
<1>. QED BY <1>1, <1>2, <1>5 DEF P

\* x is worth n / d.
Worth(x, n, d) == x[1] * d = n * x[2]

LEMMA CancelsOut ==
  ASSUME NEW p \in Int, NEW q \in Int, NEW d \in Nat \ {0}, p * d = q * d
  PROVE  p = q
OBVIOUS

Crossed(p, q, a, b, c, d) == p * (b * d) = (a * d + c * b) * q
AsMuch(a, e, m, b) == a * e = m * b

LEMMA SumCrossed ==
  ASSUME NEW p \in Int, NEW q \in Int, NEW a \in Int, NEW b \in Nat \ {0}, NEW c \in Int, NEW d \in Nat \ {0},
         NEW m \in Int, NEW n \in Int, NEW e \in Nat \ {0},
         Crossed(p, q, a, b, c, d), AsMuch(a, e, m, b), AsMuch(c, e, n, d)
  PROVE  AsMuch(p, e, m + n, q)
<1>. USE DEF Crossed, AsMuch
<1>. DEFINE u == p * e
            v == (m + n) * q
            w == b * d
<1>1. u \in Int /\ v \in Int /\ w \in Nat \ {0}
  BY PositiveProduct
<1>2. (p * e) * (b * d) = (p * (b * d)) * e
  OBVIOUS
<1>3. ((a * d + c * b) * q) * e = ((a * e) * d + (c * e) * b) * q
  OBVIOUS
<1>4. ((m * b) * d + (n * d) * b) * q = ((m + n) * q) * (b * d)
  OBVIOUS
<1>5. u * w = v * w
  BY <1>2, <1>3, <1>4
<1>. HIDE DEF u, v, w
<1>6. u = v
  BY <1>1, <1>5, CancelsOut
<1>. QED BY <1>6 DEF u, v

LEMMA PlusWorth ==
  ASSUME NEW x \in Fraction, NEW y \in Fraction, NEW m \in Int, NEW n \in Int, NEW d \in Nat \ {0},
         Worth(x, m, d), Worth(y, n, d)
  PROVE  Worth(Plus(x, y), m + n, d)
<1>. DEFINE z == Plus(x, y)
<1>1. z \in Fraction /\ z[1] * (x[2] * y[2]) = (x[1] * y[2] + y[1] * x[2]) * z[2]
  BY PlusKeeps
<1>. HIDE DEF z
<1>2. /\ x[1] \in Int /\ x[2] \in Nat \ {0} /\ y[1] \in Int /\ y[2] \in Nat \ {0}
      /\ z[1] \in Int /\ z[2] \in Int
  BY <1>1, FractionParts
<1>3. x[1] * d = m * x[2] /\ y[1] * d = n * y[2]
  BY DEF Worth
<1>4. Crossed(z[1], z[2], x[1], x[2], y[1], y[2])
  BY <1>1 DEF Crossed
<1>5. AsMuch(x[1], d, m, x[2]) /\ AsMuch(y[1], d, n, y[2])
  BY <1>3 DEF AsMuch
<1>6. AsMuch(z[1], d, m + n, z[2])
  BY <1>2, <1>4, <1>5, SumCrossed
<1>. QED BY <1>6 DEF Worth, AsMuch, z

LEMMA TotalWorth ==
  ASSUME NEW s \in Seq(Fraction), NEW d \in Nat \ {0}, NEW m,
         \A i \in 1..Len(s) : m[i] \in Int /\ Worth(s[i], m[i], d)
  PROVE  Worth(Total(s), SumFunctionOnSet(m, 1..Len(s)), d)
<1>. DEFINE n == Len(s)
            Sum(i) == SumFunctionOnSet(m, 1..i)
<1>1. n \in Nat /\ \A i \in 1..n : s[i] \in Fraction
  BY LenProperties, ElementOfSeq
<1>2. PICK g \in [0..n -> Fraction] :
           /\ g[0] = Zero /\ g[n] = Total(s)
           /\ \A i \in 1..n : g[i] = Plus(g[i - 1], s[i])
  BY TotalUnfolds
<1>. HIDE DEF n
<1>3. \A i \in 0..n : IsFiniteSet(1..i)
  BY <1>1, FS_Interval, 1 \in Int, \A i \in 0..n : i \in Int
<1>4. \A i \in 0..n : Sum(i) \in Int
  <2>1. \A i \in 0..n : \A k \in 1..i : m[k] \in Int
    BY <1>1 DEF n
  <2>. QED BY <1>3, <2>1, SumType
<1>5. Sum(0) = 0
  <2>1. 1..0 = {}
    OBVIOUS
  <2>. QED BY <2>1, FS_EmptySet, SumUnfold
<1>6. ASSUME NEW i \in 1..n PROVE Sum(i) = m[i] + Sum(i - 1)
  <2>1. 1..i = (1..(i - 1)) \cup {i} /\ i \notin 1..(i - 1) /\ i - 1 \in 0..n
    BY <1>1
  <2>2. \A k \in (1..(i - 1)) \cup {i} : m[k] \in Int
    BY <1>1 DEF n
  <2>3. SumFunctionOnSet(m, (1..(i - 1)) \cup {i}) = m[i] + SumFunctionOnSet(m, 1..(i - 1))
    BY <1>3, <2>1, <2>2, SumAdd
  <2>. QED BY <2>1, <2>3
<1>. HIDE DEF Sum
<1>. DEFINE P == {i \in 0..n : Worth(g[i], Sum(i), d)}
<1>7. 0 \in P
  BY <1>1, <1>2, <1>5 DEF Worth, Zero
<1>8. ASSUME NEW i \in 1..n, i - 1 \in P PROVE i \in P
  <2>1. i - 1 \in 0..n /\ i \in 0..n
    BY <1>1
  <2>2. Worth(g[i - 1], Sum(i - 1), d) /\ Worth(s[i], m[i], d)
    BY <1>8 DEF n
  <2>3. g[i - 1] \in Fraction /\ s[i] \in Fraction /\ Sum(i - 1) \in Int /\ m[i] \in Int
    BY <1>1, <1>4, <2>1 DEF n
  <2>4. Worth(Plus(g[i - 1], s[i]), Sum(i - 1) + m[i], d)
    BY <2>2, <2>3, PlusWorth
  <2>5. Sum(i - 1) + m[i] = Sum(i) /\ g[i] = Plus(g[i - 1], s[i])
    BY <1>2, <1>6, <2>3
  <2>. QED BY <2>1, <2>4, <2>5
<1>. HIDE DEF P
<1>9. 0..n \subseteq P
  BY <1>1, <1>7, <1>8, Climb
<1>. QED BY <1>1, <1>2, <1>9 DEF P, Sum, n

\* The members of a finite set of fractions have a common denominator.
LEMMA CommonDenominator ==
  ASSUME NEW A, IsFiniteSet(A), NEW v, \A x \in A : v[x] \in Share
  PROVE  \E d \in Nat \ {0} : \E n \in [A -> Nat] : \A x \in A : Worth(v[x], n[x], d)
<1>. DEFINE Have(T) == \E d \in Nat \ {0} : \E n \in [T -> Nat] : \A x \in T : Worth(v[x], n[x], d)
            Bad == {T \in SUBSET A : ~Have(T)}
<1>. SUFFICES ASSUME Bad # {} PROVE FALSE
  OBVIOUS
<1>1. PICK T \in Bad : \A U \in SUBSET T : U # T => U \notin Bad
  <2>. HIDE DEF Bad
  <2>1. Bad \subseteq SUBSET A
    BY DEF Bad
  <2>. QED BY <2>1, LeastSubset
<1>2. T # {}
  <2>1. Have({})
    <3>1. [x \in {} |-> 0] \in [{} -> Nat] /\ 1 \in Nat \ {0}
      OBVIOUS
    <3>. QED BY <3>1
  <2>. QED BY <1>1, <2>1
<1>3. PICK y \in T : TRUE
  BY <1>2
<1>. DEFINE U == T \ {y}
<1>4. Have(U)
  BY <1>1, <1>3
<1>5. PICK d \in Nat \ {0}, n \in [U -> Nat] : \A x \in U : Worth(v[x], n[x], d)
  BY <1>4
<1>. DEFINE p == v[y][1]
            q == v[y][2]
            e == d * q
            m == [x \in T |-> IF x = y THEN p * d ELSE n[x] * q]
<1>6. p \in Nat /\ q \in Nat \ {0} /\ \A x \in T : v[x][1] \in Nat /\ v[x][2] \in Nat
  BY <1>1, <1>3, ShareParts
<1>. HIDE DEF p, q
<1>7. e \in Nat \ {0}
  BY <1>6, PositiveProduct
<1>8. m \in [T -> Nat]
  <2>1. \A x \in U : n[x] * q \in Nat
    BY <1>6, TimesNat
  <2>2. p * d \in Nat
    BY <1>6, TimesNat
  <2>. QED BY <2>1, <2>2
<1>9. ASSUME NEW x \in T PROVE Worth(v[x], m[x], e)
  <2>1. CASE x = y
    <3>1. p * (d * q) = (p * d) * q
      BY <1>6
    <3>. QED BY <2>1, <3>1 DEF Worth, p, q
  <2>2. CASE x # y
    <3>. DEFINE a == v[x][1]
                b == v[x][2]
                k == n[x]
    <3>1. a \in Nat /\ b \in Nat /\ k \in Nat /\ a * d = k * b
      BY <1>5, <1>6, <2>2 DEF Worth
    <3>2. m[x] = k * q
      BY <2>2
    <3>. HIDE DEF a, b, k, m
    <3>3. a * (d * q) = (a * d) * q /\ (k * q) * b = (k * b) * q
      BY <1>6, <3>1
    <3>4. a * e = m[x] * b
      BY <3>1, <3>2, <3>3
    <3>. QED BY <3>4 DEF Worth, a, b
  <2>. QED BY <2>1, <2>2
<1>. HIDE DEF e, m
<1>10. Have(T)
  BY <1>7, <1>8, <1>9
<1>. QED BY <1>1, <1>10

LEMMA WorthOfSet ==
  ASSUME NEW S, IsFiniteSet(S), NEW v, \A x \in S : v[x] \in Share, NEW d \in Nat \ {0},
         NEW n, \A x \in S : n[x] \in Nat /\ Worth(v[x], n[x], d)
  PROVE  LET w == Total([i \in DOMAIN Listed(S) |-> v[Listed(S)[i]]])
         IN  w \in Share /\ Worth(w, SumFunctionOnSet(n, S), d)
<1>. DEFINE s == Listed(S)
            t == [i \in DOMAIN s |-> v[s[i]]]
            m == [i \in DOMAIN s |-> n[s[i]]]
            k == Len(s)
<1>1. Enumerates(S, s)
  BY ListedOnce
<1>. HIDE DEF s
<1>2. k \in Nat /\ DOMAIN s = 1..k /\ \A i \in 1..k : s[i] \in S
  BY <1>1, LenProperties, ElementOfSeq DEF Enumerates
<1>. HIDE DEF k
<1>3. t \in Seq(Share) /\ Len(t) = k
  BY <1>2
<1>4. \A i \in 1..k : m[i] \in Nat /\ Worth(t[i], m[i], d)
  BY <1>2
<1>5. SumFunctionOnSet(n, S) = SumFunctionOnSet(m, 1..k)
  <2>1. IsFiniteSet(1..k)
    BY <1>2, FS_Interval, 1 \in Int, k \in Int
  <2>2. \A i, j \in 1..k : s[i] = s[j] => i = j
    BY <1>1, <1>2 DEF Enumerates
  <2>3. \A x \in S : \E i \in 1..k : x = s[i]
    BY <1>1, <1>2 DEF Enumerates
  <2>4. \A i \in 1..k : m[i] \in Int /\ n[s[i]] = m[i]
    BY <1>2, <1>4
  <2>. DEFINE K == 1..k
  <2>5. /\ IsFiniteSet(K) /\ \A i \in K : s[i] \in S
        /\ \A x \in S : \E i \in K : x = s[i]
        /\ \A i, j \in K : s[i] = s[j] => i = j
        /\ \A i \in K : m[i] \in Int /\ n[s[i]] = m[i]
    BY <1>2, <2>1, <2>2, <2>3, <2>4
  <2>. HIDE DEF m, K
  <2>6. SumFunctionOnSet(n, S) = SumFunctionOnSet(m, K)
    BY <2>5, SumImage
  <2>. QED BY <2>6 DEF K
<1>. HIDE DEF t, m
<1>6. t \in Seq(Fraction)
  BY <1>3, ShareParts, LenProperties, ElementOfSeq
<1>7. Worth(Total(t), SumFunctionOnSet(m, 1..k), d)
  BY <1>3, <1>4, <1>6, TotalWorth
<1>8. Total(t) \in Share
  BY <1>3, TotalShare
<1>. QED BY <1>5, <1>7, <1>8 DEF s, t

LEMMA NoMore ==
  ASSUME NEW a \in Int, NEW b \in Nat \ {0}, NEW c \in Int, NEW e \in Nat \ {0}, NEW m \in Int, NEW n \in Int,
         NEW d \in Nat \ {0}, AsMuch(a, d, m, b), AsMuch(c, d, n, e), m <= n
  PROVE  a * e <= c * b
<1>1. a * d = m * b /\ c * d = n * e
  BY DEF AsMuch
<1>2. m * (b * e) <= n * (b * e)
  <2>. DEFINE w == b * e
  <2>1. w \in Nat
    BY TimesNat
  <2>. HIDE DEF w
  <2>2. m * w <= n * w
    BY <2>1
  <2>. QED BY <2>2 DEF w
<1>3. (a * e) * d = (a * d) * e /\ (c * b) * d = (c * d) * b
  OBVIOUS
<1>4. (m * b) * e = m * (b * e) /\ (n * e) * b = n * (b * e)
  OBVIOUS
<1>. DEFINE x == a * e
            y == c * b
<1>5. x \in Int /\ y \in Int
  OBVIOUS
<1>6. x * d <= y * d
  BY <1>1, <1>2, <1>3, <1>4
<1>7. d * x = x * d /\ d * y = y * d
  OBVIOUS
<1>. HIDE DEF x, y
<1>8. x <= y
  BY <1>5, <1>6, <1>7, TimesMonotone
<1>. QED BY <1>8 DEF x, y

LEMMA AtMostWorth ==
  ASSUME NEW x \in Share, NEW y \in Share, NEW m \in Int, NEW n \in Int, NEW d \in Nat \ {0},
         Worth(x, m, d), Worth(y, n, d)
  PROVE  /\ m <= n => AtMost(x, y)
         /\ AtMost(x, y) => m <= n
<1>1. x[1] \in Int /\ x[2] \in Nat \ {0} /\ y[1] \in Int /\ y[2] \in Nat \ {0} /\ x \in Fraction /\ y \in Fraction
  BY ShareParts
<1>2. AsMuch(x[1], d, m, x[2]) /\ AsMuch(y[1], d, n, y[2])
  BY DEF AsMuch, Worth
<1>3. AtMost(x, y) <=> x[1] * y[2] <= y[1] * x[2]
  BY <1>1, AtMostAcross
<1>4. ASSUME m <= n PROVE AtMost(x, y)
  <2>1. x[1] * y[2] <= y[1] * x[2]
    BY <1>1, <1>2, <1>4, NoMore
  <2>. QED BY <1>3, <2>1
<1>5. ASSUME ~(m <= n), AtMost(x, y) PROVE FALSE
  <2>. DEFINE a == x[1]
              b == x[2]
              c == y[1]
              e == y[2]
  <2>1. a \in Int /\ b \in Nat \ {0} /\ c \in Int /\ e \in Nat \ {0} /\ a * d = m * b /\ c * d = n * e
        /\ a * e <= c * b
    BY <1>1, <1>2, <1>3, <1>5 DEF AsMuch
  <2>. HIDE DEF a, b, c, e
  <2>. DEFINE w == b * e
  <2>2. w \in Nat \ {0}
    BY <2>1, PositiveProduct
  <2>3. (a * e) * d = m * w /\ (c * b) * d = n * w
    <3>1. (a * e) * d = (a * d) * e /\ (c * b) * d = (c * d) * b
      BY <2>1
    <3>2. (m * b) * e = m * (b * e) /\ (n * e) * b = n * (b * e)
      BY <2>1
    <3>. QED BY <2>1, <3>1, <3>2
  <2>. HIDE DEF w
  <2>4. m * w > n * w
    BY <1>5, <2>2
  <2>5. (a * e) * d <= (c * b) * d
    <3>. DEFINE p == a * e
                q == c * b
    <3>1. p \in Int /\ q \in Int /\ p <= q
      BY <2>1
    <3>. HIDE DEF p, q
    <3>2. p * d <= q * d
      BY <3>1
    <3>. QED BY <3>2 DEF p, q
  <2>6. m * w \in Int /\ n * w \in Int
    BY <2>2
  <2>. QED BY <2>3, <2>4, <2>5, <2>6
<1>. QED BY <1>4, <1>5

(***************************************************************************)
(* No set of as many is worth more than the best.                          *)
(***************************************************************************)
LEMMA BestTogether ==
  ASSUME NEW A, IsFiniteSet(A), NEW T \in SUBSET A, NEW S \in SUBSET A,
         NEW n, \A x \in A : n[x] \in Nat,
         \A t \in T : \A x \in A \ T : n[x] <= n[t],
         Cardinality(S) <= Cardinality(T)
  PROVE  SumFunctionOnSet(n, S) <= SumFunctionOnSet(n, T)
<1>. DEFINE B == S \cap T
            X == S \ T
            Y == T \ S
            Sum(U) == SumFunctionOnSet(n, U)
<1>1. IsFiniteSet(S) /\ IsFiniteSet(T) /\ IsFiniteSet(B) /\ IsFiniteSet(X) /\ IsFiniteSet(Y)
  BY FS_Subset
<1>2. Cardinality(S) = Cardinality(B) + Cardinality(X) /\ Cardinality(T) = Cardinality(B) + Cardinality(Y)
  <2>1. S = B \cup X /\ B \cap X = {} /\ T = B \cup Y /\ B \cap Y = {}
    OBVIOUS
  <2>2. Cardinality(B \cup X) = Cardinality(B) + Cardinality(X) - Cardinality(B \cap X)
    BY <1>1, FS_Union
  <2>3. Cardinality(B \cup Y) = Cardinality(B) + Cardinality(Y) - Cardinality(B \cap Y)
    BY <1>1, FS_Union
  <2>4. Cardinality({}) = 0
    BY FS_EmptySet
  <2>5. Cardinality(B) \in Nat /\ Cardinality(X) \in Nat /\ Cardinality(Y) \in Nat
    BY <1>1, FS_CardinalityType
  <2>6. Cardinality(S) = Cardinality(B \cup X) /\ Cardinality(T) = Cardinality(B \cup Y)
        /\ Cardinality(B \cap X) = 0 /\ Cardinality(B \cap Y) = 0
    BY <2>1, <2>4
  <2>. HIDE DEF B, X, Y
  <2>. QED BY <2>2, <2>3, <2>5, <2>6
<1>3. Cardinality(X) \in Nat /\ Cardinality(Y) \in Nat /\ Cardinality(B) \in Nat /\ Cardinality(X) <= Cardinality(Y)
  <2>1. Cardinality(X) \in Nat /\ Cardinality(Y) \in Nat /\ Cardinality(B) \in Nat
    BY <1>1, FS_CardinalityType
  <2>. HIDE DEF B, X, Y
  <2>. QED BY <1>2, <2>1
<1>4. Sum(S) = Sum(B) + Sum(X) /\ Sum(T) = Sum(B) + Sum(Y)
  <2>1. S = B \cup X /\ B \cap X = {} /\ T = B \cup Y /\ B \cap Y = {}
    OBVIOUS
  <2>2. \A x \in S \cup T : n[x] \in Int
    OBVIOUS
  <2>. HIDE DEF B, X, Y
  <2>3. SumFunctionOnSet(n, B \cup X) = SumFunctionOnSet(n, B) + SumFunctionOnSet(n, X)
    BY <1>1, <2>1, <2>2, SumUnion
  <2>4. SumFunctionOnSet(n, B \cup Y) = SumFunctionOnSet(n, B) + SumFunctionOnSet(n, Y)
    BY <1>1, <2>1, <2>2, SumUnion
  <2>. QED BY <2>1, <2>3, <2>4
<1>5. Sum(B) \in Nat /\ Sum(X) \in Nat /\ Sum(Y) \in Nat
  BY <1>1, SumNat
<1>6. Sum(X) <= Sum(Y)
  <2>1. CASE Y = {}
    <3>1. Cardinality(X) = 0
      BY <1>3, <2>1, FS_EmptySet
    <3>2. X = {}
      BY <1>1, <3>1, FS_EmptySet
    <3>. QED BY <1>5, <2>1, <3>2
  <2>2. CASE Y # {}
    <3>. DEFINE Values == {n[y] : y \in Y}
    <3>1. PICK m \in Values : \A l \in Values : m <= l
      <4>1. Values \subseteq Nat /\ Values # {}
        BY <2>2
      <4>. HIDE DEF Values
      <4>. QED BY <4>1, LeastNumber
    <3>2. m \in Nat /\ \A y \in Y : m <= n[y]
      BY <3>1
    <3>3. \A x \in X : n[x] <= m
      BY <3>1
    <3>. HIDE DEF Values
    <3>4. 1 * Sum(X) <= 0 * Sum(X) + m * Cardinality(X)
      <4>1. \A x \in X : n[x] \in Int /\ n[x] \in Int /\ 1 * n[x] <= 0 * n[x] + m
        BY <3>2, <3>3
      <4>2. 1 \in Int /\ 0 \in Int /\ m \in Int
        BY <3>2
      <4>. HIDE DEF X
      <4>. QED BY <1>1, <4>1, <4>2, SumBound
    <3>5. (-1) * Sum(Y) <= 0 * Sum(Y) + (-m) * Cardinality(Y)
      <4>1. \A y \in Y : n[y] \in Int /\ n[y] \in Int /\ (-1) * n[y] <= 0 * n[y] + (-m)
        BY <3>2
      <4>2. -1 \in Int /\ 0 \in Int /\ -m \in Int
        BY <3>2
      <4>. HIDE DEF Y
      <4>. QED BY <1>1, <4>1, <4>2, SumBound
    <3>. DEFINE c == Cardinality(X)
                e == Cardinality(Y)
                a == Sum(X)
                b == Sum(Y)
    <3>6. a \in Nat /\ b \in Nat /\ c \in Nat /\ e \in Nat /\ c <= e /\ a <= m * c /\ -b <= -(m * e)
      BY <1>3, <1>5, <3>2, <3>4, <3>5
    <3>. HIDE DEF a, b, c, e
    <3>7. m * c <= m * e /\ m * c \in Int /\ m * e \in Int
      BY <3>2, <3>6
    <3>8. a <= b
      BY <3>6, <3>7
    <3>. QED BY <3>8 DEF a, b
  <2>. QED BY <2>1, <2>2
<1>. HIDE DEF B, X, Y, Sum
<1>7. Sum(S) <= Sum(T)
  BY <1>4, <1>5, <1>6
<1>. QED BY <1>7 DEF Sum

(***************************************************************************)
(* The jobs an operator takes: the first of those ranked.                  *)
(***************************************************************************)
LEMMA GreaterOf ==
  ASSUME NEW m \in Int, NEW n \in Int
  PROVE  Max({m, n}) = IF m >= n THEN m ELSE n
<1>1. \E x \in {m, n} : \A y \in {m, n} : x >= y
  OBVIOUS
<1>2. Max({m, n}) \in {m, n} /\ \A y \in {m, n} : Max({m, n}) >= y
  BY <1>1 DEF Max
<1>. QED BY <1>2

LEMMA AttractionShare ==
  ASSUME NEW job, IsFiniteSet(job.requires), job.budget \in Nat, job.deadline \in Int, NEW config
  PROVE  Attraction(job, config) \in Share
<1>. DEFINE common == job.requires \cap config.domains
            matched == IF config.domains = {} THEN One
                       ELSE Frac(Cardinality(common), Max({1, Cardinality(job.requires)}))
            urgency == IF job.deadline = NoDeadline THEN Frac(1, 5) ELSE Frac(60, Max({60, job.deadline}))
            t == <<Times(<<job.budget, 1>>, Frac(6, 10)), Times(matched, Frac(3, 10)),
                   Times(urgency, Frac(1, 10))>>
<1>1. Frac(6, 10) \in Share /\ Frac(3, 10) \in Share /\ Frac(1, 10) \in Share /\ Frac(1, 5) \in Share
  BY FracShare
<1>2. One \in Share /\ <<job.budget, 1>> \in Share
  BY ShareParts DEF One
<1>3. matched \in Share
  <2>1. IsFiniteSet(common)
    BY FS_Subset
  <2>2. Cardinality(common) \in Nat /\ Cardinality(job.requires) \in Nat
    BY <2>1, FS_CardinalityType
  <2>3. Max({1, Cardinality(job.requires)}) \in Nat \ {0}
    BY <2>2, GreaterOf
  <2>. HIDE DEF common
  <2>4. Frac(Cardinality(common), Max({1, Cardinality(job.requires)})) \in Share
    BY <2>2, <2>3, FracShare
  <2>. QED BY <1>2, <2>4
<1>4. urgency \in Share
  <2>1. Max({60, job.deadline}) \in Nat \ {0}
    BY GreaterOf
  <2>2. Frac(60, Max({60, job.deadline})) \in Share
    BY <2>1, FracShare
  <2>. QED BY <1>1, <2>2
<1>5. Attraction(job, config) = Total(t)
  BY DEF Attraction
<1>. HIDE DEF matched, urgency
<1>6. /\ Times(<<job.budget, 1>>, Frac(6, 10)) \in Share /\ Times(matched, Frac(3, 10)) \in Share
      /\ Times(urgency, Frac(1, 10)) \in Share
  BY <1>1, <1>2, <1>3, <1>4, TimesShare
<1>7. t \in Seq(Share)
  BY <1>6
<1>. HIDE DEF t
<1>. QED BY <1>5, <1>7, TotalShare

\* i is ranked before k.
Precedes(v, i, k) == Below(v[k], v[i]) \/ (AtMost(v[k], v[i]) /\ i < k)
Earlier(S, v, k) == {i \in S : Precedes(v, i, k)}

LEMMA PrecedesOrder ==
  ASSUME NEW S, S \subseteq Nat, NEW v, \A i \in S : v[i] \in Fraction
  PROVE  /\ \A i \in S : ~Precedes(v, i, i)
         /\ \A i, k \in S : i = k \/ Precedes(v, i, k) \/ Precedes(v, k, i)
         /\ \A i, j, k \in S : Precedes(v, i, j) /\ Precedes(v, j, k) => Precedes(v, i, k)
         /\ \A i, k \in S : Precedes(v, i, k) => AtMost(v[k], v[i])
<1>1. /\ \A x, y \in Fraction : AtMost(x, y) \/ AtMost(y, x)
      /\ \A x, y, z \in Fraction : AtMost(x, y) /\ AtMost(y, z) => AtMost(x, z)
      /\ \A x, y \in Fraction : Below(x, y) <=> ~AtMost(y, x)
  BY AtMostOrder
<1>2. ASSUME NEW i \in S PROVE ~Precedes(v, i, i)
  <2>1. AtMost(v[i], v[i]) /\ ~(i < i)
    BY <1>1
  <2>. QED BY <1>1, <2>1 DEF Precedes
<1>3. ASSUME NEW i \in S, NEW k \in S, i # k PROVE Precedes(v, i, k) \/ Precedes(v, k, i)
  <2>1. i < k \/ k < i
    BY <1>3
  <2>2. Below(v[k], v[i]) <=> ~AtMost(v[i], v[k])
    BY <1>1
  <2>3. Below(v[i], v[k]) <=> ~AtMost(v[k], v[i])
    BY <1>1
  <2>. QED BY <2>1, <2>2, <2>3 DEF Precedes
<1>4. ASSUME NEW i \in S, NEW k \in S, Precedes(v, i, k) PROVE AtMost(v[k], v[i])
  BY <1>1, <1>4 DEF Precedes
<1>5. ASSUME NEW i \in S, NEW j \in S, NEW k \in S, Precedes(v, i, j), Precedes(v, j, k)
      PROVE  Precedes(v, i, k)
  <2>1. v[i] \in Fraction /\ v[j] \in Fraction /\ v[k] \in Fraction
    OBVIOUS
  <2>2. AtMost(v[j], v[i]) /\ AtMost(v[k], v[j])
    BY <1>4, <1>5
  <2>3. AtMost(v[k], v[i])
    BY <1>1, <2>1, <2>2
  <2>4. CASE ~AtMost(v[i], v[k])
    BY <1>1, <2>1, <2>4 DEF Precedes
  <2>5. CASE AtMost(v[i], v[k])
    <3>1. AtMost(v[i], v[j])
      BY <1>1, <2>1, <2>2, <2>5
    <3>2. AtMost(v[j], v[k])
      BY <1>1, <2>1, <2>2, <2>5
    <3>3. i < j /\ j < k
      BY <1>1, <1>5, <2>1, <3>1, <3>2 DEF Precedes
    <3>4. i < k
      BY <3>3, i \in Nat, j \in Nat, k \in Nat
    <3>. QED BY <2>3, <3>4 DEF Precedes
  <2>. QED BY <2>4, <2>5
<1>. QED BY <1>2, <1>3, <1>4, <1>5

\* The ranks are the numbers from 0 on, each of one.
RanksApart(S, v) ==
  /\ \A k \in S : Cardinality(Earlier(S, v, k)) \in 0..(Cardinality(S) - 1)
  /\ \A i, k \in S : Precedes(v, i, k) => Cardinality(Earlier(S, v, i)) < Cardinality(Earlier(S, v, k))
  /\ \A i, k \in S : Cardinality(Earlier(S, v, i)) = Cardinality(Earlier(S, v, k)) => i = k
  /\ \A r \in 0..(Cardinality(S) - 1) : \E k \in S : Cardinality(Earlier(S, v, k)) = r

LEMMA RankRight ==
  ASSUME NEW S, IsFiniteSet(S), S \subseteq Nat, NEW v, \A i \in S : v[i] \in Fraction
  PROVE  RanksApart(S, v)
<1>. DEFINE E(k) == Earlier(S, v, k)
            n == Cardinality(S)
<1>1. n \in Nat /\ \A k \in S : E(k) \subseteq S /\ IsFiniteSet(E(k)) /\ Cardinality(E(k)) \in Nat
  <2>1. \A k \in S : E(k) \subseteq S
    BY DEF Earlier
  <2>. HIDE DEF E
  <2>. QED BY <2>1, FS_Subset, FS_CardinalityType
<1>2. ASSUME NEW k \in S PROVE Cardinality(E(k)) \in 0..(n - 1)
  <2>0. ~Precedes(v, k, k)
    BY PrecedesOrder
  <2>1. E(k) \subseteq S \ {k}
    BY <2>0 DEF Earlier
  <2>. HIDE DEF E
  <2>2. Cardinality(S \ {k}) = n - 1 /\ IsFiniteSet(S \ {k})
    BY FS_RemoveElement
  <2>3. Cardinality(E(k)) <= n - 1
    BY <2>1, <2>2, FS_Subset
  <2>. QED BY <1>1, <2>3
<1>3. ASSUME NEW i \in S, NEW k \in S, Precedes(v, i, k) PROVE Cardinality(E(i)) < Cardinality(E(k))
  <2>1. E(i) \subseteq E(k)
    BY <1>3, PrecedesOrder DEF Earlier
  <2>2. i \in E(k) /\ i \notin E(i)
    BY <1>3, PrecedesOrder DEF Earlier
  <2>. HIDE DEF E
  <2>3. Cardinality(E(i)) <= Cardinality(E(k))
    BY <1>1, <2>1, FS_Subset
  <2>4. Cardinality(E(i)) # Cardinality(E(k))
    BY <1>1, <2>1, <2>2, FS_Subset
  <2>. QED BY <1>1, <2>3, <2>4
<1>4. ASSUME NEW i \in S, NEW k \in S, Cardinality(E(i)) = Cardinality(E(k)) PROVE i = k
  <2>1. i = k \/ Precedes(v, i, k) \/ Precedes(v, k, i)
    BY PrecedesOrder
  <2>. HIDE DEF E
  <2>2. Cardinality(E(i)) \in Nat
    BY <1>1
  <2>. QED BY <1>3, <1>4, <2>1, <2>2
<1>5. ASSUME NEW r \in 0..(n - 1) PROVE \E k \in S : Cardinality(E(k)) = r
  <2>. DEFINE f == [k \in S |-> Cardinality(E(k))]
  <2>. HIDE DEF E
  <2>1. f \in Injection(S, 0..(n - 1))
    BY <1>2, <1>4 DEF Injection, IsInjective
  <2>2. IsFiniteSet(0..(n - 1)) /\ Cardinality(0..(n - 1)) = n
    <3>1. IsFiniteSet(0..(n - 1)) /\ Cardinality(0..(n - 1)) = IF 0 > n - 1 THEN 0 ELSE (n - 1) - 0 + 1
      BY <1>1, FS_Interval, 0 \in Int, n - 1 \in Int
    <3>. QED BY <1>1, <3>1
  <2>3. f \in Surjection(S, 0..(n - 1))
    BY <2>1, <2>2, FS_Injection DEF n
  <2>. QED BY <2>3 DEF Surjection
<1>. QED BY <1>2, <1>3, <1>4, <1>5 DEF RanksApart

(* Those taken are as many as there is room for, and the best.             *)
IsBestOf(S, v, T, room) ==
  /\ T \in SUBSET S
  /\ Cardinality(T) = Min({room, Cardinality(S)})
  /\ \A t \in T : \A i \in S \ T : AtMost(v[i], v[t])

Ranking(S, v, ranked) ==
  ranked = [r \in 1..Cardinality(S) |-> CHOOSE k \in S : Cardinality(Earlier(S, v, k)) = r - 1]

LEMMA TakenBest ==
  ASSUME NEW S, IsFiniteSet(S), S \subseteq Nat, NEW v, \A i \in S : v[i] \in Fraction, NEW room \in Nat,
         NEW ranked, Ranking(S, v, ranked)
  PROVE  IsBestOf(S, v, ToSet(SubSeq(ranked, 1, Min({room, Len(ranked)}))), room)
<1>. DEFINE n == Cardinality(S)
            Rank(k) == Cardinality(Earlier(S, v, k))
<1>1. n \in Nat
  BY FS_CardinalityType
<1>2. /\ \A k \in S : Rank(k) \in 0..(n - 1)
      /\ \A i, k \in S : Precedes(v, i, k) => Rank(i) < Rank(k)
      /\ \A i, k \in S : Rank(i) = Rank(k) => i = k
      /\ \A r \in 0..(n - 1) : \E k \in S : Rank(k) = r
  <2>1. RanksApart(S, v)
    BY RankRight
  <2>. QED BY <2>1, Zenon DEF RanksApart
<1>. HIDE DEF Rank
<1>3. /\ DOMAIN ranked = 1..n /\ ranked = [r \in 1..n |-> ranked[r]]
      /\ \A r \in 1..n : ranked[r] = CHOOSE k \in S : Rank(k) = r - 1
  <2>1. ranked = [r \in 1..n |-> CHOOSE k \in S : Rank(k) = r - 1]
    BY Zenon DEF Ranking, Rank
  <2>. HIDE DEF n
  <2>. QED BY <2>1
<1>. HIDE DEF n
<1>4. ASSUME NEW r \in 1..n PROVE ranked[r] \in S /\ Rank(ranked[r]) = r - 1
  <2>1. r - 1 \in 0..(n - 1)
    BY <1>1
  <2>2. \E k \in S : Rank(k) = r - 1
    BY <1>2, <2>1
  <2>. QED BY <1>3, <2>2
<1>5. ranked \in Seq(S) /\ Len(ranked) = n /\ DOMAIN ranked = 1..n
  <2>1. ranked \in [1..n -> S]
    BY <1>3, <1>4
  <2>. QED BY <1>1, <2>1
<1>. DEFINE m == Min({room, n})
            T == ToSet(SubSeq(ranked, 1, m))
<1>6. m = (IF room <= n THEN room ELSE n) /\ m \in 0..n
  BY <1>1, LesserOf
<1>. HIDE DEF m
<1>7. T = {ranked[r] : r \in 1..m}
  <2>1. SubSeq(ranked, 1, m) = [r \in 1..m |-> ranked[r]]
    BY <1>5, <1>6
  <2>. QED BY <2>1 DEF ToSet
<1>8. \A r \in 1..m : r \in 1..n
  BY <1>1, <1>6
<1>. HIDE DEF T
<1>9. T \subseteq S /\ \A k \in S : k \in T <=> Rank(k) < m
  <2>1. ASSUME NEW r \in 1..m PROVE ranked[r] \in S /\ Rank(ranked[r]) < m
    <3>1. r \in 1..n /\ m \in Nat
      BY <1>6, <1>8
    <3>2. ranked[r] \in S /\ Rank(ranked[r]) = r - 1
      BY <1>4, <3>1
    <3>. QED BY <3>1, <3>2
  <2>2. ASSUME NEW k \in S, Rank(k) < m PROVE k \in T
    <3>1. Rank(k) + 1 \in 1..m /\ Rank(k) + 1 \in 1..n
      BY <1>1, <1>2, <1>6, <2>2
    <3>2. ranked[Rank(k) + 1] \in S /\ Rank(ranked[Rank(k) + 1]) = (Rank(k) + 1) - 1
      BY <1>4, <3>1
    <3>3. Rank(ranked[Rank(k) + 1]) = Rank(k)
      BY <1>1, <1>2, <3>2
    <3>4. ranked[Rank(k) + 1] = k
      BY <1>2, <3>2, <3>3
    <3>. QED BY <1>7, <3>1, <3>4
  <2>. QED BY <1>7, <2>1, <2>2
<1>10. Cardinality(T) = m
  <2>. DEFINE f == [r \in 1..m |-> ranked[r]]
  <2>1. \A r, q \in 1..m : ranked[r] = ranked[q] => r = q
    <3>. SUFFICES ASSUME NEW r \in 1..m, NEW q \in 1..m, ranked[r] = ranked[q] PROVE r = q
      OBVIOUS
    <3>1. Rank(ranked[r]) = r - 1 /\ Rank(ranked[q]) = q - 1
      BY <1>4, <1>8
    <3>2. r - 1 = q - 1 /\ r \in Int /\ q \in Int
      BY <3>1
    <3>. QED BY <3>2
  <2>2. f \in Bijection(1..m, T)
    BY <1>7, <2>1 DEF Bijection, Injection, Surjection, IsInjective
  <2>3. IsFiniteSet(1..m) /\ Cardinality(1..m) = IF 1 > m THEN 0 ELSE m - 1 + 1
    BY <1>1, <1>6, FS_Interval, 1 \in Int, m \in Int
  <2>4. Cardinality(T) = Cardinality(1..m)
    BY <2>2, <2>3, FS_Bijection DEF ExistsBijection
  <2>. QED BY <1>1, <1>6, <2>3, <2>4
<1>11. ASSUME NEW t \in T, NEW i \in S \ T PROVE AtMost(v[i], v[t])
  <2>1. t \in S /\ Rank(t) < m /\ ~(Rank(i) < m) /\ Rank(t) \in Int /\ Rank(i) \in Int /\ t # i
    BY <1>1, <1>2, <1>9, <1>11
  <2>2. ~Precedes(v, i, t)
    BY <1>2, <1>6, <2>1
  <2>3. Precedes(v, t, i)
    BY <2>1, <2>2, PrecedesOrder
  <2>. QED BY <2>1, <2>3, PrecedesOrder
<1>. QED BY <1>5, <1>9, <1>10, <1>11 DEF IsBestOf, T, m, n

LEMMA OffersTaken ==
  ASSUME NEW jobs, DOMAIN jobs \subseteq Nat, IsFiniteSet(DOMAIN jobs),
         \A i \in DOMAIN jobs : IsFiniteSet(jobs[i].requires) /\ jobs[i].budget \in Nat /\ jobs[i].deadline \in Int,
         NEW config, NEW inFlight \in Int, config.maxConcurrent \in Nat
  PROVE  LET accepted == {i \in DOMAIN jobs : SkipReason(jobs[i], config) = ""}
         IN  IsBestOf(accepted, [i \in accepted |-> Attraction(jobs[i], config)],
                      Taken(jobs, config, inFlight), Max({0, config.maxConcurrent - inFlight}))
<1>. DEFINE room == Max({0, config.maxConcurrent - inFlight})
            accepted == {i \in DOMAIN jobs : SkipReason(jobs[i], config) = ""}
            v == [i \in accepted |-> Attraction(jobs[i], config)]
            ranked == [r \in 1..Cardinality(accepted) |->
                         CHOOSE k \in accepted : Cardinality(Earlier(accepted, v, k)) = r - 1]
<1>1. Taken(jobs, config, inFlight) = ToSet(SubSeq(ranked, 1, Min({room, Len(ranked)})))
  BY Zenon DEF Taken, Ranked, Earlier, Precedes
<1>2. room \in Nat
  <2>1. config.maxConcurrent - inFlight \in Int /\ 0 \in Int
    OBVIOUS
  <2>. QED BY <2>1, GreaterOf
<1>3. IsFiniteSet(accepted) /\ accepted \subseteq Nat
  BY FS_Subset
<1>4. \A i \in accepted : v[i] \in Fraction
  BY AttractionShare, ShareParts
<1>. HIDE DEF room, accepted, v
<1>5. Ranking(accepted, v, ranked)
  BY DEF Ranking
<1>. HIDE DEF ranked
<1>6. IsBestOf(accepted, v, ToSet(SubSeq(ranked, 1, Min({room, Len(ranked)}))), room)
  BY <1>2, <1>3, <1>4, <1>5, TakenBest
<1>7. IsBestOf(accepted, v, Taken(jobs, config, inFlight), room)
  BY <1>1, <1>6
<1>. QED BY <1>7 DEF room, accepted, v

LEMMA BestAreTaken ==
  ASSUME NEW S, IsFiniteSet(S), NEW v, \A i \in S : v[i] \in Share, NEW T, NEW room \in Nat,
         IsBestOf(S, v, T, room), NEW U \in SUBSET S, Cardinality(U) <= room
  PROVE  /\ Cardinality(U) <= Cardinality(T)
         /\ AtMost(Total([i \in DOMAIN Listed(U) |-> v[Listed(U)[i]]]),
                   Total([i \in DOMAIN Listed(T) |-> v[Listed(T)[i]]]))
<1>. DEFINE worth(X) == Total([i \in DOMAIN Listed(X) |-> v[Listed(X)[i]]])
            Sum(n, X) == SumFunctionOnSet(n, X)
<1>1. /\ T \in SUBSET S /\ Cardinality(T) = Min({room, Cardinality(S)})
      /\ \A t \in T : \A i \in S \ T : AtMost(v[i], v[t])
  BY DEF IsBestOf
<1>2. IsFiniteSet(U) /\ IsFiniteSet(T) /\ Cardinality(S) \in Nat /\ Cardinality(U) \in Nat
      /\ Cardinality(U) <= Cardinality(S)
  BY <1>1, FS_Subset, FS_CardinalityType
<1>3. Cardinality(U) <= Cardinality(T)
  BY <1>1, <1>2, LesserOf
<1>4. PICK d \in Nat \ {0}, n \in [S -> Nat] : \A i \in S : Worth(v[i], n[i], d)
  BY CommonDenominator
<1>5. \A t \in T : \A i \in S \ T : n[i] <= n[t]
  <2>. SUFFICES ASSUME NEW t \in T, NEW i \in S \ T PROVE n[i] <= n[t]
    OBVIOUS
  <2>1. /\ v[i] \in Share /\ v[t] \in Share /\ n[i] \in Int /\ n[t] \in Int /\ AtMost(v[i], v[t])
        /\ Worth(v[i], n[i], d) /\ Worth(v[t], n[t], d)
    BY <1>1, <1>4
  <2>. QED BY <2>1, AtMostWorth
<1>6. Sum(n, U) <= Sum(n, T)
  BY <1>1, <1>3, <1>5, BestTogether
<1>7. ASSUME NEW X \in SUBSET S, IsFiniteSet(X)
      PROVE  worth(X) \in Share /\ Worth(worth(X), Sum(n, X), d) /\ Sum(n, X) \in Nat
  <2>1. \A i \in X : v[i] \in Share /\ n[i] \in Nat /\ Worth(v[i], n[i], d)
    BY <1>4
  <2>. QED BY <1>7, <2>1, WorthOfSet, SumNat
<1>. HIDE DEF worth, Sum
<1>8. AtMost(worth(U), worth(T))
  <2>1. /\ worth(U) \in Share /\ Worth(worth(U), Sum(n, U), d) /\ Sum(n, U) \in Int
        /\ worth(T) \in Share /\ Worth(worth(T), Sum(n, T), d) /\ Sum(n, T) \in Int
    BY <1>1, <1>2, <1>7
  <2>. QED BY <1>6, <2>1, AtMostWorth
<1>. QED BY <1>3, <1>8 DEF worth

\* What the jobs were taken from is still the input.
OffersInput ==
  input.of = "offers" =>
    /\ input.policy \in Policies /\ input.inFlight \in 0..1
    /\ input.whole => input.jobs \in [1..3 -> Offers]

OffersOutcome ==
  outcome.stage = "taken" =>
    /\ input.of = "offers" /\ input.whole
    /\ outcome.taken = Taken(input.jobs, input.policy, input.inFlight)

OffersInv == OffersInput /\ OffersOutcome

LEMMA OffersInvInit == Init => OffersInv
BY DEF Init, OffersInv, OffersInput, OffersOutcome, Nothing, NotRun

LEMMA OffersInvNext == OffersInv /\ [Next]_vars => OffersInv'
<1>. SUFFICES ASSUME OffersInv, [Next]_vars PROVE OffersInv'
  OBVIOUS
<1>. USE DEF OffersInv
<1>1. CASE Choose /\ UNCHANGED outcome
  <2>1. ASSUME input = Nothing \/ ~input.whole PROVE OffersOutcome'
    BY <1>1, <2>1 DEF OffersOutcome, Nothing
  <2>2. CASE input = Nothing /\ (ChooseSplit \/ ChooseFirst \/ ChooseLength \/ ChoosePosting)
    BY <2>1, <2>2 DEF OffersInput, ChooseSplit, ChooseFirst, ChooseLength, ChoosePosting
  <2>3. CASE input = Nothing /\ ChoosePolicy
    BY <2>1, <2>3 DEF OffersInput, ChoosePolicy
  <2>4. CASE ChooseWeights \/ ChooseOthers \/ ChooseHistory \/ ChooseCandidates
    <3>1. ASSUME ChooseOthers PROVE input'.of = "merge" /\ ~input.whole
      BY <3>1 DEF ChooseOthers
    <3>2. ASSUME ChooseHistory PROVE input'.of = "history" /\ ~input.whole
      BY <3>2 DEF ChooseHistory
    <3>3. ASSUME ChooseCandidates PROVE input'.of = "select" /\ ~input.whole
      BY <3>3 DEF ChooseCandidates
    <3>4. ASSUME ChooseWeights PROVE input'.of = "split" /\ ~input.whole
      BY <3>4 DEF ChooseWeights
    <3>5. ~input.whole /\ input'.of # "offers"
      BY <2>4, <3>1, <3>2, <3>3, <3>4
    <3>. QED BY <2>1, <3>5 DEF OffersInput
  <2>5. CASE ChooseOffers
    <3>1. PICK a, b, c \in Offers :
            input' = [of |-> "offers", policy |-> input.policy, inFlight |-> input.inFlight, whole |-> TRUE,
                      jobs |-> <<a, b, c>>]
      BY <2>5 DEF ChooseOffers
    <3>2. <<a, b, c>> \in [1..3 -> Offers]
      OBVIOUS
    <3>3. input.of = "offers" /\ ~input.whole
      BY <2>5 DEF ChooseOffers
    <3>. QED BY <2>1, <3>1, <3>2, <3>3 DEF OffersInput
  <2>. QED BY <1>1, <2>2, <2>3, <2>4, <2>5 DEF Choose
<1>2. CASE TakeJobs
  BY <1>2 DEF TakeJobs, Chosen, Outcome, OffersInput, OffersOutcome
<1>3. CASE PayRewards \/ RunEvaluation \/ RunConsensus \/ RunExplanation \/ RecomputeReputation \/ SelectAgents
  <2>1. input' = input /\ outcome'.stage # "taken"
    BY <1>3 DEF PayRewards, RunEvaluation, RunConsensus, RunExplanation, RecomputeReputation, SelectAgents, Outcome
  <2>. QED BY <2>1 DEF OffersInput, OffersOutcome
<1>4. CASE UNCHANGED vars
  BY <1>4 DEF vars, OffersInput, OffersOutcome
<1>. QED BY <1>1, <1>2, <1>3, <1>4 DEF Next

LEMMA TakenAreBest == OffersInv => TakesTheBest
<1>. SUFFICES ASSUME OffersInv, outcome.stage = "taken" PROVE TakesTheBest
  BY DEF TakesTheBest
<1>. DEFINE jobs == input.jobs
            config == input.policy
            accepted == {i \in DOMAIN jobs : SkipReason(jobs[i], config) = ""}
            v == [i \in accepted |-> Attraction(jobs[i], config)]
            room == Max({0, config.maxConcurrent - input.inFlight})
            worth(X) == LET s == Listed(X)
                        IN  Total([i \in DOMAIN s |-> Attraction(jobs[s[i]], config)])
            taken == outcome.taken
<1>1. /\ config \in Policies /\ input.inFlight \in 0..1 /\ jobs \in [1..3 -> Offers]
      /\ taken = Taken(jobs, config, input.inFlight)
  BY DEF OffersInv, OffersInput, OffersOutcome
<1>2. config.maxConcurrent \in Nat
  BY <1>1, InputsAssumption
<1>3. DOMAIN jobs = 1..3 /\ IsFiniteSet(DOMAIN jobs) /\ DOMAIN jobs \subseteq Nat
  <2>1. DOMAIN jobs = 1..3
    BY <1>1
  <2>2. IsFiniteSet(1..3)
    BY FS_Interval, 1 \in Int, 3 \in Int
  <2>. QED BY <2>1, <2>2
<1>4. \A i \in DOMAIN jobs : IsFiniteSet(jobs[i].requires) /\ jobs[i].budget \in Nat /\ jobs[i].deadline \in Int
  BY <1>1, InputsAssumption
<1>. HIDE DEF jobs, config
<1>5. IsBestOf(accepted, v, taken, room)
  <2>1. input.inFlight \in Int
    BY <1>1
  <2>2. IsBestOf(accepted, v, Taken(jobs, config, input.inFlight), room)
    BY <1>2, <1>3, <1>4, <2>1, OffersTaken
  <2>. QED BY <1>1, <2>2
<1>6. IsFiniteSet(accepted) /\ \A i \in accepted : v[i] \in Share
  BY <1>3, <1>4, FS_Subset, AttractionShare
<1>7. room \in Nat
  <2>1. config.maxConcurrent - input.inFlight \in Int /\ 0 \in Int
    BY <1>1, <1>2
  <2>. QED BY <2>1, GreaterOf
<1>8. ASSUME NEW X \in SUBSET accepted
      PROVE  worth(X) = Total([i \in DOMAIN Listed(X) |-> v[Listed(X)[i]]])
  <2>1. IsFiniteSet(X)
    BY <1>6, FS_Subset
  <2>2. \A i \in DOMAIN Listed(X) : Listed(X)[i] \in X
    <3>1. Listed(X) \in Seq(X)
      BY <2>1, ListedOnce DEF Enumerates
    <3>. QED BY <3>1, LenProperties, ElementOfSeq
  <2>3. \A i \in DOMAIN Listed(X) : v[Listed(X)[i]] = Attraction(jobs[Listed(X)[i]], config)
    BY <2>2
  <2>. HIDE DEF accepted, v
  <2>4. [i \in DOMAIN Listed(X) |-> v[Listed(X)[i]]] =
        [i \in DOMAIN Listed(X) |-> Attraction(jobs[Listed(X)[i]], config)]
    BY <2>3
  <2>. QED BY <2>4
<1>. HIDE DEF accepted, v, room, worth, taken
<1>9. taken \in SUBSET accepted
  BY <1>5 DEF IsBestOf
<1>10. ASSUME NEW X \in SUBSET accepted, Cardinality(X) <= room
       PROVE  AtMost(worth(X), worth(taken)) /\ Cardinality(X) <= Cardinality(taken)
  <2>1. /\ Cardinality(X) <= Cardinality(taken)
        /\ AtMost(Total([i \in DOMAIN Listed(X) |-> v[Listed(X)[i]]]),
                  Total([i \in DOMAIN Listed(taken) |-> v[Listed(taken)[i]]]))
    BY <1>5, <1>6, <1>7, <1>10, BestAreTaken
  <2>2. /\ worth(X) = Total([i \in DOMAIN Listed(X) |-> v[Listed(X)[i]]])
        /\ worth(taken) = Total([i \in DOMAIN Listed(taken) |-> v[Listed(taken)[i]]])
    BY <1>8, <1>9
  <2>. QED BY <2>1, <2>2
<1>. QED BY <1>10, Zenon DEF TakesTheBest, accepted, room, worth, taken, jobs, config

\* The jobs an operator takes are worth as much together as any it could take
\* within its room, and it passes none over while it has room: the stable sort by
\* attraction and the cut of StrategyEngine are the best choice, whatever the jobs.
THEOREM TheBestAreTaken == Spec => []TakesTheBest
<1>1. Spec => []OffersInv
  BY OffersInvInit, OffersInvNext, PTL DEF Spec
<1>. QED BY <1>1, TakenAreBest, PTL

(***************************************************************************)
(* The rows a job's rewards are split into.                                *)
(***************************************************************************)
\* toFixed(6) is off by half a unit at most.
LEMMA RoundedNear ==
    ASSUME NEW n \in Nat, NEW d \in Nat, d > 0
    PROVE  /\ Rounded(n, d) \in Nat
           /\ (2 * d) * Rounded(n, d) <= 2 * n + d
           /\ (2 * d) * Rounded(n, d) >= 2 * n - d
<1> DEFINE m == 2 * n + d   e == 2 * d   q == m \div e
<1>1. m \in Nat /\ e \in Nat /\ e > 0
  OBVIOUS
<1>2. Rounded(n, d) = q
  BY DEF Rounded
<1>3. q \in Nat /\ e * q <= m /\ m < e * q + e
  <2> HIDE DEF m, e
  <2> QED BY <1>1, Divided
<1>4. e * q \in Int
  <2> HIDE DEF q
  <2> QED BY <1>3
<1> HIDE DEF q
<1>5. (2 * d) * q <= 2 * n + d /\ (2 * d) * q >= 2 * n - d
  <2> DEFINE z == (2 * d) * q
  <2>1. z \in Int /\ z <= 2 * n + d /\ 2 * n + d < z + 2 * d
    BY <1>3, <1>4
  <2> HIDE DEF z
  <2>2. z <= 2 * n + d /\ z >= 2 * n - d
    BY <2>1
  <2> QED BY <2>2 DEF z
<1> QED BY <1>2, <1>3, <1>5

\* The four shares and their total.
LEMMA SharesTyped ==
    ASSUME NEW env \in [Roles -> Int]
    PROVE  /\ Shares(env) \in [Roles -> 0..100]
           /\ ShareTotal(env) = Shares(env)["AGENT"] + Shares(env)["VALIDATOR"]
                                + Shares(env)["PROTOCOL"] + Shares(env)["TREASURY"]
           /\ ShareTotal(env) \in Nat
<1> DEFINE f == Shares(env)
<1>1. f \in [Roles -> 0..100]
  BY DEF Shares, Roles, DefaultShares
<1>2. IsFiniteSet({}) /\ IsFiniteSet({"AGENT"}) /\ IsFiniteSet({"AGENT", "VALIDATOR"})
      /\ IsFiniteSet({"AGENT", "VALIDATOR", "PROTOCOL"})
  <2>1. IsFiniteSet({}) /\ IsFiniteSet(Roles)
    <3>1. \A S, x : IsFiniteSet(S) => IsFiniteSet(S \cup {x})
      BY FS_AddElement
    <3>2. IsFiniteSet({})
      BY FS_EmptySet
    <3>3. IsFiniteSet((({} \cup {"AGENT"}) \cup {"VALIDATOR"}) \cup {"PROTOCOL"} \cup {"TREASURY"})
      BY <3>1, <3>2
    <3>4. (({} \cup {"AGENT"}) \cup {"VALIDATOR"}) \cup {"PROTOCOL"} \cup {"TREASURY"} = Roles
      BY DEF Roles
    <3> QED BY <3>2, <3>3, <3>4
  <2>2. /\ {"AGENT"} \in SUBSET Roles /\ {"AGENT", "VALIDATOR"} \in SUBSET Roles
        /\ {"AGENT", "VALIDATOR", "PROTOCOL"} \in SUBSET Roles
    BY DEF Roles
  <2> QED BY <2>1, <2>2, FS_Subset
<1> HIDE DEF f
<1>3. SumFunctionOnSet(f, {}) = 0
  BY <1>2, SumUnfold
<1>4. SumFunctionOnSet(f, {} \cup {"AGENT"}) = f["AGENT"] + SumFunctionOnSet(f, {})
  BY <1>1, <1>2, SumAdd DEF Roles
<1>5. SumFunctionOnSet(f, {"AGENT"} \cup {"VALIDATOR"}) = f["VALIDATOR"] + SumFunctionOnSet(f, {"AGENT"})
  BY <1>1, <1>2, SumAdd DEF Roles
<1>6. SumFunctionOnSet(f, {"AGENT", "VALIDATOR"} \cup {"PROTOCOL"})
        = f["PROTOCOL"] + SumFunctionOnSet(f, {"AGENT", "VALIDATOR"})
  BY <1>1, <1>2, SumAdd DEF Roles
<1>7. SumFunctionOnSet(f, {"AGENT", "VALIDATOR", "PROTOCOL"} \cup {"TREASURY"})
        = f["TREASURY"] + SumFunctionOnSet(f, {"AGENT", "VALIDATOR", "PROTOCOL"})
  BY <1>1, <1>2, SumAdd DEF Roles
<1>8. /\ {} \cup {"AGENT"} = {"AGENT"}
      /\ {"AGENT"} \cup {"VALIDATOR"} = {"AGENT", "VALIDATOR"}
      /\ {"AGENT", "VALIDATOR"} \cup {"PROTOCOL"} = {"AGENT", "VALIDATOR", "PROTOCOL"}
      /\ {"AGENT", "VALIDATOR", "PROTOCOL"} \cup {"TREASURY"} = Roles
  BY DEF Roles
<1>9. /\ f["AGENT"] \in Nat /\ f["VALIDATOR"] \in Nat
      /\ f["PROTOCOL"] \in Nat /\ f["TREASURY"] \in Nat
  BY <1>1, SMT DEF Roles
<1>10. SumFunctionOnSet(f, Roles) = f["AGENT"] + f["VALIDATOR"] + f["PROTOCOL"] + f["TREASURY"]
  <2> DEFINE A == f["AGENT"]  V == f["VALIDATOR"]  P == f["PROTOCOL"]  T == f["TREASURY"]
             Sum(U) == SumFunctionOnSet(f, U)
  <2>1. /\ Sum({}) = 0
        /\ Sum({"AGENT"}) = A + Sum({})
        /\ Sum({"AGENT", "VALIDATOR"}) = V + Sum({"AGENT"})
        /\ Sum({"AGENT", "VALIDATOR", "PROTOCOL"}) = P + Sum({"AGENT", "VALIDATOR"})
        /\ Sum(Roles) = T + Sum({"AGENT", "VALIDATOR", "PROTOCOL"})
    BY <1>3, <1>4, <1>5, <1>6, <1>7, <1>8, Zenon
  <2>2. A \in Nat /\ V \in Nat /\ P \in Nat /\ T \in Nat
    BY <1>9
  <2> HIDE DEF A, V, P, T, Sum
  <2>3. Sum(Roles) = A + V + P + T
    BY <2>1, <2>2
  <2> QED BY <2>3 DEF A, V, P, T, Sum
<1> QED BY <1>1, <1>9, <1>10 DEF f, ShareTotal

\* The row of a role is its share of the budget, to half a unit.
LEMMA RoleRowNear ==
    ASSUME NEW budget \in Nat, NEW env \in [Roles -> Int], NEW role \in Roles, ShareTotal(env) > 0
    PROVE  /\ RoleRow(budget, env, role) \in Nat
           /\ (2 * ShareTotal(env)) * RoleRow(budget, env, role)
                <= 2 * (budget * Shares(env)[role]) + ShareTotal(env)
           /\ (2 * ShareTotal(env)) * RoleRow(budget, env, role)
                >= 2 * (budget * Shares(env)[role]) - ShareTotal(env)
<1>1. ShareTotal(env) \in Nat /\ Shares(env)[role] \in Nat
  BY SharesTyped
<1>2. budget * Shares(env)[role] \in Nat
  BY <1>1, TimesNat
<1> QED BY <1>1, <1>2, RoundedNear DEF RoleRow

\* What the contributors are paid together is the agents' share of the budget,
\* to half a unit for each of them.
LEMMA PoolNear ==
    ASSUME NEW budget \in Nat, NEW env \in [Roles -> Int], ShareTotal(env) > 0,
           NEW C, IsFiniteSet(C), NEW weights \in [C -> Nat],
           NEW pay, \A a \in C : pay[a] = AgentRow(budget, env, weights, a)
    PROVE  /\ SumFunctionOnSet(pay, C) \in Nat
           /\ \A a \in C : pay[a] \in Nat
           /\ (2 * ShareTotal(env)) * SumFunctionOnSet(pay, C)
                <= 2 * (budget * Shares(env)["AGENT"]) + ShareTotal(env) * Cardinality(C)
           /\ (\E a \in C : weights[a] > 0) =>
              (2 * ShareTotal(env)) * SumFunctionOnSet(pay, C)
                >= 2 * (budget * Shares(env)["AGENT"]) - ShareTotal(env) * Cardinality(C)
<1> DEFINE T == ShareTotal(env)  s == Shares(env)["AGENT"]  W == SumFunctionOnSet(weights, C)
           P == SumFunctionOnSet(pay, C)  B == budget * s  n == Cardinality(C)
<1>1. T \in Nat /\ s \in Nat /\ T > 0
  BY SharesTyped DEF Roles
<1>2. W \in Nat /\ n \in Nat /\ B \in Nat
  <2>1. W \in Nat /\ n \in Nat
    BY SumNat, FS_CardinalityType
  <2>2. B \in Nat
    <3> HIDE DEF s
    <3> QED BY <1>1, TimesNat
  <2> QED BY <2>1, <2>2
<1>3. \A a \in C : pay[a] = Rounded(B * weights[a], T * W)
  BY DEF AgentRow, SumFunction
<1>4. (\E a \in C : weights[a] > 0) => W > 0
  <2> SUFFICES ASSUME NEW a \in C, weights[a] > 0 PROVE W > 0
    OBVIOUS
  <2>1. W = weights[a] + SumFunctionOnSet(weights, C \ {a})
    BY SumRemove
  <2>2. IsFiniteSet(C \ {a})
    BY FS_RemoveElement
  <2>3. SumFunctionOnSet(weights, C \ {a}) \in Nat
    BY <2>2, SumNat
  <2> QED BY <2>1, <2>3
<1> HIDE DEF T, s, W, P, B, n
<1>5. CASE W = 0
  <2>1. T * W = 0
    BY <1>1, <1>5
  <2>2. \A a \in C : pay[a] = 0
    BY <1>3, <2>1 DEF Rounded
  <2>3. P \in Nat
    BY <2>2, SumNat DEF P
  <2>4. 1 * SumFunctionOnSet(pay, C) <= 0 * SumFunctionOnSet(weights, C) + 0 * Cardinality(C)
    <3>1. \A a \in C : pay[a] \in Int /\ weights[a] \in Int /\ 1 * pay[a] <= 0 * weights[a] + 0
      BY <2>2
    <3>2. 1 \in Int /\ 0 \in Int
      OBVIOUS
    <3> QED BY <3>1, <3>2, SumBound
  <2>5. P = 0
    BY <1>2, <2>3, <2>4 DEF P, W, n
  <2>6. T * n \in Nat /\ (2 * T) * 0 = 0
    BY <1>1, <1>2, TimesNat
  <2>7. (2 * T) * P <= 2 * B + T * n
    BY <1>2, <2>5, <2>6
  <2> QED BY <1>4, <1>5, <2>2, <2>3, <2>7 DEF T, s, P, B, n
<1>6. CASE W # 0
  <2> DEFINE d == T * W
  <2>1. d \in Nat /\ d > 0
    BY <1>1, <1>2, <1>6, TimesNat
  <2> HIDE DEF d
  <2>2. ASSUME NEW a \in C
        PROVE  /\ pay[a] \in Nat
               /\ (2 * d) * pay[a] <= (2 * B) * weights[a] + d
               /\ (-(2 * d)) * pay[a] <= (-(2 * B)) * weights[a] + d
    <3>1. B * weights[a] \in Nat
      BY <1>2, TimesNat
    <3> DEFINE m == B * weights[a]
    <3>2. pay[a] = Rounded(m, d)
      BY <1>3 DEF d
    <3> HIDE DEF m
    <3>3. pay[a] \in Nat /\ (2 * d) * pay[a] <= 2 * m + d /\ (2 * d) * pay[a] >= 2 * m - d
      BY <2>1, <3>1, <3>2, RoundedNear DEF m
    <3>4. 2 * m = (2 * B) * weights[a] /\ -(2 * m) = (-(2 * B)) * weights[a]
      BY <1>2 DEF m
    <3>5. (-(2 * d)) * pay[a] = -((2 * d) * pay[a]) /\ (2 * d) * pay[a] \in Int
      BY <2>1, <3>3
    <3>6. -((2 * d) * pay[a]) <= -(2 * m) + d
      <4> DEFINE z == (2 * d) * pay[a]
      <4>1. z \in Int /\ z >= 2 * m - d /\ m \in Nat
        BY <3>1, <3>3, <3>5 DEF m
      <4> HIDE DEF z
      <4>2. -z <= -(2 * m) + d
        BY <2>1, <4>1
      <4> QED BY <4>2 DEF z
    <3> QED BY <3>3, <3>4, <3>5, <3>6
  <2>3. P \in Nat
    BY <2>2, SumNat DEF P
  <2>4. (2 * d) * P <= (2 * B) * W + d * n
    <3>1. 2 * d \in Int /\ 2 * B \in Int /\ d \in Int
      BY <1>2, <2>1
    <3>2. \A a \in C : pay[a] \in Int /\ weights[a] \in Int /\ (2 * d) * pay[a] <= (2 * B) * weights[a] + d
      BY <2>2
    <3> QED BY <3>1, <3>2, SumBound DEF P, W, n
  <2>5. (-(2 * d)) * P <= (-(2 * B)) * W + d * n
    <3>1. -(2 * d) \in Int /\ -(2 * B) \in Int /\ d \in Int
      BY <1>2, <2>1
    <3>2. \A a \in C : pay[a] \in Int /\ weights[a] \in Int /\ (-(2 * d)) * pay[a] <= (-(2 * B)) * weights[a] + d
      BY <2>2
    <3> QED BY <3>1, <3>2, SumBound DEF P, W, n
  <2>6. (2 * d) * P = W * ((2 * T) * P) /\ d * n = W * (T * n) /\ (2 * B) * W = W * (2 * B)
    BY <1>1, <1>2, <2>3 DEF d
  <2>7. (2 * T) * P \in Int /\ T * n \in Int
    BY <1>1, <1>2, <2>3
  <2>8. (2 * T) * P <= 2 * B + T * n
    <3> DEFINE x == (2 * T) * P  y == 2 * B + T * n
    <3>1. x \in Int /\ y \in Int
      BY <1>2, <2>7
    <3>2. W * y = W * (2 * B) + W * (T * n)
      BY <1>2, <2>7, Distributes
    <3>3. W * x <= W * y
      BY <2>4, <2>6, <3>2
    <3> HIDE DEF x, y
    <3>4. x <= y
      BY <1>2, <1>6, <3>1, <3>3, TimesMonotone
    <3> QED BY <3>4 DEF x, y
  <2>9. (2 * T) * P >= 2 * B - T * n
    <3> DEFINE x == 2 * B - T * n  y == (2 * T) * P
    <3>1. x \in Int /\ y \in Int
      BY <1>2, <2>7
    <3>2. W * x = W * (2 * B) - W * (T * n)
      BY <1>2, <2>7, Distributes
    <3>3. (-(2 * d)) * P = -(W * y) /\ (-(2 * B)) * W = -(W * (2 * B))
      <4>1. (-(2 * d)) * P = -((2 * d) * P)
        BY <2>1, <2>3
      <4>2. (-(2 * B)) * W = -(W * (2 * B))
        BY <1>2
      <4> QED BY <2>6, <4>1, <4>2
    <3>4. W * x <= W * y
      <4> DEFINE u == W * (2 * B)  v == W * (T * n)  z == W * y
      <4>1. u \in Int /\ v \in Int /\ z \in Int
        <5> HIDE DEF y
        <5> QED BY <1>2, <2>7, <3>1
      <4>2. -z <= -u + v
        BY <2>5, <2>6, <3>3
      <4>3. W * x = u - v
        BY <3>2
      <4> HIDE DEF u, v, z, x, y
      <4>4. u - v <= z
        BY <4>1, <4>2
      <4> QED BY <4>3, <4>4 DEF z
    <3> HIDE DEF x, y
    <3>5. x <= y
      BY <1>2, <1>6, <3>1, <3>4, TimesMonotone
    <3> QED BY <2>7, <1>2, <3>5 DEF x, y
  <2> QED BY <2>2, <2>3, <2>8, <2>9 DEF T, s, P, B, n
<1> QED BY <1>5, <1>6

\* "A misconfigured split can never pay out more than the budget": whatever the
\* shares are set to and whatever the contributors weigh, the rows of RewardStage
\* sum to the budget but for half a unit of rounding each, and when somebody
\* earned the agents' pool nothing is left over either.
THEOREM SplitKeepsTheBudget ==
    ASSUME NEW budget \in Nat, NEW env \in [Roles -> Int], ShareTotal(env) > 0,
           NEW C, IsFiniteSet(C), C \cap Roles = {}, NEW weights \in [C -> Nat]
    PROVE  KeepsBudget(RewardRows(budget, env, weights), budget, \E a \in C : weights[a] > 0)
<1> DEFINE row(i, m) == [id |-> i, job |-> "j", amount |-> m,
                               status |-> "PENDING", payee |-> TRUE]
           role(r) == row(r, RoleRow(budget, env, r))
           pay == [a \in C |-> AgentRow(budget, env, weights, a)]
           h == [a \in C |-> row(a, pay[a])]
           agents == {h[a] : a \in C}
           shares == RewardRows(budget, env, weights)
           amount == [r \in shares |-> r.amount]
           T == ShareTotal(env)
           P == SumFunctionOnSet(pay, C)
           n == Cardinality(C)
           earned == \E a \in C : weights[a] > 0
<1>1. shares = ((agents \cup {role("VALIDATOR")}) \cup {role("PROTOCOL")}) \cup {role("TREASURY")}
  BY DEF RewardRows, Roles
<1>2. \A r \in Roles : RoleRow(budget, env, r) \in Nat
  BY RoleRowNear
<1>3. P \in Nat /\ \A a \in C : pay[a] \in Nat
  BY PoolNear
<1>4. /\ \A x, y \in C : h[x] = h[y] => x = y
      /\ \A x \in C : pay[x] \in Int /\ amount[h[x]] = pay[x]
  <2>1. \A x \in C : h[x] = row(x, pay[x]) /\ h[x] \in shares
    BY <1>1
  <2> QED BY <1>3, <2>1
<1>5. /\ role("VALIDATOR") \notin agents
      /\ role("PROTOCOL") \notin agents \cup {role("VALIDATOR")}
      /\ role("TREASURY") \notin (agents \cup {role("VALIDATOR")}) \cup {role("PROTOCOL")}
  <2>1. \A x \in C : h[x].id = x /\ x \notin Roles
    OBVIOUS
  <2>2. \A r : role(r).id = r
    OBVIOUS
  <2> HIDE DEF h, role
  <2> QED BY <2>1, <2>2 DEF Roles
<1>6. \A r \in {"VALIDATOR", "PROTOCOL", "TREASURY"} : amount[role(r)] = RoleRow(budget, env, r)
  <2>1. \A r \in {"VALIDATOR", "PROTOCOL", "TREASURY"} :
            role(r) \in shares /\ role(r).amount = RoleRow(budget, env, r)
    BY <1>1
  <2> QED BY <2>1
<1>7. /\ SumFunctionOnSet(amount, agents) = P
      /\ IsFiniteSet(agents) /\ Cardinality(agents) = n
  <2>1. \A x \in C : h[x] \in agents
    OBVIOUS
  <2>2. \A z \in agents : \E x \in C : z = h[x]
    OBVIOUS
  <2>3. \A x, y \in C : h[x] = h[y] => x = y
    BY <1>4
  <2>4. \A x \in C : pay[x] \in Int /\ amount[h[x]] = pay[x]
    BY <1>4
  <2> HIDE DEF h, pay, amount, agents, row, role, shares, T, earned
  <2>5. SumFunctionOnSet(amount, agents) = SumFunctionOnSet(pay, C)
    BY <2>1, <2>2, <2>3, <2>4, SumImage
  <2>6. IsFiniteSet(agents) /\ Cardinality(agents) = Cardinality(C)
    <3>1. h \in Bijection(C, agents)
      BY <2>1, <2>2, <2>3 DEF h, Bijection, Injection, Surjection, IsInjective
    <3> QED BY <3>1, FS_Bijection DEF ExistsBijection
  <2> QED BY <2>5, <2>6
<1>8. Paid(shares) = P + RoleRow(budget, env, "VALIDATOR") + RoleRow(budget, env, "PROTOCOL")
                     + RoleRow(budget, env, "TREASURY")
      /\ Cardinality(shares) = n + 3
  <2> DEFINE v == role("VALIDATOR")  p == role("PROTOCOL")  t == role("TREASURY")
             one == agents \cup {v}  two == one \cup {p}
             Sum(S) == SumFunctionOnSet(amount, S)
  <2>1. amount[v] \in Nat /\ amount[p] \in Nat /\ amount[t] \in Nat
        /\ \A x \in agents : amount[x] \in Nat
    BY <1>2, <1>3, <1>4, <1>6 DEF Roles
  <2>2. v \notin agents /\ p \notin one /\ t \notin two /\ shares = two \cup {t}
    BY <1>1, <1>5
  <2>3. /\ amount[v] = RoleRow(budget, env, "VALIDATOR")
        /\ amount[p] = RoleRow(budget, env, "PROTOCOL")
        /\ amount[t] = RoleRow(budget, env, "TREASURY")
    BY <1>6
  <2>4. Paid(shares) = Sum(shares)
    BY Zenon DEF Paid
  <2>5. n \in Nat
    BY FS_CardinalityType
  <2> HIDE DEF agents, role, amount, v, p, t, shares, P, n
  <2>6. IsFiniteSet(one) /\ Cardinality(one) = n + 1 /\ Sum(one) = amount[v] + P
    <3>1. \A x \in agents \cup {v} : amount[x] \in Int
      BY <2>1
    <3> QED BY <1>7, <2>2, <3>1, FS_AddElement, SumAdd
  <2>7. IsFiniteSet(two) /\ Cardinality(two) = (n + 1) + 1 /\ Sum(two) = amount[p] + Sum(one)
    <3>1. \A x \in one \cup {p} : amount[x] \in Int
      BY <2>1
    <3> HIDE DEF one
    <3> QED BY <2>2, <2>6, <3>1, FS_AddElement, SumAdd
  <2>8. Cardinality(shares) = ((n + 1) + 1) + 1 /\ Sum(shares) = amount[t] + Sum(two)
    <3>1. \A x \in two \cup {t} : amount[x] \in Int
      BY <2>1
    <3> HIDE DEF two
    <3> QED BY <2>2, <2>7, <3>1, FS_AddElement, SumAdd
  <2> HIDE DEF Sum, one, two
  <2> QED BY <1>3, <2>1, <2>3, <2>4, <2>5, <2>6, <2>7, <2>8
<1> DEFINE sh(r) == Shares(env)[r]
           v == RoleRow(budget, env, "VALIDATOR")  p == RoleRow(budget, env, "PROTOCOL")
           t == RoleRow(budget, env, "TREASURY")
           Va == budget * sh("VALIDATOR")  Pa == budget * sh("PROTOCOL")
           Ta == budget * sh("TREASURY")  Aa == budget * sh("AGENT")
<1>9. /\ (2 * T) * v <= 2 * Va + T /\ (2 * T) * v >= 2 * Va - T
      /\ (2 * T) * p <= 2 * Pa + T /\ (2 * T) * p >= 2 * Pa - T
      /\ (2 * T) * t <= 2 * Ta + T /\ (2 * T) * t >= 2 * Ta - T
  BY RoleRowNear, Zenon DEF Roles
<1>10. /\ (2 * T) * P <= 2 * Aa + T * n
       /\ earned => (2 * T) * P >= 2 * Aa - T * n
  BY PoolNear
<1>11. T \in Nat /\ T > 0 /\ n \in Nat /\ \A r \in Roles : sh(r) \in Nat
  <2>1. T \in Nat /\ Shares(env) \in [Roles -> 0..100]
    BY SharesTyped
  <2>2. n \in Nat
    BY FS_CardinalityType
  <2> QED BY <2>1, <2>2
<1>12. budget * T = ((Aa + Va) + Pa) + Ta /\ Aa \in Nat /\ Va \in Nat /\ Pa \in Nat /\ Ta \in Nat
  <2> DEFINE a1 == sh("AGENT")  a2 == sh("VALIDATOR")  a3 == sh("PROTOCOL")  a4 == sh("TREASURY")
  <2>1. T = ((a1 + a2) + a3) + a4
    BY SharesTyped
  <2>2. a1 \in Nat /\ a2 \in Nat /\ a3 \in Nat /\ a4 \in Nat
    BY <1>11 DEF Roles
  <2> HIDE DEF T, a1, a2, a3, a4
  <2>3. /\ budget * T = budget * ((a1 + a2) + a3) + budget * a4
        /\ budget * ((a1 + a2) + a3) = budget * (a1 + a2) + budget * a3
        /\ budget * (a1 + a2) = budget * a1 + budget * a2
    BY <2>1, <2>2, Distributes
  <2>4. /\ budget * a1 \in Nat /\ budget * a2 \in Nat
        /\ budget * a3 \in Nat /\ budget * a4 \in Nat
    BY <2>2, TimesNat
  <2> QED BY <2>3, <2>4 DEF a1, a2, a3, a4
<1>13. v \in Nat /\ p \in Nat /\ t \in Nat
  BY <1>2 DEF Roles
<1> HIDE DEF shares, P, n, pay, earned, v, p, t, Va, Pa, Ta, Aa, T, sh
<1> DEFINE all == ((P + v) + p) + t
<1>14. all \in Nat /\ Paid(shares) = all
  BY <1>3, <1>8, <1>13 DEF v, p, t
<1>15. (2 * T) * all = (((2 * T) * P + (2 * T) * v) + (2 * T) * p) + (2 * T) * t
       /\ (2 * T) * P \in Int /\ (2 * T) * v \in Int /\ (2 * T) * p \in Int /\ (2 * T) * t \in Int
  <2>1. 2 * T \in Int /\ P + v \in Int /\ (P + v) + p \in Int
    BY <1>3, <1>11, <1>13
  <2> QED BY <1>3, <1>13, <2>1, Distributes
<1>16. T * (2 * budget + (n + 3)) = 2 * (budget * T) + (T * n + 3 * T)
       /\ T * (2 * budget - (n + 3)) = 2 * (budget * T) - (T * n + 3 * T)
       /\ T * n \in Int
  <2>1. T * (n + 3) = T * n + 3 * T /\ T * (2 * budget) = 2 * (budget * T)
    BY <1>11
  <2> QED BY <1>11, <2>1, Distributes
<1>17. T * (2 * all) = (2 * T) * all
  BY <1>11, <1>14
<1> DEFINE xP == (2 * T) * P  xv == (2 * T) * v  xp == (2 * T) * p  xt == (2 * T) * t
           Tn == T * n
<1>18. 2 * all <= 2 * budget + (n + 3)
  <2>1. ((xP + xv) + xp) + xt <= 2 * (((Aa + Va) + Pa) + Ta) + (Tn + 3 * T)
    <3> HIDE DEF xP, xv, xp, xt, Tn
    <3> QED BY <1>9, <1>10, <1>11, <1>12, <1>15, <1>16 DEF xP, xv, xp, xt, Tn
  <2>2. T * (2 * all) <= T * (2 * budget + (n + 3))
    BY <1>12, <1>15, <1>16, <1>17, <2>1
  <2> HIDE DEF all
  <2> QED BY <1>11, <1>14, <2>2, TimesMonotone
<1>19. ASSUME earned PROVE 2 * all >= 2 * budget - (n + 3)
  <2>1. ((xP + xv) + xp) + xt >= 2 * (((Aa + Va) + Pa) + Ta) - (Tn + 3 * T)
    BY <1>19, <1>9, <1>10, <1>11, <1>12, <1>15, <1>16
  <2>2. T * (2 * all) >= T * (2 * budget - (n + 3))
    BY <1>12, <1>15, <1>16, <1>17, <2>1
  <2> DEFINE low == 2 * budget - (n + 3)
  <2>3. low \in Int /\ 2 * all \in Int /\ T * low <= T * (2 * all)
    <3>1. low \in Int /\ 2 * all \in Int
      BY <1>11, <1>14
    <3>2. T * low \in Int /\ T * (2 * all) \in Int
      <4> HIDE DEF low, all
      <4> QED BY <1>11, <3>1
    <3> QED BY <2>2, <3>1, <3>2
  <2> HIDE DEF all, low
  <2>4. low <= 2 * all
    BY <1>11, <2>3, TimesMonotone
  <2> QED BY <1>11, <1>14, <2>3, <2>4 DEF low
<1>20. Cardinality(shares) = n + 3
  BY <1>8
<1> HIDE DEF all
<1>21. 2 * (Paid(shares) - budget) <= Cardinality(shares)
  BY <1>11, <1>14, <1>18, <1>20
<1>22. earned => 2 * (budget - Paid(shares)) <= Cardinality(shares)
  BY <1>11, <1>14, <1>19, <1>20
<1> QED BY <1>21, <1>22 DEF KeepsBudget, shares, earned

\* What the rows were made from is still the input.
SplitInput ==
  input.of = "split" =>
    /\ input.budget \in SplitBudgets
    /\ input.whole => /\ input.agents \in ShareSettings /\ input.protocol \in ShareSettings
                      /\ input.weights \in [Contributors -> WeightValues]

SplitOutcome ==
  outcome.stage = "rewarded" =>
    /\ input.of = "split" /\ input.whole
    /\ outcome.rows = RewardRows(input.budget, Environment, input.weights)

SplitInv == SplitInput /\ SplitOutcome

LEMMA SplitInvInit == Init => SplitInv
BY DEF Init, SplitInv, SplitInput, SplitOutcome, Nothing, NotRun

LEMMA SplitInvNext == SplitInv /\ [Next]_vars => SplitInv'
<1>. SUFFICES ASSUME SplitInv, [Next]_vars PROVE SplitInv'
  OBVIOUS
<1>. USE DEF SplitInv
<1>1. CASE Choose /\ UNCHANGED outcome
  <2>1. ASSUME input = Nothing \/ ~input.whole PROVE SplitOutcome'
    BY <1>1, <2>1 DEF SplitOutcome, Nothing
  <2>2. CASE input = Nothing /\ (ChooseFirst \/ ChooseLength \/ ChoosePosting \/ ChoosePolicy)
    BY <2>1, <2>2 DEF SplitInput, ChooseFirst, ChooseLength, ChoosePosting, ChoosePolicy
  <2>3. CASE input = Nothing /\ ChooseSplit
    BY <2>1, <2>3 DEF SplitInput, ChooseSplit
  <2>4. CASE ChooseOthers \/ ChooseHistory \/ ChooseCandidates \/ ChooseOffers
    <3>1. ASSUME ChooseOthers PROVE input'.of = "merge" /\ ~input.whole
      BY <3>1 DEF ChooseOthers
    <3>2. ASSUME ChooseHistory PROVE input'.of = "history" /\ ~input.whole
      BY <3>2 DEF ChooseHistory
    <3>3. ASSUME ChooseCandidates PROVE input'.of = "select" /\ ~input.whole
      BY <3>3 DEF ChooseCandidates
    <3>4. ASSUME ChooseOffers PROVE input'.of = "offers" /\ ~input.whole
      BY <3>4 DEF ChooseOffers
    <3>5. ~input.whole /\ input'.of # "split"
      BY <2>4, <3>1, <3>2, <3>3, <3>4
    <3>. QED BY <2>1, <3>5 DEF SplitInput
  <2>5. CASE ChooseWeights
    BY <2>1, <2>5 DEF SplitInput, ChooseWeights
  <2>. QED BY <1>1, <2>2, <2>3, <2>4, <2>5 DEF Choose
<1>2. CASE PayRewards
  BY <1>2 DEF PayRewards, Chosen, Outcome, SplitInput, SplitOutcome, Environment
<1>3. CASE SelectAgents \/ RunEvaluation \/ RunConsensus \/ RunExplanation \/ RecomputeReputation \/ TakeJobs
  <2>1. input' = input /\ outcome'.stage # "rewarded"
    BY <1>3 DEF SelectAgents, RunEvaluation, RunConsensus, RunExplanation, RecomputeReputation, TakeJobs, Outcome
  <2>. QED BY <2>1 DEF SplitInput, SplitOutcome, Environment
<1>4. CASE UNCHANGED vars
  BY <1>4 DEF vars, SplitInput, SplitOutcome, Environment
<1>. QED BY <1>1, <1>2, <1>3, <1>4 DEF Next

LEMMA SplitKept == SplitInv => SplitKeepsBudget
<1>. SUFFICES ASSUME SplitInv, outcome.stage = "rewarded" PROVE SplitKeepsBudget
  BY DEF SplitKeepsBudget
<1>1. /\ input.of = "split" /\ input.whole /\ input.budget \in SplitBudgets
      /\ input.agents \in ShareSettings /\ input.protocol \in ShareSettings
      /\ input.weights \in [Contributors -> WeightValues]
      /\ outcome.rows = RewardRows(input.budget, Environment, input.weights)
  BY DEF SplitInv, SplitInput, SplitOutcome
<1>. DEFINE env == Environment
<1>2. env \in [Roles -> Int] /\ env["VALIDATOR"] = -1
  <2>1. input.agents \in Int /\ input.protocol \in Int
    BY <1>1, InputsAssumption
  <2>. QED BY <2>1 DEF Environment, Roles
<1>3. input.budget \in Nat /\ input.weights \in [Contributors -> Nat]
  BY <1>1, InputsAssumption
<1>4. ShareTotal(env) > 0
  <2>. HIDE DEF env
  <2>1. /\ Shares(env) \in [Roles -> 0..100]
        /\ ShareTotal(env) = Shares(env)["AGENT"] + Shares(env)["VALIDATOR"]
                             + Shares(env)["PROTOCOL"] + Shares(env)["TREASURY"]
    BY <1>2, SharesTyped
  <2>2. Shares(env)["VALIDATOR"] = 15
    BY <1>2 DEF Shares, DefaultShares, Roles
  <2>3. Shares(env)["AGENT"] \in Nat /\ Shares(env)["PROTOCOL"] \in Nat /\ Shares(env)["TREASURY"] \in Nat
    BY <2>1 DEF Roles
  <2>. QED BY <2>1, <2>2, <2>3
<1>. HIDE DEF env
<1>5. KeepsBudget(RewardRows(input.budget, env, input.weights), input.budget,
                  \E a \in Contributors : input.weights[a] > 0)
  BY <1>2, <1>3, <1>4, InputsAssumption, SplitKeepsTheBudget
<1>. QED BY <1>1, <1>5 DEF SplitKeepsBudget, Earned, env

\* The rows RewardStage writes pay the budget, to half a unit of rounding each.
THEOREM SplitsKeepTheirBudgets == Spec => []SplitKeepsBudget
<1>1. Spec => []SplitInv
  BY SplitInvInit, SplitInvNext, PTL DEF Spec
<1>. QED BY <1>1, SplitKept, PTL
==============================================================================
