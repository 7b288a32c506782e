------------------------------ MODULE Fractions ------------------------------
(***************************************************************************)
(* Exact non-negative rationals in lowest terms, for the arithmetic the    *)
(* code does in floating point.  A fraction is a pair <<num, den>>.        *)
(***************************************************************************)
EXTENDS Integers, Sequences, FiniteSets, FiniteSetsExt

\* Euclid's algorithm.
euclid[p \in Nat \X Nat] == IF p[2] = 0 THEN p[1] ELSE euclid[<<p[2], p[1] % p[2]>>]
Gcd(a, b) == euclid[<<a, b>>]

Frac(n, d) == LET g == Gcd(IF n < 0 THEN -n ELSE n, d) IN <<n \div g, d \div g>>

Zero == <<0, 1>>
One  == <<1, 1>>

\* Over the least common denominator, and crossed out before multiplying, so
\* that no product is larger than its value needs.
SumOver(x, y, g) ==
    Frac(x[1] * (y[2] \div g) + y[1] * (x[2] \div g), x[2] * (y[2] \div g))
Product(p, q) == <<p[1] * q[1], p[2] * q[2]>>

Plus(x, y)  == SumOver(x, y, Gcd(x[2], y[2]))
Minus(x, y) == Plus(x, <<-y[1], y[2]>>)
Times(x, y) == Product(Frac(x[1], y[2]), Frac(y[1], x[2]))
Over(x, y)  == Times(x, <<y[2], y[1]>>)          \* for y > 0

AtMost(x, y) == Minus(x, y)[1] <= 0
Below(x, y)  == Minus(x, y)[1] < 0
Least(x, y)    == IF AtMost(x, y) THEN x ELSE y
Greatest(x, y) == IF AtMost(x, y) THEN y ELSE x
Clamp01(x)     == Greatest(Zero, Least(One, x))

Total(s) ==
    LET total[i \in 0..Len(s)] == IF i = 0 THEN Zero ELSE Plus(total[i - 1], s[i])
    IN  total[Len(s)]

\* A set in some fixed order, and in the one Before gives it.
Listed(S) ==
    LET listed[n \in 0..Cardinality(S)] ==
            IF n = 0 THEN <<>>
            ELSE LET before == listed[n - 1]
                 IN  Append(before, CHOOSE x \in S : \A i \in 1..(n - 1) : before[i] # x)
    IN  listed[Cardinality(S)]
Ranked(S, Before(_, _)) ==
    [i \in 1..Cardinality(S) |-> CHOOSE x \in S : Cardinality({y \in S : Before(y, x)}) = i - 1]

\* The same sequence, as a tuple TLC computes once.
Tuple(s) == s \o <<>>

Mean(s) == Over(Total(s), <<Len(s), 1>>)         \* for s # <<>>
==============================================================================
