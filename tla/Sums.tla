-------------------------------- MODULE Sums --------------------------------
(***************************************************************************)
(* Sums over finite sets.  SumFunctionOnSet of the module Functions is     *)
(* defined by recursion over the subsets of its index set, with an         *)
(* arbitrary choice of the next element.  And what is defined by recursion *)
(* on a number.                                                            *)
(***************************************************************************)
EXTENDS Integers, FiniteSets, Functions, FiniteSetTheorems, WellFoundedInduction, TLAPS

AnyOf(s) == CHOOSE x \in s : TRUE

SumStep(f, g, s) == IF s = {} THEN 0 ELSE f[AnyOf(s)] + g[s \ {AnyOf(s)}]

Iterates(f, S, g) == g = [s \in SUBSET S |-> SumStep(f, g, s)]

LEMMA SumUnfolds ==
  ASSUME NEW f, NEW S
  PROVE  SumFunctionOnSet(f, S) = (CHOOSE g : Iterates(f, S, g))[S]
  BY DEF SumFunctionOnSet, FoldFunctionOnSet, MapThenFoldSet, SumStep, AnyOf, Iterates

\* A property of the subsets of a finite set that fails at one fails at a least one.
LEMMA LeastSubset ==
  ASSUME NEW S, IsFiniteSet(S), NEW Bad, Bad \subseteq SUBSET S, Bad # {}
  PROVE  \E T \in Bad : \A U \in SUBSET T : U # T => U \notin Bad
<1>1. IsWellFoundedOn(StrictSubsetOrdering(S), SUBSET S)
  BY FS_StrictSubsetOrderingWellFounded, FS_FiniteSubsetsOfFinite
<1>2. PICK T \in Bad : \A U \in Bad : <<U, T>> \notin StrictSubsetOrdering(S)
  BY <1>1, WFMin
<1>3. ASSUME NEW U \in SUBSET T, U # T, U \in Bad PROVE FALSE
  <2>1. <<U, T>> \in (SUBSET S) \X (SUBSET S)
    BY <1>3
  <2> QED BY <1>2, <1>3, <2>1 DEF StrictSubsetOrdering
<1> QED BY <1>3

LEMMA AnyOfInside ==
  ASSUME NEW s, s # {} PROVE AnyOf(s) \in s
  BY DEF AnyOf

LEMMA IterateAt ==
  ASSUME NEW f, NEW S, NEW g, Iterates(f, S, g), NEW s \in SUBSET S
  PROVE  g[s] = SumStep(f, g, s)
<1>1. g = [r \in SUBSET S |-> SumStep(f, g, r)]
  BY DEF Iterates
<1> DEFINE h == [r \in SUBSET S |-> SumStep(f, g, r)]
<1>2. h[s] = SumStep(f, g, s)
  OBVIOUS
<1>3. g = h
  BY <1>1
<1> HIDE DEF h
<1> QED BY <1>2, <1>3

\* Two iterations over sets one of which holds the other agree on the smaller.
LEMMA IteratesAgree ==
  ASSUME NEW f, NEW S, IsFiniteSet(S), NEW T \in SUBSET S,
         NEW g, NEW h, Iterates(f, S, g), Iterates(f, T, h)
  PROVE  \A s \in SUBSET T : g[s] = h[s]
<1> DEFINE Bad == {s \in SUBSET T : g[s] # h[s]}
<1> SUFFICES ASSUME Bad # {} PROVE FALSE
  OBVIOUS
<1>1. IsFiniteSet(T)
  BY FS_Subset
<1>2. PICK s \in Bad : \A r \in SUBSET s : r # s => r \notin Bad
  <2> HIDE DEF Bad
  <2>1. Bad \subseteq SUBSET T
    BY DEF Bad
  <2> QED BY <1>1, <2>1, LeastSubset
<1>3. g[s] = SumStep(f, g, s) /\ h[s] = SumStep(f, h, s)
  BY IterateAt, <1>2
<1>4. CASE s = {}
  BY <1>2, <1>3, <1>4 DEF SumStep
<1>5. CASE s # {}
  <2>1. s \ {AnyOf(s)} \in SUBSET s /\ s \ {AnyOf(s)} # s
    BY <1>5, AnyOfInside
  <2>2. g[s \ {AnyOf(s)}] = h[s \ {AnyOf(s)}]
    BY <1>2, <2>1
  <2> QED BY <1>2, <1>3, <1>5, <2>2 DEF SumStep
<1> QED BY <1>4, <1>5

LEMMA IterateExists ==
  ASSUME NEW f, NEW S, IsFiniteSet(S)
  PROVE  \E g : Iterates(f, S, g)
<1> DEFINE Bad == {T \in SUBSET S : ~ \E g : Iterates(f, T, g)}
<1> SUFFICES ASSUME Bad # {} PROVE FALSE
  OBVIOUS
<1>1. PICK T \in Bad : \A U \in SUBSET T : U # T => U \notin Bad
  <2> HIDE DEF Bad
  <2>1. Bad \subseteq SUBSET S
    BY DEF Bad
  <2> QED BY <2>1, LeastSubset
<1>2. ASSUME NEW U \in SUBSET T, U # T PROVE \E g : Iterates(f, U, g)
  BY <1>1, <1>2
<1>3. IsFiniteSet(T)
  BY <1>1, FS_Subset
<1> DEFINE it(U) == CHOOSE g : Iterates(f, U, g)
           h == [s \in SUBSET T |-> it(s)[s]]
           g == [s \in SUBSET T |-> SumStep(f, h, s)]
<1>4. ASSUME NEW U \in SUBSET T, U # T PROVE Iterates(f, U, it(U))
  BY <1>2, <1>4
<1>5. ASSUME NEW U \in SUBSET T, U # T PROVE h[U] = g[U]
  <2>1. h[U] = it(U)[U] /\ g[U] = SumStep(f, h, U)
    BY DEF g, h
  <2>2. it(U)[U] = SumStep(f, it(U), U)
    BY <1>4, <1>5, IterateAt
  <2>3. CASE U = {}
    BY <2>1, <2>2, <2>3 DEF SumStep
  <2>4. CASE U # {}
    <3> DEFINE V == U \ {AnyOf(U)}
    <3>1. V \in SUBSET U /\ V \in SUBSET T /\ V # T /\ IsFiniteSet(U)
      BY <1>3, <1>5, <2>4, FS_Subset, AnyOfInside
    <3>2. it(U)[V] = it(V)[V]
      <4> HIDE DEF it
      <4>1. Iterates(f, U, it(U)) /\ Iterates(f, V, it(V))
        BY <1>4, <1>5, <3>1
      <4> HIDE DEF V
      <4> QED BY <3>1, <4>1, IteratesAgree
    <3>3. h[V] = it(V)[V]
      BY <3>1 DEF h
    <3> HIDE DEF it, h, g
    <3> QED BY <2>1, <2>2, <2>4, <3>2, <3>3 DEF SumStep
  <2> QED BY <2>3, <2>4
<1>6. ASSUME NEW s \in SUBSET T PROVE SumStep(f, h, s) = SumStep(f, g, s)
  <2>1. CASE s = {}
    BY <2>1 DEF SumStep
  <2>2. CASE s # {}
    <3>1. s \ {AnyOf(s)} \in SUBSET T /\ s \ {AnyOf(s)} # T
      BY <2>2, AnyOfInside
    <3> HIDE DEF h, g
    <3> QED BY <2>2, <3>1, <1>5 DEF SumStep
  <2> QED BY <2>1, <2>2
<1>7. Iterates(f, T, g)
  BY <1>6, Zenon DEF Iterates
<1> QED BY <1>1, <1>7

\* The sum of the empty set, and of a set with the element that is added first.
LEMMA SumUnfold ==
  ASSUME NEW f, NEW S, IsFiniteSet(S)
  PROVE  /\ S = {} => SumFunctionOnSet(f, S) = 0
         /\ S # {} => SumFunctionOnSet(f, S) =
                        f[AnyOf(S)] + SumFunctionOnSet(f, S \ {AnyOf(S)})
<1> DEFINE it(U) == CHOOSE g : Iterates(f, U, g)
<1>1. \A U : IsFiniteSet(U) => Iterates(f, U, it(U))
  BY IterateExists
<1>2. \A U : SumFunctionOnSet(f, U) = it(U)[U]
  BY SumUnfolds
<1> HIDE DEF it
<1>3. SumFunctionOnSet(f, S) = SumStep(f, it(S), S)
  BY <1>1, <1>2, IterateAt
<1>4. CASE S = {}
  BY <1>3, <1>4 DEF SumStep
<1>5. CASE S # {}
  <2> DEFINE V == S \ {AnyOf(S)}
  <2>1. V \in SUBSET S /\ IsFiniteSet(V)
    BY FS_Subset
  <2>2. it(S)[V] = it(V)[V]
    <3>1. Iterates(f, S, it(S)) /\ Iterates(f, V, it(V))
      BY <1>1, <2>1
    <3> HIDE DEF V
    <3> QED BY <2>1, <3>1, IteratesAgree
  <2> QED BY <1>2, <1>3, <1>5, <2>2 DEF SumStep
<1> QED BY <1>4, <1>5

\* Integers sum to an integer.
LEMMA SumType ==
  ASSUME NEW f, NEW S, IsFiniteSet(S), \A x \in S : f[x] \in Int
  PROVE  SumFunctionOnSet(f, S) \in Int
<1> DEFINE Bad == {T \in SUBSET S : SumFunctionOnSet(f, T) \notin Int}
<1> SUFFICES ASSUME Bad # {} PROVE FALSE
  OBVIOUS
<1>1. PICK T \in Bad : \A U \in SUBSET T : U # T => U \notin Bad
  <2> HIDE DEF Bad
  <2>1. Bad \subseteq SUBSET S
    BY DEF Bad
  <2> QED BY <2>1, LeastSubset
<1>2. IsFiniteSet(T)
  BY <1>1, FS_Subset
<1>3. CASE T = {}
  <2>1. SumFunctionOnSet(f, T) = 0
    BY <1>2, <1>3, SumUnfold
  <2> QED BY <1>1, <2>1
<1>4. CASE T # {}
  <2>1. AnyOf(T) \in T
    BY <1>4, AnyOfInside
  <2>2. T \ {AnyOf(T)} \in SUBSET T /\ T \ {AnyOf(T)} # T
    BY <2>1
  <2>3. SumFunctionOnSet(f, T \ {AnyOf(T)}) \in Int
    BY <1>1, <2>2
  <2> QED BY <1>1, <1>2, <1>4, <2>1, <2>3, SumUnfold
<1> QED BY <1>3, <1>4

\* Any element may be added first: the choice of the next one does not matter.
LEMMA SumRemove ==
  ASSUME NEW f, NEW S, IsFiniteSet(S), \A x \in S : f[x] \in Int, NEW y \in S
  PROVE  SumFunctionOnSet(f, S) = f[y] + SumFunctionOnSet(f, S \ {y})
<1> DEFINE Sum(T) == SumFunctionOnSet(f, T)
           Splits(T) == \A z \in T : Sum(T) = f[z] + Sum(T \ {z})
           Bad == {T \in SUBSET S : ~Splits(T)}
<1> SUFFICES ASSUME Bad # {} PROVE FALSE
  OBVIOUS
<1>1. PICK T \in Bad : \A U \in SUBSET T : U # T => U \notin Bad
  <2> HIDE DEF Bad
  <2>1. Bad \subseteq SUBSET S
    BY DEF Bad
  <2> QED BY <2>1, LeastSubset
<1>2. IsFiniteSet(T) /\ T \in SUBSET S
  BY <1>1, FS_Subset
<1>3. ASSUME NEW U \in SUBSET T PROVE Sum(U) \in Int
  <2>1. IsFiniteSet(U)
    BY <1>2, FS_Subset
  <2> QED BY <1>2, <2>1, SumType
<1>4. PICK z \in T : Sum(T) # f[z] + Sum(T \ {z})
  BY <1>1
<1> DEFINE x == AnyOf(T)
<1>5. x \in T
  BY AnyOfInside
<1>6. Sum(T) = f[x] + Sum(T \ {x})
  BY <1>2, SumUnfold
<1> HIDE DEF x
<1>7. x # z
  BY <1>4, <1>6
<1>8. Splits(T \ {x}) /\ Splits(T \ {z})
  <2>1. T \ {x} \in SUBSET T /\ T \ {x} # T /\ T \ {z} \in SUBSET T /\ T \ {z} # T
    BY <1>5
  <2> HIDE DEF Splits
  <2> QED BY <1>1, <1>2, <2>1
<1>9. Sum(T \ {x}) = f[z] + Sum((T \ {x}) \ {z})
  BY <1>7, <1>8
<1>10. Sum(T \ {z}) = f[x] + Sum((T \ {z}) \ {x})
  BY <1>5, <1>7, <1>8
<1>11. (T \ {x}) \ {z} = (T \ {z}) \ {x}
  OBVIOUS
<1>12. Sum((T \ {x}) \ {z}) \in Int /\ f[x] \in Int /\ f[z] \in Int
  BY <1>2, <1>3, <1>5
<1>13. Sum((T \ {x}) \ {z}) = Sum((T \ {z}) \ {x})
  BY <1>11
<1> HIDE DEF Sum
<1>14. Sum(T) = f[x] + (f[z] + Sum((T \ {x}) \ {z}))
  BY <1>6, <1>9
<1>15. Sum(T \ {z}) = f[x] + Sum((T \ {x}) \ {z})
  BY <1>10, <1>13
<1>16. f[x] + (f[z] + Sum((T \ {x}) \ {z})) = f[z] + (f[x] + Sum((T \ {x}) \ {z}))
  BY <1>12
<1> QED BY <1>4, <1>14, <1>15, <1>16

LEMMA SumAdd ==
  ASSUME NEW f, NEW S, IsFiniteSet(S), NEW y, \A x \in S \cup {y} : f[x] \in Int, y \notin S
  PROVE  SumFunctionOnSet(f, S \cup {y}) = f[y] + SumFunctionOnSet(f, S)
<1>1. IsFiniteSet(S \cup {y})
  BY FS_AddElement
<1>2. (S \cup {y}) \ {y} = S
  OBVIOUS
<1>3. SumFunctionOnSet(f, S \cup {y}) = f[y] + SumFunctionOnSet(f, (S \cup {y}) \ {y})
  BY <1>1, SumRemove
<1> QED BY <1>2, <1>3

\* Fewer and smaller terms sum to no more.
LEMMA SumLower ==
  ASSUME NEW S, IsFiniteSet(S), NEW T \in SUBSET S, NEW f, NEW g,
         \A x \in S : f[x] \in Nat,
         \A x \in T : g[x] \in Int /\ g[x] <= f[x]
  PROVE  SumFunctionOnSet(g, T) <= SumFunctionOnSet(f, S)
<1> DEFINE Bad == {U \in SUBSET S : ~(SumFunctionOnSet(g, T \cap U) <= SumFunctionOnSet(f, U))}
<1>1. ASSUME Bad # {} PROVE FALSE
  <2>1. PICK U \in Bad : \A V \in SUBSET U : V # U => V \notin Bad
    <3> HIDE DEF Bad
    <3>1. Bad \subseteq SUBSET S
      BY DEF Bad
    <3> QED BY <3>1, <1>1, LeastSubset
  <2>2. IsFiniteSet(U) /\ U \in SUBSET S
    BY <2>1, FS_Subset
  <2>3. CASE U = {}
    <3>1. T \cap U = {} /\ IsFiniteSet(T \cap U)
      BY <2>2, <2>3
    <3>2. SumFunctionOnSet(g, T \cap U) = 0 /\ SumFunctionOnSet(f, U) = 0
      BY <2>2, <2>3, <3>1, SumUnfold
    <3> QED BY <2>1, <3>2
  <2>4. CASE U # {}
    <3>1. PICK y : y \in U
      BY <2>4
    <3> DEFINE V == U \ {y}
    <3>2. V \in SUBSET U /\ V # U /\ IsFiniteSet(V) /\ IsFiniteSet(T \cap V) /\ IsFiniteSet(T \cap U)
      <4>1. V \in SUBSET U /\ V # U /\ T \cap V \in SUBSET U /\ T \cap U \in SUBSET U
        BY <3>1
      <4> HIDE DEF V
      <4> QED BY <2>2, <4>1, FS_Subset
    <3>3. SumFunctionOnSet(g, T \cap V) <= SumFunctionOnSet(f, V)
      BY <2>1, <2>2, <3>2
    <3>4. SumFunctionOnSet(g, T \cap V) \in Int /\ SumFunctionOnSet(f, V) \in Int
      <4> HIDE DEF V
      <4>1. V \in SUBSET S
        BY <2>2, <3>2
      <4> QED BY <4>1, <3>2, SumType
    <3>5. SumFunctionOnSet(f, U) = f[y] + SumFunctionOnSet(f, V)
      BY <2>2, <3>1, SumRemove
    <3>6. SumFunctionOnSet(g, T \cap U) =
             IF y \in T THEN g[y] + SumFunctionOnSet(g, T \cap V) ELSE SumFunctionOnSet(g, T \cap V)
      <4>1. CASE y \in T
        <5>1. (T \cap U) \ {y} = T \cap V /\ y \in T \cap U
          BY <3>1, <4>1
        <5>2. \A x \in T \cap U : g[x] \in Int
          OBVIOUS
        <5>3. SumFunctionOnSet(g, T \cap U) = g[y] + SumFunctionOnSet(g, (T \cap U) \ {y})
          <6> HIDE DEF V
          <6> QED BY <3>2, <5>1, <5>2, SumRemove
        <5> QED BY <4>1, <5>1, <5>3
      <4>2. CASE y \notin T
        <5>1. T \cap U = T \cap V
          BY <4>2
        <5> QED BY <4>2, <5>1
      <4> QED BY <4>1, <4>2
    <3> HIDE DEF V
    <3>7. ~(SumFunctionOnSet(g, T \cap U) <= SumFunctionOnSet(f, U))
      BY <2>1
    <3>8. f[y] \in Nat /\ (y \in T => g[y] \in Int /\ g[y] <= f[y])
      BY <2>2, <3>1
    <3> QED BY <3>3, <3>4, <3>5, <3>6, <3>7, <3>8
  <2> QED BY <2>3, <2>4
<1>2. S \notin Bad
  BY <1>1
<1>3. T \cap S = T
  OBVIOUS
<1> QED BY <1>2, <1>3

LEMMA SumNat ==
  ASSUME NEW f, NEW S, IsFiniteSet(S), \A x \in S : f[x] \in Nat
  PROVE  SumFunctionOnSet(f, S) \in Nat
<1>1. SumFunctionOnSet(f, {}) = 0
  BY FS_EmptySet, SumUnfold
<1>2. {} \in SUBSET S /\ \A x \in {} : f[x] \in Int /\ f[x] <= f[x]
  OBVIOUS
<1>3. SumFunctionOnSet(f, {}) <= SumFunctionOnSet(f, S)
  BY <1>2, SumLower
<1>4. SumFunctionOnSet(f, S) \in Int
  BY SumType
<1> QED BY <1>1, <1>3, <1>4

\* Terms that are the same one by one have the same sum.
LEMMA SumEqual ==
  ASSUME NEW S, IsFiniteSet(S), NEW f, NEW g,
         \A x \in S : f[x] \in Nat /\ g[x] = f[x]
  PROVE  SumFunctionOnSet(g, S) = SumFunctionOnSet(f, S)
<1>1. SumFunctionOnSet(g, S) <= SumFunctionOnSet(f, S)
  BY SumLower
<1>2. SumFunctionOnSet(f, S) <= SumFunctionOnSet(g, S)
  BY SumLower
<1>3. SumFunctionOnSet(f, S) \in Nat /\ SumFunctionOnSet(g, S) \in Nat
  BY SumNat
<1> QED BY <1>1, <1>2, <1>3

\* One more term of that size.
LEMMA SumInsert ==
  ASSUME NEW S, IsFiniteSet(S), NEW y, y \notin S, NEW T \in SUBSET (S \cup {y}), NEW f, NEW g,
         \A x \in S : f[x] \in Nat, g[y] \in Nat,
         \A x \in T \ {y} : g[x] \in Nat /\ g[x] <= f[x]
  PROVE  SumFunctionOnSet(g, T) <= SumFunctionOnSet(f, S) + g[y]
<1>1. IsFiniteSet(T) /\ IsFiniteSet(T \ {y}) /\ T \ {y} \in SUBSET S
  <2>1. IsFiniteSet(S \cup {y})
    BY FS_AddElement
  <2> QED BY <2>1, FS_Subset
<1>2. SumFunctionOnSet(g, T \ {y}) <= SumFunctionOnSet(f, S)
  BY <1>1, SumLower
<1>3. SumFunctionOnSet(g, T \ {y}) \in Nat /\ SumFunctionOnSet(f, S) \in Nat
  BY <1>1, SumNat
<1>4. CASE y \in T
  <2>1. \A x \in T : g[x] \in Int
    OBVIOUS
  <2>2. SumFunctionOnSet(g, T) = g[y] + SumFunctionOnSet(g, T \ {y})
    BY <1>1, <1>4, <2>1, SumRemove
  <2> QED BY <1>2, <1>3, <2>2
<1>5. CASE y \notin T
  <2>1. T \ {y} = T
    BY <1>5
  <2>2. SumFunctionOnSet(g, T) = SumFunctionOnSet(g, T \ {y})
    BY <2>1
  <2> QED BY <1>2, <1>3, <2>2
<1> QED BY <1>4, <1>5

\* The terms may be named otherwise, as long as no two get one name.
LEMMA SumImage ==
  ASSUME NEW S, IsFiniteSet(S), NEW T, NEW h, NEW f, NEW g,
         \A x \in S : h[x] \in T,
         \A z \in T : \E x \in S : z = h[x],
         \A x, y \in S : h[x] = h[y] => x = y,
         \A x \in S : f[x] \in Int /\ g[h[x]] = f[x]
  PROVE  /\ SumFunctionOnSet(g, T) = SumFunctionOnSet(f, S)
         /\ IsFiniteSet(T)
         /\ Cardinality(T) = Cardinality(S)
<1> DEFINE Image(U) == {h[x] : x \in U}
           Holds(U) == /\ SumFunctionOnSet(g, Image(U)) = SumFunctionOnSet(f, U)
                       /\ IsFiniteSet(Image(U))
                       /\ Cardinality(Image(U)) = Cardinality(U)
           Bad == {U \in SUBSET S : ~Holds(U)}
<1>1. ASSUME Bad # {} PROVE FALSE
  <2>1. PICK U \in Bad : \A V \in SUBSET U : V # U => V \notin Bad
    <3> HIDE DEF Bad
    <3>1. Bad \subseteq SUBSET S
      BY DEF Bad
    <3> QED BY <3>1, <1>1, LeastSubset
  <2>2. IsFiniteSet(U) /\ U \in SUBSET S
    BY <2>1, FS_Subset
  <2>3. CASE U = {}
    <3>1. Image(U) = {} /\ IsFiniteSet(Image(U))
      BY <2>3, FS_EmptySet
    <3>2. SumFunctionOnSet(g, Image(U)) = 0 /\ SumFunctionOnSet(f, U) = 0
      <4> HIDE DEF Image
      <4> QED BY <2>2, <2>3, <3>1, SumUnfold
    <3>3. Cardinality(Image(U)) = Cardinality(U)
      BY <2>3, <3>1
    <3> QED BY <2>1, <3>1, <3>2, <3>3
  <2>4. CASE U # {}
    <3>1. PICK y : y \in U
      BY <2>4
    <3> DEFINE V == U \ {y}
    <3>2. V \in SUBSET U /\ V # U /\ V \in SUBSET S
      BY <2>2, <3>1
    <3>3. IsFiniteSet(V)
      <4> HIDE DEF V
      <4> QED BY <2>2, <3>2, FS_Subset
    <3>4. SumFunctionOnSet(g, Image(V)) = SumFunctionOnSet(f, V) /\ IsFiniteSet(Image(V))
      BY <2>1, <3>2
    <3>5. IsFiniteSet(Image(V) \cup {h[y]})
      <4> HIDE DEF Image, V
      <4> QED BY <3>4, FS_AddElement
    <3>6. Image(U) = Image(V) \cup {h[y]} /\ h[y] \notin Image(V)
      BY <2>2, <3>1
    <3>7. \A z \in Image(V) \cup {h[y]} : g[z] \in Int
      BY <2>2, <3>1
    <3>8. SumFunctionOnSet(g, Image(V) \cup {h[y]}) = g[h[y]] + SumFunctionOnSet(g, Image(V))
      <4> HIDE DEF Image, V
      <4> QED BY <3>4, <3>6, <3>7, SumAdd
    <3>9. SumFunctionOnSet(f, U) = f[y] + SumFunctionOnSet(f, V)
      <4>1. \A x \in U : f[x] \in Int
        BY <2>2
      <4> QED BY <2>2, <3>1, <4>1, SumRemove
    <3>10. SumFunctionOnSet(g, Image(U)) = SumFunctionOnSet(g, Image(V) \cup {h[y]})
      BY <3>6
    <3>11. g[h[y]] = f[y]
      BY <2>2, <3>1
    <3>12. Cardinality(Image(U)) = Cardinality(U)
      <4>1. Cardinality(U) = Cardinality(V) + 1
        <5>1. Cardinality(V) = Cardinality(U) - 1 /\ Cardinality(U) \in Nat
          BY <2>2, <3>1, FS_RemoveElement, FS_CardinalityType
        <5> QED BY <5>1
      <4>2. Cardinality(Image(V) \cup {h[y]}) = Cardinality(Image(V)) + 1
        <5> HIDE DEF Image, V
        <5> QED BY <3>4, <3>6, FS_AddElement
      <4>3. Cardinality(Image(V)) = Cardinality(V)
        BY <2>1, <3>2
      <4> HIDE DEF Image, V
      <4> QED BY <3>6, <4>1, <4>2, <4>3
    <3>13. ~Holds(U)
      BY <2>1
    <3> HIDE DEF Image, V
    <3> QED BY <3>4, <3>5, <3>6, <3>8, <3>9, <3>10, <3>11, <3>12, <3>13
  <2> QED BY <2>3, <2>4
<1>2. S \notin Bad
  BY <1>1
<1>3. T = Image(S)
  OBVIOUS
<1> QED BY <1>2, <1>3

------------------------------------------------------------------------------
\* Products of numbers, in the forms that a linear arithmetic wants them.
LEMMA Divided ==
    ASSUME NEW m \in Nat, NEW e \in Nat, e > 0
    PROVE  m \div e \in Nat /\ e * (m \div e) <= m /\ m < e * (m \div e) + e
OBVIOUS

LEMMA TimesMonotone ==
    ASSUME NEW x \in Int, NEW y \in Int, NEW d \in Nat, d > 0, d * x <= d * y
    PROVE  x <= y
OBVIOUS

LEMMA Distributes ==
    ASSUME NEW p \in Int, NEW x \in Int, NEW y \in Int
    PROVE  p * (x + y) = p * x + p * y /\ p * (x - y) = p * x - p * y
OBVIOUS

LEMMA Associates ==
    ASSUME NEW p \in Int, NEW x \in Int, NEW y \in Int
    PROVE  p * (x * y) = (p * x) * y /\ p * x = x * p /\ p * x \in Int
OBVIOUS

LEMMA TimesNat ==
    ASSUME NEW x \in Nat, NEW y \in Nat
    PROVE  x * y \in Nat /\ (x > 0 /\ y > 0 => x * y > 0)
OBVIOUS

\* A linear bound of every term is one of the sum.
LEMMA SumBound ==
  ASSUME NEW S, IsFiniteSet(S), NEW f, NEW w, \A x \in S : f[x] \in Int /\ w[x] \in Int,
         NEW p \in Int, NEW q \in Int, NEW k \in Int,
         \A x \in S : p * f[x] <= q * w[x] + k
  PROVE  p * SumFunctionOnSet(f, S) <= q * SumFunctionOnSet(w, S) + k * Cardinality(S)
<1> DEFINE Holds(U) == p * SumFunctionOnSet(f, U) <= q * SumFunctionOnSet(w, U) + k * Cardinality(U)
           Bad == {U \in SUBSET S : ~Holds(U)}
<1>1. ASSUME Bad # {} PROVE FALSE
  <2>1. PICK U \in Bad : \A V \in SUBSET U : V # U => V \notin Bad
    <3> HIDE DEF Bad
    <3>1. Bad \subseteq SUBSET S
      BY DEF Bad
    <3> QED BY <3>1, <1>1, LeastSubset
  <2>2. IsFiniteSet(U) /\ U \in SUBSET S
    BY <2>1, FS_Subset
  <2>3. CASE U = {}
    <3>1. SumFunctionOnSet(f, U) = 0 /\ SumFunctionOnSet(w, U) = 0 /\ Cardinality(U) = 0
      BY <2>2, <2>3, SumUnfold, FS_EmptySet
    <3> QED BY <2>1, <3>1
  <2>4. CASE U # {}
    <3>1. PICK y : y \in U
      BY <2>4
    <3> DEFINE V == U \ {y}
    <3>2. V \in SUBSET U /\ V # U /\ V \in SUBSET S
      BY <2>2, <3>1
    <3>3. IsFiniteSet(V)
      <4> HIDE DEF V
      <4> QED BY <2>2, <3>2, FS_Subset
    <3>4. Holds(V)
      BY <2>1, <3>2
    <3>5. SumFunctionOnSet(f, U) = f[y] + SumFunctionOnSet(f, V) /\ SumFunctionOnSet(w, U) = w[y] + SumFunctionOnSet(w, V)
      <4>1. \A x \in U : f[x] \in Int /\ w[x] \in Int
        BY <2>2
      <4> QED BY <2>2, <3>1, <4>1, SumRemove
    <3>6. Cardinality(U) = Cardinality(V) + 1
      <4>1. Cardinality(V) = Cardinality(U) - 1
        BY <2>2, <3>1, FS_RemoveElement
      <4>2. Cardinality(U) \in Nat
        BY <2>2, FS_CardinalityType
      <4> QED BY <4>1, <4>2
    <3>7. SumFunctionOnSet(f, V) \in Int /\ SumFunctionOnSet(w, V) \in Int /\ Cardinality(V) \in Int
      <4> HIDE DEF V
      <4> QED BY <3>2, <3>3, SumType, FS_CardinalityType
    <3>8. f[y] \in Int /\ w[y] \in Int /\ p * f[y] <= q * w[y] + k
      BY <2>2, <3>1
    <3>9. ~Holds(U)
      BY <2>1
    <3> DEFINE F == SumFunctionOnSet(f, V)  W == SumFunctionOnSet(w, V)  c == Cardinality(V)
    <3> HIDE DEF V
    <3>10. p * F <= q * W + k * c /\ ~(p * (f[y] + F) <= q * (w[y] + W) + k * (c + 1))
      BY <3>4, <3>5, <3>6, <3>9
    <3> HIDE DEF F, W, c, Holds
    <3>11. F \in Int /\ W \in Int /\ c \in Int
      BY <3>7 DEF F, W, c
    <3>12. /\ p * (f[y] + F) = p * f[y] + p * F
           /\ q * (w[y] + W) = q * w[y] + q * W
           /\ k * (c + 1) = k * c + k
      BY <3>8, <3>11, Distributes
    <3>13. /\ p * f[y] \in Int /\ p * F \in Int /\ q * w[y] \in Int
           /\ q * W \in Int /\ k * c \in Int
      BY <3>8, <3>11
    <3>14. p * f[y] + p * F <= (q * w[y] + q * W) + (k * c + k)
      <4> DEFINE a1 == p * f[y]  a2 == p * F  a3 == q * w[y]  a4 == q * W  a5 == k * c
      <4>1. a1 <= a3 + k /\ a2 <= a4 + a5 /\ a1 \in Int /\ a2 \in Int /\ a3 \in Int /\ a4 \in Int /\ a5 \in Int
        BY <3>8, <3>10, <3>13
      <4> HIDE DEF a1, a2, a3, a4, a5
      <4>2. a1 + a2 <= (a3 + a4) + (a5 + k)
        BY <4>1
      <4> QED BY <4>2 DEF a1, a2, a3, a4, a5
    <3> QED BY <3>10, <3>12, <3>14
  <2> QED BY <2>3, <2>4
<1>2. S \notin Bad
  BY <1>1
<1> QED BY <1>2

\* The sum over two sets apart is that of their sums.
LEMMA SumUnion ==
  ASSUME NEW S, IsFiniteSet(S), NEW T, IsFiniteSet(T), S \cap T = {}, NEW f, \A x \in S \cup T : f[x] \in Int
  PROVE  SumFunctionOnSet(f, S \cup T) = SumFunctionOnSet(f, S) + SumFunctionOnSet(f, T)
<1> DEFINE Sum(U) == SumFunctionOnSet(f, U)
           Bad == {U \in SUBSET T : Sum(S \cup U) # Sum(S) + Sum(U)}
<1> SUFFICES ASSUME Bad # {} PROVE FALSE
  OBVIOUS
<1>1. PICK U \in Bad : \A V \in SUBSET U : V # U => V \notin Bad
  <2> HIDE DEF Bad
  <2>1. Bad \subseteq SUBSET T
    BY DEF Bad
  <2> QED BY <2>1, LeastSubset
<1>2. Sum(S) \in Int /\ Sum(S \cup U) # Sum(S) + Sum(U)
  BY <1>1, SumType
<1>3. U # {}
  <2> SUFFICES ASSUME U = {} PROVE FALSE
    OBVIOUS
  <2>1. Sum({}) = 0
    BY FS_EmptySet, SumUnfold
  <2>2. S \cup U = S
    OBVIOUS
  <2>3. Sum(S \cup U) = Sum(S) /\ Sum(U) = 0
    BY <2>1, <2>2
  <2> HIDE DEF Sum
  <2> QED BY <1>2, <2>3
<1>4. PICK y \in U : TRUE
  BY <1>3
<1> DEFINE V == U \ {y}
<1>5. Sum(S \cup V) = Sum(S) + Sum(V)
  BY <1>1, <1>4
<1>6. /\ y \notin S \cup V /\ (S \cup V) \cup {y} = S \cup U /\ V \cup {y} = U /\ V \in SUBSET T
      /\ \A x \in (S \cup V) \cup {y} : f[x] \in Int
  BY <1>1, <1>4
<1> HIDE DEF V
<1>7. IsFiniteSet(V) /\ IsFiniteSet(S \cup V)
  BY <1>6, FS_Subset, FS_Union
<1>8. Sum((S \cup V) \cup {y}) = f[y] + Sum(S \cup V)
  BY <1>6, <1>7, SumAdd
<1>9. Sum(V \cup {y}) = f[y] + Sum(V)
  BY <1>6, <1>7, SumAdd
<1>10. Sum(V) \in Int /\ f[y] \in Int
  BY <1>6, <1>7, SumType
<1>11. Sum(S \cup U) = f[y] + Sum(S \cup V) /\ Sum(U) = f[y] + Sum(V)
  BY <1>6, <1>8, <1>9
<1> HIDE DEF Sum, Bad
<1> QED BY <1>2, <1>5, <1>10, <1>11

------------------------------------------------------------------------------
(* Numbers *)

\* A set of numbers has a least one.
LEMMA LeastNumber ==
  ASSUME NEW Bad, Bad \subseteq Nat, Bad # {}
  PROVE  \E n \in Bad : \A m \in Bad : n <= m
<1>1. PICK n \in Bad : \A m \in Bad : ~ (<<m, n>> \in OpToRel(<, Nat))
  BY NatLessThanWellFounded, WFMin
<1>2. ASSUME NEW m \in Bad, m < n PROVE FALSE
  <2>1. <<m, n>> \in {ss \in Nat \X Nat : ss[1] < ss[2]}
    BY <1>2
  <2>2. <<m, n>> \in OpToRel(<, Nat)
    BY <2>1, Zenon DEF OpToRel
  <2>. QED BY <1>1, <2>2, Zenon
<1>. QED BY <1>2

\* A function on 0..n that applies a step to its value before.
Iterate(n, X, base, step, g) ==
  g \in [0..n -> X] /\ g[0] = base /\ \A i \in 1..n : g[i] = step[<<i, g[i - 1]>>]

LEMMA Iterated ==
  ASSUME NEW n \in Nat, NEW X, NEW base \in X, NEW step \in [(1..n) \X X -> X]
  PROVE  \E g : Iterate(n, X, base, step, g)
<1>. DEFINE Steps(m, g) == g[0] = base /\ \A i \in 1..m : g[i] = step[<<i, g[i - 1]>>]
            Bad == {m \in 0..n : ~ \E g \in [0..m -> X] : Steps(m, g)}
<1>. SUFFICES ASSUME Bad # {} PROVE FALSE
  BY n \in 0..n DEF Iterate
<1>1. PICK m \in Bad : \A k \in Bad : m <= k
  <2>. HIDE DEF Bad
  <2>1. Bad \subseteq Nat
    BY DEF Bad
  <2>. QED BY <2>1, LeastNumber
<1>2. m # 0
  <2>1. [i \in 0..0 |-> base] \in [0..0 -> X] /\ Steps(0, [i \in 0..0 |-> base])
    OBVIOUS
  <2>. QED BY <1>1, <2>1
<1>3. PICK g \in [0..(m - 1) -> X] : Steps(m - 1, g)
  BY <1>1, <1>2
<1>. DEFINE last == step[<<m, g[m - 1]>>]
            h == [i \in 0..m |-> IF i = m THEN last ELSE g[i]]
<1>4. m \in 1..n /\ m - 1 \in 0..(m - 1) /\ last \in X
  <2>1. m \in 1..n /\ m - 1 \in 0..(m - 1)
    BY <1>1, <1>2
  <2>2. <<m, g[m - 1]>> \in (1..n) \X X
    BY <2>1
  <2>. QED BY <2>1, <2>2
<1>. HIDE DEF last
<1>5. h \in [0..m -> X]
  BY <1>3, <1>4
<1>6. h[m] = last /\ \A i \in 0..(m - 1) : h[i] = g[i]
  BY <1>4
<1>. HIDE DEF h
<1>7. h[0] = base
  BY <1>3, <1>4, <1>6
<1>8. ASSUME NEW i \in 1..m PROVE h[i] = step[<<i, h[i - 1]>>]
  <2>1. i - 1 \in 0..(m - 1) /\ h[i - 1] = g[i - 1]
    BY <1>4, <1>6
  <2>2. CASE i = m
    BY <1>6, <2>1, <2>2 DEF last
  <2>3. CASE i # m
    <3>1. i \in 1..(m - 1)
      BY <1>4, <2>3
    <3>. QED BY <1>3, <1>6, <2>1, <3>1
  <2>. QED BY <2>2, <2>3
<1>. QED BY <1>1, <1>5, <1>7, <1>8

\* What holds at 0, and at a number when it holds at the one before, holds up to n.
LEMMA Climb ==
  ASSUME NEW n \in Nat, NEW P, 0 \in P, \A i \in 1..n : i - 1 \in P => i \in P
  PROVE  0..n \subseteq P
<1>. DEFINE Bad == {i \in 0..n : i \notin P}
<1>. SUFFICES ASSUME Bad # {} PROVE FALSE
  OBVIOUS
<1>1. PICK i \in Bad : \A k \in Bad : i <= k
  <2>. HIDE DEF Bad
  <2>1. Bad \subseteq Nat
    BY DEF Bad
  <2>. QED BY <2>1, LeastNumber
<1>2. i \in 1..n
  BY <1>1
<1>3. i - 1 \in P
  BY <1>1, <1>2
<1>. QED BY <1>1, <1>2, <1>3
=============================================================================
