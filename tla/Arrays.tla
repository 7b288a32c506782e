------------------------------- MODULE Arrays --------------------------------
(***************************************************************************)
(* The array methods that the program selects and orders rows with: filter, *)
(* sort, slice.  Each takes some places of an array, the lightest first and *)
(* those of one weight in the order they came, because the sort is stable.  *)
(***************************************************************************)
EXTENDS Integers, FiniteSets, SequencesExt

Before(weight, i, j) == weight[i] < weight[j] \/ (weight[i] = weight[j] /\ i <= j)

(* Where place i comes to be among some places.                             *)
Position(some, weight, i) == Cardinality({j \in some : Before(weight, j, i)})

Arranged(seq, some, weight) ==
  [k \in 1 .. Cardinality(some) |-> seq[CHOOSE i \in some : Position(some, weight, i) = k]]

AsTheyCame(seq) == [i \in DOMAIN seq |-> 0]

Only(seq, kept) == Arranged(seq, {i \in DOMAIN seq : seq[i] \in kept}, AsTheyCame(seq))

Sorted(seq, weight) == Arranged(seq, DOMAIN seq, weight)

Slice(seq, n) == SubSeq(seq, 1, IF Len(seq) < n THEN Len(seq) ELSE n)

=============================================================================
