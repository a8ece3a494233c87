------------------------------- MODULE Pooling -------------------------------
(***************************************************************************)
(* What the panels of the cost page are put together with: averages of     *)
(* groups of different size, and lists that are sorted and cut.  An        *)
(* average is a pair <<total, number>>, or None.                           *)
(***************************************************************************)
EXTENDS Naturals, FiniteSets, FiniteSetsExt

CONSTANT None

\* The sum of the figures of a function.
AddedUp(figures) == MapThenSumSet(LAMBDA x : figures[x], DOMAIN figures)

\* mutated form: the naive mean of the averages
MeanOfMeans(pairs) ==
  LET usable == {x \in pairs : x.value # None /\ x.weight > 0}
      den    == FoldSet(LAMBDA x, y : x.value[2] * y, 1, usable)
  IN  IF usable = {} THEN None
      ELSE <<AddedUp([x \in usable |-> x.value[1] * (den \div x.value[2])]),
             den * Cardinality(usable)>>

\* _weighted_mean: sum(avg * n) / sum(n); a pair without a value is dropped.
\* avg is <<total, n'>>; the division is exact when n and n' agree.
WeightedMean(pairs) ==
  LET usable == {x \in pairs : x.value # None /\ x.weight > 0}
  IN  IF usable = {} THEN None
      ELSE <<AddedUp([x \in usable |-> (x.value[1] * x.weight) \div x.value[2]]),
             AddedUp([x \in usable |-> x.weight])>>

\* Two averages are the same number.
Same(x, y) == IF x = None \/ y = None THEN x = y ELSE x[1] * y[2] = y[1] * x[2]

\* ORDER BY value[x] DESC LIMIT n, with ties in any order: the sets of rows that
\* may be left
TopLists(value, n) ==
  {top \in kSubset(Min({n, Cardinality(DOMAIN value)}), DOMAIN value) :
     \A x \in top, y \in DOMAIN value \ top : value[x] >= value[y]}

=============================================================================
