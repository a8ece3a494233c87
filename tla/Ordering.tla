------------------------------- MODULE Ordering -------------------------------
(***************************************************************************)
(* Rows in the order of a key: ORDER BY ... LIMIT of the queries, and      *)
(* Python's sorted.  Rows are positions of a sequence; those with the same *)
(* key keep their order.                                                   *)
(***************************************************************************)
EXTENDS Naturals, FiniteSets

NoLater(key, j, i) == key[j] < key[i] \/ (key[j] = key[i] /\ j <= i)

\* The place of row i among the rows of S.
Place(S, key, i) == Cardinality({j \in S : NoLater(key, j, i)})

\* The first n rows of S, S a set of positions of s.
Ordered(s, S, key, n) ==
  [p \in 1 .. (IF Cardinality(S) < n THEN Cardinality(S) ELSE n) |->
     s[CHOOSE i \in S : Place(S, key, i) = p]]

=============================================================================
