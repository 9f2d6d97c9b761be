--------------------------------- MODULE Lists ---------------------------------
(***************************************************************************)
(* What is left of a list when some of its entries are taken out, without  *)
(* recursion, so that it can be reasoned about: the i-th entry left is the *)
(* one at the i-th of the places kept.  And a table with one more row.     *)
(***************************************************************************)
EXTENDS Integers, Sequences, FiniteSets

\* The place of n among the numbers S.
Place(S, n) == Cardinality({m \in S : m <= n})

\* The entries of a list at the given places, in their order.
Picked(list, kept) ==
  [i \in 1..Cardinality(kept) |-> list[CHOOSE n \in kept : Place(kept, n) = i]]

\* A function that also, or now, takes x to v.
Extended(f, x, v) == [y \in DOMAIN f \cup {x} |-> IF y = x THEN v ELSE f[y]]
=============================================================================
