-------------------------------- MODULE Lists --------------------------------
(***************************************************************************)
(* Part of a list, in the order of the list: what is left of it when some  *)
(* positions are taken out; and how often something stands in a list.      *)
(* Unlike SelectSeq this needs no recursion, so that module ListProofs can *)
(* prove what it returns.                                                  *)
(***************************************************************************)
EXTENDS Naturals, Sequences, FiniteSets

\* How many of the positions I are not behind i.
Rank(I, i) == Cardinality({j \in I : j <= i})

\* The items of s at the positions I.
Picked(s, I) ==
    [k \in 1..Cardinality(I) |-> s[CHOOSE i \in I : Rank(I, i) = k]]

\* s without the item x.
Removed(s, x) == Picked(s, {i \in 1..Len(s) : s[i] # x})

\* How many items of s are of the kinds T.
Count(s, T) == Cardinality({i \in 1..Len(s) : s[i] \in T})

=============================================================================
