-------------------------------- MODULE Ranks --------------------------------
(***************************************************************************)
(* Members of a set of numbers in their order, without recursion: the n-th *)
(* is the one that n members do not exceed.                                *)
(***************************************************************************)
EXTENDS Naturals, FiniteSets

Rank(S, i) == Cardinality({j \in S : j <= i})

\* The values of f at the members of S, in their order.
InOrder(f, S) ==
  [n \in 1 .. Cardinality(S) |-> f[CHOOSE i \in S : Rank(S, i) = n]]
=============================================================================
