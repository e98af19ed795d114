---------------------------- MODULE Subsequences ----------------------------
(***************************************************************************)
(* What a loop over a list leaves when it removes some of the elements:    *)
(* the elements at the positions it keeps, in their order.  It says what   *)
(* SelectSeq says, by positions and without recursion, so that it can be   *)
(* proved about.                                                           *)
(***************************************************************************)
EXTENDS Integers, Sequences, FiniteSets

\* The positions of a set up to one of them.
UpTo(S, m) == {j \in S : j <= m}

\* The k-th position of a set, counted from the first.
Nth(S, k) == CHOOSE i \in S : Cardinality(UpTo(S, i)) = k

\* The elements of a list at the positions of a set.
ElementsAt(list, S) == [k \in 1..Cardinality(S) |-> list[Nth(S, k)]]
=============================================================================
