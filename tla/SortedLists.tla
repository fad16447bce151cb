------------------------------- MODULE SortedLists -------------------------------
(***************************************************************************)
(* Sets of numbers as lists, the smallest first: what is numbered by its   *)
(* place (the songs of a list, the resources of a library by their paths)  *)
(* comes in that order.                                                    *)
(***************************************************************************)
EXTENDS Naturals, FiniteSets

Before(S, n) == {m \in S : m < n}

\* The k-th has k - 1 of them before it.
InOrder(S) == [k \in 1..Cardinality(S) |-> CHOOSE n \in S : Cardinality(Before(S, n)) = k - 1]
==================================================================================
