----------------------------- MODULE MC_StreamProxy -----------------------------
(* StreamProxy for TLC. Requests differ only by name: what no liveness run      *)
(* looks at may be checked up to their permutation.                             *)
EXTENDS StreamProxy, TLC

Symmetry == Permutations(Requests)
=================================================================================
