----------------------------- MODULE MC_AudioCache -----------------------------
(***************************************************************************)
(* Small instances of AudioCache for TLC.                                  *)
(***************************************************************************)
EXTENDS AudioCache, TLC

\* Keys, requests and file names are interchangeable.
Symmetry == Permutations(Keys) \cup Permutations(Callers) \cup Permutations(Files)
=================================================================================
