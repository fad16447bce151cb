----------------------------- MODULE MC_SourceLogin -----------------------------
(* Two requests, one login key and two sessions for TLC.                        *)
EXTENDS SourceLogin, TLC

Symmetry == Permutations(Callers) \cup Permutations(Keys) \cup Permutations(Sessions)
=================================================================================
