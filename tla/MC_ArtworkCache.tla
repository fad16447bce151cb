----------------------------- MODULE MC_ArtworkCache -----------------------------
(* Three covers and a limit that two of them exceed, for TLC.                    *)
EXTENDS ArtworkCache, TLC

Symmetry == Permutations(Callers) \cup Permutations(Covers)
==================================================================================
