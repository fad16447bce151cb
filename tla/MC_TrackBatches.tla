----------------------------- MODULE MC_TrackBatches -----------------------------
(* For TLC: up to three batches, the last of them not full, and two permits,     *)
(* as a long playlist has more batches than the four permits of the code; of an  *)
(* external API, lists of up to two turns and pages, with one change of them.    *)
EXTENDS SongLists

\* The ids are arbitrary, and all properties are invariants.
Symmetry == Permutations(Ids)
==================================================================================
