----------------------------- MODULE MC_SearchFolder -----------------------------
(* One song for the run, and two of the same title for OnePathEach.              *)
EXTENDS SearchFolder, TLC

MCOneSong == {1}
MCTwoSongs == 1..2
MCTitle(t) == "song"
Symmetry == Permutations(Clients) \cup Permutations(Ids)
==================================================================================
