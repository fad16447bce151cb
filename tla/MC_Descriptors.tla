----------------------------- MODULE MC_Descriptors -----------------------------
(* Descriptors for TLC. A tick is a margin's length; the lives are around it and *)
(* around the time an entry is kept.                                             *)
EXTENDS Descriptors

MCLives == {0, 2}
=================================================================================
