------------------------------ MODULE MC_SetupPage ------------------------------
(* SetupPage for TLC: two calls of startQRLogin, one after the other or          *)
(* overlapping, and three polls in flight, of either code.                       *)
EXTENDS SetupPage
=================================================================================
