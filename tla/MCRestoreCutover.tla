-------------------------- MODULE MCRestoreCutover --------------------------
(* RestoreCutover for TLC. *)
EXTENDS RestoreCutover, TLC
=============================================================================
