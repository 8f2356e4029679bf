--------------------------- MODULE CoordinatorMC ---------------------------
(* Small instances of Coordinator for TLC.                                 *)
EXTENDS Coordinator, TLC
=============================================================================
