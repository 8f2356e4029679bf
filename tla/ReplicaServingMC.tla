-------------------------- MODULE ReplicaServingMC --------------------------
(* ReplicaServing for TLC.                                                 *)
EXTENDS ReplicaServing, TLC
=============================================================================
