---------------------------- MODULE FusionGroupMC ----------------------------
(* Small instances of FusionGroup for TLC.                                 *)
EXTENDS FusionGroup, TLC

Requests == Permutations(Req)
=============================================================================
