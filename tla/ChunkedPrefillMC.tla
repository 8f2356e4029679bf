-------------------------- MODULE ChunkedPrefillMC --------------------------
(* ChunkedPrefill for TLC.                                                 *)
EXTENDS ChunkedPrefill, TLC
=============================================================================
