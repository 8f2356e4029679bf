---------------------------- MODULE EventLoopsMC ----------------------------
(* EventLoops for TLC.                                                     *)
EXTENDS EventLoops, TLC
=============================================================================
