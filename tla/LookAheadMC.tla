---------------------------- MODULE LookAheadMC ----------------------------
(* LookAhead for TLC.                                                      *)
EXTENDS LookAhead, TLC

Bench(p, r, d) == [packing |-> p, reorder |-> r, decode_balance |-> d]

\* Packing with the shortest first, and first come first served.
MCBenches == {Bench(TRUE, TRUE, TRUE), Bench(FALSE, FALSE, TRUE)}
============================================================================
