------------------------------ MODULE Answers ------------------------------
(***************************************************************************)
(* What an engine promises its callers, whatever it does with memory,      *)
(* queues and batches: a request that was submitted gets its tokens one by *)
(* one, never loses one it already has, and gets as many as it asked for.  *)
(* ReplicaServing implements this.                                         *)
(***************************************************************************)
EXTENDS Naturals

CONSTANTS
  Req,      \* requests
  Limit     \* max_tokens of every call

VARIABLES
  asked,    \* the requests that were submitted
  tokens    \* the number of tokens of each answer

vars == <<asked, tokens>>

Init ==
  /\ asked = {}
  /\ tokens = [r \in Req |-> 0]

\* add_request.
Ask(r) ==
  /\ r \in Req \ asked
  /\ asked' = asked \cup {r}
  /\ UNCHANGED tokens

\* The batch of a step: each of its requests gets a token.
Give(S) ==
  /\ \A r \in S : r \in asked /\ tokens[r] < Limit
  /\ tokens' = [r \in Req |-> IF r \in S THEN tokens[r] + 1 ELSE tokens[r]]
  /\ UNCHANGED asked

Next ==
  \/ \E r \in Req : Ask(r)
  \/ \E S \in SUBSET Req : Give(S)

Spec == Init /\ [][Next]_vars
=============================================================================
