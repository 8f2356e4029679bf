------------------------------ MODULE Requests ------------------------------
(***************************************************************************)
(* Requests and batches (request.py), as operators on a record: the tokens *)
(* of a prompt and of its answer, and the chunk of the prompt that the     *)
(* next step computes.  A prompt is its length.  ChunkedPrefill and        *)
(* LookAhead are built from these operators.                               *)
(***************************************************************************)
EXTENDS Integers, Sequences, FiniteSets, SequencesExt

\* `params` names the SamplingParams object of the request.  `cached` are the
\* positions of the prompt whose keys and values the workers have computed
\* since the request last started from the beginning.
NewRequest(n, p) ==
  [prompt |-> n, begin |-> 0, end |-> n, chunk_size |-> 0, generated |-> 0,
   outputs |-> 0, is_finished |-> FALSE, fusion_exec |-> FALSE, params |-> p,
   cached |-> {}]

Context(q)  == q.generated = 0
FollowUp(q) == Context(q) /\ q.end < q.prompt
InputTokens(q) ==
  IF ~ Context(q) THEN 1 ELSE IF q.begin < q.end THEN q.end - q.begin ELSE 0

NumTokens(q)  == q.prompt + q.generated
Unfinished(q) == IF Context(q) THEN q.prompt - q.end ELSE 0

Least(a, b) == IF a < b THEN a ELSE b

SetChunk(q, size) ==
  [q EXCEPT !.chunk_size = size, !.end = Least(q.prompt, q.begin + size)]

\* mutation: the last chunk does not end with the prompt.
NextChunkUnbounded(q, extra) ==
  [q EXCEPT !.chunk_size = @ + extra, !.begin = q.end,
            !.end = q.end + q.chunk_size + extra]

\* allocate_next_chunk: the next chunk begins where the last one ended and
\* may use `extra` more tokens.
NextChunk(q, extra) ==
  [q EXCEPT !.chunk_size = @ + extra,
            !.begin = q.end,
            !.end = Least(q.end + q.chunk_size + extra, q.prompt)]
Unused(q) == q.chunk_size - (q.end - q.begin)

\* mutation: the prefill goes on where it was.
RecomputedFrom(q) ==
  [q EXCEPT !.prompt = @ + q.generated, !.generated = 0,
            !.end = q.prompt + q.generated, !.fusion_exec = TRUE, !.cached = {}]

\* prepare_for_recompute: the generated tokens become part of the prompt.
Recomputed(q) ==
  [q EXCEPT !.prompt = @ + q.generated, !.generated = 0, !.begin = 0,
            !.end = q.prompt + q.generated, !.fusion_exec = TRUE, !.cached = {}]

\* finish_one_iteration and add_generated_token.
Computed(q, limit) ==
  LET c == [q EXCEPT !.cached = @ \cup (IF Context(q) THEN q.begin .. q.end - 1
                                        ELSE {})]
  IN  IF FollowUp(q) THEN c
      ELSE [c EXCEPT !.generated = @ + 1, !.outputs = @ + 1,
                     !.is_finished = @ \/ q.generated + 1 >= limit]

-----------------------------------------------------------------------------
(* Queues and batches: sequences q of requests, whose records are in the   *)
(* table rq.  Recursion is by functions, so that it can be reasoned about. *)

\* What is in S, in the order of q.
Those(q, S) ==
  LET kept[k \in Nat] ==
        IF k = 0 THEN <<>>
        ELSE IF q[k] \in S THEN Append(kept[k - 1], q[k])
        ELSE kept[k - 1]
  IN  kept[Len(q)]

\* The sum of what the requests of q weigh.
Total(weight, q) ==
  LET sum[k \in 0 .. Len(q)] == IF k = 0 THEN 0 ELSE sum[k - 1] + weight[q[k]]
  IN  sum[Len(q)]

TokensOf(rq, q) == Total([r \in DOMAIN rq |-> InputTokens(rq[r])], q)

Prefills(rq, q) == Those(q, {r \in DOMAIN rq : Context(rq[r])})
Decodes(rq, q)  == Those(q, {r \in DOMAIN rq : ~ Context(rq[r])})

\* Prefill requests if there are any, otherwise the decodes.
ToRun(rq, q) == IF \E r \in ToSet(q) : Context(rq[r]) THEN Prefills(rq, q) ELSE q

\* Preempted: for each kind of request, the latest decode requests.
Victims(rq, run) ==
  {V \in SUBSET {r \in ToSet(run) : ~ Context(rq[r])} :
     \A i, j \in 1 .. Len(run) :
       /\ i < j /\ run[i] \in V
       /\ ~ Context(rq[run[j]])
       /\ rq[run[i]].fusion_exec = rq[run[j]].fusion_exec
       => run[j] \in V}

\* mutation: only the queue is kept.
RequeuedLosing(run, V, un) == un

\* Recomputed requests go to the head of the queue.
Requeued(run, V, un) == Those(run, V) \o un

\* The chunks that follow, if the first request of the batch may use `start`
\* more tokens: what one request cannot use of its chunk goes to the next.
\* `free` is left for new requests.  A request is in a batch once.
ChunksFrom(start, rq, run) ==
  LET free[k \in 0 .. Len(run)] ==
        IF k = 0 THEN start
        ELSE IF FollowUp(rq[run[k]]) THEN Unused(NextChunk(rq[run[k]], free[k - 1]))
        ELSE free[k - 1]
      Place(r) == CHOOSE k \in 1 .. Len(run) : run[k] = r
  IN  [req  |-> [r \in DOMAIN rq |->
                   IF r \in ToSet(run) /\ FollowUp(rq[r])
                   THEN NextChunk(rq[r], free[Place(r) - 1])
                   ELSE rq[r]],
       free |-> free[Len(run)]]

\* mutation: the tokens of the batch are not taken off the budget.
NextChunksUncounted(rq, run, budget) == ChunksFrom(budget, rq, run)

NextChunks(rq, run, budget) == ChunksFrom(budget - TokensOf(rq, run), rq, run)

\* What is left of the tokens after the first k requests of the queue.
FreeTokens(rq, counted, un, k, tokens) ==
  tokens - TokensOf(rq, counted \o SubSeq(un, 1, k))

\* The batch that limits admission: without chunks only its prefill requests.
Counted(on, rq, run) == IF on THEN run ELSE Prefills(rq, run)

\* The loop of schedule_prefill: requests are admitted from the head of the
\* queue as long as memory (room), the size and the tokens of the batch allow.
\* With chunks (on), a request stopped by the tokens alone is admitted with the
\* tokens left.  Whoever is looked at is marked with fx, the format of the group.
Admit(on, fx, rq, run, un, room, size, tokens) ==
  LET counted == Counted(on, rq, run)
      slots   == Least(room, size - Len(counted))
      free(k) == FreeTokens(rq, counted, un, k, tokens)
      whole   == Cardinality({k \in 1 .. slots : free(k) >= 0})
      left    == free(whole)
      chunked == on /\ whole < slots /\ left # 0
      n       == IF chunked THEN whole + 1 ELSE whole
      checked == ToSet(SubSeq(un, 1, Least(whole + 1, Len(un))))
      marked  == [r \in DOMAIN rq |-> [rq[r] EXCEPT !.fusion_exec =
                                         IF r \in checked THEN fx ELSE @]]
  IN  [failed  |-> chunked /\ left < 0,          \* the assertion of set_chunk
       req     |-> IF chunked /\ left > 0
                   THEN [marked EXCEPT ![un[n]] = SetChunk(@, left)]
                   ELSE marked,
       running |-> run \o SubSeq(un, 1, n),
       queue   |-> SubSeq(un, n + 1, Len(un)),
       checked |-> checked]
=============================================================================
