------------------------------ MODULE LookAhead ------------------------------
(***************************************************************************)
(* Look-ahead scheduling: the leader of a ballooned group has one virtual  *)
(* engine per micro-batch of the pipeline and decides, whenever one of     *)
(* them makes its next batch, which of them gets the prompts that wait     *)
(* (balance_prefill), which decodes change their virtual engine            *)
(* (balance_decode), and how long prompts are cut up                       *)
(* (schedule_packed_prefill), all in flash_backend.py.  When RESTORE       *)
(* begins this scheduling ends, with what is in its queues.                *)
(*                                                                         *)
(* Requests are numbered in the order of their arrival.  As in             *)
(* ChunkedPrefill, memory decides how many are admitted and preempted.     *)
(***************************************************************************)
EXTENDS Requests

CONSTANTS
  N,              \* number of requests
  V,              \* number of virtual engines
  Lengths,        \* lengths of prompts
  Budget,         \* chunked_prefill_budget
  LongThreshold,  \* chunked_prefill_budget * long_threshold, rounded down
  MaxBatch,       \* max_batch_size
  Limit,          \* max_tokens of every call
  Benches,        \* the settings of bench_config to be looked at
  MaxPreempt      \* bound: preemptions for lack of memory

ASSUME LookAheadAssumption ==
  /\ {N, V, Budget, LongThreshold, MaxBatch, Limit} \subseteq Nat \ {0}
  /\ Lengths \subseteq Nat \ {0}
  /\ MaxPreempt \in Nat
  /\ Benches \subseteq
       [packing : BOOLEAN, reorder : BOOLEAN, decode_balance : BOOLEAN]

Req == 1 .. N
Ve  == 0 .. V - 1

VARIABLES
  bench,           \* bench_config: enable_packing, enable_reorder, ...
  phase,           \* state of the group
  stopped,         \* engine.stopped
  step,            \* the batch of the _step in flight, of each virtual engine
  req,             \* requests
  kv,              \* their kv_fusion_rank
  arrived,         \* number of requests that have arrived
  unaccepted,      \* unaccepted_queue of the engine
  short, long,     \* unaccepted_queue and long_unaccepted_queue of a scheduler
  running,         \* running_queue of a scheduler
  pending,         \* num_pending_prefill_tokens of a scheduler
  num_preemption

vars == <<bench, phase, stopped, step, req, kv, arrived, unaccepted,
          short, long, running, pending, num_preemption>>

Fused  == phase = "balloon"
NoStep == [busy |-> FALSE, batch |-> <<>>]

Init ==
  /\ bench \in Benches
  /\ phase = "balloon"
  /\ stopped = FALSE
  /\ step = [v \in Ve |-> NoStep]
  /\ req = [r \in Req |-> NewRequest(0, r)]
  /\ kv = [r \in Req |-> 0]
  /\ arrived = 0
  /\ unaccepted = <<>>
  /\ short = [v \in Ve |-> <<>>]
  /\ long = [v \in Ve |-> <<>>]
  /\ running = [v \in Ve |-> <<>>]
  /\ pending = [v \in Ve |-> 0]
  /\ num_preemption = 0

\* What is left of a request that has been popped.
Done(r) == [NewRequest(0, r) EXCEPT !.is_finished = TRUE]

\* Tokens that were generated before a recomputation are part of the prompt.
MaxTokens(q) == Limit - (q.outputs - q.generated)

-----------------------------------------------------------------------------
(* Queues.  While a batch is made the queues are one record.               *)

\* Stable, like Python's sorted.
SortedBy(q, key) ==
  LET Before(j, i) == key[q[j]] < key[q[i]] \/ (key[q[j]] = key[q[i]] /\ j < i)
      before(i)    == Cardinality({j \in 1 .. Len(q) : Before(j, i)})
  IN  [k \in 1 .. Len(q) |-> q[CHOOSE i \in 1 .. Len(q) : before(i) = k - 1]]

\* list.index(max(list)) and list.index(min(list)).
Busiest(load)   == CHOOSE v \in Ve : \A w \in Ve :
                     load[v] > load[w] \/ (load[v] = load[w] /\ v <= w)
LeastBusy(load) == CHOOSE v \in Ve : \A w \in Ve :
                     load[v] < load[w] \/ (load[v] = load[w] /\ v <= w)

\* mutation: whoever comes by moves the decodes of the busiest.
BalanceDecodeOfOthers(v, rq, run) ==
  LET decodes == [w \in Ve |-> Decodes(rq, run[w])]
      load    == [w \in Ve |-> Len(decodes[w])]
      most    == Busiest(load)
      least   == LeastBusy(load)
      n       == (load[most] - load[least]) \div 2
  IN  IF n = 0 THEN run
      ELSE [run EXCEPT ![most] = Prefills(rq, @)
                                   \o SubSeq(decodes[most], n + 1, load[most]),
                       ![least] = @ \o SubSeq(decodes[most], 1, n)]

\* balance_decode: the virtual engine with the most decodes gives half of what
\* it has more than the one with the fewest.
BalanceDecode(v, rq, run) ==
  LET decodes == [w \in Ve |-> Decodes(rq, run[w])]
      load    == [w \in Ve |-> Len(decodes[w])]
      least   == LeastBusy(load)
      n       == (load[v] - load[least]) \div 2
      kept    == [run EXCEPT ![v] = Prefills(rq, @)
                                      \o SubSeq(decodes[v], n + 1, load[v])]
  IN  IF Busiest(load) # v THEN run
      ELSE [kept EXCEPT ![least] = @ \o SubSeq(decodes[v], 1, n)]

\* The prompts that wait, longest first, each to the virtual engine with the
\* fewest tokens; a long one waits in the queue for long prompts (packing).
Place(rq, q) ==
  LET Add(at, r) ==
        LET v == LeastBusy(at.load)
            n == rq[r].prompt
            loaded == [at EXCEPT !.load[v] = @ + n]
        IN  IF ~ bench.packing THEN [loaded EXCEPT !.short[v] = <<r>> \o @]
            ELSE IF n > LongThreshold THEN [loaded EXCEPT !.long[v] = Append(@, r)]
            ELSE [loaded EXCEPT !.short[v] = Append(@, r)]
      prompts == SortedBy(q.global, [r \in Req |-> - rq[r].prompt])
      at[k \in 0 .. Len(prompts)] ==
        IF k = 0
        THEN [load |-> [v \in Ve |-> pending[v] + TokensOf(rq, q.running[v])],
              short |-> q.short, long |-> q.long]
        ELSE Add(at[k - 1], prompts[k])
  IN  at[Len(prompts)]

\* mutation: a virtual engine serves its queue as it was filled.
ReorderedNever(rq, wasEmpty, queue) == queue

\* First come first served; or shortest first if nobody was waiting.
Reordered(rq, wasEmpty, queue) ==
  IF ~ bench.reorder
  THEN [v \in Ve |-> SortedBy(queue[v], [r \in Req |-> r])]
  ELSE IF wasEmpty
  THEN [v \in Ve |-> SortedBy(queue[v], [r \in Req |-> rq[r].prompt])]
  ELSE queue

\* balance_prefill.
BalancePrefill(v, rq, q) ==
  LET run == IF bench.decode_balance THEN BalanceDecode(v, rq, q.running)
             ELSE q.running
      p   == Place(rq, [q EXCEPT !.running = run])
  IN  IF q.global = <<>> THEN [q EXCEPT !.running = run]
      ELSE [global |-> <<>>, running |-> run, long |-> p.long,
            short |-> Reordered(rq, \A w \in Ve : q.short[w] = <<>>, p.short)]

-----------------------------------------------------------------------------
(* The next batch of v: from records rq and queues q to records, queues    *)
(* and the requests that were looked at.                                   *)

\* The size of a typical short prompt on v.
MeanInputLen(v, rq, q) ==
  LET shorts == Those(Prefills(rq, q.running[v]) \o q.short[v],
                      {r \in Req : InputTokens(rq[r]) <= LongThreshold})
  IN  IF shorts = <<>> THEN LongThreshold
      ELSE TokensOf(rq, shorts) \div Len(shorts)

\* mutation: the chunk is as large as a typical short prompt, whatever is left.
LongChunkUncut(free, mean) == mean

\* mutation: a chunk below a floor is put off.
LongChunkFloored(free, mean) ==
  IF Least(free, mean) > 1 THEN Least(free, mean) ELSE 0

LongChunk(free, mean) == Least(free, mean)

\* mutation: the prompt is taken from the other queue.
PopLongOther(v, q) ==
  [q EXCEPT !.running[v] = Append(@, Head(q.long[v])),
            !.short[v] = SubSeq(@, 2, Len(@))]

\* _try_add_to_cur_batch of a long prompt.
PopLong(v, q) ==
  [q EXCEPT !.running[v] = Append(@, Head(q.long[v])), !.long[v] = Tail(@)]

\* The first part of schedule_packed_prefill: one long prompt may join the
\* batch, if there is memory for it, with a chunk of its own size.
PackLong(v, rq, free, mean, q, fits) ==
  LET r == Head(q.long[v])
      n == LongChunk(free, mean)
  IN  IF q.long[v] = <<>> THEN [req |-> rq, q |-> q, checked |-> {}]
      ELSE LET marked == [rq EXCEPT ![r].fusion_exec = Fused]
           IN  IF ~ fits \/ Len(q.running[v]) >= MaxBatch \/ n <= 0
               THEN [req |-> marked, q |-> q, checked |-> {r}]
               ELSE [req |-> [marked EXCEPT ![r] = SetChunk(@, n)],
                     q |-> PopLong(v, q), checked |-> {r}]

\* The loop of schedule_prefill, over the queue of the scheduler and then the
\* engine's, which the loop of schedule_packed_prefill repeats.
FillUp(v, rq, q, room) ==
  LET own == Len(q.short[v])
      a   == Admit(TRUE, Fused, rq, q.running[v], q.short[v] \o q.global, room,
                   MaxBatch, Budget)
      n   == own + Len(q.global) - Len(a.queue)
  IN  [failed |-> a.failed, req |-> a.req, checked |-> a.checked,
       q |-> [q EXCEPT !.running[v] = a.running,
                       !.short[v] = SubSeq(@, n + 1, own),
                       !.global = IF n > own THEN a.queue ELSE @]]

\* What is left to compute, when the batch is made.
PendingTokens(v, rq, q) ==
  Total([r \in Req |-> NumTokens(rq[r])], q.short[v])
    + Total([r \in Req |-> Unfinished(rq[r])], q.running[v])

\* The outcomes of filling up after p: memory has room for so many requests, or,
\* if the engine runs nothing, for the first one at least.
FilledUp(v, p) ==
  LET n    == Len(p.q.short[v] \o p.q.global)
      idle == \A w \in Ve : p.q.running[w] = <<>>
      Filled(room) == LET f == FillUp(v, p.req, p.q, room)
                      IN  [f EXCEPT !.checked = @ \cup p.checked]
  IN  {Filled(room) : room \in (IF idle /\ n > 0 THEN 1 ELSE 0) .. n}

\* schedule_prefill: the next chunks, then new requests.
SchedulePrefill(v, rq, q) ==
  FilledUp(v, [req |-> NextChunks(rq, q.running[v], Budget).req, q |-> q,
               checked |-> {}])

\* schedule_packed_prefill: the next chunks, one long prompt if memory has room
\* for it, then short ones.
SchedulePackedPrefill(v, rq, q) ==
  LET next == NextChunks(rq, q.running[v], Budget)
      mean == MeanInputLen(v, rq, q)
      idle == \A w \in Ve : q.running[w] = <<>>
  IN  UNION {FilledUp(v, PackLong(v, next.req, next.free, mean, q, fits))
               : fits \in IF idle THEN {TRUE} ELSE BOOLEAN}

\* mutation: also in RESTORE.
BalancedAlways == TRUE

Balanced == phase # "restore"

\* _get_next_batch.  An assertion that fails ends the engine.
GetNextBatch(v, rq, ranks) ==
  LET live == Those(running[v], {r \in Req : ~ rq[r].is_finished})
      done == ToSet(running[v]) \ ToSet(live)
  IN  \E gone \in Victims(rq, live) :
      \E rq1 \in {[r \in Req |-> CASE r \in gone -> Recomputed(rq[r])
                                  [] r \in done -> Done(r)
                                  [] OTHER     -> rq[r]]} :
      \E q1 \in {[global |-> unaccepted, long |-> long,
                  short |-> [short EXCEPT ![v] = Requeued(live, gone, @)],
                  running |-> [running EXCEPT ![v] =
                                 Those(live, Req \ gone)]]} :
      \E q2 \in {IF Balanced THEN BalancePrefill(v, rq1, q1) ELSE q1} :
      \E a \in IF Balanced /\ bench.packing THEN SchedulePackedPrefill(v, rq1, q2)
              ELSE SchedulePrefill(v, rq1, q2) :
        /\ ~ a.failed
        /\ num_preemption' = num_preemption + Cardinality(gone)
        /\ num_preemption' <= MaxPreempt
        /\ req' = a.req
        /\ kv' = [r \in Req |-> IF r \in a.checked THEN v
                               ELSE IF r \in gone \cup done THEN 0
                               ELSE ranks[r]]
        /\ unaccepted' = a.q.global
        /\ short' = a.q.short /\ long' = a.q.long /\ running' = a.q.running
        /\ pending' = [pending EXCEPT ![v] = PendingTokens(v, a.req, a.q)]

-----------------------------------------------------------------------------
(* add_request: with look-ahead, requests wait to be placed.               *)
Arrive ==
  /\ arrived < N
  /\ arrived' = arrived + 1
  /\ unaccepted' = Append(unaccepted, arrived')
  /\ \E n \in Lengths :
       req' = [req EXCEPT ![arrived'] = NewRequest(n, arrived')]
  /\ UNCHANGED <<bench, phase, stopped, step, kv, short, long, running,
                 pending, num_preemption>>

(* _step of a virtual engine.                                              *)
Scheduled(v) ==
  Those(ToRun(req, running[v]), {r \in Req : Fused => req[r].fusion_exec})

Waiting(v) == {unaccepted, short[v], long[v]} # {<<>>}

\* A step without a batch when nobody waits changes nothing and is left out.
StartStep(v) ==
  /\ ~ stopped /\ ~ step[v].busy
  /\ Scheduled(v) # <<>> \/ Waiting(v)
  /\ step' = [step EXCEPT ![v] = [busy |-> TRUE, batch |-> Scheduled(v)]]
  /\ UNCHANGED <<bench, phase, stopped, req, kv, arrived, unaccepted,
                 short, long, running, pending, num_preemption>>

\* In RESTORE the first requests of the pipeline batch come home, as memory
\* allows, to the instance of v.
EndStep(v) ==
  /\ step[v].busy
  /\ step' = [step EXCEPT ![v] = NoStep]
  /\ LET S    == ToSet(step[v].batch)
         pipe == Those(step[v].batch, {r \in Req : req[r].fusion_exec})
     IN  \E k \in 0 .. IF phase = "restore" THEN Len(pipe) ELSE 0 :
         \E home \in {ToSet(SubSeq(pipe, 1, k))} :
         \E rq \in {[r \in Req |-> IF r \in S
                                  THEN [Computed(req[r], MaxTokens(req[r]))
                                          EXCEPT !.fusion_exec = @ /\ r \notin home]
                                  ELSE req[r]]} :
         LET ranks == [r \in Req |-> IF r \in home THEN v ELSE kv[r]]
         IN  IF stopped
             THEN /\ req' = rq /\ kv' = ranks
                  /\ UNCHANGED <<unaccepted, short, long, running, pending,
                                 num_preemption>>
             ELSE GetNextBatch(v, rq, ranks)
  /\ UNCHANGED <<bench, phase, stopped, arrived>>

-----------------------------------------------------------------------------
(* RESTORE.  The leader votes for it only if nobody waits; but the vote is *)
(* as old as the coordinator's poll, and by the time of the stop somebody  *)
(* may.                                                                    *)
Stop ==
  /\ phase = "balloon" /\ ~ stopped
  /\ stopped' = TRUE
  /\ UNCHANGED <<bench, phase, step, req, kv, arrived, unaccepted, short, long,
                 running, pending, num_preemption>>

Restore ==
  /\ stopped /\ \A v \in Ve : ~ step[v].busy
  /\ phase' = "restore"
  /\ stopped' = FALSE
  /\ UNCHANGED <<bench, step, req, kv, arrived, unaccepted, short, long,
                 running, pending, num_preemption>>

Next ==
  \/ Arrive
  \/ \E v \in Ve : StartStep(v) \/ EndStep(v)
  \/ Stop \/ Restore

Spec == Init /\ [][Next]_vars

\* Each virtual engine has an event loop of its own, and workers answer; the
\* driver goes on once the engine is idle.  A step can always end (GetNextBatch
\* may admit nobody), so it is enough to say so of `step`.
Ends(v) == step[v].busy /\ step' = [step EXCEPT ![v] = NoStep]

Fairness ==
  /\ \A v \in Ve : WF_vars(StartStep(v)) /\ WF_step(Ends(v))
  /\ WF_vars(Restore)

FairSpec == Spec /\ Fairness

-----------------------------------------------------------------------------
Here(r)     == r <= arrived /\ ~ req[r].is_finished
InFlight(v) == ToSet(step[v].batch)

\* The places of r: pairs of a queue and a position.
Places(r) ==
  LET In(name, q) == {<<name, i>> : i \in {j \in 1 .. Len(q) : q[j] = r}}
  IN  In("global", unaccepted)
        \cup UNION {In(<<"short", v>>, short[v]) \cup In(<<"long", v>>, long[v])
                       \cup In(<<"running", v>>, running[v]) : v \in Ve}

\* Types.  A chunk lies inside its prompt.
TypeOK ==
  /\ bench \in Benches /\ phase \in {"balloon", "restore"}
  /\ stopped \in BOOLEAN
  /\ arrived \in 0 .. N /\ unaccepted \in Seq(Req)
  /\ \A v \in Ve : /\ {short[v], long[v], running[v], step[v].batch} \subseteq Seq(Req)
                   /\ pending[v] \in Nat
  /\ \A r \in Req : /\ kv[r] \in Ve
                    /\ req[r].begin \in 0 .. req[r].end
                    /\ req[r].end \in 0 .. req[r].prompt

\* A request that is not finished is in exactly one queue of the engine: moving
\* it between the global queue, the queues of the virtual engines and their
\* batches neither drops nor doubles it (balance_prefill, balance_decode, the
\* pops of flash_backend.py:1372-1394).
OnePlace == \A r \in Req : Here(r) => Cardinality(Places(r)) = 1

\* What a virtual engine has on the workers stays in its own queue until the
\* step ends, so that no other virtual engine schedules it too: balance_decode
\* takes only from the virtual engine whose step has just ended.
RunsOnce ==
  \A v \in Ve : InFlight(v) \subseteq ToSet(running[v])

\* A batch has at most the tokens of the configuration, also when two loops
\* hand out what is left of it and decodes arrive from elsewhere
\* (schedule_packed_prefill), provided all requests fit as decodes: N <= Budget.
BudgetKept == \A v \in Ve : TokensOf(req, step[v].batch) <= Budget

\* What runs has tokens to compute: a chunk is never empty, as set_chunk
\* asserts.  If decodes from elsewhere take more than the batch has left, the
\* chunks of the long prompts shrink, to nothing in the end, where
\* schedule_packed_prefill says that the batch continues at the next step.
ChunkValid == \A v \in Ve : \A r \in InFlight(v) : InputTokens(req[r]) > 0

\* Nothing generates tokens before its whole prompt has been computed, however
\* the prompt was cut up between virtual engines.
PrefillFinished ==
  \A r \in Req : req[r].generated > 0 => req[r].cached = 0 .. req[r].prompt - 1

\* In RESTORE a virtual engine runs its replica requests on its own instance
\* only, so they must have their blocks there.  Moving a decode does not move
\* its blocks, nor update kv_fusion_rank (the warning of balance_decode).
KvLocal ==
  phase = "restore" =>
    \A v \in Ve : \A r \in ToSet(running[v]) : req[r].fusion_exec \/ kv[r] = v

\* Unless short prompts are preferred, a request starts in the order of arrival
\* among those that wait for the same virtual engine.  Preempted requests are
\* put first, and long prompts have a queue of their own.
Long(r)  == bench.packing /\ req[r].prompt > LongThreshold
Fresh(r) == r <= arrived /\ req[r].outputs = 0 /\ ~ Long(r)

FirstComeFirstServed ==
  [][ \A v \in Ve : \A r \in ToSet(running'[v]) \cap (ToSet(short[v]) \cup ToSet(unaccepted)) :
        Fused /\ ~ bench.reorder /\ Fresh(r) => \A s \in ToSet(short'[v]) : r < s ]_vars

\* A long prompt that is still waiting when RESTORE begins.
Stranded(r) == phase = "restore" /\ \E v \in Ve : r \in ToSet(long[v])

\* Every request is finished: neither the preference for short prompts nor the
\* small chunks of long ones starve anybody, except that RESTORE leaves the
\* long prompts that wait where they are.
Served == \A r \in Req : r <= arrived ~> (req[r].is_finished \/ Stranded(r))
=============================================================================
