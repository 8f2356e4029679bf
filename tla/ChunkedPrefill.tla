--------------------------- MODULE ChunkedPrefill ---------------------------
(***************************************************************************)
(* The tokens of a request: how its prompt is cut into chunks that fit the *)
(* token budget of a batch (schedule_prefill in flash_backend.py), how the *)
(* chunks and the generated tokens are accounted for (request.py), and how *)
(* its answer gets back to the caller (llm_engine.py), across preemptions  *)
(* and across the changes of state of the group.                           *)
(*                                                                         *)
(* One virtual engine.  A prompt is its length.  Blocks are FusionGroup's  *)
(* matter: here memory decides, in any way it likes, how many requests of  *)
(* the queue may be admitted and how many running ones are preempted.      *)
(* Requests end at max_tokens (ignore_eos, the default of generate).       *)
(***************************************************************************)
EXTENDS Requests, FiniteSetsExt

CONSTANTS
  Req,
  Budget,         \* chunked_prefill_budget: input tokens of a chunked batch
  MaxTokens,      \* max_tokens_per_batch: of a batch without chunks
  MaxBatch,       \* max_batch_size
  EnableChunked,  \* enable_chunked_prefill of the configuration
  Mode,           \* balloon_mode: "recompute" or "reshard"
  Batched,        \* callers use batch_generate
  Limit,          \* max_tokens of every call
  MaxPrompt,      \* bound: the longest prompt
  MaxPreempt,     \* bound: preemptions for lack of memory
  MaxSwitch       \* bound: times the engine is stopped

ASSUME PrefillAssumption ==
  /\ IsFiniteSet(Req)
  /\ {Budget, MaxTokens, MaxBatch, Limit, MaxPrompt} \subseteq Nat \ {0}
  /\ {MaxPreempt, MaxSwitch} \subseteq Nat
  /\ Mode \in {"recompute", "reshard"}
  /\ {EnableChunked, Batched} \subseteq BOOLEAN

VARIABLES
  phase,           \* EngineState of the group
  chunking,        \* sched_config.enable_chunked_prefill
  stopped,         \* engine.stopped
  step,            \* the batch of the _step in flight
  req,             \* requests
  max_tokens,      \* sampling_params.max_tokens, per SamplingParams object
  unaccepted,      \* unaccepted_queue
  running,         \* running_queue
  outbox,          \* put_queue_args_queue: the requests of each list of outputs
  sent,            \* lists of outputs that the put queue actor was given
  streams,         \* request_streams: callers that wait
  result,          \* number of tokens its generator has yielded; 0: it goes on
  num_preemption,
  switches,        \* how often the engine was stopped
  failed           \* an exception made the engine exit

outputs == <<sent, result>>

vars == <<phase, chunking, stopped, step, req, max_tokens, unaccepted, running,
          outbox, streams, outputs, num_preemption, switches, failed>>

Fused == phase = "balloon"

NoRequest == NewRequest(0, CHOOSE r \in Req : TRUE)
Out(r)    == req[r] = NoRequest

NoStep == [busy |-> FALSE, batch |-> <<>>]

Init ==
  /\ phase = "initial"
  /\ chunking = EnableChunked
  /\ stopped = FALSE
  /\ step = NoStep
  /\ req = [r \in Req |-> NoRequest]
  /\ max_tokens = [r \in Req |-> Limit]
  /\ unaccepted = <<>>
  /\ running = <<>>
  /\ outbox = <<>>
  /\ sent = {}
  /\ streams = {}
  /\ result = [r \in Req |-> 0]
  /\ num_preemption = 0
  /\ switches = 0
  /\ failed = FALSE

-----------------------------------------------------------------------------
(* A batch of requests shares its SamplingParams.                          *)

\* mutation: tokens of an earlier life are charged again.
ChargedTwice(limit, rq, S) ==
  [p \in Req |-> limit[p] - MapThenSumSet(LAMBDA r : rq[r].outputs,
                                          {r \in S : rq[r].params = p})]

\* They no longer count against max_tokens of their SamplingParams.
Charged(limit, rq, S) ==
  [p \in Req |-> limit[p] - MapThenSumSet(LAMBDA r : rq[r].generated,
                                          {r \in S : rq[r].params = p})]

-----------------------------------------------------------------------------
(* _get_next_batch, from what the caller has done to the requests, to the  *)
(* limits and to the queues.                                               *)

\* schedule_prefill.
SchedulePrefill(on, fx, rq, run, un, room) ==
  \E a \in {Admit(on, fx, rq, run, un, room, MaxBatch,
                  IF on THEN Budget ELSE MaxTokens)} :
    /\ failed' = a.failed
    /\ req' = a.req
    /\ running' = a.running
    /\ unaccepted' = a.queue

\* An engine that runs nothing has memory for one request.
GetNextBatch(on, fx, rq, limit, run, un) ==
  LET live == Those(run, {r \in Req : ~ rq[r].is_finished})
  IN  \E V \in Victims(rq, live) :
        LET rq1  == [r \in Req |-> IF r \in V THEN Recomputed(rq[r]) ELSE rq[r]]
            run1 == Those(live, Req \ V)
            un1  == Requeued(live, V, un)
        IN  /\ num_preemption' = num_preemption + Cardinality(V)
            /\ num_preemption' <= MaxPreempt
            /\ max_tokens' = Charged(limit, rq, V)
            /\ \E room \in 0 .. Len(un1),
                  rq2 \in {IF on THEN NextChunks(rq1, run1, Budget).req ELSE rq1} :
                 /\ run1 = <<>> /\ un1 # <<>> => room > 0
                 /\ SchedulePrefill(on, fx, rq2, run1, un1, room)

-----------------------------------------------------------------------------
(* generate and batch_generate.  The requests of a batch share one         *)
(* SamplingParams object; pickling the list on its way to the engine keeps *)
(* it shared.                                                              *)
Submit(S) ==
  /\ ~ failed
  /\ S # {} /\ \A r \in S : Out(r)
  /\ Cardinality(S) > 1 => Batched
  /\ \E n \in [S -> 1 .. MaxPrompt] :
       req' = [r \in Req |-> IF r \in S THEN NewRequest(n[r], CHOOSE p \in S : TRUE)
                             ELSE req[r]]
  /\ unaccepted' = unaccepted \o SetToSeq(S)
  /\ streams' = streams \cup S
  /\ UNCHANGED <<phase, chunking, stopped, step, max_tokens, running, outbox,
                 outputs, num_preemption, switches, failed>>

-----------------------------------------------------------------------------
(* _step.                                                                  *)

\* schedule: prefill requests if there are any.  As a pipeline, the group
\* runs pipeline requests only.
Scheduled == Those(ToRun(req, running), {r \in Req : Fused => req[r].fusion_exec})

StartStep ==
  /\ ~ failed /\ ~ stopped /\ ~ step.busy
  /\ step' = [busy |-> TRUE, batch |-> Scheduled]
  /\ UNCHANGED <<phase, chunking, stopped, req, max_tokens, unaccepted, running,
                 outbox, streams, outputs, num_preemption, switches, failed>>

\* The replica batch runs after the pipeline batch, unless the engine has
\* been stopped by then.
Executed ==
  LET pipe == Those(step.batch, {r \in Req : req[r].fusion_exec})
  IN  {step.batch} \cup (IF stopped /\ pipe # <<>> THEN {pipe} ELSE {})

\* add_generated_token refuses a token beyond the limit.
Raises(S) == \E r \in S : ~ FollowUp(req[r])
                          /\ req[r].generated > max_tokens[req[r].params]

\* The workers answer: tokens are added, finished requests are answered, some
\* pipeline requests come home (live restore), and the next batch is made.
EndStep ==
  /\ ~ failed /\ step.busy
  /\ step' = NoStep
  /\ \E batch \in Executed :
       LET S == ToSet(batch)
           pipe == {r \in S : req[r].fusion_exec}
           answered == {r \in S : LET c == Computed(req[r], max_tokens[req[r].params])
                                  IN  c.generated > 0 /\ c.is_finished}
       IN  IF Raises(S)
           THEN /\ failed' = TRUE
                /\ UNCHANGED <<req, max_tokens, unaccepted, running, outbox,
                               num_preemption>>
           ELSE /\ outbox' = IF answered = {} THEN outbox ELSE Append(outbox, answered)
                /\ \E home \in SUBSET (IF phase = "restore" THEN pipe ELSE {}) :
                     LET rq == [r \in Req |->
                           IF r \in S
                           THEN [Computed(req[r], max_tokens[req[r].params])
                                   EXCEPT !.fusion_exec = @ /\ r \notin home]
                           ELSE req[r]]
                     IN  IF stopped
                         THEN /\ req' = rq
                              /\ UNCHANGED <<max_tokens, unaccepted, running,
                                             num_preemption, failed>>
                         ELSE GetNextBatch(chunking, Fused, rq, max_tokens, running,
                                           unaccepted)
  /\ UNCHANGED <<phase, chunking, stopped, streams, outputs, switches>>

-----------------------------------------------------------------------------
(* Changes of state of the group.                                          *)

\* INIT is only voted for when no request is left in the pipeline format.
Stop ==
  /\ ~ failed /\ ~ stopped /\ switches < MaxSwitch
  /\ phase = "restore" =>
       \A r \in ToSet(running \o unaccepted) : ~ req[r].fusion_exec
  /\ stopped' = TRUE
  /\ switches' = switches + 1
  /\ UNCHANGED <<phase, chunking, step, req, max_tokens, unaccepted, running,
                 outbox, streams, outputs, num_preemption, failed>>

Quiet == ~ failed /\ stopped /\ ~ step.busy

\* trigger_balloon: stale requests start again or keep what is computed; then
\* the next batch is made, with chunks.
Balloon ==
  /\ Quiet
  /\ phase = "initial"
  /\ phase' = "balloon"
  /\ chunking' = TRUE
  /\ stopped' = FALSE
  /\ LET stale == {r \in ToSet(running) : ~ req[r].fusion_exec}
         again == IF Mode = "recompute" THEN stale ELSE {}
     IN  GetNextBatch(TRUE, TRUE,
           [r \in Req |-> IF r \in again THEN Recomputed(req[r])
                          ELSE IF r \in stale THEN [req[r] EXCEPT !.fusion_exec = TRUE]
                          ELSE req[r]],
           Charged(max_tokens, req, again),
           Those(running, Req \ again),
           Requeued(running, again, unaccepted))
  /\ UNCHANGED <<step, outbox, streams, outputs, switches>>

\* restore_instance and trigger_init start the engines again, and that is all.
Restart(from, to) ==
  /\ Quiet
  /\ phase = from
  /\ phase' = to
  /\ stopped' = FALSE
  /\ UNCHANGED <<chunking, step, req, max_tokens, unaccepted, running, outbox,
                 streams, outputs, num_preemption, switches, failed>>

Restore   == Restart("balloon", "restore")
InitAgain == Restart("restore", "initial")

-----------------------------------------------------------------------------
(* The way of the outputs to their callers.  An output holds a reference   *)
(* to the tokens of its request.                                           *)

\* put_nowait_to_servers of the put queue actor, whose argument is copied.
PutToServers(list) == sent \cup {[r \in list |-> req[r].outputs]}

\* The thread that gives lists of outputs to the actor.
Put ==
  /\ outbox # <<>>
  /\ outbox' = Tail(outbox)
  /\ sent' = PutToServers(Head(outbox))
  /\ UNCHANGED <<phase, chunking, stopped, step, req, max_tokens, unaccepted, running,
                 streams, result, num_preemption, switches, failed>>

\* put and finish of an AsyncStream, and its generator: the item, then the end.
\* Nothing but the caller depends on when it takes them.
Finish(q, list) == [r \in Req |-> IF r \in DOMAIN list \cap streams THEN list[r]
                                ELSE q[r]]

\* get_request_outputs_loop.  Calls of the actor overlap, so that lists may
\* arrive in any order; outputs of streams that were finished are dropped.
GetOutputs(list) ==
  /\ list \in sent
  /\ sent' = sent \ {list}
  /\ result' = Finish(result, list)
  /\ streams' = streams \ DOMAIN list
  /\ UNCHANGED <<phase, chunking, stopped, step, req, max_tokens, unaccepted, running,
                 outbox, num_preemption, switches, failed>>

Next ==
  \/ \E S \in SUBSET Req : Submit(S)
  \/ StartStep \/ EndStep
  \/ Stop \/ Balloon \/ Restore \/ InitAgain
  \/ Put
  \/ \E list \in sent : GetOutputs(list)

Spec == Init /\ [][Next]_vars

\* As in FusionGroup: the event loop steps, workers answer, and the driver goes
\* on with a change of state once the engine is idle.  The thread that sends
\* outputs and the loop that receives them never end.
Fairness ==
  /\ WF_vars(StartStep) /\ WF_vars(EndStep)
  /\ WF_vars(Balloon \/ Restore \/ InitAgain)
  /\ WF_vars(Put) /\ WF_vars(\E list \in sent : GetOutputs(list))

FairSpec == Spec /\ Fairness

-----------------------------------------------------------------------------
\* Types.  A chunk lies inside the prompt, and so does what is computed.
TypeOK ==
  /\ phase \in {"initial", "balloon", "restore"}
  /\ {chunking, stopped, failed} \subseteq BOOLEAN
  /\ step.batch \in Seq(Req)
  /\ \A r \in Req : /\ req[r].begin \in 0 .. req[r].end
                     /\ req[r].end \in 0 .. req[r].prompt
                     /\ req[r].cached \subseteq 0 .. req[r].prompt - 1
  /\ unaccepted \in Seq(Req) /\ running \in Seq(Req)
  /\ outbox \in Seq(SUBSET Req)
  /\ streams \subseteq {r \in Req : result[r] = 0}

\* A request has generated tokens only if the keys and values of its whole
\* prompt have been computed: no chunk was skipped (set_chunk and
\* allocate_next_chunk of request.py, prepare_for_recompute, and whoever makes
\* the next batch).  flash_backend.py:2564 relies on it.
PrefillFinished ==
  \A r \in Req : req[r].generated > 0 => req[r].cached = 0 .. req[r].prompt - 1

\* The workers never get more input tokens at once than the configuration
\* allows (config.py:132, schedule_prefill).  Without chunks nothing bounds how
\* many requests decode together: they must fit, each with one token.
BudgetKept ==
  TokensOf(req, step.batch) <= IF chunking THEN Budget ELSE MaxTokens

\* A stream yields all the tokens its caller asked for: however often a request
\* was recomputed, and its limit lowered by the tokens that became part of the
\* prompt, it is not declared finished too early (prepare_for_recompute,
\* _check_finish_condition).
AnswerComplete == \A r \in Req : result[r] = 0 \/ result[r] >= Limit

\* No request in a batch is about to get a token beyond its limit, for which
\* add_generated_token (request.py:339) has an exception that ends the engine.
WithinLimit == step.busy => ~ Raises(ToSet(step.batch))

\* The generator of every request that was submitted ends, through preemptions
\* and changes of state, unless the engine exits (llm_engine.py:112).
AnswersArrive == \A r \in Req : ~ Out(r) ~> (result[r] > 0 \/ failed)
=============================================================================
