----------------------------- MODULE FusionGroup -----------------------------
(***************************************************************************)
(* One group of F serving instances that fuse into a pipeline when memory  *)
(* runs out (balloon), hand the borrowed memory back when load falls       *)
(* (restore) and split again (init): the engine of flash_backend.py with   *)
(* its schedulers, its block managers and the routines of llm_engine.py    *)
(* that drive it.  Each instance is one pipeline stage with one virtual    *)
(* engine (pipeline_parallel_size = 1); instance 0 is the leader.          *)
(*                                                                         *)
(* The event loop is cooperative: code runs without interruption from one  *)
(* suspended await to the next.  What lies between two awaits is one       *)
(* action, except that _get_next_batch and the packing before it are split *)
(* into one action per block-manager call; while a virtual engine is       *)
(* inside them (Locked) no other action is enabled, as in the code.        *)
(***************************************************************************)
EXTENDS BlockPools

CONSTANTS
  MaxLen,        \* bound: the most blocks one request may need
  Mode,          \* balloon_mode: "recompute", "reshard" or "livereshard"
  AllowRestore   \* enable_restore

ASSUME GroupAssumption ==
  /\ MaxLen \in Nat \ {0}
  /\ Mode \in {"recompute", "reshard", "livereshard"}
  /\ AllowRestore \in BOOLEAN

Inst == Stage

VARIABLES
  phase,       \* EngineState of the group, STOP refined by who is stopping
  bm,          \* block_managers, one per instance
  req,         \* requests: their queue, stage and KV-cache placement
  stopped,     \* engine.stopped of every instance
  step,        \* the _step coroutine of every virtual engine
  resharding,  \* engine.is_resharding, per virtual engine
  remaining    \* requests reshard_blocks has not exchanged yet

vars == <<phase, bm, req, stopped, step, resharding, remaining>>

Phase == {"initial", "stopping_followers", "dropping", "handling", "balloon",
          "reclaiming", "reloading", "stopping", "restore", "stopping_init"}

Queue == {"out", "queued", "waiting", "running", "done", "lost"}

Request == [
  q        : Queue,
  ctx      : BOOLEAN,      \* is_context_stage: no token generated yet
  finished : BOOLEAN,      \* is_finished
  fx       : BOOLEAN,      \* fusion_exec
  home     : Inst,         \* kv_fusion_rank
  ve       : Inst,         \* the virtual engine whose queue it is in
  need     : 1 .. MaxLen ] \* blocks its tokens need

NewRequest == [q |-> "out", ctx |-> TRUE, finished |-> FALSE, fx |-> FALSE,
               home |-> 0, ve |-> 0, need |-> 1]

Pc == {"idle", "pipe", "repl", "pack", "grow", "adopt", "dispatch"}

Step == [
  pc    : Pc,
  pipe  : SUBSET Req,              \* the pipeline batch of the iteration
  repl  : SUBSET Req,              \* its replica batch
  shard : SUBSET Req,              \* KV being exchanged (live reshard)
  moved : SUBSET Req,              \* KV being moved home (live restore)
  fresh : SUBSET Pipeline,         \* the blocks taken for `moved`
  pack  : [Inst -> SUBSET Req] ]   \* requests still to be packed, by manager

NoStep == [pc |-> "idle", pipe |-> {}, repl |-> {}, shard |-> {}, moved |-> {},
           fresh |-> {}, pack |-> [i \in Inst |-> {}]]

Init ==
  /\ phase = "initial"
  /\ bm = [i \in Inst |-> InitManager]
  /\ req = [r \in Req |-> NewRequest]
  /\ stopped = [v \in Inst |-> FALSE]
  /\ step = [v \in Inst |-> NoStep]
  /\ resharding = [v \in Inst |-> FALSE]
  /\ remaining = {}

-----------------------------------------------------------------------------
Merged    == phase \notin {"initial", "stopping_followers"}
Fused     == bm[0].is_fusion_state
Engine(v) == IF Merged THEN 0 ELSE v       \* who runs virtual engine v

Idle(v) == step[v].pc = "idle"
AllIdle == \A v \in Inst : Idle(v)
Locked  == {v \in Inst : step[v].pc \in {"pack", "grow", "adopt", "dispatch"}}
Turn(v) == v \in Locked /\ \A u \in Locked : v <= u

Running(v) == {r \in Req : req[r].q = "running" /\ req[r].ve = v}
InFlight   == UNION {step[v].pipe \cup step[v].repl : v \in Inst}
Sharding   == UNION {step[v].shard : v \in Inst}  \* kvcache_ready is False

\* The managers a request has blocks on, and whether one of them is short.
WhereHome(r) == {req[r].home}                                   \* mutation
Where(r)     == IF req[r].fx THEN Inst ELSE {req[r].home}
Short(r) == \E i \in Where(r) : Lacks(bm[i], r, req[r].need) > 0

\* One manager for every instance, out of the possible ones of each.
OneEach(M) ==
  {b \in [Inst -> UNION {M[i] : i \in Inst}] : \A i \in Inst : b[i] \in M[i]}

AllocateOn(b, r, Is) ==
  [i \in Inst |-> IF i \in Is THEN Allocate(b[i], r, req[r].need, req[r].fx)
                  ELSE {b[i]}]
FreeOn(b, r, Is) ==
  [i \in Inst |-> IF i \in Is THEN Free(b[i], r, req[r].fx) ELSE {b[i]}]

\* recompute_requests and prepare_for_recompute: back to the queue of the
\* virtual engine, tokens kept as a longer prompt; is_finished is kept too.
Recomputed(r) == [req[r] EXCEPT !.q = "queued", !.ctx = TRUE, !.fx = TRUE,
                                !.home = 0]

SetPc(v, pc) == step' = [step EXCEPT ![v] = IF pc = "idle" THEN NoStep
                                            ELSE [@ EXCEPT !.pc = pc]]

-----------------------------------------------------------------------------
(* A request arrives at an engine: at its own scheduler, or at the one with *)
(* the least work once the engines are merged.                             *)
Arrive(r) ==
  /\ Locked = {}
  /\ req[r].q = "out"
  /\ \E v \in Inst, n \in 1 .. MaxLen :
       req' = [req EXCEPT ![r] = [@ EXCEPT !.q = "queued", !.ve = v, !.need = n]]
  /\ UNCHANGED <<phase, bm, stopped, step, resharding, remaining>>

-----------------------------------------------------------------------------
(* _step up to its first await.                                            *)

\* Prefill requests first, decode requests only when there is none.
Scheduled(R) ==
  LET prefill == {r \in R : req[r].ctx}
  IN  IF prefill # {} THEN prefill ELSE R

\* Blocks for the live restore of one pipeline request of the batch
\* (exchange_batch_size is 1 here): <<request, blocks>>, or nothing when the
\* instance has not enough.
Restorable(v, b, pipe) ==
  IF phase # "restore" \/ pipe = {} THEN {<<{}, {}>>}
  ELSE UNION {IF Held(b[v], r) \in 1 .. Cardinality(b[v].free_gpu)
              THEN {<<{r}, S>> : S \in kSubset(Held(b[v], r), b[v].free_gpu)}
              ELSE {<<{}, {}>>} : r \in pipe}

Launch(v, b, shard) ==
  LET batch == Scheduled(Running(v) \ shard)
      pipe  == {r \in batch : req[r].fx}
      repl  == batch \ pipe
  IN  \E take \in Restorable(v, b, pipe) :
        /\ bm' = [b EXCEPT ![v].free_gpu = @ \ take[2]]
        /\ step' = [step EXCEPT ![v] =
             [NoStep EXCEPT
                !.pc = IF pipe \cup shard # {} THEN "pipe"
                       ELSE IF repl # {} /\ ~ Fused THEN "repl" ELSE "grow",
                !.pipe = pipe, !.repl = IF Fused THEN {} ELSE repl,
                !.shard = shard, !.moved = take[1], !.fresh = take[2]]]

CanStart(v) == Locked = {} /\ Idle(v) /\ ~ stopped[Engine(v)]

\* Live reshard takes one stale request per step (exchange_batch_size is 1)
\* and allocates its blocks on the other instances, all or none.
Stale(v) == {r \in Running(v) : ~ req[r].fx}
OnPeers(r) ==
  [i \in Inst |-> IF i = req[r].home THEN {bm[i]}
                  ELSE Allocate(bm[i], r, req[r].need,
                                bm[i].is_fusion_state \/ req[r].fx)]
Placeable(r) == \A i \in Inst : OnPeers(r)[i] # {}

StartStep(v) ==
  /\ CanStart(v)
  /\ \/ ~ resharding[v]
     \/ Stale(v) = {}
     \/ \E r \in Stale(v) : ~ Placeable(r)
  /\ resharding' = [resharding EXCEPT ![v] = @ /\ Stale(v) # {}]
  /\ Launch(v, bm, {})
  /\ UNCHANGED <<phase, req, stopped, remaining>>

StartReshard(v, r) ==
  /\ CanStart(v)
  /\ resharding[v]
  /\ r \in Stale(v)
  /\ \E b \in OneEach(OnPeers(r)) : Launch(v, b, {r})
  /\ req' = [req EXCEPT ![r].q = "waiting", ![r].fx = TRUE]
  /\ UNCHANGED <<phase, stopped, resharding, remaining>>

\* _reshard_blocks_batched returns: the home instance keeps its own part.
FinishReshard(v) ==
  /\ Locked = {}
  /\ \E r \in step[v].shard :
       bm' = [bm EXCEPT ![req[r].home] = FreeIntoFusionExcept(@, r, req[r].home)]
  /\ step' = [step EXCEPT ![v].shard = {}]
  /\ UNCHANGED <<phase, req, stopped, resharding, remaining>>

-----------------------------------------------------------------------------
(* The rest of step_inner, once the workers have answered.                 *)

\* finish_one_iteration for one request: a chunk of its prompt, or a token
\* that may need one more block and may be the last one.
Advance(q) ==
  (IF q.ctx THEN {q} ELSE {})
    \cup UNION {{[q EXCEPT !.ctx = FALSE, !.need = n, !.finished = f] :
                   f \in {q.finished, TRUE}} :
                 n \in {q.need, q.need + 1} \cap (1 .. MaxLen)}

Advanced(S) ==
  {g \in [S -> UNION {Advance(req[r]) : r \in S}] :
     \A r \in S : g[r] \in Advance(req[r])}

\* After a live restore every instance frees the pipeline blocks and the
\* request goes on, as a replica request, with the fresh ones.
Restored(v) ==
  IF step[v].moved = {} THEN {bm}
  ELSE {[b EXCEPT ![v].block_table =
           [r \in Req |-> IF r \in step[v].moved THEN step[v].fresh ELSE @[r]]] :
          b \in UNION {OneEach(FreeOn(bm, r, Inst)) : r \in step[v].moved}}

EndPipe(v) ==
  /\ Locked = {}
  /\ step[v].pc = "pipe"
  /\ step[v].shard = {}
  /\ bm' \in Restored(v)
  /\ \E g \in Advanced(step[v].pipe) :
       req' = [r \in Req |->
                 IF r \in step[v].moved
                 THEN [g[r] EXCEPT !.fx = FALSE, !.home = v]
                 ELSE IF r \in step[v].pipe THEN g[r] ELSE req[r]]
  /\ LET packing == phase = "reclaiming" /\ step[v].pipe # {}
         next == IF step[v].repl # {} /\ ~ stopped[Engine(v)] THEN "repl"
                 ELSE IF packing THEN "pack" ELSE "grow"
     IN  step' = [step EXCEPT ![v] =
                    [NoStep EXCEPT
                       !.pc = next,
                       !.repl = IF next = "repl" THEN step[v].repl ELSE {},
                       !.pack = [i \in Inst |-> IF next = "pack" THEN step[v].pipe
                                                ELSE {}]]]
  /\ UNCHANGED <<phase, stopped, resharding, remaining>>

EndRepl(v) ==
  /\ Locked = {}
  /\ step[v].pc = "repl"
  /\ \E g \in Advanced(step[v].repl) :
       req' = [r \in Req |-> IF r \in step[v].repl THEN g[r] ELSE req[r]]
  /\ step' = [step EXCEPT ![v] = [NoStep EXCEPT !.pc = "grow"]]
  /\ UNCHANGED <<phase, bm, stopped, resharding, remaining>>

\* post_step: every manager packs the requests of the pipeline batch one by
\* one and stops at the first that does not fit.
Pack(v) ==
  /\ Turn(v) /\ step[v].pc = "pack"
  /\ \E i \in Inst, r \in Req :
       /\ r \in step[v].pack[i]
       /\ \A j \in Inst : j < i => step[v].pack[j] = {}
       /\ LET packed == PackOne(bm[i], r)
              left == [step[v].pack EXCEPT ![i] = IF packed = {} THEN {}
                                                  ELSE @ \ {r}]
          IN  /\ bm' \in {[bm EXCEPT ![i] = m] :
                            m \in IF packed = {} THEN {bm[i]} ELSE packed}
              /\ step' = [step EXCEPT
                            ![v].pack = left,
                            ![v].pc = IF \A j \in Inst : left[j] = {}
                                      THEN "grow" ELSE "pack"]
  /\ UNCHANGED <<phase, req, stopped, resharding, remaining>>

-----------------------------------------------------------------------------
(* _get_next_batch.                                                        *)

NextStoppedStays(v) ==                                          \* mutation
  /\ Turn(v) /\ step[v].pc = "grow" /\ stopped[Engine(v)]
  /\ UNCHANGED vars
NextStopped(v) ==
  /\ Turn(v) /\ step[v].pc = "grow" /\ stopped[Engine(v)]
  /\ SetPc(v, "idle")
  /\ UNCHANGED <<phase, bm, req, stopped, resharding, remaining>>

Growing(v) == Turn(v) /\ step[v].pc = "grow" /\ ~ stopped[Engine(v)]
Finished(v) == {r \in Running(v) : req[r].finished}

\* A request that leaves is never read again: its fields are reset.
FreeFinished(v, r) ==
  /\ Growing(v)
  /\ r \in Finished(v)
  /\ bm' \in OneEach(FreeOn(bm, r, Where(r)))
  /\ req' = [req EXCEPT ![r] = [NewRequest EXCEPT !.q = "done"]]
  /\ UNCHANGED <<phase, stopped, step, resharding, remaining>>

Grow(v, r) ==
  /\ Growing(v)
  /\ Finished(v) = {}
  /\ r \in Running(v) /\ Short(r)
  /\ bm' \in OneEach(AllocateOn(bm, r, Where(r)))
  /\ UNCHANGED <<phase, req, stopped, step, resharding, remaining>>

\* get_latest_running_request: a decoding request of the same queue and kind.
VictimsAnywhere(v, r) ==                                        \* mutation
  {w \in Req : /\ req[w].q = "running" /\ ~ req[w].ctx
               /\ req[w].fx = req[r].fx
               /\ req[w].fx \/ req[w].home = req[r].home}
Victims(v, r) ==
  {w \in Running(v) : /\ ~ req[w].ctx
                      /\ req[w].fx = req[r].fx
                      /\ req[w].fx \/ req[w].home = req[r].home}

\* The managers before the first one that fails have already allocated.  A
\* victim is recomputed; without one the batch is left as it is.
Preempt(v, r) ==
  LET fails == {i \in Where(r) : Allocate(bm[i], r, req[r].need, req[r].fx) = {}}
      first == CHOOSE i \in fails : \A j \in fails : i <= j
  IN  /\ Growing(v)
      /\ Finished(v) = {}
      /\ r \in Running(v)
      /\ fails # {}
      /\ \E b \in OneEach(AllocateOn(bm, r, {i \in Where(r) : i < first})) :
           IF Victims(v, r) = {} THEN bm' = b /\ SetPc(v, "idle") /\ UNCHANGED req
           ELSE \E w \in Victims(v, r) :
                  /\ bm' \in OneEach(FreeOn(b, w, Where(w)))
                  /\ req' = [req EXCEPT ![w] = Recomputed(w)]
                  /\ UNCHANGED step
      /\ UNCHANGED <<phase, stopped, resharding, remaining>>

Queued(v)   == {r \in Req : req[r].q = "queued" /\ req[r].ve = v}
Adoptable(v) ==
  {r \in Req : req[r].q = "waiting" /\ req[r].ve = v /\ r \notin Sharding}

Grown(v) ==
  /\ Growing(v)
  /\ \A r \in Running(v) : ~ req[r].finished /\ ~ Short(r)
  /\ SetPc(v, IF Adoptable(v) # {} THEN "adopt"
              ELSE IF Queued(v) # {} THEN "dispatch" ELSE "idle")
  /\ UNCHANGED <<phase, bm, req, stopped, resharding, remaining>>

\* _check_add_to_cur_batch marks the request whether or not it fits.
Checked(r, v, q) == [req[r] EXCEPT !.q = q, !.fx = Fused, !.home = v]

\* A resharded request rejoins the batch, or the batch is full.
Adopt(v, r) ==
  /\ Turn(v) /\ step[v].pc = "adopt"
  /\ r \in Adoptable(v)
  /\ \E fits \in BOOLEAN :
       /\ req' = [req EXCEPT ![r] = Checked(r, v, IF fits THEN "running" ELSE "waiting")]
       /\ SetPc(v, IF fits /\ Adoptable(v) # {r} THEN "adopt"
                   ELSE IF Queued(v) # {} THEN "dispatch" ELSE "idle")
  /\ UNCHANGED <<phase, bm, stopped, resharding, remaining>>

Fits(r, v) ==
  \A i \in IF Fused THEN Inst ELSE {v} : req[r].need <= FreeBlocks(bm[i])

\* Admission ends with the queue, or after a request that used up the
\* token budget of the batch.
Admit(v, r) ==
  /\ Turn(v) /\ step[v].pc = "dispatch"
  /\ r \in Queued(v) /\ Fits(r, v)
  /\ LET rq == Checked(r, v, "running")
     IN  /\ req' = [req EXCEPT ![r] = rq]
         /\ bm' \in OneEach([i \in Inst |->
                       IF Fused \/ i = v THEN Allocate(bm[i], r, rq.need, rq.fx)
                       ELSE {bm[i]}])
  /\ \E more \in BOOLEAN :
       SetPc(v, IF more /\ Queued(v) # {r} THEN "dispatch" ELSE "idle")
  /\ UNCHANGED <<phase, stopped, resharding, remaining>>

\* Too few blocks, or a limit on requests or tokens of the batch.
Refuse(v, r) ==
  /\ Turn(v) /\ step[v].pc = "dispatch"
  /\ r \in Queued(v)
  /\ req' = [req EXCEPT ![r] = Checked(r, v, "queued")]
  /\ SetPc(v, "idle")
  /\ UNCHANGED <<phase, bm, stopped, resharding, remaining>>

-----------------------------------------------------------------------------
(* INITIAL -> BALLOON.                                                     *)

\* Instances vote; one that votes stops itself.  The group balloons on its
\* own quorum or because another group asked for it.  Followers are stopped.
VoteBalloon(S) ==
  LET quorum == S # {} /\ Cardinality(S) >= F \div 2
  IN  /\ Locked = {}
      /\ phase = "initial"
      /\ phase' \in (IF quorum THEN {} ELSE {"initial"}) \cup {"stopping_followers"}
      /\ stopped' = [v \in Inst |->
                       \/ stopped[v]
                       \/ v \in S
                       \/ phase' = "stopping_followers" /\ v # 0]
      /\ UNCHANGED <<bm, req, step, resharding, remaining>>

\* restore_block_manager_from_data: a follower's manager is handed to the
\* leader, and back; the leader keeps its own.
Given(i, m) == IF i = 0 THEN m ELSE Handed(m)

\* The leader takes over the idle followers' schedulers and managers and
\* changes the format of the blocks; its own step may still be in flight.
Merge ==
  /\ Locked = {}
  /\ phase = "stopping_followers"
  /\ \A v \in Inst \ {0} : Idle(v)
  /\ phase' = "dropping"
  /\ stopped' = [stopped EXCEPT ![0] = TRUE]
  /\ req' = [r \in Req |-> IF req[r].q = "running"
                           THEN [req[r] EXCEPT !.home = req[r].ve] ELSE req[r]]
  /\ bm' = [i \in Inst |-> ConvertToPipeline(Given(i, bm[i]))]
  /\ UNCHANGED <<step, resharding, remaining>>

\* pmm_drop answers after the leader's step: a worker serves in order.  Then
\* the stale requests are taken care of.
DropParameters ==
  /\ Locked = {}
  /\ phase = "dropping"
  /\ AllIdle
  /\ phase' = "handling"
  /\ bm' = [i \in Inst |-> AddExtend(bm[i])]
  /\ LET stale == UNION {Stale(v) : v \in Inst}
         early == IF Mode = "reshard" THEN stale ELSE {}
     IN  /\ remaining' = early
         /\ req' = [r \in Req |-> [req[r] EXCEPT !.fx = @ \/ r \in early]]
  /\ resharding' = [v \in Inst |-> Mode = "livereshard"]
  /\ UNCHANGED <<stopped, step>>

RecomputeStale(r) ==
  /\ phase = "handling" /\ Mode = "recompute"
  /\ req[r].q = "running" /\ ~ req[r].fx
  /\ bm' \in OneEach(FreeOn(bm, r, Where(r)))
  /\ req' = [req EXCEPT ![r] = Recomputed(r)]
  /\ UNCHANGED <<phase, stopped, step, resharding, remaining>>

\* reshard_blocks, one request per exchange (exchange_batch_size is 1).
Reshard(r) ==
  /\ phase = "handling"
  /\ r \in remaining
  /\ bm' \in {[b EXCEPT ![req[r].home] = FreeIntoFusionExcept(@, r, req[r].home)] :
                b \in OneEach(OnPeers(r))}
  /\ remaining' = remaining \ {r}
  /\ UNCHANGED <<phase, req, stopped, step, resharding>>

GiveUpReshard ==
  /\ phase = "handling"
  /\ \E r \in remaining : ~ Placeable(r)
  /\ remaining' = {}
  /\ UNCHANGED <<phase, bm, req, stopped, step, resharding>>

\* Every virtual engine looks for its next batch before the first step.
NoFirstBatch == [v \in Inst |-> NoStep]                         \* mutation
FirstBatch   == [v \in Inst |-> [NoStep EXCEPT !.pc = "grow"]]

\* Half of the difference moves from the busiest to the least busy virtual
\* engine.
EnterBalloon ==
  LET load(v) == Cardinality(Running(v))
  IN  /\ phase = "handling"
      /\ remaining = {}
      /\ Mode = "recompute" => \A v \in Inst : Stale(v) = {}
      /\ phase' = "balloon"
      /\ bm' = [i \in Inst |-> ConvertReserved(bm[i])]
      /\ \E busiest, laziest \in Inst :
           /\ \A v \in Inst : load(v) < load(busiest) \/ (load(v) = load(busiest) /\ busiest <= v)
           /\ \A v \in Inst : load(laziest) < load(v) \/ (load(v) = load(laziest) /\ laziest <= v)
           /\ \E S \in kSubset((load(busiest) - load(laziest)) \div 2,
                              Running(busiest)) :
                req' = [r \in Req |-> IF r \in S THEN [req[r] EXCEPT !.ve = laziest]
                                      ELSE req[r]]
      /\ stopped' = [stopped EXCEPT ![0] = FALSE]
      /\ step' = FirstBatch
      /\ UNCHANGED <<resharding, remaining>>

-----------------------------------------------------------------------------
(* BALLOON -> RESTORE -> INITIAL.                                          *)

StartReclaim ==
  /\ Locked = {} /\ AllowRestore /\ phase = "balloon"
  /\ phase' = "reclaiming"
  /\ UNCHANGED <<bm, req, stopped, step, resharding, remaining>>

Reclaim(i) ==
  /\ Locked = {} /\ phase = "reclaiming"
  /\ bm[i].max_extend > 0
  /\ bm[i].free_extend # {}
  /\ bm' = [bm EXCEPT ![i] = PollExtend(@)]
  /\ UNCHANGED <<phase, req, stopped, step, resharding, remaining>>

EndReclaimEarly ==                                              \* mutation
  /\ Locked = {} /\ phase = "reclaiming"
  /\ \A i \in Inst : bm[i].free_extend = {}
  /\ phase' = "reloading"
  /\ UNCHANGED <<bm, req, stopped, step, resharding, remaining>>
EndReclaim ==
  /\ Locked = {} /\ phase = "reclaiming"
  /\ \A i \in Inst : bm[i].max_extend <= 0
  /\ phase' = "reloading"
  /\ UNCHANGED <<bm, req, stopped, step, resharding, remaining>>

\* pmm_restore has reloaded the parameters; all engines are told to stop.
Reloaded ==
  /\ Locked = {} /\ phase = "reloading"
  /\ phase' = "stopping"
  /\ stopped' = [v \in Inst |-> TRUE]
  /\ UNCHANGED <<bm, req, step, resharding, remaining>>

RestoreInstance ==
  /\ phase = "stopping" /\ AllIdle
  /\ phase' = "restore"
  /\ bm' \in OneEach([i \in Inst |-> RestoreKv(bm[i])])
  /\ stopped' = [stopped EXCEPT ![0] = FALSE]
  /\ UNCHANGED <<req, step, resharding, remaining>>

VoteInit ==
  /\ Locked = {} /\ phase = "restore"
  /\ \A r \in Req : req[r].q \in {"running", "waiting", "queued"} => ~ req[r].fx
  /\ phase' = "stopping_init"
  /\ stopped' = [v \in Inst |-> TRUE]
  /\ UNCHANGED <<bm, req, step, resharding, remaining>>

\* split_engine and set_instance_properties, which takes every queue of a
\* follower over except its waiting queue; then trigger_init everywhere.
Split ==
  /\ phase = "stopping_init" /\ AllIdle
  /\ bm' \in OneEach([i \in Inst |-> {Given(i, m) : m \in RestoreFromFusion(bm[i])}])
  /\ req' = [r \in Req |->
               IF req[r].ve = 0 THEN req[r]
               ELSE IF req[r].q = "running" THEN [req[r] EXCEPT !.home = req[r].ve]
               ELSE IF req[r].q = "waiting" THEN [req[r] EXCEPT !.q = "lost"]
               ELSE req[r]]
  /\ stopped' = [v \in Inst |-> FALSE]
  /\ phase' = "initial"
  /\ UNCHANGED <<step, resharding, remaining>>

-----------------------------------------------------------------------------
StepOf(v) ==
  \/ StartStep(v)
  \/ FinishReshard(v) \/ EndPipe(v) \/ EndRepl(v)
  \/ Pack(v) \/ NextStopped(v) \/ Grown(v)
  \/ \E r \in Req : \/ StartReshard(v, r)
                    \/ FreeFinished(v, r) \/ Grow(v, r) \/ Preempt(v, r)
                    \/ Adopt(v, r) \/ Admit(v, r) \/ Refuse(v, r)

Balloon ==
  \/ \E S \in SUBSET Inst : VoteBalloon(S)
  \/ Merge \/ DropParameters
  \/ \E r \in Req : RecomputeStale(r) \/ Reshard(r)
  \/ GiveUpReshard \/ EnterBalloon

Restore ==
  \/ StartReclaim \/ EndReclaim \/ Reloaded
  \/ \E i \in Inst : Reclaim(i)
  \/ RestoreInstance \/ VoteInit \/ Split

Next ==
  \/ \E r \in Req : Arrive(r)
  \/ \E v \in Inst : StepOf(v)
  \/ Balloon \/ Restore

Spec == Init /\ [][Next]_vars

\* The event loop resumes a coroutine whose await is over, workers answer, and
\* a virtual engine whose step ended is given its next one; the routines of
\* llm_engine.py poll until they may go on.  A coroutine may find the loop
\* taken again and again, hence strong fairness.  Nobody has to vote.
Fairness ==
  /\ \A v \in Inst : SF_vars(StepOf(v))
  /\ SF_vars(Merge \/ DropParameters \/ EnterBalloon)
  /\ \A r \in Req : SF_vars(RecomputeStale(r)) /\ SF_vars(Reshard(r))
  /\ SF_vars(GiveUpReshard)
  /\ SF_vars(Reloaded \/ RestoreInstance \/ Split)

FairSpec == Spec /\ Fairness

-----------------------------------------------------------------------------
(* Properties.                                                             *)

\* Every variable has its type; in particular no extended block ever gets
\* into a list of blocks of the base region, and no number leaves its range.
TypeOK ==
  /\ phase \in Phase
  /\ bm \in [Inst -> Manager]
  /\ req \in [Req -> Request]
  /\ stopped \in [Inst -> BOOLEAN]
  /\ step \in [Inst -> Step]
  /\ resharding \in [Inst -> BOOLEAN]
  /\ remaining \in SUBSET Req

\* The requests whose blocks on instance i are local blocks: those not marked
\* for the pipeline, and those that are marked but not exchanged yet.
Unexchanged == remaining \cup Sharding
LocalOn(i)  == {r \in Req : ~ req[r].fx \/ (r \in Unexchanged /\ req[r].home = i)}

\* No block is lost and none is given out twice: through every change of
\* format, exchange, recompute and live restore the pools, the requests and
\* the restores in flight share the memory of an instance out exactly, and
\* a request that is in no batch owns nothing.
BlocksPartitioned ==
  \A i \in Inst :
    /\ Partition(Shares(bm[i], LocalOn(i), step[i].fresh))
    /\ \A r \in Req : req[r].q \in {"out", "queued", "done"} =>
                        bm[i].block_table[r] = {}

\* The counters of the pools always add up to the instance's memory, so that
\* the assertion of restore_from_fusion cannot fail.
CapacityConserved ==
  \A i \in Inst :
    LET m == bm[i]
    IN  IF m.is_fusion_state THEN m.max_reserved * F + m.max_fusion = N * F
        ELSE m.max_gpu * F + m.max_reserved = N * F

\* The extended blocks on loan are the free ones and those in block tables:
\* each is one of the two and has one owner, and max_extend counts them.
ExtendAccounted ==
  \A i \in Inst :
    LET m == bm[i]
        held == Extend \cap UNION {m.block_table[r] : r \in Req}
    IN  /\ \A r \in Req : m.free_extend \cap m.block_table[r] = {}
        /\ \A r, s \in Req : r # s =>
             Extend \cap m.block_table[r] \cap m.block_table[s] = {}
        /\ Cardinality(m.free_extend \cup held) = m.max_extend

\* Once the parameters are being reloaded over the extended region, neither
\* a pool nor a request refers to it (reclaim_extra_blocks).
ExtendReclaimed ==
  phase \in {"reloading", "stopping", "restore", "stopping_init", "initial"} =>
    \A i \in Inst :
      /\ bm[i].free_extend = {}
      /\ \A r \in Req : bm[i].block_table[r] \cap Extend = {}

\* A batch on the workers has, on each instance that runs it, the blocks its
\* tokens need: the whole group for a pipeline batch, the instance of the
\* virtual engine for a replica batch.
ScheduledBacked ==
  \A v \in Inst :
    /\ \A r \in step[v].pipe, i \in Inst : Held(bm[i], r) >= req[r].need
    /\ \A r \in step[v].repl : Held(bm[v], r) >= req[r].need

\* The blocks of a request do not change while its batch is on the workers,
\* whatever the other virtual engines and the group do meanwhile.
InFlightKeepsBlocks ==
  [][\A r \in Req : r \in InFlight /\ r \in InFlight' =>
       \A i \in Inst : bm'[i].block_table[r] = bm[i].block_table[r]]_vars

\* A finished request is not run again (the automaton of llm_engine.py, in
\* which Finished is final).
FinishedIsFinal == \A r \in InFlight : ~ req[r].finished

\* "All stale requests are handled before this line": when the group starts
\* to run as a pipeline, a request marked for it is on every instance.
StaleHandled ==
  [][phase = "handling" /\ phase' = "balloon" =>
       \A r \in Req : req[r].q = "running" =>
         \A i \in Where(r) : bm[i].block_table[r] # {}]_vars

\* A change of state that has stopped engines completes: the engines that
\* must fall idle do, every stale request is taken care of, and the group
\* serves again.
SwitchesComplete ==
  /\ phase = "stopping_followers" ~> phase = "balloon"
  /\ phase = "stopping" ~> phase = "restore"
  /\ phase = "stopping_init" ~> phase = "initial"

\* "when j != i, they are fused IDs allocated on instance i's block manager"
\* (_reshard_blocks_batched): an exchange has its destination blocks in the
\* pipeline format.
ExchangeIntoFused ==
  \A v \in Inst : \A r \in step[v].shard :
    \A i \in Inst \ {req[r].home} : bm[i].is_fusion_state
=============================================================================
