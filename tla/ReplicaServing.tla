--------------------------- MODULE ReplicaServing ---------------------------
(***************************************************************************)
(* Instances that serve on their own, before any balloon, with the two     *)
(* ways of easing a shortage of memory that do not drop parameters:        *)
(* swapping requests to blocks of the CPU (trigger_swap and                *)
(* swap_in_request of colocated_scheduler.py, swap_one_request of          *)
(* block_manager.py) and moving waiting requests to another instance       *)
(* (_get_next_batch of flash_backend.py).  Both wait for remote calls      *)
(* while the virtual engine that makes its next batch holds                *)
(* allocate_blocks_lock.                                                   *)
(*                                                                         *)
(* An instance is one actor with one event loop.  Code between two awaits  *)
(* is split into one action per call; while a virtual engine is inside     *)
(* (Occupied), nothing else happens on its instance.                       *)
(*                                                                         *)
(* Lists of free blocks are sets: any subset of the right size is taken.   *)
(* Queues are sets too, except the swapped one: which request is first     *)
(* does not matter to what is stated here.                                 *)
(***************************************************************************)
EXTENDS Integers, Sequences, FiniteSets, FiniteSetsExt, SequencesExt

CONSTANTS
  Instance,    \* the instances of a group
  V,           \* virtual engines per instance (pipeline_parallel_size)
  Req,
  Gpu, Cpu,    \* blocks of an instance
  BlockSize,   \* tokens per block
  Prompts,     \* lengths of prompts
  Limit,       \* max_tokens of every call
  MaxBatch,    \* max_batch_size
  Migration,   \* bench_config.enable_migration
  None         \* no virtual engine, no request

ASSUME ServingAssumption ==
  /\ V \in Nat \ {0}
  /\ IsFiniteSet(Gpu) /\ IsFiniteSet(Cpu) /\ Gpu \cap Cpu = {}
  /\ BlockSize \in Nat \ {0}
  /\ Prompts \subseteq Nat \ {0}
  /\ Limit \in Nat \ {0}
  /\ MaxBatch \in Nat \ {0}
  /\ Migration \in BOOLEAN
  /\ None \notin Instance /\ None \notin 0 .. V - 1

Ve     == 0 .. V - 1
Engine == Instance \X Ve

\* BlockLocation.
Device    == {"gpu", "cpu"}
Blocks(d) == IF d = "gpu" THEN Gpu ELSE Cpu

VARIABLES
  free, swapping,    \* the lists of blocks, by instance and device
  table, location,   \* block_table and request_location, by request
  prompt, generated, \* tokens of a request
  home,              \* the instance a request is on
  unaccepted,        \* unaccepted_queue of an instance
  running,           \* running_queue of a virtual engine
  swapped,           \* swapped_queue of a virtual engine
  step,              \* the _step of a virtual engine
  lock,              \* allocate_blocks_lock of an instance: who holds it
  migrating          \* is_migrating_out of an instance

pools    == <<free, swapping, table, location>>
requests == <<prompt, generated, home>>
queues   == <<unaccepted, running, swapped>>
vars     == <<pools, requests, queues, step, lock, migrating>>

\* Where the _step of a virtual engine is: in the workers with a batch, held
\* up at the lock, in one of the parts of _get_next_batch, or waiting there for
\* a remote call: about the requests `who`, to the instance `to`.
Idle  == [at |-> "idle", batch |-> {}, who |-> {}, to |-> None]
At(p) == [Idle EXCEPT !.at = p]

Inside == {"blocked", "grow", "fetch", "extend", "look", "admit"}
Awaits == {"out", "in", "poll", "told", "send", "sent"}

Init ==
  /\ free = [i \in Instance |-> [d \in Device |-> Blocks(d)]]
  /\ swapping = [i \in Instance |-> [d \in Device |-> {}]]
  /\ table = [r \in Req |-> {}]
  /\ location = [r \in Req |-> "none"]
  /\ prompt = [r \in Req |-> 0]
  /\ generated = [r \in Req |-> 0]
  /\ home = [r \in Req |-> None]
  /\ unaccepted = [i \in Instance |-> {}]
  /\ running = [e \in Engine |-> {}]
  /\ swapped = [e \in Engine |-> <<>>]
  /\ step = [e \in Engine |-> Idle]
  /\ lock = [i \in Instance |-> None]
  /\ migrating = [i \in Instance |-> FALSE]

Need(r)    == (prompt[r] + generated[r] + BlockSize - 1) \div BlockSize
Lacks(r)   == Need(r) - Cardinality(table[r])
Context(r) == generated[r] = 0

FreeGpu(i) == Cardinality(free[i]["gpu"])        \* get_num_free_gpu_blocks

\* The event loop of i is in the middle of something, or stuck in the lock.
Occupied(i) == \E v \in Ve : step[<<i, v>>].at \in Inside

-----------------------------------------------------------------------------
(* Blocks.                                                                 *)

\* _get_free_blocks: what n blocks may be, and what is left; {} if there are
\* not enough.  Blocks whose content is being copied away are waited for.
Taken(i, d, n) ==
  LET missing == n - Cardinality(free[i][d])
  IN  IF missing <= 0
      THEN {[got |-> S, free |-> free[i][d] \ S, swapping |-> swapping[i][d]] :
              S \in kSubset(n, free[i][d])}
      ELSE {[got |-> free[i][d] \cup S, free |-> swapping[i][d] \ S,
             swapping |-> {}] : S \in kSubset(missing, swapping[i][d])}

CanTake(i, d, n) == n <= Cardinality(free[i][d]) + Cardinality(swapping[i][d])

\* allocate_blocks: r gets what it lacks.
Allocate(r) ==
  \E t \in Taken(home[r], "gpu", Lacks(r)) :
    /\ free' = [free EXCEPT ![home[r]]["gpu"] = t.free]
    /\ swapping' = [swapping EXCEPT ![home[r]]["gpu"] = t.swapping]
    /\ table' = [table EXCEPT ![r] = @ \cup t.got]
    /\ location' = [location EXCEPT ![r] = "gpu"]

\* mutation: the new blocks are entered before the old ones are given up.
SwapOneKeeping(r, from, to) ==
  \E t \in Taken(home[r], to, Cardinality(table[r])) :
    /\ free' = [free EXCEPT ![home[r]][to] = t.free]
    /\ swapping' = [swapping EXCEPT ![home[r]][to] = t.swapping,
                                    ![home[r]][from] = @ \cup t.got]
    /\ table' = [table EXCEPT ![r] = t.got]
    /\ location' = [location EXCEPT ![r] = to]

\* swap_one_request, up to the copying; `from' is the other device.
SwapOne(r, from, to) ==
  \E t \in Taken(home[r], to, Cardinality(table[r])) :
    /\ free' = [free EXCEPT ![home[r]][to] = t.free]
    /\ swapping' = [swapping EXCEPT ![home[r]] =
         [d \in Device |-> IF d = to THEN t.swapping
                           ELSE swapping[home[r]][d] \cup table[r]]]
    /\ table' = [table EXCEPT ![r] = t.got]
    /\ location' = [location EXCEPT ![r] = to]

\* swap_one_request, once the copying has been waited for.
Settle(i, d) ==
  /\ free' = [free EXCEPT ![i][d] = @ \cup swapping[i][d]]
  /\ swapping' = [swapping EXCEPT ![i][d] = {}]
  /\ UNCHANGED <<table, location>>

\* free_blocks_batched.
FreeBlocks(i, S) ==
  /\ free' = [free EXCEPT ![i]["gpu"] = @ \cup UNION {table[r] : r \in S}]
  /\ table' = [r \in Req |-> IF r \in S THEN {} ELSE table[r]]
  /\ location' = [r \in Req |-> IF r \in S THEN "none" ELSE location[r]]
  /\ UNCHANGED swapping

-----------------------------------------------------------------------------
(* add_request.                                                            *)
Arrive(r, i) ==
  /\ home[r] = None
  /\ ~ Occupied(i)
  /\ home' = [home EXCEPT ![r] = i]
  /\ \E n \in Prompts : prompt' = [prompt EXCEPT ![r] = n]
  /\ unaccepted' = [unaccepted EXCEPT ![i] = @ \cup {r}]
  /\ UNCHANGED <<pools, generated, running, swapped, step, lock, migrating>>

(* _step up to its first await.                                            *)

\* schedule: prefill requests if there are any.
Scheduled(e) ==
  LET prefills == {r \in running[e] : Context(r)}
  IN  IF prefills # {} THEN prefills ELSE running[e]

\* A step that finds nothing to do and nobody to admit is left out.
StartStep(e) ==
  /\ step[e].at = "idle"
  /\ ~ Occupied(e[1])
  /\ running[e] # {} \/ swapped[e] # <<>> \/ unaccepted[e[1]] # {}
  /\ step' = [step EXCEPT ![e] = [At("forward") EXCEPT !.batch = Scheduled(e)]]
  /\ UNCHANGED <<pools, requests, queues, lock, migrating>>

\* mutation: the lock is taken whoever has it.
AcquireAnyway(e) ==
  /\ lock' = [lock EXCEPT ![e[1]] = e[2]]
  /\ step' = [step EXCEPT ![e] = At("grow")]

\* `with self.allocate_blocks_lock': a lock of threads, not of coroutines.  If
\* another virtual engine has it, the event loop that would resume that engine
\* is stopped here.
Acquire(e) ==
  IF lock[e[1]] = None
  THEN /\ lock' = [lock EXCEPT ![e[1]] = e[2]]
       /\ step' = [step EXCEPT ![e] = At("grow")]
  ELSE /\ step' = [step EXCEPT ![e] = At("blocked")]
       /\ UNCHANGED lock

\* mutation: who has all its tokens runs on.
FinishedLate(S) == {r \in S : generated[r] + 1 > Limit}

\* The requests of the batch S that get their last token.
Finished(S) == {r \in S : generated[r] + 1 >= Limit}

\* The workers answer.  Finished requests are released if the lock is free.
EndForward(e) ==
  LET S == step[e].batch
  IN  /\ step[e].at = "forward"
      /\ ~ Occupied(e[1])
      /\ generated' = [r \in Req |-> IF r \in S THEN generated[r] + 1
                                     ELSE generated[r]]
      /\ Acquire(e)
      /\ IF step'[e].at = "grow"
         THEN /\ FreeBlocks(e[1], Finished(S))
              /\ running' = [running EXCEPT ![e] = @ \ Finished(S)]
         ELSE UNCHANGED <<pools, running>>
      /\ UNCHANGED <<prompt, home, unaccepted, swapped, migrating>>

-----------------------------------------------------------------------------
(* _get_next_batch, step 1: blocks for the next token of the batch.        *)

Go(e, p) == step' = [step EXCEPT ![e] = At(p)]

Release(e) ==
  /\ lock' = [lock EXCEPT ![e[1]] = None]
  /\ step' = [step EXCEPT ![e] = Idle]

Grow(e) ==
  /\ step[e].at = "grow"
  /\ \E r \in running[e] :
       /\ Lacks(r) > 0 /\ CanTake(e[1], "gpu", Lacks(r))
       /\ Allocate(r)
  /\ UNCHANGED <<requests, queues, step, lock, migrating>>

Short(e) == \E r \in running[e] : ~ CanTake(e[1], "gpu", Lacks(r))

Grown(e) ==
  /\ step[e].at = "grow"
  /\ \A r \in running[e] : Lacks(r) <= 0
  /\ Go(e, "fetch")
  /\ UNCHANGED <<pools, requests, queues, lock, migrating>>

\* mutation: of the whole instance.
VictimsAnywhere(e) ==
  {r \in UNION {running[<<e[1], v>>] : v \in Ve} : ~ Context(r)}

\* get_latest_running_request.
Victims(e) == {r \in running[e] : ~ Context(r)}

\* trigger_swap, as far as the copying.
SwapOut(e) ==
  /\ step[e].at = "grow" /\ Short(e)
  /\ \E r \in Victims(e) :
       /\ CanTake(e[1], "cpu", Cardinality(table[r]))
       /\ SwapOne(r, "gpu", "cpu")
       /\ running' = [running EXCEPT ![e] = @ \ {r}]
       /\ step' = [step EXCEPT ![e] = [At("out") EXCEPT !.who = {r}]]
  /\ UNCHANGED <<requests, unaccepted, swapped, lock, migrating>>

\* mutation: without a look for a victim.
GiveUpAtOnce(e) ==
  /\ step[e].at = "grow" /\ Short(e)
  /\ Release(e)
  /\ UNCHANGED <<pools, requests, queues, migrating>>

\* No victim, or no room on the CPU: the next batch is what it is.
GiveUp(e) ==
  /\ step[e].at = "grow" /\ Short(e)
  /\ \/ Victims(e) = {}
     \/ \E r \in Victims(e) : ~ CanTake(e[1], "cpu", Cardinality(table[r]))
  /\ Release(e)
  /\ UNCHANGED <<pools, requests, queues, migrating>>

\* mutation: the request stays in the batch as well.
SwappedOutKept(e) ==
  /\ step[e].at = "out" /\ ~ Occupied(e[1])
  /\ Settle(e[1], "gpu")
  /\ \E r \in step[e].who : swapped' = [swapped EXCEPT ![e] = Append(@, r)]
  /\ running' = [running EXCEPT ![e] = @ \cup step[e].who]
  /\ Go(e, "grow")
  /\ UNCHANGED <<requests, unaccepted, lock, migrating>>

SwappedOut(e) ==
  /\ step[e].at = "out" /\ ~ Occupied(e[1])
  /\ Settle(e[1], "gpu")
  /\ \E r \in step[e].who : swapped' = [swapped EXCEPT ![e] = Append(@, r)]
  /\ Go(e, "grow")
  /\ UNCHANGED <<requests, unaccepted, running, lock, migrating>>

-----------------------------------------------------------------------------
(* Step 3: swapped requests come back, in order, while they fit.           *)

\* _check_add_to_cur_batch; a batch has room for all tokens.
Fits(e, r, batch) ==
  Need(r) <= FreeGpu(e[1]) /\ Cardinality(batch) < MaxBatch

\* mutation: one block has to stay free.
CanReturnStrictly(e) ==
  Fits(e, Head(swapped[e]), running[e]) /\ Need(Head(swapped[e])) < FreeGpu(e[1])

CanReturn(e) == Fits(e, Head(swapped[e]), running[e])

SwapIn(e) ==
  /\ step[e].at = "fetch" /\ swapped[e] # <<>>
  /\ CanReturn(e)
  /\ SwapOne(Head(swapped[e]), "cpu", "gpu")
  /\ swapped' = [swapped EXCEPT ![e] = Tail(@)]
  /\ step' = [step EXCEPT ![e] = [At("in") EXCEPT !.who = {Head(swapped[e])}]]
  /\ UNCHANGED <<requests, unaccepted, running, lock, migrating>>

SwappedIn(e) ==
  /\ step[e].at = "in" /\ ~ Occupied(e[1])
  /\ Settle(e[1], "cpu")
  /\ running' = [running EXCEPT ![e] = @ \cup step[e].who]
  /\ step' = [step EXCEPT ![e].at = "extend"]
  /\ UNCHANGED <<requests, unaccepted, swapped, lock, migrating>>

\* The block for the next token, if one more is needed.
Extend(e) ==
  /\ step[e].at = "extend"
  /\ \E r \in step[e].who : IF Lacks(r) > 0 THEN Allocate(r) ELSE UNCHANGED pools
  /\ Go(e, "fetch")
  /\ UNCHANGED <<requests, queues, lock, migrating>>

Fetched(e) ==
  /\ step[e].at = "fetch"
  /\ swapped[e] # <<>> => ~ CanReturn(e)
  /\ Go(e, IF Migration /\ e[2] = 0 THEN "look" ELSE "admit")
  /\ UNCHANGED <<pools, requests, queues, lock, migrating>>

-----------------------------------------------------------------------------
(* Step 4: requests that wait may move to an instance with less load.      *)

Pending(i) == MapThenSumSet(Need, unaccepted[i])

\* Poll the loads; which instance has the least of them is left open, and so
\* is whether it has less than this one.
Look(e) ==
  /\ step[e].at = "look"
  /\ IF Pending(e[1]) >= FreeGpu(e[1])
     THEN \E j \in Instance \ {e[1]} :
            step' = [step EXCEPT ![e] = [At("poll") EXCEPT !.to = j]]
     ELSE Go(e, "admit")
  /\ UNCHANGED <<pools, requests, queues, lock, migrating>>

\* is_migrating of the other instance, which may be out of date when it
\* arrives.
Tell(e) ==
  /\ step[e].at = "poll" /\ ~ Occupied(step[e].to)
  /\ step' = [step EXCEPT ![e].at = IF migrating[step[e].to] THEN "sent" ELSE "told"]
  /\ UNCHANGED <<pools, requests, queues, lock, migrating>>

\* mutation: a copy stays behind.
MigrateCopy(e) ==
  /\ step[e].at = "told" /\ ~ Occupied(e[1])
  /\ \E S \in SUBSET unaccepted[e[1]] :
       /\ migrating' = [migrating EXCEPT ![e[1]] = S # {}]
       /\ step' = [step EXCEPT ![e] = IF S = {} THEN At("admit")
                                      ELSE [@ EXCEPT !.at = "send", !.who = S]]
  /\ UNCHANGED <<pools, requests, queues, lock>>

\* Some requests, or none, leave; is_migrating_out is set.
Migrate(e) ==
  /\ step[e].at = "told" /\ ~ Occupied(e[1])
  /\ \E S \in SUBSET unaccepted[e[1]] :
       /\ unaccepted' = [unaccepted EXCEPT ![e[1]] = @ \ S]
       /\ migrating' = [migrating EXCEPT ![e[1]] = S # {}]
       /\ step' = [step EXCEPT ![e] = IF S = {} THEN At("admit")
                                      ELSE [@ EXCEPT !.at = "send", !.who = S]]
  /\ UNCHANGED <<pools, requests, running, swapped, lock>>

\* add_requests of the other instance.
AddRequests(e) ==
  LET j == step[e].to
  IN  /\ step[e].at = "send" /\ ~ Occupied(j)
      /\ unaccepted' = [unaccepted EXCEPT ![j] = @ \cup step[e].who]
      /\ home' = [r \in Req |-> IF r \in step[e].who THEN j ELSE home[r]]
      /\ step' = [step EXCEPT ![e] = At("sent")]
      /\ UNCHANGED <<pools, prompt, generated, running, swapped, lock, migrating>>

\* The calls have been answered.
Migrated(e) ==
  /\ step[e].at = "sent" /\ ~ Occupied(e[1])
  /\ migrating' = [migrating EXCEPT ![e[1]] = FALSE]
  /\ Go(e, "admit")
  /\ UNCHANGED <<pools, requests, queues, lock>>

-----------------------------------------------------------------------------
(* Then schedule_prefill: prefill requests are counted apart from decodes. *)

CanAdmit(e, r) == Fits(e, r, {q \in running[e] : Context(q)})

Admit(e) ==
  /\ step[e].at = "admit"
  /\ \E r \in unaccepted[e[1]] :
       /\ CanAdmit(e, r)
       /\ Allocate(r)
       /\ unaccepted' = [unaccepted EXCEPT ![e[1]] = @ \ {r}]
       /\ running' = [running EXCEPT ![e] = @ \cup {r}]
  /\ UNCHANGED <<requests, swapped, step, lock, migrating>>

\* The first request in the queue, if any, does not fit.
Admitted(e) ==
  /\ step[e].at = "admit"
  /\ \/ unaccepted[e[1]] = {}
     \/ \E r \in unaccepted[e[1]] : ~ CanAdmit(e, r)
  /\ Release(e)
  /\ UNCHANGED <<pools, requests, queues, migrating>>

-----------------------------------------------------------------------------
GetNextBatch(e) ==
  \/ Grow(e) \/ Grown(e) \/ SwapOut(e) \/ GiveUp(e) \/ SwappedOut(e)
  \/ SwapIn(e) \/ SwappedIn(e) \/ Extend(e) \/ Fetched(e)
  \/ Look(e) \/ Tell(e) \/ Migrate(e) \/ AddRequests(e) \/ Migrated(e)
  \/ Admit(e) \/ Admitted(e)

Next ==
  \/ \E r \in Req, i \in Instance : Arrive(r, i)
  \/ \E e \in Engine : StartStep(e) \/ EndForward(e) \/ GetNextBatch(e)

Spec == Init /\ [][Next]_vars

\* Event loops never end, workers answer, and so do other instances.  Two
\* instances may keep each other's event loop busy at times: the queue of an
\* event loop is fair, hence strong fairness for calls to the other one.
Fairness ==
  \A e \in Engine :
    /\ WF_vars(StartStep(e)) /\ WF_vars(EndForward(e))
    /\ WF_vars(GetNextBatch(e))
    /\ SF_vars(Tell(e) \/ AddRequests(e))

FairSpec == Spec /\ Fairness

-----------------------------------------------------------------------------
On(i, d) == {r \in Req : home[r] = i /\ location[r] = d}

StepType == [at : {"idle", "forward"} \cup Inside \cup Awaits, batch : SUBSET Req,
             who : SUBSET Req, to : Instance \cup {None}]

TypeOK ==
  /\ free \in [Instance -> [Device -> SUBSET (Gpu \cup Cpu)]]
  /\ swapping \in [Instance -> [Device -> SUBSET (Gpu \cup Cpu)]]
  /\ table \in [Req -> SUBSET (Gpu \cup Cpu)]
  /\ location \in [Req -> Device \cup {"none"}]
  /\ prompt \in [Req -> Nat] /\ generated \in [Req -> 0 .. Limit]
  /\ home \in [Req -> Instance \cup {None}]
  /\ unaccepted \in [Instance -> SUBSET Req]
  /\ running \in [Engine -> SUBSET Req]
  /\ swapped \in [Engine -> Seq(Req)]
  /\ step \in [Engine -> StepType]
  /\ lock \in [Instance -> Ve \cup {None}]
  /\ migrating \in [Instance -> BOOLEAN]

\* The blocks B are free, or being copied away, or in the table of one of A.
Partition(B, fr, sw, A, tb) ==
  /\ fr \cup sw \cup UNION {tb[r] : r \in A} = B
  /\ fr \cap sw = {}
  /\ \A r \in A :
       /\ tb[r] \cap (fr \cup sw) = {}
       /\ \A s \in A : r # s => tb[r] \cap tb[s] = {}

\* Each block of an instance is free, or being copied away, or in the table of
\* one request that is located on that device: swapping out and in, refused
\* swaps and moves to other instances lose no block and share none
\* (_get_free_blocks, swap_one_request, block_manager.py).
BlocksConserved ==
  \A i \in Instance, d \in Device :
    Partition(Blocks(d), free[i][d], swapping[i][d], On(i, d), table)

\* The places of requests.  Those that move are with a _step that waits.
Moving(e) == IF step[e].at \in {"out", "in", "send"} THEN step[e].who ELSE {}

Place == ({"unaccepted"} \X Instance) \cup ({"running", "swapped", "moving"} \X Engine)

Holders ==
  [p \in Place |->
     CASE p[1] = "unaccepted" -> unaccepted[p[2]]
       [] p[1] = "running"    -> running[p[2]]
       [] p[1] = "swapped"    -> ToSet(swapped[p[2]])
       [] p[1] = "moving"     -> Moving(p[2])]

Apart    == \A p, q \in Place : p # q => Holders[p] \cap Holders[q] = {}
Kept     == \A r \in Req : home[r] # None /\ generated[r] < Limit =>
              \E p \in Place : r \in Holders[p]
Distinct == \A e \in Engine : IsInjective(swapped[e])

\* A request that has arrived and is not finished is in one place: it is taken
\* from one queue before an await and put into another one after it, or by
\* another instance (trigger_swap, swap_in_request, add_requests).
OnePlace == Apart /\ Kept /\ Distinct

\* request_location, which the block manager changes when it starts to copy,
\* agrees with the queue, which the scheduler changes when it is done: what may
\* run has its blocks on the GPU of its instance, what is swapped on the CPU.
LocationFollows ==
  /\ \A e \in Engine : \A r \in running[e] : r \in On(e[1], "gpu")
  /\ \A e \in Engine : \A r \in ToSet(swapped[e]) : r \in On(e[1], "cpu")
  /\ \A i \in Instance : \A r \in unaccepted[i] :
       home[r] = i /\ location[r] = "none" /\ table[r] = {}

\* The request that came back gets the block for its next token: what
\* _check_add_to_cur_batch saw to be free is still free after the await.
\* Otherwise the exception ends the engine (flash_backend.py:2670).
ReturnSucceeds ==
  \A e \in Engine : step[e].at = "extend" =>
    \A r \in step[e].who : CanTake(e[1], "gpu", Lacks(r))

\* With one virtual engine, a batch lacks blocks only if swapping was refused
\* because the CPU was full (flash_backend.py:2256).
BackedUnlessFull ==
  V = 1 => \A e \in Engine : step[e].at = "forward" =>
    \/ \A r \in step[e].batch : Lacks(r) <= 0
    \/ \E r \in Victims(e) : ~ CanTake(e[1], "cpu", Cardinality(table[r]))

\* While the workers run a batch nobody gives its blocks away or swaps it.
BatchStays ==
  \A e \in Engine : \A r \in step[e].batch :
    step'[e].at = "forward" =>
      table'[r] = table[r] /\ location'[r] = location[r]

Pinned == [][BatchStays]_vars

\* Every step of a virtual engine ends: "engine will stop after finishing
\* current step" (flash_backend.py:175) relies on it.
StepsEnd == \A e \in Engine : step[e].at # "idle" ~> step[e].at = "idle"

\* Whoever is swapped out runs again.
SwappedReturn ==
  \A e \in Engine, r \in Req :
    r \in Holders[<<"swapped", e>>] ~> r \in running[e]

\* It is what callers are promised.
Promise == INSTANCE Answers WITH
  asked <- {r \in Req : home[r] # None}, tokens <- generated

KeepsPromise == Promise!Spec
=============================================================================
