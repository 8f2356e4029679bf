# Verification of the balloon engine

KunServe serves language models on groups of GPU instances. Each instance keeps a full copy of
the parameters and a key-value (KV) cache of its own. When the cache runs out, the instances of
a group *balloon*: they drop parts of their parameters, become one pipeline and use the freed
memory as more cache. When the load falls the group *restores*: the borrowed blocks are handed
back, the parameters are reloaded, and later the instances split again. All of this happens while
requests run.

This directory holds TLA+ modules of that machinery, TLC runs that check them on small instances,
and theorems checked by TLAPS. Paths such as `flash_backend.py:674` are relative to
`src/kunserve/`.

| file | what it is |
| --- | --- |
| `BlockPools.tla` | the bookkeeping of one block manager, as operators on a record |
| `FusionGroup.tla` | one group: engine steps, batching, preemption, balloon, restore, split |
| `FusionGroupMC.tla` | values for TLC |
| `Coordinator.tla` | several groups: votes, the coordinator's orders, queues copied between actors, dispatch |
| `CoordinatorMC.tla` | values for TLC |
| `Requests.tla` | the tokens of requests and batches, as operators on a record |
| `ChunkedPrefill.tla` | chunks, budgets, limits and preemption in a group, and the way of the answers to the callers |
| `ChunkedPrefillMC.tla` | values for TLC |
| `LookAhead.tla` | look-ahead and packed prefill: which virtual engine gets which prompt, decode and chunk |
| `LookAheadMC.tla` | values for TLC |
| `Answers.tla` | abstract specification: what callers are promised |
| `ReplicaServing.tla` | instances before a balloon: swapping to the CPU, migration, the lock they hold meanwhile; implements Answers |
| `ReplicaServingMC.tla` | values for TLC |
| `EventLoops.tla` | the event loops of engines, the monitor that restarts them, the driver that stops them, the ranks of workers |
| `EventLoopsMC.tla` | values for TLC |
| `FusionGroupTheorems.tla` | what each operation of a manager keeps; the inductive invariant of a group and the theorems |
| `CoordinatorTheorems.tla` | orders, parked followers and the shape of engines, for any number of groups; that a request is in one place, in a system of one group |
| `PartitionTheorems.tla` | who owns the blocks of a group, and that batches have theirs |
| `RequestsTheorems.tla` | what the operators of Requests return, for every queue and batch |
| `ChunkedPrefillTheorems.tla` | types, budgets, prompts and answers of ChunkedPrefill, for every size |
| `LookAheadTheorems.tla` | a request is in one queue and runs where its blocks are, nobody overtakes, and batches keep to the budget, for any number of virtual engines |
| `ReplicaServingTheorems.tla` | swapping and migration are safe, and implement Answers, for every size |
| `EventLoopsTheorems.tla` | the driver is alone, and ranks are right, for every size of a group |
| `Group*.cfg`, `Coord*.cfg`, `Prefill*.cfg`, `LookAhead.cfg`, `Swap.cfg`, `SwapStuck.cfg`, `Migrate.cfg`, `Loops.cfg` | one model checking run each |
| `PROJECT.json` | components, runs, definition-to-source map, mutants, findings, hazards, theorems |

## 1. Inventory

### The parts and the state they keep

**Block manager** (`block_manager.py`, one per instance). Keeps the free lists of four pools
(local blocks, reserve, pipeline blocks, extended blocks), a block table per request, a counter of
capacity per pool, and the format it is in. Operations: allocate and free (four branches each, by
format and kind of request), conversion to the pipeline format, adding and giving back extended
blocks, packing, merging back (`restore_kvblocks`, `restore_from_fusion`). It also has CPU blocks, a list of
blocks whose contents are being copied, and for each request the device it is on; `swap_one_request`
moves a request to the other device.
*Correct when* every block has one owner, the counters agree with the lists, no extended block is
referred to once the parameters are reloaded over it, and a change of format loses nothing.

**Engine** (`flash_backend.py`, class `FlashBackend`, a Ray actor per instance). Keeps the block
managers and schedulers it works with (its own, or those of the whole group when it leads a merged
one), `stopped`, and one coroutine `_step` per virtual engine. A step runs a pipeline batch, then
a replica batch, exchanges KV caches for a live reshard, moves one home for a live restore, and
ends in `_get_next_batch`: free what finished, allocate what the next token needs, preempt (by
recomputation or by swapping), bring swapped requests back, move waiting ones to another instance,
admit. `balance_prefill`, `balance_decode` and `schedule_packed_prefill` spread prompts and decodes
over the virtual engines of a pipeline.
*Correct when* a batch on the workers has its blocks on each instance that runs it and keeps them
until it ends, preemption takes victims it may take, a request that waits for a remote call is in
one place, nobody starves, and stopping always gets the engine idle.

**Event loops** (`start_event_loop` of `flash_backend.py`, `monitor_engines` of `llm_engine.py`). A loop
per instance keeps a `_step` going for each virtual engine that it found when it began, and ends
once the engine is stopped and its steps are over; the monitor, in the driver's process, starts a loop
that has ended again if the engine says that it runs. *Correct when* a change of state meets no step
in flight, always ends, and leaves no virtual engine without its loop.

**Scheduler** (`colocated_scheduler.py`, one per virtual engine). The queues: unaccepted, waiting
(resharded or swapped in), running, swapped, and the long prefills of the look-ahead option.
Chooses batches and victims; `trigger_swap` and `swap_in_request` take a request from one queue
before an await and put it into another after it. *Correct when* a request is in one queue and none
is dropped.

**Requests and batches** (`request.py`). Tokens, chunk limits, finished flag, `fusion_exec` (does it
run on the pipeline) and `kv_fusion_rank` (whose blocks it uses). A prompt is prefilled whole or in
chunks `[prefill_begin_index, prefill_end_index)` that fit the token budget of a batch; a preempted
request starts again with its tokens as part of the prompt. *Correct when* the flags agree with
where its blocks are, every part of a prompt is computed before the first token, and a caller gets
the number of tokens it asked for.

**Submission and output streams** (`llm_engine.py:56-299`, `ray_queue.py`). A stream per request; a
thread of the engine and an actor that carry lists of finished outputs; a loop of the driver that
receives them. Calls of the actor overlap, so lists may pass each other. *Correct when* every stream
ends, with a complete answer.

**Driver of a group** (`llm_engine.py`, class `ColocatedEngine`). `state` of the group, the routines
`trigger_balloon`, `trigger_restore`, `trigger_init`, the restart of event loops, the streams of
outputs. *Correct when* a change of state that began completes, followers do not run while merged,
and the copies of queues that go from actor to actor neither drop nor double a request.

**Coordinator** (`coordinator.py`). Polls the groups, decides, orders, and says where the next
request goes. *Correct when* an order reaches only groups in a state it makes sense in, and every
request it dispatches is served.

**Workers** (`worker.py`). Kernels, NCCL and memory mapping behind Ray calls, answered in order.
What they decide themselves is their rank: `pmm_drop` makes the pipelines of a group one and
`pmm_restore` takes it apart, and each worker computes its place in it. *Correct when* the ranks of
a pipeline are those of its stages.

**Others.** The front end (`llm.py`, `api_server`), the deprecated global dispatcher, configuration, tokenizer, model download and
conversion, measurements, benchmarks.

### How they interact

The front end asks the coordinator for an instance and calls the driver's `generate`, which calls
`add_request` on that instance's actor. Engines call workers asynchronously and await the answers.
The coordinator polls drivers, drivers poll votes of engines; an engine that votes for BALLOON sets
its own `stopped`. At a merge followers send *copies* of their schedulers, managers and worker
handles to the leader, which from then on runs everything; at a split the leader sends copies back.
Everything inside one actor is cooperative: it is only interrupted at an `await`.

### What is hard

- Steps of several virtual engines interleave at their awaits with each other, with exchanges, and
  with the routines that change the format of every block manager (`flash_backend.py:674-806`).
- An allocation on several managers may fail after some of them succeeded (`flash_backend.py:1297`).
- `stopped` is set while a step is in flight; what the step does not do because of it has to be
  caught up with later (`flash_backend.py:2224`, `1140`).
- A change of format meets requests of both kinds, finished ones, and ones in the middle of an
  exchange (`colocated_scheduler.py:180-203`, `block_manager.py:669`).
- Parameters are reloaded over memory that requests were using a moment ago
  (`flash_backend.py:1063`).
- Queues are copied while requests arrive (`flash_backend.py:418-465`); orders are computed from an
  earlier poll (`coordinator.py:149-215`).
- What a request runs next is decided when the batch is made, one step ahead; batches are made in
  two places (`flash_backend.py:805`, `2669`) and thrown away in a third (`2224`).
- Swapping and migration await remote calls in the middle of `_get_next_batch`, while other virtual
  engines of the instance go on (`block_manager.py:1047`, `flash_backend.py:2289`), under a lock of
  threads that coroutines share (`flash_backend.py:2668`).
- One virtual engine hands prompts and decodes to another that has a step in flight
  (`flash_backend.py:1494`).
- Loops are started again on an answer that may be out of date, while the driver waits for them to
  end (`llm_engine.py:662`).
- The limit of a request is changed when it is recomputed, in an object it may share
  (`request.py:317`, `llm_engine.py:251`).

Nothing is persisted and no crash is survived: an exception ends the process. There are no
recovery or retransmission properties to state. PROJECT.json `hazards` has the list line by line,
with the properties that watch over each.

## 2. The modules

### BlockPools

A manager is a record with the pools, the block table, the counters and the format; each method of
`BlockManager` is an operator that returns the *set* of managers it may leave behind. The empty set
is a failed allocation or a failed assertion (`RestoreFromFusion`, `block_manager.py:337`). Lists of
free blocks are sets and taking a prefix is taking any subset of that size, which covers every
order a list can be in. Block numbers are pairs: `<<i, b>>` is part `i` of local block `b` (the
code's `i * N + b`), `<<F, k>>` the extended block `k`, so that the code's comparisons and
remainders become membership and a projection. `Allocate` and `Free` have the code's four branches.
`FreeMerging` and `RestoreKv` merge *some* complete groups of parts: the code merges those whose
part 0 comes first in the list, which depends on the order.

A manager that goes from one engine to another goes as data (`get_block_manager_data`), out of which
the receiver makes a new object; the data holds neither the number of local blocks nor the quota of
the reserve, so that the object has those of a new manager. `Handed` is that object.

Not in the module: CPU blocks and swapping, which are ReplicaServing's, and
`convert_to_pipeline_format_w_reserve` (a balloon out of the RESTORE state, see `WidthIsSize` in
section 3).

### FusionGroup

| variable | code |
| --- | --- |
| `phase` | `ColocatedEngine.state`, with STOP and the inside of the routines told apart |
| `bm` | `block_managers`, by instance |
| `req` | per request: queue, virtual engine, prefill or decode, finished, `fusion_exec`, `kv_fusion_rank`, blocks needed |
| `stopped` | `FlashBackend.stopped` of each instance |
| `step` | the `_step` coroutine of each virtual engine: where it is and the batches it holds |
| `resharding` | `is_resharding` |
| `remaining` | the requests `reshard_blocks` still has to exchange |

Code between two awaits is one action. `_get_next_batch` and packing, which have no await but call
the block managers many times, are split into one action per call for readability; while a
virtual engine is inside (`Locked`, `Turn`) nothing else is enabled, so they stay atomic.
One step is `StartStep` or `StartReshard` (until the first await: batch, exchange, blocks for a
live restore), `FinishReshard`, `EndPipe`, `EndRepl`, `Pack`, then `FreeFinished`, `Grow`,
`Preempt`, `Grown`, `Adopt`, `Admit`, `Refuse`, or `NextStopped`. The balloon is `VoteBalloon`,
`Merge`, `DropParameters`, then `RecomputeStale` or `Reshard` / `GiveUpReshard`, and
`EnterBalloon`. The way back is `StartReclaim`, `Reclaim`, `EndReclaim`, `Reloaded`,
`RestoreInstance`, `VoteInit`, `Split`.

What is abstracted, and how:

- Tokens: a request needs a number of blocks, between 1 and `MaxLen`, which may grow by one with
  each token and never beyond; prefill chunks are "not finished yet". Limits on the size of a batch
  are the nondeterministic `Refuse`.
- Each instance has one pipeline stage (`pipeline_parallel_size` = 1), thus one virtual engine.
- `exchange_batch_size` is 1 (8 by default): one request per exchange. Preemption recomputes.
  Look-ahead, decode balancing and chunked pipeline prefill are off.
- The vote of another group is `VoteBalloon({})`: the group balloons though none of its engines
  asked. A balloon out of RESTORE, which takes a second group, is left to Coordinator.
- At a merge and at a split the followers' managers are `Given` to the other side (`Handed`); the
  leader keeps its own.
- While a group is merged its leader gets all arrivals; what happens to requests sent to
  followers is Coordinator's subject.
- The allocations of a reshard that are rolled back are no change; the fields of a request
  that left are reset.
- External: a worker answers in order, so the step in flight on the leader ends before `pmm_drop`
  does (`DropParameters` waits for `AllIdle`).

### Coordinator

| variable | code |
| --- | --- |
| `state` | `ColocatedEngine.state` |
| `routine` | where `trigger_balloon`, `trigger_restore`, `trigger_init` of a group are |
| `events`, `turn` | the answers to the poll, and where `handle_events` is |
| `layout` | the argument `from_restore` |
| `engine` | per instance: `stopped`, `num_instances`, the queue of each scheduler, `unaccepted_queue`, steps in flight |
| `parcel` | the properties on their way between a follower and the leader |
| `arrived`, `served` | the requests dispatched and the ones that finished |

`Ask` is `get_event` of one group, `BeginInit`, `BeginBalloon`, `BeginRestore` and `Sleep` are
`monitor_engine_events` with `handle_events`; `StopFollower`, `TakeProperties`, `Merge`,
`EnterBalloon` and `Reloaded`, `RestoreInstance` and `SplitEngine`, `SetProperties`, `TriggerInit`
are the three routines of a driver, one action per remote call whose effect others can see in
between. Because an actor call serialises its arguments, `TakeProperties` leaves the follower's
scheduler in place; the copy it keeps is what `Copied` names.

What is abstracted: a scheduler has one queue; whether an engine is short of memory or has pipeline
requests left is nondeterministic, so every pattern of votes happens; `Dispatch` may choose any
instance, which covers round-robin and both load strategies; event loops run whenever their
engine is not stopped. `DispatchAnywhere` = TRUE is the code as it is, and what all runs have; FALSE would
be the check that `get_next_assign` has commented out (requests go to a follower only while its group is INITIAL). `MaxInstances` bounds how often a group can be merged again.

### Requests

A request is a record: length of its prompt, chunk (`begin`, `end`, `chunk_size`), tokens generated since it
last started and in all, finished, `fusion_exec`, and the name of its `SamplingParams`. `cached` is
not in the code: it is the set of positions of the prompt whose keys and values the workers have
computed, and only properties read it. The operators are the methods of `request.py` (`SetChunk`,
`NextChunk`, `Recomputed`, `Computed`) and the loops over batches that several callers share
(`NextChunks`, `Admit`, `Requeued`, `Victims`). ChunkedPrefill and LookAhead extend it.

### ChunkedPrefill

| variable | code |
| --- | --- |
| `phase`, `stopped` | state of the group, `FlashBackend.stopped` |
| `chunking` | `sched_config.enable_chunked_prefill`, which a balloon switches on and nothing switches off |
| `step` | the `_step` in flight and its batch |
| `req` | the records of Requests |
| `max_tokens` | by `SamplingParams` object |
| `unaccepted`, `running` | the queues, in order |
| `outbox` | `put_queue_args_queue`: lists of outputs that the engine's thread has not sent yet |
| `sent` | lists that the put queue actor was given and that have not arrived |
| `streams`, `result` | `request_streams` of the driver, and what the stream of a request has yielded |

One virtual engine. `Submit` is `generate` and `batch_generate`; `StartStep` and `EndStep` are one
`_step`, the second with outputs, live restore and `_get_next_batch` (not split up here: blocks are
not modelled, so it is one operator); `Stop`, `Balloon`, `Restore`, `InitAgain` are the changes of
state. An answer goes from `outbox` to `sent` by `Put` (the thread) with `PutToServers` (the actor), and
from there to its stream by `GetOutputs` and `Finish`. An output refers to the tokens of its request
until the actor's argument is copied, so `PutToServers` reads them then. Lists may arrive in any
order.

What is abstracted: memory is a number of requests that may be admitted (`room`) and a set of
victims that preemption may choose (`Victims`: the latest decodes, for pipeline and replica requests
apart), except that an engine that runs nothing has memory for one request. Requests end at
`max_tokens` (`ignore_eos`, the default of `generate`) and fit `max_model_len`. Zigzag chunks,
look-ahead and live reshard are off; the modes are recompute and reshard, the latter
where everything can be placed. The vote for INIT and the stop that follows are one step.

### LookAhead

| variable | code |
| --- | --- |
| `bench` | the settings `enable_packing`, `enable_reorder`, `enable_decode_balance` of `bench_config` |
| `step`, `running` | the `_step` in flight and the running queue of each virtual engine of the leader |
| `unaccepted` | the queue of the engine, where arrivals wait to be placed |
| `short`, `long` | `unaccepted_queue` and `long_unaccepted_queue` of each scheduler |
| `pending` | `num_pending_prefill_tokens` of each scheduler, as old as its last batch |
| `kv` | `kv_fusion_rank` |
| `phase`, `stopped` | BALLOON or RESTORE, `FlashBackend.stopped` |

`Arrive` is `add_request`; `StartStep` and `EndStep` are one `_step` of a virtual engine, of which
several are in flight at once. `EndStep` ends in `GetNextBatch`, one operator since nothing in it
awaits: preempt, `BalanceDecode`, `Place` and `Reordered` (together `BalancePrefill`), then either
`SchedulePackedPrefill` (the next chunks, one long prompt, then short ones) or `SchedulePrefill`. `Stop` and
`Restore` end the balloon with whatever waits in the queues.

What is abstracted: memory, as in ChunkedPrefill. The module starts in BALLOON and does not balloon again.

### ReplicaServing and Answers

| variable | code |
| --- | --- |
| `free`, `swapping` | `free_gpu_blocks_list`, `swapping_gpu_blocks_list` and the same of the CPU, by instance |
| `table`, `location` | `block_table`, `request_location` |
| `prompt`, `generated`, `home` | tokens of a request, the instance that has it |
| `unaccepted`, `running`, `swapped` | the queues |
| `step` | where the `_step` of a virtual engine is, its batch, and the requests that a remote call is about |
| `lock` | which virtual engine holds `allocate_blocks_lock` of an instance |
| `migrating` | `is_migrating_out` of an instance |

`StartStep` and `EndForward` are `_step` around the workers' answer. Then comes `_get_next_batch`, one
action per call, as in FusionGroup (`Occupied`: nothing else runs on the instance) except where the
code awaits: `SwapOut` / `SwappedOut` and `SwapIn` / `SwappedIn` are the two halves of a swap, with
`swap_one_request`'s change of tables in the first and the end of the copying in the second;
`Look`, `Tell`, `Migrate`, `AddRequests`, `Migrated` are one migration, whose middle runs on the other
instance. `Acquire` is the lock. It is a `threading.Lock`: a virtual engine that finds it taken does
not wait, it stops the event loop of the instance ("blocked").

What is abstracted: queues other than the swapped one are sets; the load of an instance, by which the
target of a migration is chosen, may be anything; a batch has room for all tokens; the copies of
the blocks' contents are not modelled. A step that would find nothing to do is left out.

`Answers` says what all of this is for: a request that was submitted gets its tokens one at a time,
up to `Limit`, and never loses one. `KeepsPromise` is its specification under the mapping
`asked` = the requests that have a home, `tokens` = `generated`.

### EventLoops

| variable | code |
| --- | --- |
| `state`, `routine`, `called`, `dropped` | the group's state, what the driver is doing, which instances have answered the call it waits for, which have dropped parameters |
| `stopped`, `ves` | `FlashBackend.stopped`, number of its schedulers |
| `loop`, `task` | `start_event_loop` of an instance and its `_step` tasks |
| `todo`, `asked` | `monitor_engines`: loops seen to have ended, and the one whose engine said that it runs |
| `para` | `parallel_config` of the workers: sizes and ranks |

`StartLoop`, `BeginStep`, `Answer`, `EndStep`, `Relaunch`, `EndLoop` are an event loop; `Poll`,
`AskStopped`, `RestartLoop` the monitor; the others are the driver, one action per remote call. A loop
keeps the number of virtual engines it started with. `PmmDrop` and `PmmRestore` are what a worker
makes of its ranks.

`Prompt` is an assumption about time: a call to another actor takes longer than an idle event loop
needs to run what is ready (`Settled`). An event loop does not sleep between steps
(`SLEEP_IN_EACH_EVENT_LOOP` = 0) and a remote call is a message to another process, but nothing in the
code enforces it. Only liveness depends on it, see section 3.

## 3. The runs

All passing runs of the group have two instances and a reserve quota of 1. The sizes are chosen so that
the requests together need more blocks than the pipeline format of an instance has: only then are
extended blocks used after the exchange, requests preempted while they run on the pipeline, and
extended blocks packed when they have to go back. With one local block per instance (two in the
pipeline format) three interchangeable requests of up to two blocks do this; with two local blocks
a single request of three blocks reaches the part of the cycle where local blocks that are in use
in part are put together again, and two requests of up to two blocks exhaust the extended region
while the exchange goes on. Two virtual engines suffice for the interleavings, since a third
relates to each as the second does.

| run | instance | properties | shows |
| --- | --- | --- | --- |
| `GroupRecompute` | recompute, restore allowed, 3 requests, N = 1, E = 1 | `TypeOK`, `BlocksPartitioned`, `CapacityConserved`, `ExtendAccounted`, `ExtendReclaimed` | the full cycle INITIAL, BALLOON, RESTORE, INITIAL, repeated, with preemptions and packing, loses no block, no count, no extended block (1.1 million states) |
| `GroupLive` | livereshard, 2 requests, N = 2, E = 1 | `BlocksPartitioned`, `ScheduledBacked`, `InFlightKeepsBlocks` | exchanges during steps are safe as long as no restore starts |
| `GroupSwitches` | reshard, restore allowed, fair, 1 request of up to 3 blocks, N = 2, E = 1 | `SwitchesComplete` | a change of state that stopped engines completes, also when the exchange gives up half way |
| `CoordSwitch` | 2 groups of 3, 2 requests sent to any instance, look-ahead, fair | `TypeOK`, `OneOwner`, `FollowersParked`, `ChangesEnd`, `RestoreFromBalloon` | copying queues neither drops nor doubles requests; every change of state ends with its leader running; all-or-none orders never restore a group that is not ballooned |
| `Loops` | 3 instances, 1 virtual engine each, fair | `DriverAlone`, `RanksFollow`, `AllServed`, `SwitchEnds` | the driver meets no step, ranks are right instance by instance, every change ends, every virtual engine is served |
| `PrefillCycle` | recompute, fair, 2 requests of up to 2 tokens that ask for 3, budget 2, one preemption, three stops | `TypeOK`, `PrefillFinished`, `BudgetKept`, `AnswerComplete`, `AnswersArrive` | no chunk is skipped, no batch too large, every answer arrives and is complete |
| `LookAhead` | 3 requests of 1 or 4 tokens, 2 virtual engines, budget 3, one preemption, fair | `OnePlace`, `RunsOnce`, `BudgetKept`, `KvLocal`, `FirstComeFirstServed`, `Served` | moving prompts and decodes between virtual engines loses, doubles and starves nobody |
| `Swap` | 1 instance, 2 virtual engines, 3 requests, 3 GPU and 2 CPU blocks of 2 tokens | `BlocksConserved`, `LocationFollows`, `ReturnSucceeds`, `Pinned`, `KeepsPromise` | blocks, locations and batches stay right across the awaits of a swap; `Answers` is implemented |
| `Migrate` | 2 instances, 1 virtual engine each, 3 requests, 2 GPU and 1 CPU blocks, fair | `OnePlace`, `BackedUnlessFull`, `SwappedReturn` | a request on its way is in one place, batches lack blocks only when the CPU is full, who is swapped out runs again |

`CoordSwitch` has three instances so that the merge of several followers, each with its own parcel,
is interleaved, and two requests so that there is a queue to even out. `MaxInstances` = 3 keeps a
group from being merged twice (`WidthIsSize` below); a single group is never merged twice (section 4), so that it would stop nothing there.
With three instances every vote is a quorum, and whoever stopped itself by a vote is part of a
balloon; what happens to groups of four is `LeaderResumes`, below. In `PrefillCycle` two
prompts of two tokens and a decode compete for a budget of two, and a prompt grows to four when it
is recomputed, so that prompts are cut in up to three pieces; a preemption and a balloon can both
hit one request, before and after it has tokens. Three stops reach INITIAL for the second time, with
chunks on. `MaxTokens` = 5 admits the longest prompt a recomputed request has; a longer one would
never be admitted without chunks (see below).

In `Loops` three instances are the fewest with two followers, whose calls are answered in either
order, and ranks that differ from one half to the other; pipelines have one stage there, longer ones are left to
the theorem `RanksRight`. In `LookAhead` a prompt of four needs two chunks of
a budget of three and is long for a threshold of 1; three requests make the difference of two decodes that
`balance_decode` looks for while another prompt waits. `MCBenches` are the first two settings the code
recommends (`flash_backend.py:1778`, `1782`): neither packing nor reordering, and both; each with
balancing of decodes. In `Swap` three requests of up to three blocks compete for three, and the CPU
has room for one of them or two small ones, so that a swap is refused, is granted, and returns while
the other virtual engine allocates. `Swap` has no fairness and one instance; `Migrate` has one virtual
engine per instance since two deadlock (`SwapStuck`).

Properties, in words: `BlocksPartitioned` shares the memory of every instance out between pools,
requests and restores in flight, in units of pipeline blocks, exactly: `Shares` says who holds what
(a local block is `F` pipeline blocks, its `Parts`; `LocalOn` which requests have local blocks),
`Partition` that the shares fill the region and do not overlap. `CapacityConserved` is what
makes the assertion of `restore_from_fusion` hold. `ExtendAccounted`: an extended block on loan is
free or in one table, and the counter that `wait_for_ex_blocks_to_return` waits for counts it. `ScheduledBacked`: a batch on the workers has the
blocks its tokens need. `InFlightKeepsBlocks`: they do not change before the batch ends.
`SwitchesComplete`:
stopping leads to the next state. `ChangesEnd`: the same of the coordinator's orders and the drivers' routines. `PrefillFinished`: a request with tokens has its whole prompt in
the cache. `AnswerComplete`: a stream that has ended has yielded what was asked for. `RunsOnce`: what
is on the workers for one virtual engine is in no other's queue. `KvLocal`: a request that runs on one
instance in RESTORE has its blocks there. `ReturnSucceeds`: what was checked before a swap is still
true after it. The rest is described with the definitions.

### Disagreements found while modelling

Three runs expect a violation; each checks one sentence of the repository.

| run | the code says | what happens |
| --- | --- | --- |
| `CoordLost` / `NothingLost` | "yields the generated tokens for each request", `llm_engine.py:112` | a request sent to a merged follower is dropped at the split |
| `SwapStuck` / `StepsEnd` | "engine will stop after finishing current step", `flash_backend.py:175` | a virtual engine awaits a swap with `allocate_blocks_lock` held, another asks for the lock (line 2668) and stops the event loop that would resume the first |
| `PrefillReshard` / `PrefillFinished` | "request has no generate tokens, which means its chunked prefill has not finished", `flash_backend.py:2564` | an engine is stopped after it made a batch and before the step; the balloon makes the next batch (line 805), which moves every chunk on: the chunk in between is never computed |

`SwapStuck` takes preemption by swapping and two virtual engines per instance (`pipeline_parallel_size` of
two); the deadlock is for good. Recomputation does not await under the lock, and with one virtual engine
nobody else asks for it, which is why `Migrate` has one.
`PrefillReshard` needs a request that survives the balloon with its chunk, hence reshard; with
recomputation the same second `_get_next_batch` is harmless (`PrefillCycle`).

The others are stated in the modules and have no cfg here. TLC finds each of them with the constants
given:

- `ScheduledBacked`, FusionGroup with `Req = {r1, r2}`, `N = 2`, `F = 2`, `E = 1`, `Quota = 1`, `MaxLen = 2`,
  recompute, `AllowRestore = TRUE`. RESTORE restarts engines without the first `_get_next_batch`
  that BALLOON does at line 802, and the last step before the stop skipped it: a batch runs one block
  short ("step 1: allocate blocks for the current batch", `flash_backend.py:2234`).
- `StaleHandled`, the same with reshard and `AllowRestore = FALSE`. `reshard_blocks` returns when a
  round places nothing; requests marked for the pipeline have blocks on one instance ("All stale
  requests are handled before this line", `flash_backend.py:777`).
- `LeaderResumes`, Coordinator with `Group = {g1}`, `Size = 4`, one request, look-ahead,
  `DispatchAnywhere = TRUE`, `MaxInstances = 4` and `FairSpec`. The leader votes for BALLOON and stops itself
  (`flash_backend.py:633`). One vote of four is no quorum, so that nothing changes state, and the monitor, which is to
  "restart event loop if necessary" (`llm_engine.py:647`), passes over an engine that is stopped. If enough
  others vote later, the balloon restarts it, but what they vote depends on their own load.
- `WidthIsSize`, Coordinator with two groups, `Size = 2`, one request, no look-ahead,
  `DispatchAnywhere = FALSE`, `MaxInstances = 3`. A vote in one group makes another, in RESTORE, merge its
  followers again ("instance num shall be equal to balloon size", `llm_engine.py:360`).
- `ChunkValid`, LookAhead with `N = 4`, `V = 2`, `Lengths = {1, 3}`, `Budget = 2`, `LongThreshold = 2`,
  `MaxBatch = 3`, `Limit = 3`, `Benches = {Bench(TRUE, FALSE, TRUE)}` and `MaxPreempt = 0`. Decodes that arrive
  from another virtual engine make what is left of the budget negative (`flash_backend.py:2079`); it
  is added to the chunk of a prompt that is being cut up, and the batch runs that prompt without tokens
  ("free_token_budget <= 0: add nothing and return", line 2051; "Fail to set a valid chunk size",
  `request.py:390`). Where RESTORE begins with such a prompt in the batch it never goes on, nor do
  the decodes that wait for the prompts of their batch: `Served` fails on the same instance.
- `WithinLimit`, ChunkedPrefill with 2 requests, `Budget = 2`, `MaxTokens = 5`, `MaxBatch = 2`,
  `EnableChunked = TRUE`, recompute, `Batched = TRUE`, `Limit = 4`, `MaxPrompt = 3`, `MaxPreempt = 2`,
  `MaxSwitch = 0`. The requests of a `batch_generate` share `max_tokens`; recomputing one lowers it for
  all, and a neighbour that has more tokens by now raises the exception of `request.py:341`, after which
  the engine exits.
- `FinishedIsFinal`, FusionGroup with recompute: a request that finished just before the stop is
  still in the running queue, is recomputed with `is_finished` set (`colocated_scheduler.py:180`),
  and runs again.
- `ExchangeIntoFused`, FusionGroup with live reshard and `AllowRestore = TRUE`: RESTORE can begin
  while an exchange goes on.
- `LayoutIsTrue`, Coordinator with two groups: `from_restore` is out of date for a group that is
  split in the same round.
- `AnswersArrive`, ChunkedPrefill with the constants of `PrefillCycle` but `MaxTokens = 3` and `MaxSwitch = 0`.
  Both prompts fit. A request is preempted after two tokens and has now a prompt of four: without chunks it is refused
  even alone, for ever, and holds up what stands behind it, although `flash_backend.py:1477` says "we will not limit token numbers
  when there is only one requests". `PrefillCycle` has `MaxTokens = MaxPrompt + Limit - 1`, what a
  recomputed request may need.
- `failed` becomes true in ChunkedPrefill in the reshard modes: `num_avail_tokens`
  (`flash_backend.py:1925`) may be negative when chunks are switched on over a batch larger than the
  budget; the test at line 1928 is for zero, and `set_chunk` fails its assertion.
- `AllServed`, EventLoops with `Prompt = FALSE`: a leader's loop from before a merge that has not
  noticed the stop runs on with too few virtual engines.

Smaller ones, from reading only: a long prompt that waits in `long_unaccepted_queue` when RESTORE begins is
served by nobody (`Served` makes that exception), is not in `get_data` (`colocated_scheduler.py:56`)
and does not count as a request that lacks memory; `num_pending_prefill_tokens` is as old as the
last batch of its virtual engine (`flash_backend.py:1834`); `swap_blocks` of `worker.py:656` records
its event before the copy, although `block_manager.py:943` waits for the event in order to know
that the copy is over; two instances may migrate requests to each other at the same time.

### Mutants

Every property of a passing run has a mutant: an operator marked `mutation` that changes a mapped
definition as a plausible slip would (a count not updated, a guard dropped, a queue not cleared).
Putting it in place of the definition makes TLC report the property violated.

### Fairness

`FusionGroup!Fairness`: the asyncio loop resumes every coroutine whose await is over and restarts a
step that ended (`flash_backend.py:254`), and the routines of the driver poll until they may go on.
Another coroutine can disable a step for a moment and again and again, hence strong fairness.
Nothing is assumed of votes, of arrivals or of the return of extended blocks (reclaiming waits for
requests to finish, which depends on their lengths). `Coordinator!Fairness`: the coordinator's
loop is endless, calls to actors are answered, steps end; weak fairness is enough because nothing
disables them. `Dispatch`, `Accept` and `StartStep` are not fair. `ChunkedPrefill!Fairness`: steps
start and end, the driver goes on with a change of state, the thread and the loop that carry outputs
run; nothing takes turns with them, so weak fairness is enough. `Submit` and `Stop` are not fair.
`LookAhead!Fairness`: the steps of each virtual engine start and end (their tasks are independent), and
the driver goes on once all have ended; `Arrive` and `Stop` are not fair. `ReplicaServing!Fairness`: the
same of steps and of every part of `_get_next_batch`; calls to another instance are strongly
fair, because that instance's event loop is occupied again and again and its queue of calls is
served in order. `EventLoops!Fairness`: loops, workers, monitor and driver never end; votes and
the beginning of a change are not fair.

Deadlock is not checked in the prefill, look-ahead, swap and migrate runs: the system may stop when
everything is answered. Whether it stops too early is the question of `AnswersArrive`, `Served`, `SwappedReturn` and,
violated, `StepsEnd`.

## 4. What is proved

The first part of `FusionGroupTheorems` has a lemma per operation of a manager, for every number of local blocks,
instances, extended blocks and requests, and every quota. Three facts run through them: `Loan`,
the extended blocks that are free or in a block table; `ExtendCounted`, that the counter of
extended blocks is the size of the loan; `Counted`, that the other counters add up to the
instance's memory in either format. `RestoreFromFusionStep` concludes that the assertion of
`restore_from_fusion` holds whenever the manager is counted, `HandedStep` that this survives the way
to another engine.

The second part proves, under `NoLiveRestore` (a group that uses live reshard does not
restore; see `ExchangeIntoFused`):

| theorem | says |
| --- | --- |
| `Invariance` | `Spec => []IInv` |
| `TypeCorrect` | `Spec => []TypeOK` |
| `CapacityTheorem` | `Spec => []CapacityConserved` |
| `ReclaimTheorem` | `Spec => []ExtendReclaimed` |
| `ExtendTheorem` | `Spec => []ExtendAccounted` |

`CapacityConserved` and `ExtendReclaimed` are not inductive. That no block table holds an extended
block when parameters come back follows from `max_extend` being 0 at that point only because the
counter equals the loan; and the loan is kept by an allocation or a release only if the request is
in the right format, which depends on the phase, on which requests are marked for the pipeline and
on which are still being exchanged. Hence the invariant

    IInv == TypeOK /\ Control /\ Marked /\ Pools /\ Owners

with `Control` (what the phase says about coroutines and flags), `Marked` (which requests run on
the pipeline), `Pools` (each manager is counted and in the phase's format) and `Owners` (who can
have an extended block). The argument has three layers: operations of one manager; then operations
of the group on several managers, some of which may have succeeded before one failed
(`AllocateManagers`, `FreeManagers`, `LaunchStep`, `OnPeersStep`, `ExchangeHome`, `RestoredStep`);
then one lemma per action (`...Step`). Actions that stay in a phase use `ControlKept`, `MarkedKept`
and `OwnersKept`; the ones that change it use `NewPhase`.

Assumptions: `PoolAssumption` (N > 0, F > 1, E and the quota are numbers) and `GroupAssumption`
(the options have one of their values), which TLC evaluates in every group run.

`PartitionTheorems` goes on from there to the ownership of blocks:

| theorem | says |
| --- | --- |
| `InFlightTheorem` | `NoLiveRestore => (Spec => InFlightKeepsBlocks)` |
| `PartitionTheorem` | `NoLiveRestore => (Spec /\ NeverGivesUp => []BlocksPartitioned)` |
| `HandledTheorem` | `NoLiveRestore => (Spec /\ NeverGivesUp => StaleHandled)` |
| `BackedTheorem` | `~ AllowRestore => (Spec /\ NeverGivesUp => []ScheduledBacked)` |

Each needs an invariant stronger than the one before it:

    FInv == IInv /\ Flow /\ Kinds
    PInv == FInv /\ Placement /\ SharedOut
    BInv == PInv /\ Backed /\ Forward

`Flow` says what a coroutine holds between two awaits: its batches, what it packs and what it moves are
requests of its own queue and of the right kind; `Kinds`, which requests wait for readmission and which are
on another instance than their virtual engine. A step can then take blocks only from requests that
no other coroutine has on the workers, which is `InFlightKeepsBlocks`. `Placement` says on which instances a
request has a table, and in which format, from its queue, its mark and the phase; with it each
operation of a manager maps a partition to a partition (`Parted`, and the lemmas at the end of the
first part of `FusionGroupTheorems`: local blocks turn into their parts at a merge and back at a split, an exchange
takes the parts of a local block over, a restore holds `fresh` blocks that are nobody else's).
`Backed` says that whoever is `Ready` to run has what it is `Due` on every instance, also between the
answer of the workers and the next `_get_next_batch`, when it has one token more than blocks for it;
`Forward`, that the group only goes from INITIAL to BALLOON.

The hypotheses are as weak as TLC lets them be. `NeverGivesUp == [][Mode = "reshard" =>
~ GiveUpReshard]_vars` excludes the early return of `reshard_blocks`: after it requests run on the pipeline
with blocks on one instance only, and TLC finds `BlocksPartitioned`, `ScheduledBacked` and `StaleHandled`
violated (`Req = {r1, r2}`, `N = 2`, `F = 2`, `E = 1`, `Quota = 1`, `MaxLen = 2`, reshard,
`AllowRestore = FALSE`). `InFlightTheorem` does without it. No run has `StaleHandled`; TLC confirms it where the exchange always has room
(three requests, `N = 1`, `E = 2`, `MaxLen = 2`, reshard, `AllowRestore = FALSE`). With `AllowRestore`, `ScheduledBacked` is violated by a batch that
was stopped before it grew and restarted by `RestoreInstance` (section 3), hence `~ AllowRestore`.

`CoordinatorTheorems` proves, for every number of
groups, instances and requests:

| theorem | says |
| --- | --- |
| `Invariance` | `Spec => []IInv` |
| `ParkedTheorem` | `Spec => []FollowersParked` |
| `RestoreOrders` | `Spec => RestoreFromBalloon` |
| `TypeCorrect` | `Spec => []TypeOK` |
| `OwnerTheorem` | `Alone /\ LookAhead /\ Spec => []OneOwner` |
| `DoubleTheorem` | `Alone /\ Spec => []NotDoubled` |

Neither `FollowersParked` nor `RestoreFromBalloon` follows from the step that it is about: `BeginRestore` does not look at the state of the
groups it sends the order to, and `RestoreInstance` does not look at the followers. The invariant
`IInv == Orders /\ Parking` says that the groups move in step: at a poll either every group is
ballooned or none is (`InStep`), because the one order that merges goes to all of them and a split
starts only from a round in which somebody is in RESTORE; the answers still agree with the states
(`Answers`); and which followers are parked follows from what the driver of the group is doing
(`Parking`). Of the data only the domains of the tables are needed (`Shape`). Actions of the engines
keep the invariant by `EnginesKept`, those of a driver by `Driven`. `CoordinatorAssumption` is all
that is assumed; `DispatchAnywhere` and `LookAhead` may have either value.

The types need `Data == TypeOK /\ Widths /\ Room /\ Known`, because `set_instance_properties` hands a
follower one queue of the leader's and throws the rest away: that there is one for each follower, and
that no step is in flight on those that go, depends on how often the group was merged and what
its driver is doing (`Widths`). `Known` says that requests in queues and on their way have arrived; `Room`
that a balloon is asked for only within the bound `MaxInstances`.

`OneOwner` and `NotDoubled` count in three tables; the proof names the place instead. `At(r, c, g, i, k)` says
that `r` is in a queue, waits in an engine, or is on its way in either role; `Placed`, that it is at exactly
one such place and not served; `Absent`, that it is at none. `Owned` says that every request is one or the
other, and that one which arrived and is not served is placed, unless the system is `Lossy`: no
look-ahead, and requests go anywhere. Then each action is a map of places: a merge
takes parcel j to queue j + 1 of the leader, a split takes queue k to parcel k - 1, and opening a parcel
makes it queue 1 of a follower, in place of what was there. `Counted` goes back from the place to the three
cardinalities. What makes the maps exact is `Handed` (a parcel that was taken is empty; nothing waits in
a parcel of a split) and `CopiedStopped` (the virtual engine whose copy a follower keeps does nothing, by
`Parking`). Requests that are sent to a merged follower are part of this: with look-ahead they wait in
`unaccepted_queue`, which no merge or split overwrites; without it they go to the scheduler that the split
replaces, become absent there, and nothing else can happen to them.

One thing these maps need of the past: that a leader which is being merged has its own instance only
(`Fresh`), because a second merge without a split in between takes the copies that the followers still keep.
`OwnersKept` is the theorem with `[]Fresh` as its hypothesis, for any number of groups. `Fresh` holds in a system
of one group, `Alone`, which is what the code starts by default (`--ngroups` is 1,
`kunserve_config.py:47`): `Votes` says that an answer that asks for the balloon was given in INITIAL, and that each group
gives one answer to a poll; a balloon is then ordered by the only answer there is, while the group is
still in INITIAL, unless the group was split since, and then the answer was another one
(`FreshAlways`). With two groups, one that asks for the balloon takes another along that is in RESTORE, where
`OneOwner` fails: with `Group = {g1, g2}`, `Size = 2`, one request, `LookAhead = TRUE`,
`MaxInstances = 3`, TLC finds the same request in a queue and on its way. Neither is `LookAhead` idle: without it
`CoordLost` loses a request. `DoubleTheorem` is about that case: losing it is all that can go wrong. `CoordSwitch` checks
`OneOwner` with two groups, as far as `MaxInstances` lets them go; TLC finds no violation of `NotDoubled` with one group of
three, two requests, no look-ahead and `MaxInstances = 5`.

`ReplicaServingTheorems` proves, for every number of instances, virtual engines, requests and
blocks, with migration or without:

| theorem | says |
| --- | --- |
| `TypeCorrect` | `Spec => []TypeOK` |
| `BlocksSafe` | `Spec => []BlocksConserved` |
| `PlacesSafe` | `Spec => []OnePlace` |
| `LocationsSafe` | `Spec => []LocationFollows` |
| `BatchesPinned` | `Spec => Pinned` |
| `Returns` | `Spec => []ReturnSucceeds` |
| `BatchesBacked` | `Spec => []BackedUnlessFull` |
| `Serves` | `Spec => KeepsPromise`: a refinement of `Answers` |

They share one invariant, because they need each other: blocks are conserved by a swap only if the
request has them on the device it leaves, which follows from the queue it is taken from, which it is
in only once.

    Inv == PoolsOK /\ RestOK /\ OnePlace /\ Placed /\ Absent /\ StepsOK

`PoolsOK` and `RestOK` are the types and `BlocksConserved`; `Placed` says of every place a request can
be in, its instance and the location its blocks must have, and that it still has tokens to come;
`Absent` that who is located nowhere has no blocks; `StepsOK` what a `_step` at each of its points
holds. The moves between places go through `HoldersBecome` and its companions. `Returns` adds `Locked`
(who is inside `_get_next_batch` has the lock) and `Back` (nobody else allocates in between): the
proof shows that it is the lock that keeps the check of `_check_add_to_cur_batch` true over the await.
`BatchesBacked` adds `Feeds`: from which point of `_get_next_batch` on every running request has its blocks,
and that requests without tokens always have them, so that a shortage always has a victim and the
engine gives up only because of the CPU. It is about one virtual engine (`V = 1`): with two, TLC
finds that a swap of the other one can make room on the CPU after this one gave up.
`ServingAssumption` is all that is assumed.

`EventLoopsTheorems` proves, for every size of the group and every number of pipeline stages:

| theorem | says |
| --- | --- |
| `TypeCorrect` | `Spec => []TypeOK` |
| `DriverIsAlone` | `Spec => []DriverAlone` |
| `RanksRight` | `Spec => []RanksFollow` |

with `Inv == TypeOK /\ LoopOwnsSteps /\ SeenEnded /\ Busy /\ RanksFollow /\ Stills`. The driver looks
at loops, the property is about steps: `LoopOwnsSteps` says that steps belong to a loop that is on,
`SeenEnded` that a loop the monitor has yet to start again has ended and is started once, `Busy` when
the driver is at work, and `Stills` which instances, at each point of the driver's routines, are
stopped and have no step in flight; a loop that starts in one of these launches nothing. The ranks need a
little arithmetic (`Division`): quotient and remainder by the length of the merged pipeline
and by that of an instance.

`RequestsTheorems` is about queues and batches as sequences. A batch is made by loops over one: those that
stay in it, the sum of its tokens, what is left for the next chunk. Each loop is a recursive function in
`Requests` (`Those`, `Total`, `ChunksFrom`, `Admit`); `Keeping`, `Summing` and `Freeing` show that such a
function exists, and induction over the length of the sequence gives what it returns. Two lemmas matter most.
`Chunks`: what `allocate_next_chunk` gives to the requests of a batch and what it leaves add up to what was
there, so no token of the budget is given twice. `Admission`: `schedule_prefill` admits a head of the
queue, each request with its whole prompt but the last, which may get a chunk, and the batch never exceeds
what it may have.

`ChunkedPrefillTheorems` proves on top of it, for every number of requests, every length of a prompt, every
budget and every limit:

| theorem | says |
| --- | --- |
| `Types` | `Spec => []TypeOK` |
| `Budgets` | `BudgetAssumption => (Spec => []BudgetKept)` |
| `NoChunkSkipped` | `Mode = "recompute" => (Spec => []PrefillFinished)` |
| `AnswersComplete` | `~ Batched => (Spec => []AnswerComplete)` |

All rest on `TypeInv == Typed /\ InFlight /\ Callers /\ Queues /\ Room`. `Queues` is the shape of the
two queues together: no request is in both or in one twice, a waiting request has its whole prompt as its
chunk, a running one has tokens to compute. `Room` says that if anybody in the batch has a chunk to come, chunks are on
and the batch is within the budget; it is what makes `allocate_next_chunk` get a natural number. Then:

- `Budgets` adds `Formats` (who runs in which format, by the phase) and that the running queue, not only the
  batch in flight, is within its budget: a stop or a switch may come between making a batch and running
  it. `BudgetAssumption == EnableChunked \/ (Mode = "recompute" /\ Cardinality(Req) <= MaxTokens)`.
  `_check_add_to_cur_batch` counts prefills only when chunks are off, so nothing in the code bounds the
  number of decodes; and where requests are resharded without chunks, chunks are switched on over
  a batch that may be larger than the budget (section 3).
- `NoChunkSkipped` adds `FinishedInv == AllRun /\ Cached /\ PrefillFinished`: what was computed of a prompt
  reaches to where the chunk begins or ends (`Cached`), and the batch in flight has every prefill of the running queue (`AllRun`), so that no
  chunk is followed by the next one before it ran. The second is what resharding breaks, as `PrefillReshard`
  shows.
- `AnswersComplete` adds `Limits`: the limit of each request plus what was moved from its output to its prompt is
  what the caller asked for, and whoever is finished has it. With `Batched`, requests share one
  `SamplingParams` object, a recomputation of one lowers the limit of all (`request.py:317`), and `Limits` is false.

`PrefillCycle` is an instance of the hypotheses of all four; `PrefillAssumption` is all that is assumed besides.

`LookAheadTheorems` proves, for every number of requests and virtual engines, every budget and every
setting in `Benches`; the hypothesis of `BudgetHolds` is all that is assumed besides `LookAheadAssumption`:

| theorem | says |
| --- | --- |
| `Invariance` | `Spec => []IInv` |
| `OnePlaceHolds` | `Spec => []OnePlace` |
| `RunsOnceHolds` | `Spec => []RunsOnce` |
| `KvLocalHolds` | `Spec => []KvLocal` |
| `BudgetHolds` | `N <= Budget => (Spec => []BudgetKept)` |
| `FirstComeHolds` | `Spec => FirstComeFirstServed` |

The invariant says that there is a function `at` from requests to spots (nowhere, the global queue, or the
short, long or running queue of a virtual engine) such that every queue holds exactly the requests
whose spot it is, each once (`Lined`); that what a virtual engine has on the workers is at its running queue; that whoever
has arrived is nowhere only if it is finished; and that who runs is in the pipeline, or in RESTORE at
home (`AtHome`). A step moves requests from spot to spot (`Moved`), and one lemma per operation says which:
`Sorted` (sorting is a permutation, proved by counting, since nothing can be proved by induction over an operator),
`DecodesBalanced`, `PlacedOne` and `AllPlaced`, `ReorderedSame`, `Preempted`, `LongPacked`, `BatchFilled`.
`NextBatch` puts them together for the whole of `_get_next_batch`. The third conjunct of `NextBatch`, that
whoever is in the running queue of another virtual engine stays there, is what `RunsOnce` needs. Since the chunk of a prompt can be
empty or negative (`ChunkValid`), the records of requests have integers where ChunkedPrefill has naturals (`Entry`).

`BudgetHolds` adds `BudgetInv == Fits /\ ... /\ BudgetKept`, whose middle part says that the prompts of every running queue are within the
budget, not only those at the workers. It is inductive because no loop gives a token twice: the chunks that follow take no
more than the batch had and could get (`ChunksSpend`, `NextWithin`), and need for it that a chunk that does not
end with its prompt has the size it was given (`Fits`); the long prompt takes what they left (`PackSpends`); the loop of
short prompts counts everything again before it admits anybody (`AdmitsWithin`);
and only decodes come from elsewhere (`DecodesArrive`). So the prompts are within the budget for every
`N`, and `N <= Budget` is only needed for a batch of decodes.

`FirstComeHolds` is about steps. Its invariant is `OrderInv`: while the group is ballooned and short prompts are not preferred,
the queue of every virtual engine is `InOrder` (a request that has put out nothing stands before those that
arrived later) and whoever has generated something since its last preemption has put it out (`Earned`). The
second part is what keeps the first: preempted requests go to the front whenever they arrived (`OrderBehind`), and
count as served because they were decodes. The rest follows `_get_next_batch`: sorting by
arrival gives the order (`SortedRises`), placing puts only long prompts with the long ones
(`PlacedLong`), the loops take from the head of the queue and leave the rest as it is (`PlanServes`), after
`balance_prefill` has emptied the global queue (`BalancedOrder`), so that nobody comes from there past those who wait. In
RESTORE neither the order nor the property is claimed.

Liveness and `ENABLED` are out of the prover's reach and stay with TLC: `Served` and the other properties
of section 3 that say what eventually happens. So does what a `violation` run refutes; where a pass run checks
the same property, its theorem has the hypothesis that excludes the violation. Every other
property of the runs is stated by a theorem.

## 5. What is not modelled

- The transfer of requests between groups (`coordinator.py:164`, `215`), zigzag chunks
  (`schedule_chunked_pipe_prefill`) and `swap_requests` for a batch, whose callers nobody awaits
  (`colocated_scheduler.py:241`): nothing reaches them. The same goes for the CPU branch of `free_blocks`,
  which would use an unbound variable (`block_manager.py:724`), and for the only reader of the workers' ranks after
  their start.
- `convert_to_pipeline_format_w_reserve`, which only a second merge out of RESTORE calls. Coordinator
  has that merge; its effect on blocks is not modelled.
- Contents of the cache: only who owns which block is modelled, so that packing, exchanges and swaps
  copy the right bytes is not shown.
- Abortion of a request (a stub in the engine), end tokens, time stamps, and what the queue actor does
  when a server dies, which is to call that stub.
- The loads that the coordinator's strategies compare (`coordinator.py:251-262`): they may be out of
  date, so `Dispatch` and `Look` may choose any instance. Which votes an engine casts when depends on
  measurements; all patterns of votes are allowed.
- Swapping while a group is fused, and swapping together with a change of state: ReplicaServing stays
  in INITIAL. The copies themselves: `swap_blocks` uses the caches that `init_kvcache_and_swap`
  (`worker.py:160`) allocates, and nothing in the repository calls that.
- Kernels, NCCL, memory mapping, models, tokenizer, download and conversion, configuration, front
  end, measurements and evaluation: pure functions, I/O or native code. The global dispatcher is
  marked deprecated and nothing constructs it.

## 6. Order of the work, and what could follow

The modules were written in the order of how much of the system's promise depends on them: ownership
of memory through all changes of state (BlockPools, FusionGroup); orders and queues between actors
(Coordinator); tokens and answers (Requests, ChunkedPrefill); then scheduling across virtual engines
(LookAhead), swapping and migration (ReplicaServing), and the loops that drive it all (EventLoops). The
modules stand beside each other: each abstracts what another one details (Coordinator the blocks of a
group, FusionGroup the other groups, EventLoops what a step does, LookAhead and ChunkedPrefill memory),
because their product is far beyond what TLC can enumerate.

What could follow: the CPU part of the blocks in FusionGroup, so that swapping can meet a change of state, and the
loads that the coordinator compares.
