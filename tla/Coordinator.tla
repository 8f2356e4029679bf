----------------------------- MODULE Coordinator -----------------------------
(***************************************************************************)
(* The coordinator (coordinator.py), the drivers of the groups (class      *)
(* ColocatedEngine of llm_engine.py) and, of the engines they drive, what  *)
(* the changes of state move around: queues, steps in flight and the flag  *)
(* `stopped'.  What an engine does with its blocks is FusionGroup's         *)
(* subject.  Engines are Ray actors: what one sends to another is a copy.  *)
(***************************************************************************)
EXTENDS Naturals, FiniteSets, Sequences

CONSTANTS Group,            \* the groups of instances
          Size,             \* instances of a group: replica_size
          Req,              \* the requests
          LookAhead,        \* enable_look_ahead: requests wait in the engine, not in a scheduler
          DispatchAnywhere, \* requests are sent to followers whatever the state of their group
          MaxInstances      \* bound: no merge may give a leader more instances than this

ASSUME CoordinatorAssumption ==
    /\ IsFiniteSet(Group)
    /\ Size \in Nat \ {0, 1}
    /\ {LookAhead, DispatchAnywhere} \subseteq BOOLEAN
    /\ MaxInstances \in Nat /\ MaxInstances >= Size

Rank == 0 .. Size - 1
Follower == Rank \ {0}
Event == {"keep", "balloon", "restore", "init"}

\* What a follower hands to the leader at a merge, and the leader to a follower
\* at a split.
Nothing == [ready |-> FALSE, queue |-> {}, pending |-> {}]
Parcel == [ready: BOOLEAN, queue: SUBSET Req, pending: SUBSET Req]

VARIABLES
    state,      \* ColocatedEngine.state of each group
    routine,    \* what the driver of each group is doing
    events,     \* the answers to the coordinator's poll: a set of at most one per group
    turn,       \* where the coordinator's loop is
    layout,     \* from_restore of the balloon under way, for each group
    engine,     \* the engines of each group
    parcel,     \* the properties in transit, for each follower
    arrived,    \* the requests that were dispatched
    served      \* the requests that finished

vars == <<state, routine, events, turn, layout, engine, parcel, arrived, served>>

Engine ==
    [stopped: BOOLEAN, instances: 1 .. MaxInstances, pending: SUBSET Req,
     queues: UNION {[1 .. n -> SUBSET Req] : n \in 1 .. MaxInstances},
     busy: SUBSET (1 .. MaxInstances)]

NewEngine ==
    [stopped |-> FALSE, instances |-> 1, pending |-> {}, queues |-> <<{}>>, busy |-> {}]

Init ==
    /\ state = [g \in Group |-> "initial"]
    /\ routine = [g \in Group |-> "none"]
    /\ events = {}
    /\ turn = "poll"
    /\ layout = [g \in Group |-> FALSE]
    /\ engine = [g \in Group |-> [i \in Rank |-> NewEngine]]
    /\ parcel = [g \in Group |-> [i \in Follower |-> Nothing]]
    /\ arrived = {}
    /\ served = {}

\* The engines of a group after `stopped' of some of them is set.
With(g, ranks, value) ==
    [i \in Rank |-> IF i \in ranks THEN [engine[g][i] EXCEPT !.stopped = value]
                                   ELSE engine[g][i]]
AllStopped(g) == With(g, Rank, TRUE)
Quiet(g) == \A i \in Rank : engine[g][i].busy = {}

-----------------------------------------------------------------------------
(* Requests *)

\* The schedulers with the fewest requests.
LeastLoaded(e) ==
    {k \in DOMAIN e.queues :
        \A l \in DOMAIN e.queues : Cardinality(e.queues[k]) <= Cardinality(e.queues[l])}

\* get_next_assign and generate: any instance may be next.
Dispatch(g, i, r) ==
    /\ r \notin arrived
    /\ DispatchAnywhere \/ i = 0 \/ state[g] = "initial"
    /\ arrived' = arrived \cup {r}
    /\ IF LookAhead
       THEN engine' = [engine EXCEPT ![g][i].pending = @ \cup {r}]
       ELSE \E k \in LeastLoaded(engine[g][i]) :
               engine' = [engine EXCEPT ![g][i].queues[k] = @ \cup {r}]
    /\ UNCHANGED <<state, routine, events, turn, layout, parcel, served>>

\* A virtual engine takes a request that waits in the engine.
Accept(g, i, k, r) ==
    /\ ~ engine[g][i].stopped
    /\ k \in DOMAIN engine[g][i].queues /\ r \in engine[g][i].pending
    /\ engine' = [engine EXCEPT ![g][i].pending = @ \ {r}, ![g][i].queues[k] = @ \cup {r}]
    /\ UNCHANGED <<state, routine, events, turn, layout, parcel, arrived, served>>

StartStep(g, i, k) ==
    /\ ~ engine[g][i].stopped
    /\ k \in DOMAIN engine[g][i].queues \ engine[g][i].busy
    /\ engine[g][i].queues[k] # {}
    /\ engine' = [engine EXCEPT ![g][i].busy = @ \cup {k}]
    /\ UNCHANGED <<state, routine, events, turn, layout, parcel, arrived, served>>

\* The requests that finished leave the queue, unless the engine was stopped.
EndStep(g, i, k) ==
    /\ k \in engine[g][i].busy
    /\ \E done \in SUBSET engine[g][i].queues[k] :
        /\ engine[g][i].stopped => done = {}
        /\ engine' = [engine EXCEPT ![g][i].busy = @ \ {k}, ![g][i].queues[k] = @ \ done]
        /\ served' = served \cup done
    /\ UNCHANGED <<state, routine, events, turn, layout, parcel, arrived>>

-----------------------------------------------------------------------------
(* The coordinator *)

Asked(g) == \E e \in events : e.group = g
Wants(kind) == {e.group : e \in {f \in events : f.event = kind}}
Answer(g, kind) == events' = events \cup {[group |-> g, state |-> state[g], event |-> kind]}

\* make_decision_for: enough engines are short of memory.
Quorum(yes) == yes # {} /\ Cardinality(yes) >= Size \div 2

\* The bound: no group would grow past MaxInstances.
Mergeable == \A g \in Group : engine[g][0].instances + Size - 1 <= MaxInstances

\* get_event in the INITIAL state: an engine that votes for BALLOON stops at once.
AskInitial(g) ==
    /\ state[g] = "initial"
    /\ \E yes \in SUBSET Rank :
        /\ Quorum(yes) => Mergeable
        /\ engine' = [engine EXCEPT ![g] = With(g, yes, TRUE)]
        /\ Answer(g, IF Quorum(yes) THEN "balloon" ELSE "keep")

\* get_event in the BALLOON and RESTORE states asks the leader only; it leaves
\* BALLOON only when no request waits for admission, and RESTORE when the last
\* request that runs on the pipeline has gone (which ones do is not modelled).
AskLeader(g) ==
    /\ \/ state[g] = "balloon" /\ engine[g][0].pending = {} /\ Answer(g, "restore")
       \/ state[g] = "restore" /\ Answer(g, "init")
       \/ state[g] \in {"balloon", "restore"} /\ Answer(g, "keep")
    /\ UNCHANGED engine

Ask(g) ==
    /\ turn = "poll" /\ ~ Asked(g)
    /\ AskInitial(g) \/ AskLeader(g)
    /\ UNCHANGED <<state, routine, turn, layout, parcel, arrived, served>>

Polled == turn = "poll" /\ \A g \in Group : Asked(g)
Idle == \A g \in Group : routine[g] = "none"

\* handle_events: the groups that can be split are split first.
BeginInit ==
    /\ Polled /\ Wants("init") # {}
    /\ turn' = "init"
    /\ state' = [g \in Group |-> IF g \in Wants("init") THEN "stop" ELSE state[g]]
    /\ routine' = [g \in Group |-> IF g \in Wants("init") THEN "split" ELSE routine[g]]
    /\ engine' = [g \in Group |-> IF g \in Wants("init") THEN AllStopped(g) ELSE engine[g]]
    /\ UNCHANGED <<events, layout, parcel, arrived, served>>

Decided == (Polled /\ Wants("init") = {}) \/ (turn = "init" /\ Idle)

SwitchedVoters(kind) ==                                             \* mutation
    IF kind = "balloon" THEN Wants("balloon") ELSE Group

\* The groups that trigger_balloon and trigger_restore of the coordinator act on.
Switched(kind) == Group

\* trigger_balloon: the layout is told from the answer to the poll.
BeginBalloon ==
    /\ Decided /\ Wants("balloon") # {}
    /\ turn' = "switch"
    /\ state' = [g \in Group |-> IF g \in Switched("balloon") THEN "stop" ELSE state[g]]
    /\ routine' = [g \in Group |-> IF g \in Switched("balloon") THEN "merge" ELSE routine[g]]
    /\ layout' = [g \in Group |-> \E e \in events : e.group = g /\ e.state = "restore"]
    /\ UNCHANGED <<events, engine, parcel, arrived, served>>

BeginRestore ==
    /\ Decided /\ Wants("balloon") = {} /\ Wants("restore") # {}
    /\ turn' = "switch"
    /\ routine' = [g \in Group |-> IF g \in Switched("restore") THEN "reclaim" ELSE routine[g]]
    /\ UNCHANGED <<state, events, layout, engine, parcel, arrived, served>>

\* The next poll, CHECK_EVENTS_INTERVAL later.
Sleep ==
    /\ \/ turn = "switch" /\ Idle
       \/ Decided /\ Wants("balloon") = {} /\ Wants("restore") = {}
    /\ turn' = "poll" /\ events' = {}
    /\ UNCHANGED <<state, routine, layout, engine, parcel, arrived, served>>

-----------------------------------------------------------------------------
(* trigger_balloon of a group *)

StopFollower(g, i) ==
    /\ routine[g] = "merge" /\ ~ engine[g][i].stopped
    /\ engine' = [engine EXCEPT ![g][i].stopped = TRUE]
    /\ UNCHANGED <<state, routine, events, turn, layout, parcel, arrived, served>>

TakePropertiesKeeping(g, i) ==                                     \* mutation
    /\ routine[g] = "merge" /\ ~ parcel[g][i].ready
    /\ engine[g][i].stopped /\ engine[g][i].busy = {}
    /\ parcel' = [parcel EXCEPT ![g][i] =
           [ready |-> TRUE, queue |-> engine[g][i].queues[1], pending |-> engine[g][i].pending]]
    /\ UNCHANGED <<state, routine, events, turn, layout, engine, arrived, served>>

\* stop_and_get_properties returns; the follower keeps the queue it sends a copy of.
TakeProperties(g, i) ==
    /\ routine[g] = "merge" /\ ~ parcel[g][i].ready
    /\ engine[g][i].stopped /\ engine[g][i].busy = {}
    /\ parcel' = [parcel EXCEPT ![g][i] =
           [ready |-> TRUE, queue |-> engine[g][i].queues[1], pending |-> engine[g][i].pending]]
    /\ engine' = [engine EXCEPT ![g][i].pending = {}]
    /\ UNCHANGED <<state, routine, events, turn, layout, arrived, served>>

\* merge_engine, once for each follower.
Merge(g) ==
    /\ routine[g] = "merge" /\ \A i \in Follower : parcel[g][i].ready
    /\ LET leader == engine[g][0]
           sent == [i \in Follower |-> parcel[g][i].queue]
           waiting == UNION {parcel[g][i].pending : i \in Follower}
       IN engine' = [engine EXCEPT ![g][0] =
              [stopped |-> TRUE,
               instances |-> leader.instances + Size - 1,
               queues |-> leader.queues \o sent,
               pending |-> leader.pending \cup waiting,
               busy |-> leader.busy]]
    /\ parcel' = [parcel EXCEPT ![g] = [i \in Follower |-> Nothing]]
    /\ routine' = [routine EXCEPT ![g] = "drop"]
    /\ UNCHANGED <<state, events, turn, layout, arrived, served>>

\* Requests move from the busiest virtual engine to the laziest, half as many as
\* the difference; the queues do not tell the running requests from the others.
Even(queues, busiest, laziest, moved) ==
    IF /\ busiest # laziest /\ moved \subseteq queues[busiest]
       /\ 2 * Cardinality(moved) <= Cardinality(queues[busiest])
    THEN [queues EXCEPT ![busiest] = @ \ moved, ![laziest] = @ \cup moved]
    ELSE queues
Evened(queues) ==
    {Even(queues, b, l, moved) : b, l \in DOMAIN queues, moved \in SUBSET Req}

\* The workers end the leader's step before they drop parameters.
EnterBalloon(g) ==
    /\ routine[g] = "drop" /\ engine[g][0].busy = {}
    /\ \E queues \in Evened(engine[g][0].queues) :
        engine' = [engine EXCEPT ![g][0].queues = queues, ![g][0].stopped = FALSE]
    /\ state' = [state EXCEPT ![g] = "balloon"]
    /\ routine' = [routine EXCEPT ![g] = "none"]
    /\ UNCHANGED <<events, turn, layout, parcel, arrived, served>>

-----------------------------------------------------------------------------
(* trigger_restore and trigger_init of a group *)

\* The parameters are back: stop_all_engines.
Reloaded(g) ==
    /\ routine[g] = "reclaim"
    /\ state' = [state EXCEPT ![g] = "stop"]
    /\ routine' = [routine EXCEPT ![g] = "restore"]
    /\ engine' = [engine EXCEPT ![g] = AllStopped(g)]
    /\ UNCHANGED <<events, turn, layout, parcel, arrived, served>>

RestartedAll == Rank                                               \* mutation
RestartedNone == {}                                                \* mutation

\* The engines that restore_instance restarts.
Restarted == {0}

RestoreInstance(g) ==
    /\ routine[g] = "restore" /\ Quiet(g)
    /\ engine' = [engine EXCEPT ![g] = With(g, Restarted, FALSE)]
    /\ state' = [state EXCEPT ![g] = "restore"]
    /\ routine' = [routine EXCEPT ![g] = "none"]
    /\ UNCHANGED <<events, turn, layout, parcel, arrived, served>>

SplitEngineEarly(g) ==                                             \* mutation
    /\ routine[g] = "split"
    /\ parcel' = [parcel EXCEPT ![g] = [i \in Follower |->
           [ready |-> TRUE, queue |-> engine[g][0].queues[i + 1], pending |-> {}]]]
    /\ engine' = [engine EXCEPT ![g][0].queues = <<@[1]>>]
    /\ routine' = [routine EXCEPT ![g] = "deal"]
    /\ UNCHANGED <<state, events, turn, layout, arrived, served>>

SplitEngineKeeping(g) ==                                           \* mutation
    /\ routine[g] = "split" /\ Quiet(g)
    /\ parcel' = [parcel EXCEPT ![g] = [i \in Follower |->
           [ready |-> TRUE, queue |-> engine[g][0].queues[i + 1], pending |-> {}]]]
    /\ routine' = [routine EXCEPT ![g] = "deal"]
    /\ UNCHANGED <<state, events, turn, layout, engine, arrived, served>>

\* split_engine: the queues of the second to last instance go back to the followers.
SplitEngine(g) ==
    /\ routine[g] = "split" /\ Quiet(g)
    /\ parcel' = [parcel EXCEPT ![g] = [i \in Follower |->
           [ready |-> TRUE, queue |-> engine[g][0].queues[i + 1], pending |-> {}]]]
    /\ engine' = [engine EXCEPT ![g][0].queues = <<@[1]>>]
    /\ routine' = [routine EXCEPT ![g] = "deal"]
    /\ UNCHANGED <<state, events, turn, layout, arrived, served>>

\* set_instance_properties: what was in the follower's scheduler is replaced.
SetProperties(g, i) ==
    /\ routine[g] = "deal" /\ parcel[g][i].ready
    /\ engine' = [engine EXCEPT ![g][i].queues = <<parcel[g][i].queue>>]
    /\ parcel' = [parcel EXCEPT ![g][i] = Nothing]
    /\ UNCHANGED <<state, routine, events, turn, layout, arrived, served>>

TriggerInit(g) ==
    /\ routine[g] = "deal" /\ \A i \in Follower : ~ parcel[g][i].ready
    /\ engine' = [engine EXCEPT ![g] =
           [i \in Rank |-> [@[i] EXCEPT !.stopped = FALSE, !.instances = 1]]]
    /\ state' = [state EXCEPT ![g] = "initial"]
    /\ routine' = [routine EXCEPT ![g] = "none"]
    /\ UNCHANGED <<events, turn, layout, parcel, arrived, served>>

-----------------------------------------------------------------------------

Lead == BeginInit \/ BeginBalloon \/ BeginRestore \/ Sleep

\* What the driver of a group does.
Drive(g) ==
    \/ Merge(g) \/ EnterBalloon(g)
    \/ Reloaded(g) \/ RestoreInstance(g)
    \/ SplitEngine(g) \/ TriggerInit(g)
    \/ \E i \in Follower : StopFollower(g, i) \/ TakeProperties(g, i) \/ SetProperties(g, i)

Next ==
    \/ Lead
    \/ \E g \in Group : Ask(g) \/ Drive(g)
    \/ \E g \in Group, i \in Rank, r \in Req : Dispatch(g, i, r)
    \/ \E g \in Group, i \in Rank, k \in 1 .. MaxInstances :
          \/ StartStep(g, i, k) \/ EndStep(g, i, k)
          \/ \E r \in Req : Accept(g, i, k, r)

Spec == Init /\ [][Next]_vars

\* The coordinator's loop runs for ever, every call of a driver is answered, and
\* every step ends.
Fairness ==
    /\ WF_vars(Lead)
    /\ \A g \in Group : WF_vars(Ask(g)) /\ WF_vars(Drive(g))
    /\ \A g \in Group, i \in Rank, k \in 1 .. MaxInstances : WF_vars(EndStep(g, i, k))

FairSpec == Spec /\ Fairness

-----------------------------------------------------------------------------
(* Properties *)

\* The state of the groups, of their engines and of the coordinator is well typed.
TypeOK ==
    /\ state \in [Group -> {"initial", "balloon", "restore", "stop"}]
    /\ routine \in [Group -> {"none", "merge", "drop", "reclaim", "restore", "split", "deal"}]
    /\ events \subseteq [group: Group, state: {"initial", "balloon", "restore"}, event: Event]
    /\ turn \in {"poll", "init", "switch"}
    /\ layout \in [Group -> BOOLEAN]
    /\ engine \in [Group -> [Rank -> Engine]]
    /\ parcel \in [Group -> [Follower -> Parcel]]
    /\ served \subseteq arrived /\ arrived \subseteq Req
    /\ \A g \in Group, i \in Rank : engine[g][i].busy \subseteq DOMAIN engine[g][i].queues

\* The scheduler of a follower that was merged is a copy nobody uses.
Copied(g, i) ==
    /\ i # 0
    /\ parcel[g][i].ready \/ (engine[g][0].instances > 1 /\ routine[g] # "deal")

Queued(r) ==
    {p \in Group \X Rank \X (1 .. MaxInstances) :
        LET queues == engine[p[1]][p[2]].queues
        IN p[3] \in DOMAIN queues /\ r \in queues[p[3]]}
Waiting(r) == {p \in Group \X Rank : r \in engine[p[1]][p[2]].pending}
InTransit(r) ==
    {p \in Group \X Follower :
        r \in parcel[p[1]][p[2]].queue \cup parcel[p[1]][p[2]].pending}

\* How many places a request is in.
Owners(r) ==
    Cardinality({p \in Queued(r) : ~ Copied(p[1], p[2])})
        + Cardinality(Waiting(r)) + Cardinality(InTransit(r))

\* A request is in exactly one place until it finishes: merging and splitting the
\* engines, with the copies this leaves behind, neither drops nor doubles a request
\* (get_instance_properties, merge_engine, split_engine, set_instance_properties).
OneOwner == \A r \in arrived : Owners(r) = IF r \in served THEN 0 ELSE 1

\* A request is never in two places, and in none once it has finished, also where
\* one that is sent to a merged follower gets lost (get_next_assign, add_request).
NotDoubled == \A r \in arrived : Owners(r) <= IF r \in served THEN 0 ELSE 1

\* A request that was dispatched is somewhere until it finishes: LLMEngine.generate
\* yields the tokens of each request.
NothingLost ==
    \A r \in arrived \ served : Queued(r) \cup Waiting(r) \cup InTransit(r) # {}

\* While the leader runs the instances of its group, the followers' own event loops
\* do nothing (stop_and_get_properties, restore_instance, trigger_init).
FollowersParked ==
    \A g \in Group : state[g] \in {"balloon", "restore"} =>
        \A i \in Follower : engine[g][i].stopped /\ engine[g][i].busy = {}

\* The order to restore reaches ballooned groups only, although the coordinator gives
\* it to every group as soon as one asks for it (Coordinator.trigger_restore).
RestoreFromBalloon ==
    [][\A g \in Group : routine[g] = "none" /\ routine'[g] = "reclaim" => state[g] = "balloon"]_vars

\* A ballooned group has as many instances as the group was made with
\* (ColocatedEngine.__init__: the instance number equals the balloon size).
WidthIsSize ==
    \A g \in Group : state[g] = "balloon" => engine[g][0].instances = Size

\* from_restore tells how the blocks of the group are laid out: RESTORE keeps the
\* followers' managers in the leader, INITIAL gives them back
\* (FlashBackend.trigger_balloon, step 2).
LayoutIsTrue ==
    \A g \in Group : routine[g] = "merge" => (layout[g] <=> engine[g][0].instances > 1)

\* Every change of state ends with the leader running: whatever it waits for, steps,
\* parcels and the other group included, comes (trigger_balloon, trigger_restore,
\* trigger_init of ColocatedEngine).
ChangesEnd ==
    \A g \in Group : routine[g] # "none" ~> routine[g] = "none" /\ ~ engine[g][0].stopped

\* A leader that was stopped runs again: "Poll engine state, and restart event loop if
\* necessary" (llm_engine.py:647), which monitor_engines does not while it is stopped.
LeaderResumes == \A g \in Group : engine[g][0].stopped ~> ~ engine[g][0].stopped
=============================================================================
