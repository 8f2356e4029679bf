----------------------------- MODULE EventLoops -----------------------------
(***************************************************************************)
(* How the virtual engines of a group are kept running: the event loop of  *)
(* each instance (start_event_loop and _step of flash_backend.py), the     *)
(* monitor that starts the loops again (monitor_engines of llm_engine.py), *)
(* and the driver that stops them, changes how many virtual engines an     *)
(* instance has, and lets them run again (trigger_balloon, trigger_restore *)
(* and trigger_init of both).                                              *)
(*                                                                         *)
(* Driver and monitor are coroutines of one process, each instance is an   *)
(* actor of its own: calls are handled and answers read some time after    *)
(* they were sent.  What steps do is the matter of the other modules.      *)
(***************************************************************************)
EXTENDS Naturals

CONSTANTS
  Size,     \* instances of the group
  Pp,       \* virtual engines of an instance (pipeline_parallel_size)
  Prompt    \* an answer takes longer than an event loop to do what is ready

ASSUME LoopsAssumption ==
  /\ Size \in Nat \ {0, 1}
  /\ Pp \in Nat \ {0}
  /\ Prompt \in BOOLEAN

Rank     == 0 .. Size - 1
Follower == Rank \ {0}
Ve       == 0 .. Size * Pp - 1
Stage    == 0 .. Pp - 1       \* pipeline stages of an instance, a worker each
None     == Size

VARIABLES
  state,      \* ColocatedEngine.state
  routine,    \* what the driver is doing
  called,     \* the instances that have answered the driver's call
  dropped,    \* the instances that have dropped parameters
  stopped,    \* engine.stopped
  ves,        \* len(engine.scheduler)
  para,       \* parallel_config of the workers of each instance
  loop,       \* start_event_loop of each instance
  task,       \* the _step of each virtual engine that a loop knows of
  todo,       \* the monitor: loops seen to have ended, ...
  asked       \* ... and the one whose engine has answered that it runs

driver  == <<state, routine, called, dropped>>
monitor == <<todo, asked>>
loops   == <<loop, task>>
shape   == <<ves, para>>
vars    == <<driver, stopped, shape, loops, monitor>>

\* The worker of stage j of instance i: one of Size pipelines of Pp stages.
Own(i, j) == [pp_size |-> Pp, rp_size |-> Size, pp_rank |-> j, rp_rank |-> i]

Init ==
  /\ state = "initial" /\ routine = "none"
  /\ called = {} /\ dropped = {}
  /\ stopped = [i \in Rank |-> FALSE]
  /\ ves = [i \in Rank |-> Pp]
  /\ para = [i \in Rank |-> [j \in Stage |-> Own(i, j)]]
  /\ loop = [i \in Rank |-> "starting"]
  /\ task = [i \in Rank |-> [v \in Ve |-> "none"]]
  /\ todo = {} /\ asked = None

Known(i)    == {v \in Ve : task[i][v] # "none"}
InFlight(i) == {v \in Ve : task[i][v] \in {"forward", "answered"}}
AllDone(i)  == \A v \in Known(i) : task[i][v] = "done"

-----------------------------------------------------------------------------
(* The event loop of an instance.                                          *)

\* One task for every virtual engine there is at that moment.
StartLoop(i) ==
  /\ loop[i] = "starting"
  /\ loop' = [loop EXCEPT ![i] = "on"]
  /\ task' = [task EXCEPT ![i] = [v \in Ve |-> IF v < ves[i] THEN "new" ELSE "none"]]
  /\ UNCHANGED <<driver, stopped, shape, monitor>>

\* _step: a batch goes to the workers, unless the engine has been stopped.  The
\* step of a virtual engine that is gone ends with an exception.
BeginStep(i, v) ==
  /\ task[i][v] = "new"
  /\ task' = [task EXCEPT ![i][v] =
                IF stopped[i] \/ v >= ves[i] THEN "done" ELSE "forward"]
  /\ UNCHANGED <<driver, stopped, shape, loop, monitor>>

\* The workers answer.
Answer(i, v) ==
  /\ task[i][v] = "forward"
  /\ task' = [task EXCEPT ![i][v] = "answered"]
  /\ UNCHANGED <<driver, stopped, shape, loop, monitor>>

\* The rest of _step.
EndStep(i, v) ==
  /\ task[i][v] = "answered"
  /\ task' = [task EXCEPT ![i][v] = "done"]
  /\ UNCHANGED <<driver, stopped, shape, loop, monitor>>

\* All have ended, and are not to start again.
EndLoop(i) ==
  /\ loop[i] = "on" /\ stopped[i] /\ AllDone(i)
  /\ loop' = [loop EXCEPT ![i] = "off"]
  /\ task' = [task EXCEPT ![i] = [v \in Ve |-> "none"]]
  /\ UNCHANGED <<driver, stopped, shape, monitor>>

\* mutation: in an engine that has been stopped too.
RelaunchAlways(i) ==
  /\ loop[i] = "on"
  /\ \E v \in Ve : task[i][v] = "done"
  /\ task' = [task EXCEPT ![i] = [v \in Ve |-> IF @[v] = "done" THEN "new" ELSE @[v]]]
  /\ UNCHANGED <<driver, stopped, shape, loop, monitor>>

\* Steps that have ended are started again.
Relaunch(i) ==
  /\ loop[i] = "on" /\ ~ stopped[i]
  /\ \E v \in Ve : task[i][v] = "done"
  /\ task' = [task EXCEPT ![i] = [v \in Ve |-> IF @[v] = "done" THEN "new" ELSE @[v]]]
  /\ UNCHANGED <<driver, stopped, shape, loop, monitor>>

\* Nothing is ready in the event loop: it waits for workers, or for calls.
Settled(i) ==
  /\ \A v \in Ve : task[i][v] \notin {"new", "answered"}
  /\ ~ (loop[i] = "on" /\ AllDone(i))

Settles(i) == Prompt => Settled(i)

-----------------------------------------------------------------------------
(* monitor_engines.                                                        *)

\* ray.wait.
Poll ==
  /\ todo = {} /\ asked = None
  /\ todo' = {i \in Rank : loop[i] = "off"}
  /\ UNCHANGED <<driver, stopped, shape, loops, asked>>

\* is_instance_stopped, of one loop after the other.
AskStopped ==
  /\ asked = None
  /\ \E i \in todo :
       /\ \A j \in todo : i <= j
       /\ todo' = todo \ {i}
       /\ asked' = IF stopped[i] THEN None ELSE i
  /\ UNCHANGED <<driver, stopped, shape, loops>>

\* The answer may be out of date.
RestartLoop ==
  /\ asked # None
  /\ loop' = [loop EXCEPT ![asked] = "starting"]
  /\ asked' = None
  /\ UNCHANGED <<driver, stopped, shape, task, todo>>

-----------------------------------------------------------------------------
(* trigger_balloon.                                                        *)

\* Engines that vote for it have stopped by then; the vote that counted may
\* also be another group's.
Vote ==
  /\ state = "initial" /\ routine = "none"
  /\ \E yes \in SUBSET Rank :
       stopped' = [i \in Rank |-> stopped[i] \/ i \in yes]
  /\ state' = "stop" /\ routine' = "merge"
  /\ called' = {}
  /\ UNCHANGED <<dropped, shape, loops, monitor>>

\* stop_and_get_properties.
StopFollower(i) ==
  /\ routine = "merge" /\ ~ stopped[i]
  /\ stopped' = [stopped EXCEPT ![i] = TRUE]
  /\ UNCHANGED <<driver, shape, loops, monitor>>

GetProperties(i) ==
  /\ routine = "merge" /\ i \notin called
  /\ stopped[i] /\ InFlight(i) = {}
  /\ called' = called \cup {i}
  /\ UNCHANGED <<state, routine, dropped, stopped, shape, loops, monitor>>

\* mutation: the leader goes on while it takes over the followers.
MergeRunning ==
  /\ routine = "merge" /\ called = Follower
  /\ routine' = "drop"
  /\ dropped' = {}
  /\ ves' = [ves EXCEPT ![0] = Size * Pp]
  /\ UNCHANGED <<state, called, stopped, para, loops, monitor>>

\* merge_engine; the leader's steps may be in flight.
Merge ==
  /\ routine = "merge" /\ called = Follower
  /\ routine' = "drop"
  /\ dropped' = {}
  /\ stopped' = [stopped EXCEPT ![0] = TRUE]
  /\ ves' = [ves EXCEPT ![0] = Size * Pp]
  /\ UNCHANGED <<state, called, para, loops, monitor>>

\* mutation: the sizes are overwritten before the rank in the group is taken.
RerankedLate(w, pp, rp) ==
  LET rank == pp * w.rp_rank + w.pp_rank
  IN  [pp_size |-> pp, rp_size |-> rp, pp_rank |-> rank % pp, rp_rank |-> rank \div pp]

\* A worker keeps its rank in the group when pipelines become longer or shorter.
Reranked(w, pp, rp) ==
  LET rank == w.pp_size * w.rp_rank + w.pp_rank
  IN  [pp_size |-> pp, rp_size |-> rp, pp_rank |-> rank % pp, rp_rank |-> rank \div pp]

\* pmm_drop and pmm_restore of a worker.
PmmDrop(w)    == Reranked(w, w.pp_size * Size, w.rp_size \div Size)
PmmRestore(w) == Reranked(w, w.pp_size \div Size, w.rp_size * Size)

\* pmm_drop, one instance after the other.  The leader's own workers are the
\* first; they finish its steps before.
Drop(i) ==
  /\ routine = "drop" /\ i \notin dropped
  /\ \A j \in Rank : j < i => j \in dropped
  /\ IF i = 0 THEN \A v \in Ve : task[0][v] # "forward" ELSE Settles(0)
  /\ dropped' = dropped \cup {i}
  /\ para' = [para EXCEPT ![i] = [j \in Stage |-> PmmDrop(@[j])]]
  /\ UNCHANGED <<state, routine, called, stopped, ves, loops, monitor>>

EnterBalloon ==
  /\ routine = "drop" /\ dropped = Rank
  /\ stopped' = [stopped EXCEPT ![0] = FALSE]
  /\ state' = "balloon" /\ routine' = "none"
  /\ UNCHANGED <<called, dropped, shape, loops, monitor>>

-----------------------------------------------------------------------------
(* trigger_restore and trigger_init.                                       *)

\* stop_all_engines begins.
BeginStop(from, to) ==
  /\ state = from /\ routine = "none"
  /\ state' = "stop" /\ routine' = to
  /\ called' = {}
  /\ UNCHANGED <<dropped, stopped, ves, loops, monitor>>

\* First the parameters are loaded again, while the engine runs.
BeginRestore ==
  /\ BeginStop("balloon", "stop to restore")
  /\ para' = [i \in Rank |-> [j \in Stage |-> PmmRestore(para[i][j])]]

BeginInit == BeginStop("restore", "stop to init") /\ UNCHANGED para

\* set_engine_stopped.
Stop(i) ==
  /\ routine \in {"stop to restore", "stop to init"} /\ i \notin called
  /\ stopped' = [stopped EXCEPT ![i] = TRUE]
  /\ called' = called \cup {i}
  /\ UNCHANGED <<state, routine, dropped, shape, loops, monitor>>

\* mutation: one loop that has ended is enough.
AnyEnded == \E i \in Rank : loop[i] = "off"

\* ray.wait: the references of all loops are done.
AllEnded == \A i \in Rank : loop[i] = "off"

Stopped ==
  /\ routine \in {"stop to restore", "stop to init"}
  /\ called = Rank /\ AllEnded
  /\ routine' = IF routine = "stop to restore" THEN "restore" ELSE "split"
  /\ UNCHANGED <<state, called, dropped, stopped, shape, loops, monitor>>

RestoreInstance ==
  /\ routine = "restore"
  /\ stopped' = [stopped EXCEPT ![0] = FALSE]
  /\ state' = "restore" /\ routine' = "none"
  /\ UNCHANGED <<called, dropped, shape, loops, monitor>>

\* split_engine; set_instance_properties of the followers.
Split ==
  /\ routine = "split"
  /\ ves' = [ves EXCEPT ![0] = Pp]
  /\ routine' = "start" /\ called' = {}
  /\ UNCHANGED <<state, dropped, stopped, para, loops, monitor>>

\* trigger_init of an instance.
Start(i) ==
  /\ routine = "start" /\ i \notin called
  /\ i = 0 => Settles(0)
  /\ stopped' = [stopped EXCEPT ![i] = FALSE]
  /\ called' = called \cup {i}
  /\ UNCHANGED <<state, routine, dropped, shape, loops, monitor>>

EnterInitial ==
  /\ routine = "start" /\ called = Rank
  /\ state' = "initial" /\ routine' = "none"
  /\ UNCHANGED <<called, dropped, stopped, shape, loops, monitor>>

-----------------------------------------------------------------------------
Step(i) ==
  \E v \in Ve : BeginStep(i, v) \/ Answer(i, v) \/ EndStep(i, v)

EventLoop(i) == StartLoop(i) \/ Step(i) \/ EndLoop(i) \/ Relaunch(i)

Monitor == Poll \/ AskStopped \/ RestartLoop

\* What the driver does once it has begun.
Drive ==
  \/ \E i \in Follower : StopFollower(i) \/ GetProperties(i)
  \/ \E i \in Rank : Drop(i) \/ Stop(i) \/ Start(i)
  \/ Merge \/ EnterBalloon \/ Stopped \/ RestoreInstance \/ Split \/ EnterInitial

Next ==
  \/ \E i \in Rank : EventLoop(i)
  \/ Monitor
  \/ Vote \/ BeginRestore \/ BeginInit
  \/ Drive

Spec == Init /\ [][Next]_vars

\* Event loops and the monitor never end, workers and actors answer.
Fairness ==
  /\ \A i \in Rank :
       /\ WF_vars(StartLoop(i)) /\ WF_vars(EndLoop(i)) /\ WF_vars(Relaunch(i))
       /\ \A v \in Ve : WF_vars(BeginStep(i, v)) /\ WF_vars(Answer(i, v))
                          /\ WF_vars(EndStep(i, v))
  /\ WF_vars(Monitor)
  /\ WF_vars(Drive)

FairSpec == Spec /\ Fairness

-----------------------------------------------------------------------------
TypeOK ==
  /\ state \in {"initial", "balloon", "restore", "stop"}
  /\ routine \in {"none", "merge", "drop", "stop to restore", "restore",
                  "stop to init", "split", "start"}
  /\ called \subseteq Rank /\ dropped \subseteq Rank /\ todo \subseteq Rank
  /\ stopped \in [Rank -> BOOLEAN]
  /\ ves \in [Rank -> Nat]
  /\ para \in [Rank -> [Stage -> [pp_size : Nat, rp_size : Nat, pp_rank : Nat,
                                  rp_rank : Nat]]]
  /\ loop \in [Rank -> {"off", "starting", "on"}]
  /\ task \in [Rank -> [Ve -> {"none", "new", "forward", "answered", "done"}]]
  /\ asked \in Rank \cup {None}

\* The driver takes the queues of an engine, restores the blocks and splits the
\* leader only while no step is in flight on the engines concerned, although it
\* looks at the loops and not at the steps, and the monitor starts loops
\* meanwhile (stop_all_engines, stop_and_get_properties).
DriverAlone ==
  /\ routine \in {"restore", "split", "start"} =>
       \A i \in Rank : stopped[i] => InFlight(i) = {}
  /\ routine = "merge" => \A i \in called : InFlight(i) = {}
  /\ routine \in {"drop", "stop to restore", "restore"} =>
       \A i \in Follower : InFlight(i) = {}

\* While the group is one pipeline every worker has a rank of its own in it,
\* in the order of the instances, and otherwise its place of before: dropping
\* and loading parameters again are inverse to each other (pmm_drop and
\* pmm_restore of worker.py), also in between, instance by instance.
RanksFollow ==
  \A i \in Rank, j \in Stage :
    para[i][j] = IF state = "balloon" \/ (routine = "drop" /\ i \in dropped)
                 THEN [pp_size |-> Size * Pp, rp_size |-> 1,
                       pp_rank |-> i * Pp + j, rp_rank |-> 0]
                 ELSE Own(i, j)

\* Every virtual engine of an engine that runs takes a step, again and again:
\* its event loop was not carried over from before a merge or a split, when
\* there were fewer (start_event_loop reads len(self.scheduler) once).
AllServed ==
  \A i \in Rank, v \in Ve :
    []<> (stopped[i] \/ v >= ves[i] \/ v \in InFlight(i))

\* Every change of state ends: the loops it waits for do end, whatever the
\* monitor restarts meanwhile.
SwitchEnds == routine # "none" ~> routine = "none"
=============================================================================
