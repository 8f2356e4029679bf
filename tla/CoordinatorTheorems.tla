-------------------------- MODULE CoordinatorTheorems --------------------------
(***************************************************************************)
(* The properties of Coordinator, for every number of groups, instances    *)
(* and requests.  Orders and parked followers come first: they are about   *)
(* control, and of the data only the shape matters.  Then the queues: how  *)
(* many of them the engines have while they are merged and split, and      *)
(* which of them each request is in.                                       *)
(***************************************************************************)
EXTENDS Coordinator, SequenceTheorems, FiniteSetTheorems, TLAPS

-----------------------------------------------------------------------------
(* The inductive invariant.                                                *)

\* The tables have an entry for each group, and an engine has its fields.
Shape ==
    /\ DOMAIN state = Group /\ DOMAIN routine = Group
    /\ DOMAIN engine = Group /\ DOMAIN parcel = Group
    /\ \A g \in Group : DOMAIN engine[g] = Rank /\ DOMAIN parcel[g] = Follower
    /\ \A g \in Group, i \in Rank :
         DOMAIN engine[g][i] = {"stopped", "instances", "pending", "queues", "busy"}

\* At a poll either every group is ballooned or none is; an order that went out
\* was for all groups, and those that are done with it are in the same state.
InStep ==
    /\ turn = "poll" =>
         /\ Idle
         /\ (\A g \in Group : state[g] = "balloon")
              \/ (\A g \in Group : state[g] \in {"initial", "restore"})
    /\ turn = "init" =>
         \A g \in Group : \/ routine[g] = "none" /\ state[g] \in {"initial", "restore"}
                          \/ routine[g] \in {"split", "deal"}
    /\ turn = "switch" =>
         \/ \A g \in Group : \/ routine[g] = "none" /\ state[g] = "balloon"
                             \/ routine[g] \in {"merge", "drop"}
         \/ \A g \in Group : \/ routine[g] = "none" /\ state[g] = "restore"
                             \/ routine[g] = "reclaim" /\ state[g] = "balloon"
                             \/ routine[g] = "restore"
    /\ turn \in {"poll", "init", "switch"}

\* What the answers to a poll say about the groups.
Answers ==
    \A e \in events :
        /\ e.group \in Group
        /\ e.event = "restore" => e.state = "balloon"
        /\ e.event = "init" => e.state = "restore"
        /\ turn = "poll" => e.state = state[e.group]
        /\ turn = "init" => e.event # "restore"

Orders == Shape /\ InStep /\ Answers

Parked(g, i) == engine[g][i].stopped /\ engine[g][i].busy = {}

\* Which followers are parked, by what the driver of their group is doing.
Parking ==
    \A g \in Group :
        /\ state[g] \in {"balloon", "restore"} => routine[g] \in {"none", "reclaim"}
        /\ routine[g] \in {"drop", "reclaim", "restore"} => \A i \in Follower : Parked(g, i)
        /\ routine[g] = "none" /\ state[g] \in {"balloon", "restore"} =>
             \A i \in Follower : Parked(g, i)
        /\ \A i \in Follower :
             /\ parcel[g][i].ready => routine[g] \in {"merge", "deal"}
             /\ parcel[g][i].ready /\ routine[g] = "merge" => Parked(g, i)

IInv == Orders /\ Parking

-----------------------------------------------------------------------------
(* Steps.                                                                  *)

LEMMA Ranks == Follower \subseteq Rank /\ 0 \in Rank /\ 0 \notin Follower
  BY CoordinatorAssumption DEF Follower, Rank

LEMMA InitIInv == Init => IInv
<1> SUFFICES ASSUME Init PROVE IInv
  OBVIOUS
<1>1. Shape
  BY Ranks DEF Init, Shape, NewEngine
<1>2. InStep /\ Answers
  BY DEF Init, InStep, Answers, Idle
<1>3. Parking
  BY DEF Init, Parking, Nothing
<1>4. QED
  BY <1>1, <1>2, <1>3 DEF IInv, Orders

\* Steps that touch neither the coordinator nor the drivers, and under which
\* a parked follower stays parked, keep the invariant.
LEMMA EnginesKept ==
  ASSUME IInv, Shape', UNCHANGED <<state, routine, turn, events>>,
         \A g \in Group, i \in Follower :
           /\ parcel'[g][i].ready = parcel[g][i].ready
           /\ Parked(g, i) => Parked(g, i)'
  PROVE  IInv'
<1>1. InStep' /\ Answers'
  BY DEF IInv, Orders, InStep, Answers, Idle
<1>2. Parking'
  BY DEF IInv, Parking
<1>3. QED
  BY <1>1, <1>2 DEF IInv, Orders

\* The requests: what an engine does with them leaves a parked follower parked.
LEMMA DispatchStep ==
  ASSUME IInv, NEW g \in Group, NEW i \in Rank, NEW r \in Req, Dispatch(g, i, r)
  PROVE  IInv'
<1>1. CASE LookAhead
  <2>1. engine' = [engine EXCEPT ![g][i].pending = @ \cup {r}]
    BY <1>1 DEF Dispatch
  <2>2. Shape'
    BY <2>1 DEF Dispatch, IInv, Orders, Shape
  <2>3. \A h \in Group, j \in Follower : Parked(h, j) => Parked(h, j)'
    BY <2>1, Ranks DEF IInv, Orders, Shape, Parked
  <2>4. QED
    BY <2>2, <2>3, EnginesKept DEF Dispatch
<1>2. CASE ~ LookAhead
  <2>1. PICK k \in LeastLoaded(engine[g][i]) :
          engine' = [engine EXCEPT ![g][i].queues[k] = @ \cup {r}]
    BY <1>2 DEF Dispatch
  <2>2. Shape'
    BY <2>1 DEF Dispatch, IInv, Orders, Shape
  <2>3. \A h \in Group, j \in Follower : Parked(h, j) => Parked(h, j)'
    BY <2>1, Ranks DEF IInv, Orders, Shape, Parked
  <2>4. QED
    BY <2>2, <2>3, EnginesKept DEF Dispatch
<1>3. QED
  BY <1>1, <1>2

LEMMA AcceptStep ==
  ASSUME IInv, NEW g \in Group, NEW i \in Rank, NEW k, NEW r, Accept(g, i, k, r)
  PROVE  IInv'
<1>1. Shape'
  BY DEF Accept, IInv, Orders, Shape
<1>2. \A h \in Group, j \in Follower : Parked(h, j) => Parked(h, j)'
  BY Ranks DEF Accept, IInv, Orders, Shape, Parked
<1>3. QED
  BY <1>1, <1>2, EnginesKept DEF Accept

LEMMA StartStepStep ==
  ASSUME IInv, NEW g \in Group, NEW i \in Rank, NEW k, StartStep(g, i, k)
  PROVE  IInv'
<1>1. Shape'
  BY DEF StartStep, IInv, Orders, Shape
<1>2. \A h \in Group, j \in Follower : Parked(h, j) => Parked(h, j)'
  BY Ranks DEF StartStep, IInv, Orders, Shape, Parked
<1>3. QED
  BY <1>1, <1>2, EnginesKept DEF StartStep

LEMMA EndStepStep ==
  ASSUME IInv, NEW g \in Group, NEW i \in Rank, NEW k, EndStep(g, i, k)
  PROVE  IInv'
<1>1. PICK done : engine' = [engine EXCEPT ![g][i].busy = @ \ {k}, ![g][i].queues[k] = @ \ done]
  BY DEF EndStep
<1>2. Shape'
  BY <1>1 DEF EndStep, IInv, Orders, Shape
<1>3. \A h \in Group, j \in Follower : Parked(h, j) => Parked(h, j)'
  BY <1>1, Ranks DEF EndStep, IInv, Orders, Shape, Parked
<1>4. QED
  BY <1>2, <1>3, EnginesKept DEF EndStep

\* The driver of a group stops a follower, or hands it its properties.
LEMMA StopFollowerStep ==
  ASSUME IInv, NEW g \in Group, NEW i \in Follower, StopFollower(g, i)
  PROVE  IInv'
<1>1. Shape'
  BY Ranks DEF StopFollower, IInv, Orders, Shape
<1>2. \A h \in Group, j \in Follower : Parked(h, j) => Parked(h, j)'
  BY Ranks DEF StopFollower, IInv, Orders, Shape, Parked
<1>3. QED
  BY <1>1, <1>2, EnginesKept DEF StopFollower

-----------------------------------------------------------------------------
(* The coordinator's steps.                                                *)

LEMMA AskStep ==
  ASSUME IInv, NEW g \in Group, Ask(g)
  PROVE  IInv'
<1>1. /\ DOMAIN engine' = Group
      /\ \A h \in Group : DOMAIN engine'[h] = Rank
      /\ \A h \in Group, i \in Rank :
           /\ DOMAIN engine'[h][i] = DOMAIN engine[h][i]
           /\ Parked(h, i) => Parked(h, i)'
  <2>1. CASE AskInitial(g)
    <3>1. PICK yes : engine' = [engine EXCEPT ![g] = With(g, yes, TRUE)]
      BY <2>1 DEF AskInitial
    <3>2. QED
      BY <3>1 DEF IInv, Orders, Shape, Parked, With
  <2>2. CASE AskLeader(g)
    BY <2>2 DEF AskLeader, IInv, Orders, Shape, Parked
  <2>3. QED
    BY <2>1, <2>2 DEF Ask
<1>2. PICK e : /\ events' = events \cup {e}
               /\ e.group = g /\ e.state = state[g]
               /\ e.event = "restore" => state[g] = "balloon"
               /\ e.event = "init" => state[g] = "restore"
  <2>1. PICK kind : /\ Answer(g, kind)
                    /\ kind = "restore" => state[g] = "balloon"
                    /\ kind = "init" => state[g] = "restore"
    <3>1. CASE AskInitial(g)
      <4>1. PICK yes \in SUBSET Rank : Answer(g, IF Quorum(yes) THEN "balloon" ELSE "keep")
        BY <3>1 DEF AskInitial
      <4>2. Answer(g, "balloon") \/ Answer(g, "keep")
        BY <4>1
      <4>3. QED
        BY <4>2
    <3>2. CASE AskLeader(g)
      <4>1. \/ state[g] = "balloon" /\ Answer(g, "restore")
            \/ state[g] = "restore" /\ Answer(g, "init")
            \/ Answer(g, "keep")
        BY <3>2 DEF AskLeader
      <4>2. QED
        BY <4>1
    <3>3. QED
      BY <3>1, <3>2 DEF Ask
  <2> DEFINE answer == [group |-> g, state |-> state[g], event |-> kind]
  <2>2. answer.group = g /\ answer.state = state[g] /\ answer.event = kind
    OBVIOUS
  <2>3. events' = events \cup {answer}
    BY <2>1 DEF Answer
  <2> HIDE DEF answer
  <2>4. QED
    BY <2>1, <2>2, <2>3
<1>3. Shape'
  BY <1>1 DEF Ask, IInv, Orders, Shape
<1>4. InStep'
  BY DEF Ask, IInv, Orders, InStep, Idle
<1>5. Answers'
  BY <1>2 DEF Ask, IInv, Orders, Answers
<1>6. Parking'
  BY <1>1, Ranks DEF Ask, IInv, Parking
<1>7. QED
  BY <1>3, <1>4, <1>5, <1>6 DEF IInv, Orders

\* When a poll has been decided no order is out.
LEMMA DecidedIdle ==
  ASSUME IInv, Decided
  PROVE  /\ \A g \in Group : routine[g] = "none"
         /\ turn \in {"poll", "init"}
         /\ turn = "init" => \A g \in Group : state[g] \in {"initial", "restore"}
  BY DEF IInv, Orders, InStep, Decided, Polled, Idle

LEMMA BeginInitStep ==
  ASSUME IInv, BeginInit
  PROVE  IInv'
<1>1. turn = "poll" /\ Idle
  BY DEF BeginInit, Polled, IInv, Orders, InStep
<1>2. PICK f \in events : f.event = "init"
  BY DEF BeginInit, Wants
<1>3. f.group \in Group /\ state[f.group] = "restore"
  BY <1>1, <1>2 DEF IInv, Orders, Answers
<1>4. \A g \in Group : state[g] \in {"initial", "restore"}
  BY <1>1, <1>3 DEF IInv, Orders, InStep
<1>5. Shape'
  BY Ranks DEF BeginInit, IInv, Orders, Shape, AllStopped, With
<1>6. InStep'
  BY <1>1, <1>4 DEF BeginInit, InStep, Idle
<1>7. Answers'
  BY <1>1, <1>4 DEF BeginInit, IInv, Orders, Answers
<1>8. Parking'
  <2>1. \A g \in Group, i \in Follower : Parked(g, i) => Parked(g, i)'
    BY Ranks DEF BeginInit, IInv, Orders, Shape, AllStopped, With, Parked
  <2>2. QED
    BY <1>1, <2>1 DEF BeginInit, IInv, Parking, Idle
<1>9. QED
  BY <1>5, <1>6, <1>7, <1>8 DEF IInv, Orders

LEMMA BeginBalloonStep ==
  ASSUME IInv, BeginBalloon
  PROVE  IInv'
<1>1. \A g \in Group : routine[g] = "none"
  BY DecidedIdle DEF BeginBalloon
<1>2. \A g \in Group : state'[g] = "stop" /\ routine'[g] = "merge"
  BY DEF BeginBalloon, Switched
<1>3. Shape'
  BY DEF BeginBalloon, IInv, Orders, Shape
<1>4. InStep' /\ Answers'
  BY <1>2 DEF BeginBalloon, IInv, Orders, InStep, Answers
<1>5. Parking'
  BY <1>1, <1>2 DEF BeginBalloon, IInv, Parking
<1>6. QED
  BY <1>3, <1>4, <1>5 DEF IInv, Orders

\* The order to restore finds every group ballooned.
LEMMA AllBallooned ==
  ASSUME IInv, BeginRestore
  PROVE  \A g \in Group : state[g] = "balloon"
<1>1. PICK f \in events : f.event = "restore"
  BY DEF BeginRestore, Wants
<1>2. turn = "poll" /\ state[f.group] = "balloon" /\ f.group \in Group
  BY <1>1, DecidedIdle DEF BeginRestore, IInv, Orders, Answers
<1>3. QED
  BY <1>2 DEF IInv, Orders, InStep

LEMMA BeginRestoreStep ==
  ASSUME IInv, BeginRestore
  PROVE  IInv'
<1>1. \A g \in Group : routine[g] = "none"
  BY DecidedIdle DEF BeginRestore
<1>2. \A g \in Group : state'[g] = "balloon" /\ routine'[g] = "reclaim"
  BY AllBallooned DEF BeginRestore, Switched
<1>3. Shape'
  BY DEF BeginRestore, IInv, Orders, Shape
<1>4. InStep' /\ Answers'
  BY <1>2 DEF BeginRestore, IInv, Orders, InStep, Answers
<1>5. Parking'
  BY <1>1, <1>2, AllBallooned DEF BeginRestore, IInv, Parking, Parked
<1>6. QED
  BY <1>3, <1>4, <1>5 DEF IInv, Orders

LEMMA SleepStep ==
  ASSUME IInv, Sleep
  PROVE  IInv'
<1>1. Shape'
  BY DEF Sleep, IInv, Orders, Shape
<1>2. InStep'
  BY DecidedIdle DEF Sleep, IInv, Orders, InStep, Idle
<1>3. Answers'
  BY DEF Sleep, Answers
<1>4. Parking'
  BY DEF Sleep, IInv, Parking, Parked
<1>5. QED
  BY <1>1, <1>2, <1>3, <1>4 DEF IInv, Orders

-----------------------------------------------------------------------------
(* The drivers' steps.                                                     *)

LEMMA TakePropertiesStep ==
  ASSUME IInv, NEW g \in Group, NEW i \in Follower, TakeProperties(g, i)
  PROVE  IInv'
<1>1. Shape'
  BY Ranks DEF TakeProperties, IInv, Orders, Shape
<1>2. InStep' /\ Answers'
  BY DEF TakeProperties, IInv, Orders, InStep, Answers, Idle
<1>3. \A h \in Group, j \in Follower : Parked(h, j) => Parked(h, j)'
  BY Ranks DEF TakeProperties, IInv, Orders, Shape, Parked
<1>4. Parked(g, i)'
  <2>1. Parked(g, i)
    BY DEF TakeProperties, Parked
  <2>2. QED
    BY <1>3, <2>1
<1>5. \A h \in Group, j \in Follower :
        h # g \/ j # i => parcel'[h][j].ready = parcel[h][j].ready
  BY DEF TakeProperties, IInv, Orders, Shape
<1>6. Parking'
  BY <1>3, <1>4, <1>5 DEF TakeProperties, IInv, Parking
<1>7. QED
  BY <1>1, <1>2, <1>6 DEF IInv, Orders

\* What a step of the driver of g has to do for the invariant to be kept: the other
\* groups see nothing of it.
LEMMA Driven ==
  ASSUME IInv, NEW g \in Group, Shape', UNCHANGED <<turn, events>>, turn # "poll",
         \A h \in Group \ {g} : /\ state'[h] = state[h] /\ routine'[h] = routine[h]
                                /\ engine'[h] = engine[h] /\ parcel'[h] = parcel[h],
         turn = "init" => \/ routine'[g] = "none" /\ state'[g] \in {"initial", "restore"}
                          \/ routine'[g] \in {"split", "deal"},
         turn = "switch" =>
            \/ /\ routine[g] \in {"merge", "drop"}
               /\ \/ routine'[g] = "none" /\ state'[g] = "balloon"
                  \/ routine'[g] \in {"merge", "drop"}
            \/ /\ routine[g] \in {"reclaim", "restore"}
               /\ \/ routine'[g] = "none" /\ state'[g] = "restore"
                  \/ routine'[g] = "reclaim" /\ state'[g] = "balloon"
                  \/ routine'[g] = "restore",
         state'[g] \in {"balloon", "restore"} => routine'[g] \in {"none", "reclaim"},
         \/ routine'[g] \in {"drop", "reclaim", "restore"}
         \/ routine'[g] = "none" /\ state'[g] \in {"balloon", "restore"}
         => \A i \in Follower : Parked(g, i)',
         \A i \in Follower :
            /\ parcel'[g][i].ready => routine'[g] \in {"merge", "deal"}
            /\ parcel'[g][i].ready /\ routine'[g] = "merge" => Parked(g, i)'
  PROVE  IInv'
<1>1. Answers'
  BY DEF IInv, Orders, Answers
<1>2. InStep'
  <2>1. CASE turn = "init"
    BY <2>1 DEF IInv, Orders, InStep
  <2>2. CASE turn = "switch"
    BY <2>2 DEF IInv, Orders, InStep
  <2>3. QED
    BY <2>1, <2>2 DEF IInv, Orders, InStep
<1>3. Parking'
  BY DEF IInv, Parking, Parked
<1>4. QED
  BY <1>1, <1>2, <1>3 DEF IInv, Orders

\* Which order is out, by what the driver of a group is doing.
LEMMA OrderOut ==
  ASSUME IInv, NEW g \in Group, routine[g] # "none"
  PROVE  /\ turn = "init" => routine[g] \in {"split", "deal"}
         /\ turn = "switch" => routine[g] \in {"merge", "drop", "reclaim", "restore"}
         /\ turn \in {"init", "switch"}
  BY DEF IInv, Orders, InStep, Idle

LEMMA MergeStep ==
  ASSUME IInv, NEW g \in Group, Merge(g)
  PROVE  IInv'
<1>1. Shape'
  BY Ranks DEF Merge, IInv, Orders, Shape
<1>2. /\ \A h \in Group \ {g} : engine'[h] = engine[h] /\ parcel'[h] = parcel[h]
      /\ \A i \in Follower : engine'[g][i] = engine[g][i] /\ parcel'[g][i] = Nothing
  BY Ranks DEF Merge, IInv, Orders, Shape
<1>3. \A i \in Follower : Parked(g, i)'
  BY <1>2 DEF Merge, IInv, Parking, Parked
<1>4. routine[g] = "merge" /\ routine'[g] = "drop"
      /\ \A h \in Group \ {g} : routine'[h] = routine[h]
  BY DEF Merge, IInv, Orders, Shape
<1>5. state[g] \notin {"balloon", "restore"}
  BY <1>4 DEF IInv, Parking
<1>6. ~ Nothing.ready
  BY DEF Nothing
<1>7. \A i \in Follower : ~ parcel'[g][i].ready
  BY <1>2, <1>6
<1>8. UNCHANGED <<state, turn, events>>
  BY DEF Merge
<1>9. QED
  BY <1>1, <1>2, <1>3, <1>4, <1>5, <1>7, <1>8, OrderOut, Driven

LEMMA EnterBalloonStep ==
  ASSUME IInv, NEW g \in Group, EnterBalloon(g)
  PROVE  IInv'
<1>0. PICK queues \in Evened(engine[g][0].queues) :
        engine' = [engine EXCEPT ![g][0].queues = queues, ![g][0].stopped = FALSE]
  BY DEF EnterBalloon
<1>1. Shape'
  BY <1>0, Ranks DEF EnterBalloon, IInv, Orders, Shape
<1>2. /\ \A h \in Group \ {g} : engine'[h] = engine[h]
      /\ \A i \in Follower : engine'[g][i] = engine[g][i]
  BY <1>0, Ranks DEF IInv, Orders, Shape
<1>3. \A i \in Follower : Parked(g, i)'
  BY <1>2 DEF EnterBalloon, IInv, Parking, Parked
<1>4. /\ routine[g] = "drop" /\ routine'[g] = "none" /\ state'[g] = "balloon"
      /\ \A h \in Group \ {g} : routine'[h] = routine[h] /\ state'[h] = state[h]
  BY DEF EnterBalloon, IInv, Orders, Shape
<1>5. \A i \in Follower : ~ parcel'[g][i].ready
  BY <1>4 DEF EnterBalloon, IInv, Parking
<1>6. QED
  BY <1>1, <1>2, <1>3, <1>4, <1>5, OrderOut, Driven DEF EnterBalloon

LEMMA ReloadedStep ==
  ASSUME IInv, NEW g \in Group, Reloaded(g)
  PROVE  IInv'
<1>1. Shape'
  BY Ranks DEF Reloaded, IInv, Orders, Shape, AllStopped, With
<1>2. \A h \in Group \ {g} : engine'[h] = engine[h]
  BY DEF Reloaded, IInv, Orders, Shape
<1>3. \A i \in Follower : Parked(g, i)'
  <2>1. \A i \in Follower : Parked(g, i) => Parked(g, i)'
    BY Ranks DEF Reloaded, IInv, Orders, Shape, AllStopped, With, Parked
  <2>2. QED
    BY <2>1 DEF Reloaded, IInv, Parking
<1>4. /\ routine[g] = "reclaim" /\ routine'[g] = "restore" /\ state'[g] = "stop"
      /\ \A h \in Group \ {g} : routine'[h] = routine[h] /\ state'[h] = state[h]
  BY DEF Reloaded, IInv, Orders, Shape
<1>5. \A i \in Follower : ~ parcel'[g][i].ready
  BY <1>4 DEF Reloaded, IInv, Parking
<1>6. QED
  BY <1>1, <1>2, <1>3, <1>4, <1>5, OrderOut, Driven DEF Reloaded

LEMMA RestoreInstanceStep ==
  ASSUME IInv, NEW g \in Group, RestoreInstance(g)
  PROVE  IInv'
<1>1. Shape'
  BY Ranks DEF RestoreInstance, IInv, Orders, Shape, With
<1>2. /\ \A h \in Group \ {g} : engine'[h] = engine[h]
      /\ \A i \in Follower : engine'[g][i] = engine[g][i]
  BY Ranks DEF RestoreInstance, IInv, Orders, Shape, With, Restarted
<1>3. \A i \in Follower : Parked(g, i)'
  BY <1>2 DEF RestoreInstance, IInv, Parking, Parked
<1>4. /\ routine[g] = "restore" /\ routine'[g] = "none" /\ state'[g] = "restore"
      /\ \A h \in Group \ {g} : routine'[h] = routine[h] /\ state'[h] = state[h]
  BY DEF RestoreInstance, IInv, Orders, Shape
<1>5. \A i \in Follower : ~ parcel'[g][i].ready
  BY <1>4 DEF RestoreInstance, IInv, Parking
<1>6. QED
  BY <1>1, <1>2, <1>3, <1>4, <1>5, OrderOut, Driven DEF RestoreInstance

LEMMA SplitEngineStep ==
  ASSUME IInv, NEW g \in Group, SplitEngine(g)
  PROVE  IInv'
<1>1. Shape'
  BY Ranks DEF SplitEngine, IInv, Orders, Shape
<1>2. \A h \in Group \ {g} : engine'[h] = engine[h] /\ parcel'[h] = parcel[h]
  BY DEF SplitEngine, IInv, Orders, Shape
<1>3. /\ routine[g] = "split" /\ routine'[g] = "deal"
      /\ \A h \in Group \ {g} : routine'[h] = routine[h]
  BY DEF SplitEngine, IInv, Orders, Shape
<1>4. state[g] \notin {"balloon", "restore"}
  BY <1>3 DEF IInv, Parking
<1>5. QED
  BY <1>1, <1>2, <1>3, <1>4, OrderOut, Driven DEF SplitEngine

LEMMA SetPropertiesStep ==
  ASSUME IInv, NEW g \in Group, NEW i \in Follower, SetProperties(g, i)
  PROVE  IInv'
<1>1. Shape'
  BY Ranks DEF SetProperties, IInv, Orders, Shape
<1>2. \A h \in Group \ {g} : engine'[h] = engine[h] /\ parcel'[h] = parcel[h]
  BY DEF SetProperties, IInv, Orders, Shape
<1>3. routine[g] = "deal" /\ routine' = routine
  BY DEF SetProperties
<1>4. state[g] \notin {"balloon", "restore"}
  BY <1>3 DEF IInv, Parking
<1>5. QED
  BY <1>1, <1>2, <1>3, <1>4, OrderOut, Driven DEF SetProperties

LEMMA TriggerInitStep ==
  ASSUME IInv, NEW g \in Group, TriggerInit(g)
  PROVE  IInv'
<1>1. Shape'
  BY Ranks DEF TriggerInit, IInv, Orders, Shape
<1>2. \A h \in Group \ {g} : engine'[h] = engine[h]
  BY DEF TriggerInit, IInv, Orders, Shape
<1>3. /\ routine[g] = "deal" /\ routine'[g] = "none" /\ state'[g] = "initial"
      /\ \A h \in Group \ {g} : routine'[h] = routine[h] /\ state'[h] = state[h]
  BY DEF TriggerInit, IInv, Orders, Shape
<1>4. QED
  BY <1>1, <1>2, <1>3, OrderOut, Driven DEF TriggerInit

-----------------------------------------------------------------------------
(* The theorems.                                                           *)

LEMMA NextIInv == IInv /\ [Next]_vars => IInv'
<1> SUFFICES ASSUME IInv, [Next]_vars PROVE IInv'
  OBVIOUS
<1>1. CASE Lead
  BY <1>1, BeginInitStep, BeginBalloonStep, BeginRestoreStep, SleepStep DEF Lead
<1>2. ASSUME NEW g \in Group, Ask(g) \/ Drive(g) PROVE IInv'
  BY <1>2, AskStep, MergeStep, EnterBalloonStep, ReloadedStep, RestoreInstanceStep,
     SplitEngineStep, TriggerInitStep, StopFollowerStep, TakePropertiesStep,
     SetPropertiesStep DEF Drive
<1>3. ASSUME NEW g \in Group, NEW i \in Rank, NEW r \in Req, Dispatch(g, i, r) PROVE IInv'
  BY <1>3, DispatchStep
<1>4. ASSUME NEW g \in Group, NEW i \in Rank, NEW k \in 1 .. MaxInstances,
             \/ StartStep(g, i, k) \/ EndStep(g, i, k)
             \/ \E r \in Req : Accept(g, i, k, r)
      PROVE  IInv'
  BY <1>4, StartStepStep, EndStepStep, AcceptStep
<1>5. CASE UNCHANGED vars
  BY <1>5 DEF vars, IInv, Orders, Shape, InStep, Idle, Answers, Parking, Parked
<1>6. QED
  BY <1>1, <1>2, <1>3, <1>4, <1>5 DEF Next

\* The invariant of the orders and of the parked followers.
THEOREM Invariance == Spec => []IInv
BY InitIInv, NextIInv, PTL DEF Spec

\* While a leader runs the instances of its group, the followers do nothing.
THEOREM ParkedTheorem == Spec => []FollowersParked
<1>1. IInv => FollowersParked
  BY Zenon DEF IInv, Parking, Parked, FollowersParked
<1>2. QED
  BY <1>1, Invariance, PTL

\* The order to restore, which goes to all the groups, finds them all ballooned.
THEOREM RestoreOrders == Spec => RestoreFromBalloon
<1>1. ASSUME IInv, Next, NEW g \in Group, routine[g] = "none", routine'[g] = "reclaim"
      PROVE  state[g] = "balloon"
  <2> USE <1>1
  <2>1. CASE Lead
    <3>1. ~ (BeginInit \/ BeginBalloon \/ Sleep)
      BY DEF BeginInit, BeginBalloon, Sleep, IInv, Orders, Shape
    <3>2. QED
      BY <2>1, <3>1, AllBallooned DEF Lead
  <2>2. ASSUME NEW h \in Group, Ask(h) \/ Drive(h) PROVE FALSE
    <3>1. ~ Ask(h)
      BY DEF Ask
    <3>2. ~ (Merge(h) \/ EnterBalloon(h) \/ Reloaded(h))
      BY DEF Merge, EnterBalloon, Reloaded, IInv, Orders, Shape
    <3>3. ~ (RestoreInstance(h) \/ SplitEngine(h) \/ TriggerInit(h))
      BY DEF RestoreInstance, SplitEngine, TriggerInit, IInv, Orders, Shape
    <3>4. \A i \in Follower :
            ~ (StopFollower(h, i) \/ TakeProperties(h, i) \/ SetProperties(h, i))
      BY DEF StopFollower, TakeProperties, SetProperties
    <3>5. QED
      BY <2>2, <3>1, <3>2, <3>3, <3>4 DEF Drive
  <2>3. ASSUME NEW h \in Group, NEW i \in Rank,
               \/ \E r \in Req : Dispatch(h, i, r)
               \/ \E k \in 1 .. MaxInstances :
                    \/ StartStep(h, i, k) \/ EndStep(h, i, k)
                    \/ \E r \in Req : Accept(h, i, k, r)
        PROVE FALSE
    BY <2>3 DEF Dispatch, StartStep, EndStep, Accept
  <2>4. QED
    BY <2>1, <2>2, <2>3 DEF Next
<1>2. IInv /\ [Next]_vars =>
        [\A g \in Group : routine[g] = "none" /\ routine'[g] = "reclaim"
                            => state[g] = "balloon"]_vars
  BY <1>1
<1>3. QED
  BY <1>2, Invariance, PTL DEF Spec, RestoreFromBalloon

-----------------------------------------------------------------------------
(* The invariant of the shape of engines.                                  *)

\* The number of queues of the leader of g.
Width(g) == IF routine[g] = "deal" THEN 1 ELSE engine[g][0].instances

\* How many queues the engines of g have, by what the driver of g is doing.
Wide(g) ==
    /\ \A i \in Follower : engine[g][i].instances = 1 /\ DOMAIN engine[g][i].queues = 1 .. 1
    /\ DOMAIN engine[g][0].queues = 1 .. Width(g)
    /\ state[g] = "stop" <=> routine[g] \in {"merge", "drop", "restore", "split", "deal"}
    /\ state[g] = "initial" => engine[g][0].instances = 1
    /\ state[g] \in {"balloon", "restore"} \/ routine[g] \in {"drop", "restore", "split"}
         => engine[g][0].instances >= Size
    /\ routine[g] = "merge" => engine[g][0].instances + Size - 1 <= MaxInstances
    /\ routine[g] \in {"split", "deal"} => \A i \in Rank : engine[g][i].stopped
Widths == \A g \in Group : Wide(g)

\* Whoever asks for a balloon has found room for it.
Room ==
    turn \in {"poll", "init"} /\ (\E e \in events : e.event = "balloon") => Mergeable

\* What is in the queues of g and on its way has arrived.
Holds(g) ==
    /\ \A i \in Rank :
         /\ engine[g][i].pending \subseteq arrived
         /\ \A k \in DOMAIN engine[g][i].queues : engine[g][i].queues[k] \subseteq arrived
    /\ \A i \in Follower :
         parcel[g][i].queue \subseteq arrived /\ parcel[g][i].pending \subseteq arrived
Known == \A g \in Group : Holds(g)

Data == TypeOK /\ Widths /\ Room /\ Known

-----------------------------------------------------------------------------
LEMMA Ranked ==
    /\ Rank = 0 .. Size - 1 /\ Follower = 1 .. Size - 1
    /\ Size \in Nat /\ Size > 1 /\ MaxInstances \in Nat /\ MaxInstances >= Size
    /\ 1 .. Size \subseteq 1 .. MaxInstances
  BY CoordinatorAssumption DEF Rank, Follower

\* What it is to be an engine.
LEMMA Engines ==
  ASSUME NEW e
  PROVE  e \in Engine <=>
           /\ e = [stopped |-> e.stopped, instances |-> e.instances, pending |-> e.pending,
                   queues |-> e.queues, busy |-> e.busy]
           /\ e.stopped \in BOOLEAN
           /\ e.instances \in 1 .. MaxInstances
           /\ e.pending \subseteq Req
           /\ \E n \in 1 .. MaxInstances : e.queues \in [1 .. n -> SUBSET Req]
           /\ e.busy \subseteq 1 .. MaxInstances
  BY DEF Engine

LEMMA InitData == Init => Data
<1> SUFFICES ASSUME Init PROVE Data
  OBVIOUS
<1>1. 1 \in 1 .. MaxInstances /\ 1 .. 1 = {1}
  BY Ranked
<1>2. NewEngine \in Engine
  <2>1. NewEngine.queues \in [1 .. 1 -> SUBSET Req]
    BY <1>1 DEF NewEngine
  <2>2. QED
    BY <1>1, <2>1, Engines DEF NewEngine
<1>3. TypeOK
  BY <1>2 DEF Init, TypeOK, Nothing, Parcel, NewEngine
<1>4. DOMAIN NewEngine.queues = 1 .. 1 /\ NewEngine.instances = 1
  BY <1>1 DEF NewEngine
<1>5. Widths
  <2>1. \A g \in Group : /\ state[g] = "initial" /\ routine[g] = "none"
                        /\ \A i \in Rank : engine[g][i] = NewEngine
    BY DEF Init
  <2>2. \A g \in Group : Width(g) = 1
    BY <1>4, <2>1, Ranks DEF Width
  <2>3. QED
    BY <1>4, <2>1, <2>2, Ranks DEF Widths, Wide
<1>6. Room
  BY DEF Init, Room
<1>7. Known
  <2>1. NewEngine.pending = {} /\ \A k \in 1 .. 1 : NewEngine.queues[k] = {}
    BY <1>1 DEF NewEngine
  <2>2. Nothing.queue = {} /\ Nothing.pending = {}
    BY DEF Nothing
  <2>3. QED
    BY <1>4, <2>1, <2>2 DEF Init, Known, Holds
<1> QED
  BY <1>3, <1>5, <1>6, <1>7 DEF Data

-----------------------------------------------------------------------------
(* Steps of an engine.                                                     *)

\* A step of one engine that keeps its width keeps the invariant.
LEMMA OneEngine ==
  ASSUME Data, NEW g \in Group, NEW i \in Rank, NEW e \in Engine,
         engine' = [engine EXCEPT ![g][i] = e],
         e.instances = engine[g][i].instances,
         DOMAIN e.queues = DOMAIN engine[g][i].queues,
         e.busy \subseteq DOMAIN e.queues,
         routine[g] \in {"split", "deal"} => e.stopped,
         UNCHANGED <<state, routine, events, turn, layout>>,
         e.pending \subseteq arrived', \A k \in DOMAIN e.queues : e.queues[k] \subseteq arrived',
         parcel' \in [Group -> [Follower -> Parcel]],
         \A h \in Group, j \in Follower :
           parcel'[h][j].queue \subseteq arrived' /\ parcel'[h][j].pending \subseteq arrived',
         served' \subseteq arrived', arrived \subseteq arrived', arrived' \subseteq Req
  PROVE  Data'
<1>1. /\ engine'[g][i] = e
      /\ \A h \in Group, j \in Rank : h # g \/ j # i => engine'[h][j] = engine[h][j]
  BY DEF Data, TypeOK
<1>2. TypeOK'
  <2>1. engine' \in [Group -> [Rank -> Engine]]
    BY DEF Data, TypeOK
  <2>2. \A h \in Group, j \in Rank : engine'[h][j].busy \subseteq DOMAIN engine'[h][j].queues
    BY <1>1 DEF Data, TypeOK
  <2>3. QED
    BY <2>1, <2>2 DEF Data, TypeOK
<1>3. \A h \in Group, j \in Rank :
        /\ engine'[h][j].instances = engine[h][j].instances
        /\ DOMAIN engine'[h][j].queues = DOMAIN engine[h][j].queues
        /\ routine[h] \in {"split", "deal"} /\ engine[h][j].stopped => engine'[h][j].stopped
  BY <1>1
<1>4. Widths'
  BY <1>3, Ranks DEF Data, Widths, Wide, Width
<1>5. Room'
  BY <1>3, Ranks DEF Data, Room, Mergeable
<1>6. Known'
  BY <1>1 DEF Data, Known, Holds
<1>7. QED
  BY <1>2, <1>4, <1>5, <1>6 DEF Data

\* A step that leaves the parcels alone.
LEMMA SameParcels ==
  ASSUME Data, UNCHANGED parcel, arrived \subseteq arrived'
  PROVE  /\ parcel' \in [Group -> [Follower -> Parcel]]
         /\ \A h \in Group, j \in Follower :
              parcel'[h][j].queue \subseteq arrived' /\ parcel'[h][j].pending \subseteq arrived'
  BY DEF Data, TypeOK, Known, Holds

\* The queues of an engine, one of which has changed.
LEMMA OneQueue ==
  ASSUME NEW e \in Engine, NEW k \in DOMAIN e.queues, NEW S \in SUBSET Req,
         NEW q, q = [e.queues EXCEPT ![k] = S]
  PROVE  /\ DOMAIN q = DOMAIN e.queues
         /\ \E n \in 1 .. MaxInstances : q \in [1 .. n -> SUBSET Req]
<1>1. PICK n \in 1 .. MaxInstances : e.queues \in [1 .. n -> SUBSET Req]
  BY Engines
<1>2. QED
  BY <1>1

LEMMA DispatchData ==
  ASSUME Data, NEW g \in Group, NEW i \in Rank, NEW r \in Req, Dispatch(g, i, r)
  PROVE  Data'
<1> DEFINE e == engine[g][i]
<1>1. e \in Engine /\ e.busy \subseteq DOMAIN e.queues
  BY DEF Data, TypeOK
<1>2. routine[g] \in {"split", "deal"} => e.stopped
  BY DEF Data, Widths, Wide
<1>3. served' \subseteq arrived' /\ arrived' = arrived \cup {r} /\ arrived' \subseteq Req
  BY DEF Dispatch, Data, TypeOK
<1>4. e.pending \subseteq arrived /\ \A k \in DOMAIN e.queues : e.queues[k] \subseteq arrived
  BY DEF Data, Known, Holds
<1>5. UNCHANGED <<state, routine, events, turn, layout, parcel>>
  BY DEF Dispatch
<1>6. CASE LookAhead
  <2> DEFINE f == [e EXCEPT !.pending = @ \cup {r}]
  <2>1. engine' = [engine EXCEPT ![g][i] = f]
    BY <1>6 DEF Dispatch
  <2>2. /\ f \in Engine /\ f.instances = e.instances /\ f.queues = e.queues
        /\ f.busy = e.busy /\ f.stopped = e.stopped /\ f.pending = e.pending \cup {r}
    BY <1>1 DEF Engine
  <2>3. f.pending \subseteq arrived' /\ \A k \in DOMAIN f.queues : f.queues[k] \subseteq arrived'
    BY <1>3, <1>4, <2>2
  <2> HIDE DEF f
  <2>4. QED
    BY <1>1, <1>2, <1>3, <1>5, <2>1, <2>2, <2>3, SameParcels, OneEngine
<1>7. CASE ~ LookAhead
  <2>1. PICK k \in DOMAIN e.queues : engine' = [engine EXCEPT ![g][i].queues[k] = @ \cup {r}]
    BY <1>7 DEF Dispatch, LeastLoaded
  <2> DEFINE q == [e.queues EXCEPT ![k] = @ \cup {r}]
             f == [e EXCEPT !.queues = q]
  <2>2. engine' = [engine EXCEPT ![g][i] = f]
    BY <2>1
  <2>3. e.queues[k] \cup {r} \in SUBSET Req
    BY <1>1, Engines
  <2>4. DOMAIN q = DOMAIN e.queues /\ \E n \in 1 .. MaxInstances : q \in [1 .. n -> SUBSET Req]
    BY <1>1, <2>3, OneQueue
  <2>5. \A l \in DOMAIN e.queues : q[l] \subseteq arrived'
    BY <1>3, <1>4
  <2> HIDE DEF q
  <2>6. /\ f \in Engine /\ f.instances = e.instances /\ f.queues = q
        /\ f.busy = e.busy /\ f.stopped = e.stopped /\ f.pending = e.pending
    BY <1>1, <2>4 DEF Engine
  <2> HIDE DEF f
  <2>7. QED
    BY <1>1, <1>2, <1>3, <1>4, <1>5, <2>2, <2>4, <2>5, <2>6, SameParcels, OneEngine
<1>8. QED
  BY <1>6, <1>7

LEMMA AcceptData ==
  ASSUME Data, NEW g \in Group, NEW i \in Rank, NEW k, NEW r \in Req, Accept(g, i, k, r)
  PROVE  Data'
<1> DEFINE e == engine[g][i]
           p == e.pending \ {r}
           q == [e.queues EXCEPT ![k] = e.queues[k] \cup {r}]
           f == [e EXCEPT !.pending = p, !.queues = q]
<1>1. e \in Engine /\ e.busy \subseteq DOMAIN e.queues
  BY DEF Data, TypeOK
<1>2. k \in DOMAIN e.queues /\ r \in e.pending
  BY DEF Accept
<1>3. engine' = [engine EXCEPT ![g][i] = f]
  <2> DEFINE E == [engine EXCEPT ![g][i].pending = p]
  <2>1. engine' = [E EXCEPT ![g][i].queues[k] = e.queues[k] \cup {r}]
    BY DEF Accept, Data, TypeOK, Engine
  <2>2. E[g][i] = [e EXCEPT !.pending = p]
    BY DEF Data, TypeOK
  <2>3. E[g][i].queues = e.queues
    BY <2>2, <1>1 DEF Engine
  <2>4. f = [E[g][i] EXCEPT !.queues = [E[g][i].queues EXCEPT ![k] = e.queues[k] \cup {r}]]
    BY <2>2, <2>3
  <2>5. engine' = [E EXCEPT ![g][i] = f]
    BY <2>1, <2>4
  <2>6. QED
    BY <2>5 DEF Data, TypeOK
<1>4. e.pending \subseteq arrived /\ \A l \in DOMAIN e.queues : e.queues[l] \subseteq arrived
  BY DEF Data, Known, Holds
<1>5. e.queues[k] \cup {r} \in SUBSET Req /\ p \in SUBSET Req
  BY <1>1, <1>2, Engines
<1>6. DOMAIN q = DOMAIN e.queues /\ \E n \in 1 .. MaxInstances : q \in [1 .. n -> SUBSET Req]
  BY <1>1, <1>2, <1>5, OneQueue
<1>7. p \subseteq arrived /\ \A l \in DOMAIN e.queues : q[l] \subseteq arrived
  BY <1>2, <1>4
<1> DEFINE d == [e EXCEPT !.pending = p]
<1>8. f = [d EXCEPT !.queues = q]
  OBVIOUS
<1> HIDE DEF f, p, q
<1>9. /\ f \in Engine /\ f.instances = e.instances /\ f.queues = q
      /\ f.busy = e.busy /\ f.stopped = e.stopped /\ f.pending = p
  <2>1. /\ d \in Engine /\ d.instances = e.instances /\ d.busy = e.busy
        /\ d.stopped = e.stopped /\ d.pending = p
    BY <1>1, <1>5 DEF Engine
  <2> HIDE DEF d
  <2>2. d = [stopped |-> d.stopped, instances |-> d.instances, pending |-> d.pending,
             queues |-> d.queues, busy |-> d.busy]
    BY <2>1, Engines
  <2>3. f = [stopped |-> d.stopped, instances |-> d.instances, pending |-> d.pending,
             queues |-> q, busy |-> d.busy]
    BY <1>8, <2>2
  <2>4. d.stopped \in BOOLEAN /\ d.instances \in 1 .. MaxInstances
        /\ d.pending \subseteq Req /\ d.busy \subseteq 1 .. MaxInstances
    BY <2>1, Engines
  <2>5. f.stopped = d.stopped /\ f.instances = d.instances /\ f.pending = d.pending
        /\ f.queues = q /\ f.busy = d.busy
    BY <2>3
  <2>6. f \in Engine
    BY <1>6, <2>3, <2>4, <2>5, Engines
  <2>7. QED
    BY <2>1, <2>5, <2>6
<1>10. routine[g] \in {"split", "deal"} => e.stopped
  BY DEF Data, Widths, Wide
<1>11. /\ UNCHANGED <<state, routine, events, turn, layout, parcel, arrived, served>>
       /\ served \subseteq arrived /\ arrived \subseteq Req
  BY DEF Accept, Data, TypeOK
<1>12. QED
  BY <1>1, <1>3, <1>6, <1>7, <1>9, <1>10, <1>11, SameParcels, OneEngine

LEMMA StartStepData ==
  ASSUME Data, NEW g \in Group, NEW i \in Rank, NEW k, StartStep(g, i, k)
  PROVE  Data'
<1> DEFINE e == engine[g][i]
           f == [e EXCEPT !.busy = @ \cup {k}]
<1>1. e \in Engine /\ e.busy \subseteq DOMAIN e.queues
  BY DEF Data, TypeOK
<1>2. k \in DOMAIN e.queues /\ engine' = [engine EXCEPT ![g][i] = f]
  BY DEF StartStep
<1>3. k \in 1 .. MaxInstances
  <2>1. PICK n \in 1 .. MaxInstances : DOMAIN e.queues = 1 .. n
    BY <1>1, Engines
  <2>2. QED
    BY <1>2, <2>1, Ranked
<1>4. /\ f \in Engine /\ f.instances = e.instances /\ f.queues = e.queues
      /\ f.busy = e.busy \cup {k} /\ f.stopped = e.stopped /\ f.pending = e.pending
  BY <1>1, <1>3 DEF Engine
<1> HIDE DEF f
<1>5. routine[g] \in {"split", "deal"} => e.stopped
  BY DEF Data, Widths, Wide
<1>6. e.pending \subseteq arrived /\ \A l \in DOMAIN e.queues : e.queues[l] \subseteq arrived
  BY DEF Data, Known, Holds
<1>7. /\ UNCHANGED <<state, routine, events, turn, layout, parcel, arrived, served>>
      /\ served \subseteq arrived /\ arrived \subseteq Req
  BY DEF StartStep, Data, TypeOK
<1>8. QED
  BY <1>1, <1>2, <1>4, <1>5, <1>6, <1>7, SameParcels, OneEngine

LEMMA EndStepData ==
  ASSUME Data, NEW g \in Group, NEW i \in Rank, NEW k, EndStep(g, i, k)
  PROVE  Data'
<1> DEFINE e == engine[g][i]
<1>1. PICK done \in SUBSET e.queues[k] :
        /\ engine' = [engine EXCEPT ![g][i].busy = @ \ {k}, ![g][i].queues[k] = @ \ done]
        /\ served' = served \cup done
  BY DEF EndStep
<1> DEFINE z == e.busy \ {k}
           q == [e.queues EXCEPT ![k] = e.queues[k] \ done]
           f == [e EXCEPT !.busy = z, !.queues = q]
<1>2. e \in Engine /\ e.busy \subseteq DOMAIN e.queues
  BY DEF Data, TypeOK
<1>3. k \in DOMAIN e.queues
  BY <1>2 DEF EndStep
<1>4. engine' = [engine EXCEPT ![g][i] = f]
  <2> DEFINE E == [engine EXCEPT ![g][i].busy = z]
  <2>1. engine' = [E EXCEPT ![g][i].queues[k] = e.queues[k] \ done]
    BY <1>1 DEF Data, TypeOK, Engine
  <2>2. E[g][i] = [e EXCEPT !.busy = z]
    BY DEF Data, TypeOK
  <2>3. E[g][i].queues = e.queues
    BY <2>2, <1>2 DEF Engine
  <2>4. f = [E[g][i] EXCEPT !.queues = [E[g][i].queues EXCEPT ![k] = e.queues[k] \ done]]
    BY <2>2, <2>3
  <2>5. engine' = [E EXCEPT ![g][i] = f]
    BY <2>1, <2>4
  <2>6. QED
    BY <2>5 DEF Data, TypeOK
<1>5. e.queues[k] \ done \in SUBSET Req /\ z \in SUBSET (1 .. MaxInstances) /\ e.pending \in SUBSET Req
  BY <1>2, <1>3, Engines
<1>6. DOMAIN q = DOMAIN e.queues /\ \E n \in 1 .. MaxInstances : q \in [1 .. n -> SUBSET Req]
  BY <1>2, <1>3, <1>5, OneQueue
<1>7. e.pending \subseteq arrived /\ \A l \in DOMAIN e.queues : e.queues[l] \subseteq arrived
  BY DEF Data, Known, Holds
<1>8. z \subseteq e.busy /\ \A l \in DOMAIN e.queues : q[l] \subseteq arrived
  BY <1>7
<1> DEFINE d == [e EXCEPT !.busy = z]
<1>9. f = [d EXCEPT !.queues = q]
  OBVIOUS
<1> HIDE DEF f, z, q
<1>10. /\ f \in Engine /\ f.instances = e.instances /\ f.queues = q
       /\ f.busy = z /\ f.stopped = e.stopped /\ f.pending = e.pending
  <2>1. /\ d \in Engine /\ d.instances = e.instances /\ d.busy = z
        /\ d.stopped = e.stopped /\ d.pending = e.pending
    BY <1>2, <1>5 DEF Engine
  <2> HIDE DEF d
  <2>2. d = [stopped |-> d.stopped, instances |-> d.instances, pending |-> d.pending,
             queues |-> d.queues, busy |-> d.busy]
    BY <2>1, Engines
  <2>3. f = [stopped |-> d.stopped, instances |-> d.instances, pending |-> d.pending,
             queues |-> q, busy |-> d.busy]
    BY <1>9, <2>2
  <2>4. d.stopped \in BOOLEAN /\ d.instances \in 1 .. MaxInstances
        /\ d.pending \subseteq Req /\ d.busy \subseteq 1 .. MaxInstances
    BY <2>1, Engines
  <2>5. f.stopped = d.stopped /\ f.instances = d.instances /\ f.pending = d.pending
        /\ f.queues = q /\ f.busy = d.busy
    BY <2>3
  <2>6. f \in Engine
    BY <1>6, <2>3, <2>4, <2>5, Engines
  <2>7. QED
    BY <2>1, <2>5, <2>6
<1>11. routine[g] \in {"split", "deal"} => e.stopped
  BY DEF Data, Widths, Wide
<1>12. /\ UNCHANGED <<state, routine, events, turn, layout, parcel, arrived>>
       /\ served' \subseteq arrived /\ arrived \subseteq Req
  BY <1>1, <1>3, <1>7 DEF EndStep, Data, TypeOK
<1>13. QED
  BY <1>2, <1>4, <1>6, <1>7, <1>8, <1>10, <1>11, <1>12, SameParcels, OneEngine

-----------------------------------------------------------------------------
(* Steps of a group.                                                       *)

\* A step that changes one group keeps the invariant if it does so there.
LEMMA OneGroup ==
  ASSUME Data, NEW g \in Group,
         engine' \in [Group -> [Rank -> Engine]],
         state' \in [Group -> {"initial", "balloon", "restore", "stop"}],
         routine' \in [Group -> {"none", "merge", "drop", "reclaim", "restore", "split", "deal"}],
         parcel' \in [Group -> [Follower -> Parcel]],
         UNCHANGED <<turn, events, layout, arrived, served>>,
         \A h \in Group : h # g =>
           /\ engine'[h] = engine[h] /\ parcel'[h] = parcel[h]
           /\ state'[h] = state[h] /\ routine'[h] = routine[h],
         \A i \in Rank : engine'[g][i].busy \subseteq DOMAIN engine'[g][i].queues,
         turn \in {"poll", "init"} => engine'[g][0].instances <= engine[g][0].instances,
         Wide(g)', Holds(g)'
  PROVE  Data'
<1>1. TypeOK'
  BY DEF Data, TypeOK
<1>2. Widths'
  <2>1. ASSUME NEW h \in Group, h # g PROVE Wide(h)'
    <3>1. Wide(h)
      BY DEF Data, Widths
    <3>2. /\ engine'[h] = engine[h] /\ state'[h] = state[h] /\ routine'[h] = routine[h]
      BY <2>1
    <3>3. Width(h)' = Width(h)
      BY <3>2 DEF Width
    <3>4. QED
      BY <3>1, <3>2, <3>3 DEF Wide
  <2>2. QED
    BY <2>1 DEF Widths
<1>3. Known'
  <2>1. ASSUME NEW h \in Group, h # g PROVE Holds(h)'
    BY <2>1 DEF Data, Known, Holds
  <2>2. QED
    BY <2>1 DEF Known
<1>4. Room'
  <2>1. \A h \in Group : engine[h][0].instances \in Nat /\ engine'[h][0].instances \in Nat
    <3>1. ASSUME NEW h \in Group
          PROVE  engine[h][0].instances \in 1 .. MaxInstances
                 /\ engine'[h][0].instances \in 1 .. MaxInstances
      <4>1. engine[h][0] \in Engine /\ engine'[h][0] \in Engine
        BY Ranks DEF Data, TypeOK
      <4>2. QED
        BY <4>1, Engines
    <3>2. QED
      BY <3>1, Ranked
  <2>2. turn \in {"poll", "init"} =>
          \A h \in Group : engine'[h][0].instances <= engine[h][0].instances
    BY <2>1
  <2>3. QED
    BY <2>1, <2>2, Ranked DEF Data, Room, Mergeable
<1>5. QED
  BY <1>1, <1>2, <1>3, <1>4 DEF Data

\* The flag `stopped' is all that a stop or a restart changes.
LEMMA WithKeeps ==
  ASSUME Data, NEW g \in Group, NEW ranks, NEW value \in BOOLEAN
  PROVE  /\ With(g, ranks, value) \in [Rank -> Engine]
         /\ \A i \in Rank :
              LET e == With(g, ranks, value)[i]
              IN  /\ e.instances = engine[g][i].instances /\ e.queues = engine[g][i].queues
                  /\ e.busy = engine[g][i].busy /\ e.pending = engine[g][i].pending
                  /\ e.stopped = IF i \in ranks THEN value ELSE engine[g][i].stopped
<1>1. ASSUME NEW i \in Rank
      PROVE  LET e == With(g, ranks, value)[i]
             IN  /\ e \in Engine
                 /\ e.instances = engine[g][i].instances /\ e.queues = engine[g][i].queues
                 /\ e.busy = engine[g][i].busy /\ e.pending = engine[g][i].pending
                 /\ e.stopped = IF i \in ranks THEN value ELSE engine[g][i].stopped
  <2>1. engine[g][i] \in Engine
    BY DEF Data, TypeOK
  <2>2. CASE i \in ranks
    BY <2>1, <2>2 DEF With, Engine
  <2>3. CASE i \notin ranks
    BY <2>1, <2>3 DEF With
  <2>4. QED
    BY <2>2, <2>3
<1>2. With(g, ranks, value) \in [Rank -> Engine]
  BY <1>1 DEF With
<1>3. QED
  BY <1>1, <1>2

\* A step that changes the flags of one group, and nothing about its routine.
LEMMA FlagsOnly ==
  ASSUME Data, NEW g \in Group, NEW ranks, NEW value \in BOOLEAN,
         engine' = [engine EXCEPT ![g] = With(g, ranks, value)],
         UNCHANGED <<turn, events, layout, arrived, served, parcel>>,
         state' \in [Group -> {"initial", "balloon", "restore", "stop"}],
         routine' \in [Group -> {"none", "merge", "drop", "reclaim", "restore", "split", "deal"}],
         \A h \in Group : h # g => state'[h] = state[h] /\ routine'[h] = routine[h],
         Wide(g)'
  PROVE  Data'
<1>1. /\ engine' \in [Group -> [Rank -> Engine]]
      /\ engine'[g] = With(g, ranks, value)
      /\ \A h \in Group : h # g => engine'[h] = engine[h]
  BY WithKeeps DEF Data, TypeOK
<1>2. \A i \in Rank :
        /\ engine'[g][i].instances = engine[g][i].instances
        /\ engine'[g][i].queues = engine[g][i].queues
        /\ engine'[g][i].busy = engine[g][i].busy
        /\ engine'[g][i].pending = engine[g][i].pending
  BY <1>1, WithKeeps
<1>3. \A i \in Rank : engine'[g][i].busy \subseteq DOMAIN engine'[g][i].queues
  BY <1>2 DEF Data, TypeOK
<1>4. Holds(g)'
  BY <1>2 DEF Data, Known, Holds
<1>5. engine'[g][0].instances <= engine[g][0].instances
  BY <1>2, Ranks, Ranked DEF Data, TypeOK, Engine
<1>6. parcel' \in [Group -> [Follower -> Parcel]]
  BY DEF Data, TypeOK
<1>7. QED
  BY <1>1, <1>3, <1>4, <1>5, <1>6, OneGroup

LEMMA StopFollowerData ==
  ASSUME Data, NEW g \in Group, NEW i \in Follower, StopFollower(g, i)
  PROVE  Data'
<1> DEFINE f == [engine[g][i] EXCEPT !.stopped = TRUE]
<1>1. engine[g][i] \in Engine /\ i \in Rank
      /\ engine[g][i].busy \subseteq DOMAIN engine[g][i].queues
  BY Ranks DEF Data, TypeOK
<1>2. engine' = [engine EXCEPT ![g][i] = f]
  BY DEF StopFollower
<1>3. /\ f \in Engine /\ f.instances = engine[g][i].instances
      /\ f.queues = engine[g][i].queues /\ f.busy = engine[g][i].busy /\ f.stopped
      /\ f.pending = engine[g][i].pending
  BY <1>1 DEF Engine
<1> HIDE DEF f
<1>4. /\ engine[g][i].pending \subseteq arrived
      /\ \A l \in DOMAIN engine[g][i].queues : engine[g][i].queues[l] \subseteq arrived
  BY <1>1 DEF Data, Known, Holds
<1>5. /\ UNCHANGED <<state, routine, events, turn, layout, parcel, arrived, served>>
      /\ served \subseteq arrived /\ arrived \subseteq Req
  BY DEF StopFollower, Data, TypeOK
<1>6. QED
  BY <1>1, <1>2, <1>3, <1>4, <1>5, SameParcels, OneEngine

LEMMA TakePropertiesData ==
  ASSUME Data, NEW g \in Group, NEW i \in Follower, TakeProperties(g, i)
  PROVE  Data'
<1> DEFINE e == engine[g][i]
           f == [e EXCEPT !.pending = {}]
           sent == [ready |-> TRUE, queue |-> e.queues[1], pending |-> e.pending]
<1>1. e \in Engine /\ i \in Rank /\ e.busy \subseteq DOMAIN e.queues
  BY Ranks DEF Data, TypeOK
<1>2. engine' = [engine EXCEPT ![g][i] = f] /\ parcel' = [parcel EXCEPT ![g][i] = sent]
  BY DEF TakeProperties
<1>3. /\ f \in Engine /\ f.instances = e.instances /\ f.queues = e.queues
      /\ f.busy = e.busy /\ f.stopped = e.stopped /\ f.pending = {}
  BY <1>1 DEF Engine
<1>4. e.pending \subseteq arrived /\ \A l \in DOMAIN e.queues : e.queues[l] \subseteq arrived
  BY <1>1 DEF Data, Known, Holds
<1>5. 1 \in DOMAIN e.queues
  BY Ranked DEF Data, Widths, Wide
<1>6. e.queues[1] \subseteq Req /\ e.pending \subseteq Req
  BY <1>4, <1>5 DEF Data, TypeOK
<1>7. sent \in Parcel /\ sent.queue \subseteq arrived /\ sent.pending \subseteq arrived
  BY <1>4, <1>5, <1>6 DEF Parcel
<1> HIDE DEF f, sent
<1>8. /\ parcel' \in [Group -> [Follower -> Parcel]]
      /\ \A h \in Group, j \in Follower :
           parcel'[h][j].queue \subseteq arrived /\ parcel'[h][j].pending \subseteq arrived
  BY <1>2, <1>7 DEF Data, TypeOK, Known, Holds
<1>9. routine[g] \in {"split", "deal"} => e.stopped
  BY DEF TakeProperties
<1>10. /\ UNCHANGED <<state, routine, events, turn, layout, arrived, served>>
       /\ served \subseteq arrived /\ arrived \subseteq Req
  BY DEF TakeProperties, Data, TypeOK
<1>11. QED
  BY <1>1, <1>2, <1>3, <1>4, <1>8, <1>9, <1>10, OneEngine

LEMMA SetPropertiesData ==
  ASSUME Data, NEW g \in Group, NEW i \in Follower, SetProperties(g, i)
  PROVE  Data'
<1> DEFINE e == engine[g][i]
           q == <<parcel[g][i].queue>>
           f == [e EXCEPT !.queues = q]
<1>1. e \in Engine /\ i \in Rank /\ e.busy \subseteq DOMAIN e.queues
  BY Ranks DEF Data, TypeOK
<1>2. engine' = [engine EXCEPT ![g][i] = f] /\ parcel' = [parcel EXCEPT ![g][i] = Nothing]
  BY DEF SetProperties
<1>3. parcel[g][i].queue \subseteq arrived /\ arrived \subseteq Req
  BY DEF Data, TypeOK, Known, Holds
<1>4. DOMAIN e.queues = 1 .. 1
  BY DEF Data, Widths, Wide
<1>5. /\ q \in [1 .. 1 -> SUBSET Req] /\ DOMAIN q = 1 .. 1
      /\ \A l \in 1 .. 1 : q[l] \subseteq arrived
  BY <1>3
<1>6. 1 \in 1 .. MaxInstances
  BY Ranked
<1> HIDE DEF q
<1>7. /\ f \in Engine /\ f.instances = e.instances /\ f.queues = q
      /\ f.busy = e.busy /\ f.stopped = e.stopped /\ f.pending = e.pending
  <2>1. \E n \in 1 .. MaxInstances : q \in [1 .. n -> SUBSET Req]
    BY <1>5, <1>6
  <2>2. QED
    BY <1>1, <2>1 DEF Engine
<1> HIDE DEF f
<1>8. /\ parcel' \in [Group -> [Follower -> Parcel]]
      /\ \A h \in Group, j \in Follower :
           parcel'[h][j].queue \subseteq arrived /\ parcel'[h][j].pending \subseteq arrived
  <2>1. Nothing \in Parcel /\ Nothing.queue = {} /\ Nothing.pending = {}
    BY DEF Nothing, Parcel
  <2>2. QED
    BY <1>2, <2>1 DEF Data, TypeOK, Known, Holds
<1>9. e.stopped
  BY <1>1 DEF SetProperties, Data, Widths, Wide
<1>10. e.pending \subseteq arrived
  BY <1>1 DEF Data, Known, Holds
<1>11. /\ UNCHANGED <<state, routine, events, turn, layout, arrived, served>>
       /\ served \subseteq arrived /\ arrived \subseteq Req
  BY DEF SetProperties, Data, TypeOK
<1>12. QED
  BY <1>1, <1>2, <1>4, <1>5, <1>7, <1>8, <1>9, <1>10, <1>11, OneEngine

LEMMA ReloadedData ==
  ASSUME IInv, Data, NEW g \in Group, Reloaded(g)
  PROVE  Data'
<1>1. engine' = [engine EXCEPT ![g] = With(g, Rank, TRUE)]
  BY DEF Reloaded, AllStopped
<1>2. state[g] = "balloon" /\ routine[g] = "reclaim"
  BY DEF Reloaded, IInv, Orders, InStep, Idle
<1>3. state'[g] = "stop" /\ routine'[g] = "restore"
  BY DEF Reloaded, Data, TypeOK
<1>4. \A i \in Rank : /\ engine'[g][i].instances = engine[g][i].instances
                      /\ engine'[g][i].queues = engine[g][i].queues
  <2>1. engine'[g] = With(g, Rank, TRUE)
    BY <1>1 DEF Data, TypeOK
  <2>2. \A i \in Rank : engine[g][i] \in Engine
    BY DEF Data, TypeOK
  <2>3. QED
    BY <2>1, <2>2 DEF With, Engine
<1>5. Wide(g)
  BY DEF Data, Widths
<1>6. Wide(g)'
  BY <1>2, <1>3, <1>4, <1>5, Ranks DEF Wide, Width
<1>7. /\ state' \in [Group -> {"initial", "balloon", "restore", "stop"}]
      /\ routine' \in [Group -> {"none", "merge", "drop", "reclaim", "restore", "split", "deal"}]
      /\ \A h \in Group : h # g => state'[h] = state[h] /\ routine'[h] = routine[h]
      /\ UNCHANGED <<turn, events, layout, arrived, served, parcel>>
  BY DEF Reloaded, Data, TypeOK
<1>8. QED
  BY <1>1, <1>6, <1>7, FlagsOnly

LEMMA RestoreInstanceData ==
  ASSUME Data, NEW g \in Group, RestoreInstance(g)
  PROVE  Data'
<1>1. engine' = [engine EXCEPT ![g] = With(g, Restarted, FALSE)]
  BY DEF RestoreInstance
<1>2. routine[g] = "restore"
  BY DEF RestoreInstance
<1>3. state'[g] = "restore" /\ routine'[g] = "none"
  BY DEF RestoreInstance, Data, TypeOK
<1>4. \A i \in Rank : /\ engine'[g][i].instances = engine[g][i].instances
                      /\ engine'[g][i].queues = engine[g][i].queues
  <2>1. engine'[g] = With(g, Restarted, FALSE)
    BY <1>1 DEF Data, TypeOK
  <2>2. \A i \in Rank : engine[g][i] \in Engine
    BY DEF Data, TypeOK
  <2>3. QED
    BY <2>1, <2>2 DEF With, Engine
<1>5. Wide(g)
  BY DEF Data, Widths
<1>6. Wide(g)'
  BY <1>2, <1>3, <1>4, <1>5, Ranks DEF Wide, Width
<1>7. /\ state' \in [Group -> {"initial", "balloon", "restore", "stop"}]
      /\ routine' \in [Group -> {"none", "merge", "drop", "reclaim", "restore", "split", "deal"}]
      /\ \A h \in Group : h # g => state'[h] = state[h] /\ routine'[h] = routine[h]
      /\ UNCHANGED <<turn, events, layout, arrived, served, parcel>>
  BY DEF RestoreInstance, Data, TypeOK
<1>8. QED
  BY <1>1, <1>6, <1>7, FlagsOnly

LEMMA TriggerInitData ==
  ASSUME IInv, Data, NEW g \in Group, TriggerInit(g)
  PROVE  Data'
<1> DEFINE E == [i \in Rank |-> [engine[g][i] EXCEPT !.stopped = FALSE, !.instances = 1]]
<1>1. engine' = [engine EXCEPT ![g] = E]
  BY DEF TriggerInit, Data, TypeOK
<1>2. \A i \in Rank : /\ E[i] \in Engine
                      /\ E[i].instances = 1 /\ E[i].queues = engine[g][i].queues
                      /\ E[i].busy = engine[g][i].busy /\ E[i].pending = engine[g][i].pending
  <2>1. ASSUME NEW i \in Rank
        PROVE  LET e == [engine[g][i] EXCEPT !.stopped = FALSE, !.instances = 1]
               IN  /\ e \in Engine
                   /\ e.instances = 1 /\ e.queues = engine[g][i].queues
                   /\ e.busy = engine[g][i].busy /\ e.pending = engine[g][i].pending
    <3>1. engine[g][i] \in Engine /\ 1 \in 1 .. MaxInstances
      BY Ranked DEF Data, TypeOK
    <3>2. QED
      BY <3>1 DEF Engine
  <2>2. QED
    BY <2>1
<1>3. E \in [Rank -> Engine]
  <2>1. E = [i \in Rank |-> E[i]]
    OBVIOUS
  <2> HIDE DEF E
  <2>2. QED
    BY <1>2, <2>1
<1> HIDE DEF E
<1>4. /\ engine' \in [Group -> [Rank -> Engine]]
      /\ engine'[g] = E
      /\ \A h \in Group : h # g => engine'[h] = engine[h]
  BY <1>1, <1>3 DEF Data, TypeOK
<1>5. routine[g] = "deal" /\ routine'[g] = "none" /\ state'[g] = "initial"
  BY DEF TriggerInit, Data, TypeOK
<1>6. Wide(g)
  BY DEF Data, Widths
<1>7. Wide(g)'
  BY <1>2, <1>4, <1>5, <1>6, Ranks DEF Wide, Width
<1>8. Holds(g)'
  BY <1>2, <1>4 DEF TriggerInit, Data, Known, Holds
<1>9. \A i \in Rank : engine'[g][i].busy \subseteq DOMAIN engine'[g][i].queues
  BY <1>2, <1>4 DEF Data, TypeOK
<1>10. engine'[g][0].instances <= engine[g][0].instances
  <2>1. engine[g][0].instances \in 1 .. MaxInstances
    BY Ranks, Engines DEF Data, TypeOK
  <2>2. QED
    BY <1>2, <1>4, <2>1, Ranks, Ranked
<1>11. /\ state' \in [Group -> {"initial", "balloon", "restore", "stop"}]
       /\ routine' \in [Group -> {"none", "merge", "drop", "reclaim", "restore", "split", "deal"}]
       /\ \A h \in Group : h # g => state'[h] = state[h] /\ routine'[h] = routine[h]
       /\ UNCHANGED <<turn, events, layout, arrived, served, parcel>>
       /\ parcel \in [Group -> [Follower -> Parcel]]
  BY DEF TriggerInit, Data, TypeOK
<1>12. QED
  BY <1>4, <1>7, <1>8, <1>9, <1>10, <1>11, OneGroup

\* A step that gives the leader of g other queues.
LEMMA LeaderQueues ==
  ASSUME Data, NEW g \in Group, NEW f \in Engine,
         engine' = [engine EXCEPT ![g][0] = f],
         f.busy \subseteq DOMAIN f.queues,
         f.pending \subseteq arrived, \A k \in DOMAIN f.queues : f.queues[k] \subseteq arrived,
         turn \in {"poll", "init"} => f.instances <= engine[g][0].instances,
         state' \in [Group -> {"initial", "balloon", "restore", "stop"}],
         routine' \in [Group -> {"none", "merge", "drop", "reclaim", "restore", "split", "deal"}],
         \A h \in Group : h # g => state'[h] = state[h] /\ routine'[h] = routine[h],
         parcel' \in [Group -> [Follower -> Parcel]],
         \A h \in Group : h # g => parcel'[h] = parcel[h],
         \A j \in Follower :
           parcel'[g][j].queue \subseteq arrived /\ parcel'[g][j].pending \subseteq arrived,
         UNCHANGED <<turn, events, layout, arrived, served>>,
         Wide(g)'
  PROVE  Data'
<1>1. /\ engine' \in [Group -> [Rank -> Engine]]
      /\ engine'[g][0] = f
      /\ \A i \in Rank : i # 0 => engine'[g][i] = engine[g][i]
      /\ \A h \in Group : h # g => engine'[h] = engine[h]
  BY Ranks DEF Data, TypeOK
<1>2. Holds(g)'
  BY <1>1 DEF Data, Known, Holds
<1>3. \A i \in Rank : engine'[g][i].busy \subseteq DOMAIN engine'[g][i].queues
  BY <1>1 DEF Data, TypeOK
<1>4. turn \in {"poll", "init"} => engine'[g][0].instances <= engine[g][0].instances
  BY <1>1
<1>5. QED
  BY <1>1, <1>2, <1>3, <1>4, OneGroup

LEMMA SplitEngineData ==
  ASSUME Data, NEW g \in Group, SplitEngine(g)
  PROVE  Data'
<1> DEFINE e == engine[g][0]
           q == <<e.queues[1]>>
           f == [e EXCEPT !.queues = q]
           sent(i) == [ready |-> TRUE, queue |-> e.queues[i + 1], pending |-> {}]
<1>1. e \in Engine
  BY Ranks DEF Data, TypeOK
<1>2. engine' = [engine EXCEPT ![g][0] = f]
      /\ parcel' = [parcel EXCEPT ![g] = [i \in Follower |-> sent(i)]]
  BY DEF SplitEngine
<1>3. routine[g] = "split" /\ routine'[g] = "deal" /\ state' = state
  BY DEF SplitEngine, Data, TypeOK
<1>4. Wide(g)
  BY DEF Data, Widths
<1>5. DOMAIN e.queues = 1 .. e.instances /\ e.instances >= Size /\ e.instances \in Nat
  <2>1. e.instances \in 1 .. MaxInstances
    BY <1>1, Engines
  <2>2. QED
    BY <1>3, <1>4, <2>1, Ranked DEF Wide, Width
<1>6. \A k \in 1 .. Size : k \in DOMAIN e.queues /\ e.queues[k] \subseteq arrived
  <2>1. \A k \in DOMAIN e.queues : e.queues[k] \subseteq arrived
    BY Ranks DEF Data, Known, Holds
  <2>2. QED
    BY <1>5, <2>1, Ranked
<1>7. arrived \subseteq Req /\ 1 \in 1 .. Size /\ 1 \in 1 .. MaxInstances
  BY Ranked DEF Data, TypeOK
<1>8. q \in [1 .. 1 -> SUBSET Req] /\ DOMAIN q = 1 .. 1 /\ \A k \in DOMAIN q : q[k] \subseteq arrived
  BY <1>6, <1>7
<1> HIDE DEF q
<1>9. /\ f \in Engine /\ f.instances = e.instances /\ f.queues = q
      /\ f.busy = e.busy /\ f.stopped = e.stopped /\ f.pending = e.pending
  <2>1. \E n \in 1 .. MaxInstances : q \in [1 .. n -> SUBSET Req]
    BY <1>7, <1>8
  <2>2. QED
    BY <1>1, <2>1 DEF Engine
<1> HIDE DEF f
<1>10. f.busy \subseteq DOMAIN f.queues
  BY <1>9, Ranks DEF SplitEngine, Quiet
<1>11. \A i \in Follower : /\ sent(i) \in Parcel
                           /\ sent(i).queue \subseteq arrived /\ sent(i).pending \subseteq arrived
  <2>1. ASSUME NEW i \in Follower PROVE i + 1 \in 1 .. Size
    BY Ranked
  <2>2. QED
    BY <1>6, <1>7, <2>1 DEF Parcel
<1> HIDE DEF sent
<1>12. /\ parcel' \in [Group -> [Follower -> Parcel]]
       /\ \A h \in Group : h # g => parcel'[h] = parcel[h]
       /\ \A i \in Follower : parcel'[g][i] = sent(i)
  BY <1>2, <1>11 DEF Data, TypeOK
<1>13. /\ engine'[g][0] = f
       /\ \A i \in Rank : i # 0 => engine'[g][i] = engine[g][i]
  BY <1>2, Ranks DEF Data, TypeOK
<1>14. Wide(g)'
  BY <1>3, <1>4, <1>8, <1>9, <1>13, Ranks DEF Wide, Width
<1>15. f.pending \subseteq arrived
  BY <1>9, Ranks DEF Data, Known, Holds
<1>16. f.instances <= e.instances
  BY <1>5, <1>9
<1>17. /\ state' \in [Group -> {"initial", "balloon", "restore", "stop"}]
       /\ routine' \in [Group -> {"none", "merge", "drop", "reclaim", "restore", "split", "deal"}]
       /\ \A h \in Group : h # g => state'[h] = state[h] /\ routine'[h] = routine[h]
       /\ UNCHANGED <<turn, events, layout, arrived, served>>
  BY DEF SplitEngine, Data, TypeOK
<1>18. QED
  BY <1>2, <1>8, <1>9, <1>10, <1>11, <1>12, <1>14, <1>15, <1>16, <1>17, LeaderQueues

\* Evening out the queues neither adds a queue nor brings in a request.
LEMMA EvenedKeeps ==
  ASSUME NEW n, NEW S, NEW queues \in [1 .. n -> SUBSET S], NEW q \in Evened(queues)
  PROVE  q \in [1 .. n -> SUBSET S]
<1>1. PICK b \in 1 .. n, l \in 1 .. n, moved \in SUBSET Req : q = Even(queues, b, l, moved)
  BY DEF Evened
<1>2. CASE q = queues
  BY <1>2
<1>3. CASE /\ b # l /\ moved \subseteq queues[b]
           /\ q = [queues EXCEPT ![b] = @ \ moved, ![l] = @ \cup moved]
  <2>1. queues[b] \ moved \subseteq S /\ queues[l] \cup moved \subseteq S
    BY <1>3
  <2>2. QED
    BY <1>3, <2>1
<1>4. QED
  BY <1>1, <1>2, <1>3 DEF Even

LEMMA EnterBalloonData ==
  ASSUME Data, NEW g \in Group, EnterBalloon(g)
  PROVE  Data'
<1> DEFINE e == engine[g][0]
<1>1. PICK q \in Evened(e.queues) :
        engine' = [engine EXCEPT ![g][0].queues = q, ![g][0].stopped = FALSE]
  BY DEF EnterBalloon
<1> DEFINE d == [e EXCEPT !.queues = q]
           f == [d EXCEPT !.stopped = FALSE]
<1>2. e \in Engine
  BY Ranks DEF Data, TypeOK
<1>3. routine[g] = "drop" /\ routine'[g] = "none" /\ state'[g] = "balloon" /\ e.busy = {}
  BY DEF EnterBalloon, Data, TypeOK
<1>4. PICK n \in 1 .. MaxInstances : e.queues \in [1 .. n -> SUBSET Req]
  BY <1>2, Engines
<1>5. e.queues \in [1 .. n -> SUBSET arrived] /\ e.pending \subseteq arrived
  BY <1>4, Ranks DEF Data, Known, Holds
<1>6. q \in [1 .. n -> SUBSET arrived]
  BY <1>5, EvenedKeeps
<1>7. /\ q \in [1 .. n -> SUBSET Req] /\ DOMAIN q = DOMAIN e.queues
      /\ \A k \in DOMAIN q : q[k] \subseteq arrived
  <2>1. arrived \subseteq Req
    BY DEF Data, TypeOK
  <2>2. QED
    BY <1>4, <1>6, <2>1
<1>8. /\ d \in Engine /\ d.instances = e.instances /\ d.queues = q
      /\ d.busy = e.busy /\ d.stopped = e.stopped /\ d.pending = e.pending
  <2>1. q \in [1 .. n -> SUBSET Req]
    BY <1>4, <1>7
  <2>2. d = [stopped |-> e.stopped, instances |-> e.instances, pending |-> e.pending,
             queues |-> q, busy |-> e.busy]
    BY <1>2 DEF Engine
  <2>3. d.instances = e.instances /\ d.queues = q
        /\ d.busy = e.busy /\ d.stopped = e.stopped /\ d.pending = e.pending
    BY <2>2
  <2> HIDE DEF d
  <2>4. d \in Engine
    BY <1>2, <2>1, <2>2, <2>3, Engines
  <2>5. QED
    BY <2>3, <2>4
<1>9. engine' = [engine EXCEPT ![g][0] = f]
  <2> DEFINE E == [engine EXCEPT ![g][0].queues = q]
  <2>1. engine' = [E EXCEPT ![g][0].stopped = FALSE]
    BY <1>1
  <2>2. E[g][0] = d
    BY Ranks DEF Data, TypeOK
  <2>3. engine' = [E EXCEPT ![g][0] = f]
    BY <2>1, <2>2
  <2>4. QED
    BY <2>3, Ranks DEF Data, TypeOK
<1> HIDE DEF d
<1>10. /\ f \in Engine /\ f.instances = e.instances /\ f.queues = q
       /\ f.busy = {} /\ f.pending = e.pending
  BY <1>3, <1>8 DEF Engine
<1> HIDE DEF f
<1>11. Wide(g)
  BY DEF Data, Widths
<1>12. /\ engine'[g][0] = f
       /\ \A i \in Rank : i # 0 => engine'[g][i] = engine[g][i]
  BY <1>9, Ranks DEF Data, TypeOK
<1>13. Wide(g)'
  BY <1>3, <1>7, <1>10, <1>11, <1>12, Ranks DEF Wide, Width
<1>14. turn \in {"poll", "init"} => f.instances <= e.instances
  <2>1. e.instances \in 1 .. MaxInstances
    BY <1>2, Engines
  <2>2. QED
    BY <1>10, <2>1, Ranked
<1>15. /\ state' \in [Group -> {"initial", "balloon", "restore", "stop"}]
       /\ routine' \in [Group -> {"none", "merge", "drop", "reclaim", "restore", "split", "deal"}]
       /\ \A h \in Group : h # g => state'[h] = state[h] /\ routine'[h] = routine[h]
       /\ UNCHANGED <<turn, events, layout, parcel, arrived, served>>
       /\ parcel' \in [Group -> [Follower -> Parcel]]
       /\ \A j \in Follower :
            parcel'[g][j].queue \subseteq arrived /\ parcel'[g][j].pending \subseteq arrived
  BY DEF EnterBalloon, Data, TypeOK, Known, Holds
<1>16. QED
  BY <1>5, <1>7, <1>9, <1>10, <1>13, <1>14, <1>15, LeaderQueues

\* A leader has the queues of its followers appended to its own.
LEMMA Appended ==
  ASSUME NEW S, NEW n \in Nat, NEW m \in Nat, NEW s \in [1 .. n -> S], NEW t \in [1 .. m -> S]
  PROVE  /\ s \o t \in [1 .. n + m -> S]
         /\ \A k \in 1 .. n : (s \o t)[k] = s[k]
         /\ \A k \in 1 .. m : (s \o t)[n + k] = t[k]
<1>1. s \in Seq(S) /\ t \in Seq(S)
  BY SeqDef
<1>2. Len(s) = n /\ Len(t) = m
  BY <1>1, LenProperties
<1>3. s \o t \in Seq(S) /\ Len(s \o t) = n + m
      /\ \A k \in 1 .. n + m : (s \o t)[k] = IF k <= n THEN s[k] ELSE t[k - n]
  BY <1>1, <1>2, ConcatProperties
<1>4. s \o t \in [1 .. n + m -> S]
  BY <1>3, LenProperties
<1>5. QED
  BY <1>3, <1>4

LEMMA MergeData ==
  ASSUME IInv, Data, NEW g \in Group, Merge(g)
  PROVE  Data'
<1> DEFINE e == engine[g][0]
           n == e.instances
           sent == [i \in Follower |-> parcel[g][i].queue]
           q == e.queues \o sent
           p == e.pending \cup UNION {parcel[g][i].pending : i \in Follower}
           f == [stopped |-> TRUE, instances |-> n + Size - 1, queues |-> q, pending |-> p,
                 busy |-> e.busy]
<1>1. e \in Engine
  BY Ranks DEF Data, TypeOK
<1>2. engine' = [engine EXCEPT ![g][0] = f]
  BY DEF Merge
<1>3. routine[g] = "merge" /\ routine'[g] = "drop" /\ state' = state
  BY DEF Merge, Data, TypeOK
<1>4. Wide(g)
  BY DEF Data, Widths
<1>5. n \in Nat /\ n >= 1 /\ n + Size - 1 \in 1 .. MaxInstances
  <2>1. n \in 1 .. MaxInstances
    BY <1>1, Engines
  <2>2. n + Size - 1 <= MaxInstances
    BY <1>3, <1>4 DEF Wide
  <2> HIDE DEF n
  <2>3. QED
    BY <2>1, <2>2, Ranked
<1>6. arrived \subseteq Req /\ e.pending \subseteq arrived
      /\ \A k \in DOMAIN e.queues : e.queues[k] \subseteq arrived
  BY Ranks DEF Data, TypeOK, Known, Holds
<1>7. \A i \in Follower :
        parcel[g][i].queue \subseteq arrived /\ parcel[g][i].pending \subseteq arrived
  BY DEF Data, Known, Holds
<1>8. e.queues \in [1 .. n -> SUBSET arrived]
  <2>1. DOMAIN e.queues = 1 .. n
    BY <1>3, <1>4 DEF Wide, Width
  <2>2. PICK m \in 1 .. MaxInstances : e.queues \in [1 .. m -> SUBSET Req]
    BY <1>1, Engines
  <2>3. QED
    BY <1>6, <2>1, <2>2
<1>9. sent \in [1 .. Size - 1 -> SUBSET arrived]
  BY <1>7, Ranked
<1>10. q \in [1 .. n + Size - 1 -> SUBSET arrived]
  <2>1. Size - 1 \in Nat
    BY Ranked
  <2> HIDE DEF sent, n
  <2>2. e.queues \o sent \in [1 .. n + (Size - 1) -> SUBSET arrived]
    BY <1>5, <1>8, <1>9, <2>1, Appended
  <2>3. n + (Size - 1) = n + Size - 1
    BY <1>5, Ranked
  <2>4. QED
    BY <2>2, <2>3
<1>11. p \subseteq arrived
  BY <1>6, <1>7
<1> HIDE DEF sent, p, q, n
<1>12. /\ f \in Engine /\ f.instances = n + Size - 1 /\ f.queues = q
       /\ f.busy = e.busy /\ f.stopped /\ f.pending = p
  <2>1. p \subseteq Req /\ e.busy \subseteq 1 .. MaxInstances
    BY <1>1, <1>6, <1>11, Engines
  <2>2. /\ f.instances = n + Size - 1 /\ f.queues = q
        /\ f.busy = e.busy /\ f.stopped = TRUE /\ f.pending = p
    OBVIOUS
  <2>3. f = [stopped |-> f.stopped, instances |-> f.instances, pending |-> f.pending,
             queues |-> f.queues, busy |-> f.busy]
    OBVIOUS
  <2>4. q \in [1 .. n + Size - 1 -> SUBSET Req]
    BY <1>6, <1>10
  <2> HIDE DEF f
  <2>5. f \in Engine
    BY <1>5, <2>1, <2>2, <2>3, <2>4, Engines
  <2>6. QED
    BY <2>2, <2>5
<1> HIDE DEF f
<1>13. /\ engine'[g][0] = f
       /\ \A i \in Rank : i # 0 => engine'[g][i] = engine[g][i]
  BY <1>2, Ranks DEF Data, TypeOK
<1>14. DOMAIN f.queues = 1 .. f.instances /\ \A k \in DOMAIN f.queues : f.queues[k] \subseteq arrived
  BY <1>10, <1>12
<1>15. f.instances >= Size
  BY <1>5, <1>12, Ranked
<1>16. Wide(g)'
  BY <1>3, <1>4, <1>13, <1>14, <1>15, Ranks DEF Wide, Width
<1>17. f.busy \subseteq DOMAIN f.queues
  <2>1. e.busy \subseteq DOMAIN e.queues
    BY Ranks DEF Data, TypeOK
  <2>2. 1 .. n \subseteq 1 .. n + Size - 1
    BY <1>5, Ranked
  <2>3. QED
    BY <1>8, <1>12, <1>14, <2>1, <2>2
<1>18. turn \notin {"poll", "init"}
  BY <1>3 DEF IInv, Orders, InStep, Idle
<1>19. /\ parcel' \in [Group -> [Follower -> Parcel]]
       /\ \A h \in Group : h # g => parcel'[h] = parcel[h]
       /\ \A j \in Follower :
            parcel'[g][j].queue \subseteq arrived /\ parcel'[g][j].pending \subseteq arrived
  <2>1. Nothing \in Parcel /\ Nothing.queue = {} /\ Nothing.pending = {}
    BY DEF Nothing, Parcel
  <2>2. QED
    BY <2>1 DEF Merge, Data, TypeOK
<1>20. /\ state' \in [Group -> {"initial", "balloon", "restore", "stop"}]
       /\ routine' \in [Group -> {"none", "merge", "drop", "reclaim", "restore", "split", "deal"}]
       /\ \A h \in Group : h # g => state'[h] = state[h] /\ routine'[h] = routine[h]
       /\ UNCHANGED <<turn, events, layout, arrived, served>>
  BY DEF Merge, Data, TypeOK
<1>21. QED
  BY <1>2, <1>11, <1>12, <1>14, <1>16, <1>17, <1>18, <1>19, <1>20, LeaderQueues

-----------------------------------------------------------------------------
(* The coordinator's steps.                                                *)

\* A step that leaves the engines alone.
LEMMA OrdersOnly ==
  ASSUME Data, UNCHANGED <<engine, parcel, arrived, served>>,
         state' \in [Group -> {"initial", "balloon", "restore", "stop"}],
         routine' \in [Group -> {"none", "merge", "drop", "reclaim", "restore", "split", "deal"}],
         events' \subseteq [group: Group, state: {"initial", "balloon", "restore"}, event: Event],
         turn' \in {"poll", "init", "switch"},
         layout' \in [Group -> BOOLEAN],
         Widths', Room'
  PROVE  Data'
<1>1. TypeOK'
  BY DEF Data, TypeOK
<1>2. Known'
  BY DEF Data, Known, Holds
<1>3. QED
  BY <1>1, <1>2 DEF Data

LEMMA BeginBalloonData ==
  ASSUME IInv, Data, BeginBalloon
  PROVE  Data'
<1>1. \A g \in Group : routine[g] = "none"
  BY DecidedIdle DEF BeginBalloon
<1>2. \A g \in Group : state'[g] = "stop" /\ routine'[g] = "merge"
  BY DEF BeginBalloon, Switched
<1>3. turn \in {"poll", "init"} /\ \E e \in events : e.event = "balloon"
  BY DecidedIdle DEF BeginBalloon, Wants
<1>4. Mergeable
  BY <1>3 DEF Data, Room
<1>5. Widths'
  <2>1. ASSUME NEW g \in Group PROVE Wide(g)'
    <3>1. Wide(g) /\ routine[g] = "none" /\ routine'[g] = "merge" /\ state'[g] = "stop"
          /\ engine' = engine
      BY <1>1, <1>2 DEF Data, Widths, BeginBalloon
    <3>2. engine[g][0].instances + Size - 1 <= MaxInstances
      BY <1>4 DEF Mergeable
    <3>3. QED
      BY <3>1, <3>2 DEF Wide, Width
  <2>2. QED
    BY <2>1 DEF Widths
<1>6. Room'
  BY DEF BeginBalloon, Room
<1>7. /\ state' \in [Group -> {"initial", "balloon", "restore", "stop"}]
      /\ routine' \in [Group -> {"none", "merge", "drop", "reclaim", "restore", "split", "deal"}]
      /\ layout' \in [Group -> BOOLEAN]
  BY DEF BeginBalloon, Data, TypeOK
<1>8. QED
  BY <1>5, <1>6, <1>7, OrdersOnly DEF BeginBalloon, Data, TypeOK

LEMMA BeginRestoreData ==
  ASSUME IInv, Data, BeginRestore
  PROVE  Data'
<1>1. \A g \in Group : routine[g] = "none"
  BY DecidedIdle DEF BeginRestore
<1>2. \A g \in Group : state[g] = "balloon" /\ routine'[g] = "reclaim"
  BY AllBallooned DEF BeginRestore, Switched
<1>3. Widths'
  <2>1. ASSUME NEW g \in Group PROVE Wide(g)'
    <3>1. Wide(g) /\ routine[g] = "none" /\ routine'[g] = "reclaim" /\ state[g] = "balloon"
          /\ state' = state /\ engine' = engine
      BY <1>1, <1>2 DEF Data, Widths, BeginRestore
    <3>2. QED
      BY <3>1 DEF Wide, Width
  <2>2. QED
    BY <2>1 DEF Widths
<1>4. Room'
  BY DEF BeginRestore, Room
<1>5. routine' \in [Group -> {"none", "merge", "drop", "reclaim", "restore", "split", "deal"}]
  BY DEF BeginRestore, Data, TypeOK
<1>6. QED
  BY <1>3, <1>4, <1>5, OrdersOnly DEF BeginRestore, Data, TypeOK

LEMMA SleepData ==
  ASSUME Data, Sleep
  PROVE  Data'
<1>1. Widths'
  BY DEF Sleep, Data, Widths, Wide, Width
<1>2. Room'
  BY DEF Sleep, Room
<1>3. QED
  BY <1>1, <1>2, OrdersOnly DEF Sleep, Data, TypeOK

LEMMA BeginInitData ==
  ASSUME IInv, Data, BeginInit
  PROVE  Data'
<1>1. turn = "poll" /\ \A g \in Group : routine[g] = "none"
  BY DEF BeginInit, Polled, IInv, Orders, InStep, Idle
<1>2. \A g \in Wants("init") : g \in Group /\ state[g] = "restore"
  BY <1>1 DEF Wants, IInv, Orders, Answers
<1>3. \A g \in Group :
        IF g \in Wants("init")
        THEN state'[g] = "stop" /\ routine'[g] = "split" /\ engine'[g] = With(g, Rank, TRUE)
        ELSE state'[g] = state[g] /\ routine'[g] = routine[g] /\ engine'[g] = engine[g]
  BY DEF BeginInit, AllStopped
<1>4. ASSUME NEW g \in Group
      PROVE  /\ engine'[g] \in [Rank -> Engine]
             /\ \A i \in Rank :
                  /\ engine'[g][i].instances = engine[g][i].instances
                  /\ engine'[g][i].queues = engine[g][i].queues
                  /\ engine'[g][i].busy = engine[g][i].busy
                  /\ engine'[g][i].pending = engine[g][i].pending
                  /\ g \in Wants("init") => engine'[g][i].stopped
  <2>1. \A i \in Rank : engine[g][i] \in Engine
    BY DEF Data, TypeOK
  <2>2. CASE g \in Wants("init")
    <3>1. engine'[g] = With(g, Rank, TRUE)
      BY <1>3, <2>2
    <3>2. \A i \in Rank : engine'[g][i] = [engine[g][i] EXCEPT !.stopped = TRUE]
      BY <3>1 DEF With
    <3>3. \A i \in Rank :
            /\ engine'[g][i] \in Engine
            /\ engine'[g][i].instances = engine[g][i].instances
            /\ engine'[g][i].queues = engine[g][i].queues
            /\ engine'[g][i].busy = engine[g][i].busy
            /\ engine'[g][i].pending = engine[g][i].pending
            /\ engine'[g][i].stopped
      BY <2>1, <3>2 DEF Engine
    <3>4. engine'[g] \in [Rank -> Engine]
      BY <3>1, <3>3 DEF With
    <3>5. QED
      BY <3>3, <3>4
  <2>3. CASE g \notin Wants("init")
    BY <1>3, <2>3 DEF Data, TypeOK
  <2>4. QED
    BY <2>2, <2>3
<1>5. TypeOK'
  <2>1. engine' \in [Group -> [Rank -> Engine]]
    <3>1. DOMAIN engine' = Group /\ engine' = [g \in Group |-> engine'[g]]
      BY DEF BeginInit
    <3>2. QED
      BY <1>4, <3>1
  <2>2. \A g \in Group, i \in Rank : engine'[g][i].busy \subseteq DOMAIN engine'[g][i].queues
    BY <1>4 DEF Data, TypeOK
  <2>3. QED
    BY <2>1, <2>2 DEF BeginInit, Data, TypeOK
<1>6. Widths'
  <2>1. ASSUME NEW g \in Group PROVE Wide(g)'
    <3>1. Wide(g) /\ routine[g] = "none"
      BY <1>1 DEF Data, Widths
    <3>2. CASE g \in Wants("init")
      <4>1. state[g] = "restore" /\ state'[g] = "stop" /\ routine'[g] = "split"
        BY <1>2, <1>3, <3>2
      <4>2. QED
        BY <1>4, <3>1, <3>2, <4>1, Ranks DEF Wide, Width
    <3>3. CASE g \notin Wants("init")
      <4>1. state'[g] = state[g] /\ routine'[g] = routine[g] /\ engine'[g] = engine[g]
        BY <1>3, <3>3
      <4>2. QED
        BY <3>1, <4>1 DEF Wide, Width
    <3>4. QED
      BY <3>2, <3>3
  <2>2. QED
    BY <2>1 DEF Widths
<1>7. Room'
  <2>1. \A g \in Group : engine'[g][0].instances = engine[g][0].instances
    BY <1>4, Ranks
  <2>2. QED
    BY <1>1, <2>1 DEF BeginInit, Data, Room, Mergeable
<1>8. Known'
  BY <1>4 DEF BeginInit, Data, Known, Holds
<1>9. QED
  BY <1>5, <1>6, <1>7, <1>8 DEF Data

LEMMA AskData ==
  ASSUME IInv, Data, NEW g \in Group, Ask(g)
  PROVE  Data'
<1>1. turn = "poll" /\ \A h \in Group : routine[h] = "none"
  BY DEF Ask, IInv, Orders, InStep, Idle
<1>2. PICK kind \in Event : /\ Answer(g, kind)
                            /\ kind = "balloon" => Mergeable
                            /\ \/ engine' = engine
                               \/ \E yes \in SUBSET Rank :
                                    engine' = [engine EXCEPT ![g] = With(g, yes, TRUE)]
  <2>1. CASE AskInitial(g)
    <3>1. PICK yes \in SUBSET Rank :
            /\ Quorum(yes) => Mergeable
            /\ engine' = [engine EXCEPT ![g] = With(g, yes, TRUE)]
            /\ Answer(g, IF Quorum(yes) THEN "balloon" ELSE "keep")
      BY <2>1 DEF AskInitial
    <3>2. CASE Quorum(yes)
      BY <3>1, <3>2 DEF Event
    <3>3. CASE ~ Quorum(yes)
      BY <3>1, <3>3 DEF Event
    <3>4. QED
      BY <3>2, <3>3
  <2>2. CASE AskLeader(g)
    <3>1. engine' = engine /\ (Answer(g, "restore") \/ Answer(g, "init") \/ Answer(g, "keep"))
      BY <2>2 DEF AskLeader
    <3>2. QED
      BY <3>1 DEF Event
  <2>3. QED
    BY <2>1, <2>2 DEF Ask
<1>3. ASSUME NEW h \in Group
      PROVE  /\ engine'[h] \in [Rank -> Engine]
             /\ \A i \in Rank :
                  /\ engine'[h][i].instances = engine[h][i].instances
                  /\ engine'[h][i].queues = engine[h][i].queues
                  /\ engine'[h][i].busy = engine[h][i].busy
                  /\ engine'[h][i].pending = engine[h][i].pending
  <2>1. CASE engine'[h] = engine[h]
    BY <2>1 DEF Data, TypeOK
  <2>2. ASSUME NEW yes, engine' = [engine EXCEPT ![g] = With(g, yes, TRUE)], h = g
        PROVE  /\ engine'[g] \in [Rank -> Engine]
               /\ \A i \in Rank :
                    /\ engine'[g][i].instances = engine[g][i].instances
                    /\ engine'[g][i].queues = engine[g][i].queues
                    /\ engine'[g][i].busy = engine[g][i].busy
                    /\ engine'[g][i].pending = engine[g][i].pending
    <3>1. engine'[g] = With(g, yes, TRUE)
      BY <2>2 DEF Data, TypeOK
    <3>2. ASSUME NEW i \in Rank
          PROVE  /\ engine'[g][i] \in Engine
                 /\ engine'[g][i].instances = engine[g][i].instances
                 /\ engine'[g][i].queues = engine[g][i].queues
                 /\ engine'[g][i].busy = engine[g][i].busy
                 /\ engine'[g][i].pending = engine[g][i].pending
      <4>1. engine[g][i] \in Engine
        BY DEF Data, TypeOK
      <4>2. engine'[g][i] = engine[g][i] \/ engine'[g][i] = [engine[g][i] EXCEPT !.stopped = TRUE]
        BY <3>1 DEF With
      <4>3. QED
        BY <4>1, <4>2 DEF Engine
    <3>3. engine'[g] \in [Rank -> Engine]
      BY <3>1, <3>2 DEF With
    <3>4. QED
      BY <3>2, <3>3
  <2>3. \/ engine'[h] = engine[h]
        \/ h = g /\ \E yes \in SUBSET Rank : engine' = [engine EXCEPT ![g] = With(g, yes, TRUE)]
    BY <1>2 DEF Data, TypeOK
  <2>4. QED
    BY <2>1, <2>2, <2>3
<1>4. TypeOK'
  <2>1. engine' \in [Group -> [Rank -> Engine]]
    <3>1. DOMAIN engine' = Group /\ engine' = [h \in Group |-> engine'[h]]
      BY <1>2 DEF Data, TypeOK
    <3>2. QED
      BY <1>3, <3>1
  <2>2. \A h \in Group, i \in Rank : engine'[h][i].busy \subseteq DOMAIN engine'[h][i].queues
    BY <1>3 DEF Data, TypeOK
  <2>3. events' \subseteq [group: Group, state: {"initial", "balloon", "restore"}, event: Event]
    <3>1. state[g] \in {"initial", "balloon", "restore"}
      BY <1>1 DEF Data, TypeOK, Widths, Wide
    <3>2. [group |-> g, state |-> state[g], event |-> kind]
            \in [group: Group, state: {"initial", "balloon", "restore"}, event: Event]
      BY <3>1
    <3>3. QED
      BY <1>2, <3>2 DEF Answer, Data, TypeOK
  <2>4. QED
    BY <2>1, <2>2, <2>3 DEF Ask, Data, TypeOK
<1>5. Widths'
  <2>1. ASSUME NEW h \in Group PROVE Wide(h)'
    <3>1. Wide(h) /\ routine[h] = "none" /\ routine' = routine /\ state' = state
      BY <1>1 DEF Ask, Data, Widths
    <3>2. QED
      BY <1>3, <3>1, Ranks DEF Wide, Width
  <2>2. QED
    BY <2>1 DEF Widths
<1>6. Room'
  <2>1. \A h \in Group : engine'[h][0].instances = engine[h][0].instances
    BY <1>3, Ranks
  <2>2. Mergeable => Mergeable'
    BY <2>1 DEF Mergeable
  <2>3. SUFFICES ASSUME NEW e \in events', e.event = "balloon" PROVE Mergeable
    BY <2>2 DEF Room
  <2>4. CASE e \in events
    BY <1>1, <2>3, <2>4 DEF Data, Room
  <2>5. CASE e = [group |-> g, state |-> state[g], event |-> kind]
    BY <1>2, <2>3, <2>5
  <2>6. QED
    BY <1>2, <2>3, <2>4, <2>5 DEF Answer
<1>7. Known'
  BY <1>3 DEF Ask, Data, Known, Holds
<1>8. QED
  BY <1>4, <1>5, <1>6, <1>7 DEF Data

-----------------------------------------------------------------------------
(* The types.                                                              *)

LEMMA NextData == IInv /\ Data /\ [Next]_vars => Data'
<1> SUFFICES ASSUME IInv, Data, [Next]_vars PROVE Data'
  OBVIOUS
<1>1. CASE Lead
  BY <1>1, BeginInitData, BeginBalloonData, BeginRestoreData, SleepData DEF Lead
<1>2. ASSUME NEW g \in Group, Ask(g) \/ Drive(g) PROVE Data'
  BY <1>2, AskData, MergeData, EnterBalloonData, ReloadedData, RestoreInstanceData,
     SplitEngineData, TriggerInitData, StopFollowerData, TakePropertiesData,
     SetPropertiesData DEF Drive
<1>3. ASSUME NEW g \in Group, NEW i \in Rank, NEW r \in Req, Dispatch(g, i, r) PROVE Data'
  BY <1>3, DispatchData
<1>4. ASSUME NEW g \in Group, NEW i \in Rank, NEW k \in 1 .. MaxInstances,
             \/ StartStep(g, i, k) \/ EndStep(g, i, k)
             \/ \E r \in Req : Accept(g, i, k, r)
      PROVE  Data'
  BY <1>4, StartStepData, EndStepData, AcceptData
<1>5. CASE UNCHANGED vars
  BY <1>5 DEF vars, Data, TypeOK, Widths, Wide, Width, Room, Mergeable, Known, Holds
<1>6. QED
  BY <1>1, <1>2, <1>3, <1>4, <1>5 DEF Next

\* The groups, their engines and what is on its way are well typed: a leader that
\* takes over its followers has a queue for each of its virtual engines (merge_engine,
\* split_engine), and no step is in flight on a virtual engine that was split off.
THEOREM TypeCorrect == Spec => []TypeOK
<1>1. Data => TypeOK
  BY DEF Data
<1>2. QED
  BY <1>1, InitIInv, NextIInv, InitData, NextData, PTL DEF Spec

-----------------------------------------------------------------------------
(* A request is in at most one place while engines are merged and split,  *)
(* and in exactly one where requests wait in the engines, as long as no    *)
(* group is merged again before it is split.  The only group of a system   *)
(* never is.                                                               *)

\* Whoever is about to be merged has its followers still apart.
Fresh == \A g \in Group : routine[g] = "merge" => engine[g][0].instances = 1

\* There is no other group to vote for a balloon while this one is in RESTORE.
Alone == \A g, h \in Group : g = h

\* Requests are put in the schedulers of merged followers, whose queues are replaced.
Lossy == ~ LookAhead /\ DispatchAnywhere

Kind == {"queue", "waiting", "sent", "sent waiting"}
Slot == 1 .. MaxInstances

\* Where a request is: the copies that a follower keeps do not count.
At(r, c, g, i, k) ==
    \/ /\ c = "queue" /\ ~ Copied(g, i)
       /\ k \in DOMAIN engine[g][i].queues /\ r \in engine[g][i].queues[k]
    \/ c = "waiting" /\ k = 1 /\ r \in engine[g][i].pending
    \/ c = "sent" /\ k = 1 /\ i # 0 /\ r \in parcel[g][i].queue
    \/ c = "sent waiting" /\ k = 1 /\ i # 0 /\ r \in parcel[g][i].pending

\* The one place of a request that has arrived and is not served.
Only(r, c, g, i, k) ==
    \A d \in Kind, h \in Group, j \in Rank, l \in Slot :
        At(r, d, h, j, l) <=> d = c /\ h = g /\ j = i /\ l = k

\* A request that has its place, and one that has none: it has not arrived, is
\* served, or was lost.
Placed(r) ==
    /\ r \in arrived \ served
    /\ \E c \in Kind, g \in Group, i \in Rank, k \in Slot : Only(r, c, g, i, k)
Absent(r) ==
    /\ \A d \in Kind, h \in Group, j \in Rank, l \in Slot : ~ At(r, d, h, j, l)
    /\ r \in arrived \ served => Lossy
Sole(r) == Placed(r) \/ Absent(r)

Owned == \A r \in Req : Sole(r)

\* An envelope that was opened is empty, and a split sends nothing that waits.
Handed ==
    \A g \in Group :
        /\ engine[g][0].instances \in {1, Size}
        /\ \A i \in Follower :
             /\ ~ parcel[g][i].ready => parcel[g][i].queue = {} /\ parcel[g][i].pending = {}
             /\ routine[g] = "deal" => parcel[g][i].pending = {}

OwnerInv == Handed /\ Owned

-----------------------------------------------------------------------------
LEMMA InitOwner == Init => OwnerInv
<1> SUFFICES ASSUME Init PROVE OwnerInv
  OBVIOUS
<1>1. /\ NewEngine.instances = 1 /\ NewEngine.pending = {}
      /\ DOMAIN NewEngine.queues = 1 .. 1 /\ NewEngine.queues[1] = {}
  BY DEF NewEngine
<1>2. Nothing.queue = {} /\ Nothing.pending = {}
  BY DEF Nothing
<1>3. Handed
  BY <1>1, <1>2, Ranks DEF Init, Handed
<1>4. ASSUME NEW r \in Req, NEW c \in Kind, NEW g \in Group, NEW i \in Rank, NEW k \in Slot
      PROVE  ~ At(r, c, g, i, k)
  <2>1. engine[g][i] = NewEngine
    BY DEF Init
  <2>2. i # 0 => parcel[g][i] = Nothing
    BY DEF Init, Follower
  <2>3. k \in 1 .. 1 => k = 1
    OBVIOUS
  <2>4. QED
    BY <1>1, <1>2, <2>1, <2>2, <2>3 DEF At
<1>5. Owned
  BY <1>4 DEF Init, Owned, Sole, Absent
<1>6. QED
  BY <1>3, <1>5 DEF OwnerInv

\* A virtual engine of a follower that was merged does nothing.
LEMMA CopiedStopped ==
  ASSUME Fresh, IInv, Data, NEW g \in Group, NEW i \in Rank, Copied(g, i)
  PROVE  engine[g][i].stopped
<1>1. i \in Follower
  BY DEF Copied, Follower
<1>2. Wide(g)
  BY DEF Data, Widths
<1>3. CASE parcel[g][i].ready
  BY <1>1, <1>2, <1>3 DEF IInv, Parking, Parked, Wide
<1>4. CASE engine[g][0].instances > 1 /\ routine[g] # "deal"
  <2>1. routine[g] # "merge"
    <3>1. engine[g][0].instances # 1
      BY <1>4, Engines, Ranks DEF Data, TypeOK
    <3>2. QED
      BY <3>1 DEF Fresh
  <2>2. state[g] # "initial"
    BY <1>2, <1>4 DEF Wide
  <2>3. routine[g] \in {"drop", "reclaim", "restore", "split"}
          \/ (routine[g] = "none" /\ state[g] \in {"balloon", "restore"})
    <3>1. state[g] \in {"initial", "balloon", "restore", "stop"}
          /\ routine[g] \in {"none", "merge", "drop", "reclaim", "restore", "split", "deal"}
      BY DEF Data, TypeOK
    <3>2. state[g] = "stop" <=> routine[g] \in {"merge", "drop", "restore", "split", "deal"}
      BY <1>2 DEF Wide
    <3>3. QED
      BY <1>4, <2>1, <2>2, <3>1, <3>2
  <2>4. QED
    BY <1>1, <1>2, <2>3, Ranks DEF IInv, Parking, Parked, Wide
<1>5. QED
  BY <1>3, <1>4 DEF Copied

\* Where a request may be found again after a step.
LEMMA Found ==
  ASSUME NEW r \in Req, NEW c \in Kind, NEW g \in Group, NEW i \in Rank, NEW k \in Slot,
         (r \in arrived \ served)', Only(r, c, g, i, k)'
  PROVE  Sole(r)'
  BY DEF Sole, Placed

LEMMA StaysPut ==
  ASSUME NEW r \in Req, Sole(r), (r \in arrived \ served)' <=> r \in arrived \ served,
         \A d \in Kind, h \in Group, j \in Rank, l \in Slot :
           At(r, d, h, j, l)' <=> At(r, d, h, j, l)
  PROVE  Sole(r)'
<1>1. CASE Placed(r)
  <2>1. PICK c \in Kind, g \in Group, i \in Rank, k \in Slot : Only(r, c, g, i, k)
    BY <1>1 DEF Placed
  <2>2. Only(r, c, g, i, k)'
    BY <2>1 DEF Only
  <2>3. QED
    BY <1>1, <2>2 DEF Sole, Placed
<1>2. CASE Absent(r)
  BY <1>2 DEF Sole, Absent, Lossy
<1>3. QED
  BY <1>1, <1>2 DEF Sole

\* A step that touches neither queues nor envelopes moves no request.
LEMMA Untouched ==
  ASSUME OwnerInv, UNCHANGED <<parcel, arrived, served>>,
         \A g \in Group, i \in Rank :
           /\ engine'[g][i].queues = engine[g][i].queues
           /\ engine'[g][i].pending = engine[g][i].pending
           /\ Copied(g, i)' <=> Copied(g, i),
         \A g \in Group :
           /\ engine'[g][0].instances \in {1, Size}
           /\ routine'[g] = "deal" => routine[g] = "deal"
  PROVE  OwnerInv'
<1>1. Handed'
  BY DEF OwnerInv, Handed
<1>2. ASSUME NEW r \in Req PROVE Sole(r)'
  <2>1. ASSUME NEW d \in Kind, NEW h \in Group, NEW j \in Rank, NEW l \in Slot
        PROVE  At(r, d, h, j, l)' <=> At(r, d, h, j, l)
    <3>1. /\ engine'[h][j].queues = engine[h][j].queues
          /\ engine'[h][j].pending = engine[h][j].pending
          /\ Copied(h, j)' <=> Copied(h, j)
          /\ parcel' = parcel
      OBVIOUS
    <3>2. QED
      BY <3>1 DEF At
  <2>2. QED
    BY <2>1, StaysPut DEF OwnerInv, Owned
<1>3. QED
  BY <1>1, <1>2 DEF OwnerInv, Owned

\* What a step on flags, widths and orders keeps of an engine.
Same(g, i) ==
    /\ engine'[g][i].queues = engine[g][i].queues
    /\ engine'[g][i].pending = engine[g][i].pending
    /\ engine'[g][i].instances = engine[g][i].instances

LEMMA Unmoved ==
  ASSUME OwnerInv, UNCHANGED <<parcel, arrived, served>>,
         \A g \in Group, i \in Rank : Same(g, i),
         \A g \in Group : routine'[g] = "deal" <=> routine[g] = "deal"
  PROVE  OwnerInv'
<1>1. \A g \in Group, i \in Rank : Copied(g, i)' <=> Copied(g, i)
  BY Ranks DEF Same, Copied
<1>2. \A g \in Group : engine'[g][0].instances \in {1, Size}
  BY Ranks DEF Same, OwnerInv, Handed
<1>3. QED
  BY <1>1, <1>2, Untouched DEF Same

LEMMA SameFlag ==
  ASSUME Data, NEW g \in Group, NEW i \in Rank,
         \/ engine'[g][i] = engine[g][i]
         \/ \E value : engine'[g][i] = [engine[g][i] EXCEPT !.stopped = value]
  PROVE  Same(g, i)
<1>1. engine[g][i] \in Engine
  BY DEF Data, TypeOK
<1>2. QED
  BY <1>1 DEF Engine, Same

LEMMA AskOwner ==
  ASSUME Data, OwnerInv, NEW g \in Group, Ask(g)
  PROVE  OwnerInv'
<1>1. \/ engine' = engine
      \/ \E yes : engine' = [engine EXCEPT ![g] = With(g, yes, TRUE)]
  BY DEF Ask, AskInitial, AskLeader
<1>2. ASSUME NEW h \in Group, NEW i \in Rank PROVE Same(h, i)
  <2>1. \/ engine'[h][i] = engine[h][i]
        \/ engine'[h][i] = [engine[h][i] EXCEPT !.stopped = TRUE]
    <3>1. CASE engine' = engine
      BY <3>1
    <3>2. ASSUME NEW yes, engine' = [engine EXCEPT ![g] = With(g, yes, TRUE)]
          PROVE  <2>1
      BY <3>2 DEF Data, TypeOK, With
    <3>3. QED
      BY <1>1, <3>1, <3>2
  <2>2. QED
    BY <2>1, SameFlag
<1>3. QED
  BY <1>2, Unmoved DEF Ask

LEMMA LeadOwner ==
  ASSUME IInv, Data, OwnerInv, Lead
  PROVE  OwnerInv'
<1>1. ASSUME NEW g \in Group, NEW i \in Rank PROVE Same(g, i)
  <2>1. \/ engine'[g][i] = engine[g][i]
        \/ engine'[g][i] = [engine[g][i] EXCEPT !.stopped = TRUE]
    <3>1. CASE BeginInit
      BY <3>1 DEF BeginInit, AllStopped, With
    <3>2. CASE ~ BeginInit
      BY <3>2 DEF Lead, BeginBalloon, BeginRestore, Sleep
    <3>3. QED
      BY <3>1, <3>2
  <2>2. QED
    BY <2>1, SameFlag
<1>2. ASSUME NEW g \in Group PROVE routine'[g] = "deal" <=> routine[g] = "deal"
  <2>1. CASE BeginInit
    <3>1. routine[g] = "none"
      BY <2>1 DEF BeginInit, Polled, IInv, Orders, InStep, Idle
    <3>2. QED
      BY <2>1, <3>1 DEF BeginInit
  <2>2. CASE BeginBalloon
    BY <2>2, DecidedIdle DEF BeginBalloon
  <2>3. CASE BeginRestore
    BY <2>3, DecidedIdle DEF BeginRestore
  <2>4. CASE Sleep
    BY <2>4 DEF Sleep
  <2>5. QED
    BY <2>1, <2>2, <2>3, <2>4 DEF Lead
<1>3. UNCHANGED <<parcel, arrived, served>>
  BY DEF Lead, BeginInit, BeginBalloon, BeginRestore, Sleep
<1>4. QED
  BY <1>1, <1>2, <1>3, Unmoved

LEMMA StartStepOwner ==
  ASSUME Data, OwnerInv, NEW g \in Group, NEW i \in Rank, NEW k, StartStep(g, i, k)
  PROVE  OwnerInv'
<1>1. ASSUME NEW h \in Group, NEW j \in Rank PROVE Same(h, j)
  <2>1. engine[g][i] \in Engine
    BY DEF Data, TypeOK
  <2>2. QED
    BY <2>1 DEF StartStep, Data, TypeOK, Engine, Same
<1>2. QED
  BY <1>1, Unmoved DEF StartStep

LEMMA StopFollowerOwner ==
  ASSUME Data, OwnerInv, NEW g \in Group, NEW i \in Follower, StopFollower(g, i)
  PROVE  OwnerInv'
<1>1. ASSUME NEW h \in Group, NEW j \in Rank PROVE Same(h, j)
  <2>1. \/ engine'[h][j] = engine[h][j]
        \/ engine'[h][j] = [engine[h][j] EXCEPT !.stopped = TRUE]
    BY Ranks DEF StopFollower, Data, TypeOK
  <2>2. QED
    BY <2>1, SameFlag
<1>2. QED
  BY <1>1, Unmoved DEF StopFollower

LEMMA ReloadedOwner ==
  ASSUME Data, OwnerInv, NEW g \in Group, Reloaded(g)
  PROVE  OwnerInv'
<1>1. ASSUME NEW h \in Group, NEW i \in Rank PROVE Same(h, i)
  <2>1. \/ engine'[h][i] = engine[h][i]
        \/ engine'[h][i] = [engine[h][i] EXCEPT !.stopped = TRUE]
    BY DEF Reloaded, AllStopped, With, Data, TypeOK
  <2>2. QED
    BY <2>1, SameFlag
<1>2. \A h \in Group : routine'[h] = "deal" <=> routine[h] = "deal"
  BY DEF Reloaded, Data, TypeOK
<1>3. QED
  BY <1>1, <1>2, Unmoved DEF Reloaded

LEMMA RestoreInstanceOwner ==
  ASSUME Data, OwnerInv, NEW g \in Group, RestoreInstance(g)
  PROVE  OwnerInv'
<1>1. ASSUME NEW h \in Group, NEW i \in Rank PROVE Same(h, i)
  <2>1. \/ engine'[h][i] = engine[h][i]
        \/ engine'[h][i] = [engine[h][i] EXCEPT !.stopped = FALSE]
    BY DEF RestoreInstance, With, Data, TypeOK
  <2>2. QED
    BY <2>1, SameFlag
<1>2. \A h \in Group : routine'[h] = "deal" <=> routine[h] = "deal"
  BY DEF RestoreInstance, Data, TypeOK
<1>3. QED
  BY <1>1, <1>2, Unmoved DEF RestoreInstance

LEMMA TriggerInitOwner ==
  ASSUME Data, OwnerInv, NEW g \in Group, TriggerInit(g)
  PROVE  OwnerInv'
<1>1. ASSUME NEW h \in Group, NEW i \in Rank
      PROVE  /\ engine'[h][i].queues = engine[h][i].queues
             /\ engine'[h][i].pending = engine[h][i].pending
             /\ engine'[h][i].instances = IF h = g THEN 1 ELSE engine[h][i].instances
  <2>1. engine[h][i] \in Engine
    BY DEF Data, TypeOK
  <2>2. CASE h # g
    BY <2>2 DEF TriggerInit, Data, TypeOK
  <2>3. CASE h = g
    <3>1. engine'[h][i] = [engine[h][i] EXCEPT !.stopped = FALSE, !.instances = 1]
      BY <2>3 DEF TriggerInit, Data, TypeOK
    <3>2. QED
      BY <2>1, <2>3, <3>1 DEF Engine
  <2>4. QED
    BY <2>2, <2>3
<1>2. /\ routine[g] = "deal" /\ routine'[g] = "none"
      /\ \A h \in Group : h # g => routine'[h] = routine[h]
      /\ \A i \in Follower : ~ parcel[g][i].ready
      /\ UNCHANGED <<parcel, arrived, served>>
  BY DEF TriggerInit, Data, TypeOK
<1>3. \A h \in Group, i \in Rank : Copied(h, i)' <=> Copied(h, i)
  <2>1. ASSUME NEW h \in Group, NEW i \in Rank, h # g PROVE Copied(h, i)' <=> Copied(h, i)
    BY <1>1, <1>2, <2>1, Ranks DEF Copied
  <2>2. ASSUME NEW i \in Rank PROVE ~ Copied(g, i) /\ ~ Copied(g, i)'
    BY <1>1, <1>2, Ranks DEF Copied, Follower
  <2>3. QED
    BY <2>1, <2>2
<1>4. \A h \in Group : engine'[h][0].instances \in {1, Size}
  BY <1>1, Ranks DEF OwnerInv, Handed
<1>5. \A h \in Group : routine'[h] = "deal" => routine[h] = "deal"
  BY <1>2
<1>6. QED
  BY <1>1, <1>2, <1>3, <1>4, <1>5, Untouched

-----------------------------------------------------------------------------
(* Steps that move a request.                                              *)

\* The other requests of a step that moves one of them.
LEMMA Others ==
  ASSUME Owned, NEW r \in Req,
         \A s \in Req \ {r} : (s \in arrived \ served)' <=> s \in arrived \ served,
         \A s \in Req \ {r}, d \in Kind, h \in Group, j \in Rank, l \in Slot :
           At(s, d, h, j, l)' <=> At(s, d, h, j, l),
         Sole(r)'
  PROVE  Owned'
<1>1. ASSUME NEW s \in Req, s # r PROVE Sole(s)'
  BY <1>1, StaysPut DEF Owned
<1>2. QED
  BY <1>1 DEF Owned

\* The shape of the groups stays as it is.
LEMMA HandedKept ==
  ASSUME OwnerInv, UNCHANGED <<routine, parcel>>,
         \A g \in Group, i \in Rank : engine'[g][i].instances = engine[g][i].instances
  PROVE  Handed' /\ \A g \in Group, i \in Rank : Copied(g, i)' <=> Copied(g, i)
<1>1. Handed'
  BY Ranks DEF OwnerInv, Handed
<1>2. \A g \in Group, i \in Rank : Copied(g, i)' <=> Copied(g, i)
  BY Ranks DEF Copied
<1>3. QED
  BY <1>1, <1>2

LEMMA DispatchOwner ==
  ASSUME IInv, Data, OwnerInv, NEW g \in Group, NEW i \in Rank, NEW r \in Req, Dispatch(g, i, r)
  PROVE  OwnerInv'
<1>1. ~ DispatchAnywhere => ~ Copied(g, i)
  <2>1. CASE i = 0
    BY <2>1 DEF Copied
  <2>2. CASE i # 0 /\ state[g] = "initial"
    <3>1. engine[g][0].instances = 1 /\ routine[g] \notin {"merge", "deal"}
      BY <2>2 DEF Data, Widths, Wide
    <3>2. ~ parcel[g][i].ready
      BY <2>2, <3>1 DEF IInv, Parking, Follower
    <3>3. QED
      BY <3>1, <3>2 DEF Copied
  <2>3. QED
    BY <2>1, <2>2 DEF Dispatch
<1>2. /\ r \notin arrived /\ arrived' = arrived \cup {r} /\ served' = served /\ r \notin served
      /\ UNCHANGED <<routine, parcel>>
  BY DEF Dispatch, Data, TypeOK
<1>3. \A d \in Kind, h \in Group, j \in Rank, l \in Slot : ~ At(r, d, h, j, l)
  BY <1>2 DEF OwnerInv, Owned, Sole, Placed, Absent
<1>4. engine[g][i] \in Engine
  BY DEF Data, TypeOK
<1>5. CASE LookAhead
  <2>1. \A h \in Group, j \in Rank :
          /\ engine'[h][j].queues = engine[h][j].queues
          /\ engine'[h][j].instances = engine[h][j].instances
          /\ engine'[h][j].pending = IF h = g /\ j = i THEN engine[g][i].pending \cup {r}
                                                       ELSE engine[h][j].pending
    <3>1. engine' = [engine EXCEPT ![g][i].pending = @ \cup {r}]
      BY <1>5 DEF Dispatch
    <3>2. QED
      BY <1>4, <3>1 DEF Data, TypeOK, Engine
  <2>2. Handed' /\ \A h \in Group, j \in Rank : Copied(h, j)' <=> Copied(h, j)
    BY <1>2, <2>1, HandedKept
  <2>3. ASSUME NEW s \in Req, s # r,
               NEW d \in Kind, NEW h \in Group, NEW j \in Rank, NEW l \in Slot
        PROVE  At(s, d, h, j, l)' <=> At(s, d, h, j, l)
    <3>1. s \in engine'[h][j].pending <=> s \in engine[h][j].pending
      BY <2>1, <2>3
    <3>2. /\ engine'[h][j].queues = engine[h][j].queues /\ parcel' = parcel
          /\ Copied(h, j)' <=> Copied(h, j)
      BY <1>2, <2>1, <2>2
    <3>3. QED
      BY <3>1, <3>2 DEF At
  <2>4. ASSUME NEW d \in Kind, NEW h \in Group, NEW j \in Rank, NEW l \in Slot
        PROVE  At(r, d, h, j, l)' <=> d = "waiting" /\ h = g /\ j = i /\ l = 1
    <3>1. ~ At(r, d, h, j, l)
      BY <1>3
    <3>2. QED
      BY <1>2, <2>1, <2>2, <3>1 DEF At
  <2>5. Sole(r)'
    <3>1. "waiting" \in Kind /\ 1 \in Slot /\ (r \in arrived \ served)'
      BY <1>2, Ranked DEF Kind, Slot
    <3>2. Only(r, "waiting", g, i, 1)'
      BY <2>4 DEF Only
    <3>3. QED
      BY <3>1, <3>2, Found
  <2>6. QED
    BY <1>2, <2>2, <2>3, <2>5, Others DEF OwnerInv
<1>6. CASE ~ LookAhead
  <2>1. PICK k \in DOMAIN engine[g][i].queues :
          engine' = [engine EXCEPT ![g][i].queues[k] = @ \cup {r}]
    BY <1>6 DEF Dispatch, LeastLoaded
  <2>2. \A h \in Group, j \in Rank :
          /\ engine'[h][j].pending = engine[h][j].pending
          /\ engine'[h][j].instances = engine[h][j].instances
          /\ engine'[h][j].queues =
               IF h = g /\ j = i
               THEN [engine[g][i].queues EXCEPT ![k] = engine[g][i].queues[k] \cup {r}]
               ELSE engine[h][j].queues
    BY <1>4, <2>1 DEF Data, TypeOK, Engine
  <2>3. Handed' /\ \A h \in Group, j \in Rank : Copied(h, j)' <=> Copied(h, j)
    BY <1>2, <2>2, HandedKept
  <2>4. \A h \in Group, j \in Rank :
          /\ DOMAIN engine'[h][j].queues = DOMAIN engine[h][j].queues
          /\ \A l \in DOMAIN engine[h][j].queues :
               engine'[h][j].queues[l] = IF h = g /\ j = i /\ l = k
                                         THEN engine[h][j].queues[l] \cup {r}
                                         ELSE engine[h][j].queues[l]
    BY <2>2, ZenonT(40)
  <2>5. ASSUME NEW s \in Req, s # r,
               NEW d \in Kind, NEW h \in Group, NEW j \in Rank, NEW l \in Slot
        PROVE  At(s, d, h, j, l)' <=> At(s, d, h, j, l)
    <3>1. \A m \in DOMAIN engine[h][j].queues :
            s \in engine'[h][j].queues[m] <=> s \in engine[h][j].queues[m]
      BY <2>4, <2>5, ZenonT(40)
    <3>2. /\ engine'[h][j].pending = engine[h][j].pending /\ parcel' = parcel
          /\ DOMAIN engine'[h][j].queues = DOMAIN engine[h][j].queues
          /\ Copied(h, j)' <=> Copied(h, j)
      BY <1>2, <2>2, <2>3, <2>4
    <3>3. QED
      BY <3>1, <3>2 DEF At
  <2>6. ASSUME NEW d \in Kind, NEW h \in Group, NEW j \in Rank, NEW l \in Slot
        PROVE  At(r, d, h, j, l)' <=>
                 d = "queue" /\ h = g /\ j = i /\ l = k /\ ~ Copied(g, i)
    <3>1. ~ At(r, d, h, j, l)
      BY <1>3
    <3>2. /\ engine'[h][j].pending = engine[h][j].pending /\ parcel' = parcel
          /\ DOMAIN engine'[h][j].queues = DOMAIN engine[h][j].queues
          /\ Copied(h, j)' <=> Copied(h, j)
      BY <1>2, <2>2, <2>3, <2>4
    <3>3. l \in DOMAIN engine[h][j].queues =>
            (r \in engine'[h][j].queues[l] <=> r \in engine[h][j].queues[l] \/ (h = g /\ j = i /\ l = k))
      BY <2>4
    <3>4. k \in DOMAIN engine[g][i].queues
      BY <2>1
    <3>5. QED
      BY <3>1, <3>2, <3>3, <3>4 DEF At
  <2>7. Sole(r)'
    <3>1. "queue" \in Kind /\ k \in Slot /\ (r \in arrived \ served)'
      <4>1. PICK n \in Slot : DOMAIN engine[g][i].queues = 1 .. n
        BY <1>4, Engines DEF Slot
      <4>2. QED
        BY <1>2, <4>1, Ranked DEF Kind, Slot
    <3>2. CASE ~ Copied(g, i)
      <4>1. Only(r, "queue", g, i, k)'
        BY <2>6, <3>2 DEF Only
      <4>2. QED
        BY <3>1, <4>1, Found
    <3>3. CASE Copied(g, i)
      <4>1. \A d \in Kind, h \in Group, j \in Rank, l \in Slot : ~ At(r, d, h, j, l)'
        BY <2>6, <3>3
      <4>2. QED
        BY <1>1, <1>6, <3>3, <4>1 DEF Sole, Absent, Lossy
    <3>4. QED
      BY <3>2, <3>3
  <2>8. QED
    BY <1>2, <2>3, <2>5, <2>7, Others DEF OwnerInv
<1>7. QED
  BY <1>5, <1>6

LEMMA AcceptOwner ==
  ASSUME IInv, Data, Fresh, OwnerInv,
         NEW g \in Group, NEW i \in Rank, NEW k \in Slot, NEW r \in Req,
         Accept(g, i, k, r)
  PROVE  OwnerInv'
<1>1. /\ ~ Copied(g, i) /\ k \in DOMAIN engine[g][i].queues /\ r \in engine[g][i].pending
      /\ UNCHANGED <<routine, parcel, arrived, served>>
  BY CopiedStopped DEF Accept
<1>2. engine[g][i] \in Engine
  BY DEF Data, TypeOK
<1>3. \A h \in Group, j \in Rank :
        /\ engine'[h][j].instances = engine[h][j].instances
        /\ engine'[h][j].pending = IF h = g /\ j = i THEN engine[h][j].pending \ {r}
                                                     ELSE engine[h][j].pending
        /\ engine'[h][j].queues =
             IF h = g /\ j = i
             THEN [engine[g][i].queues EXCEPT ![k] = engine[g][i].queues[k] \cup {r}]
             ELSE engine[h][j].queues
  <2>1. engine' = [engine EXCEPT ![g][i].pending = @ \ {r}, ![g][i].queues[k] = @ \cup {r}]
    BY DEF Accept
  <2>2. QED
    BY <1>2, <2>1 DEF Data, TypeOK, Engine
<1>4. \A h \in Group, j \in Rank :
        /\ DOMAIN engine'[h][j].queues = DOMAIN engine[h][j].queues
        /\ \A l \in DOMAIN engine[h][j].queues :
             engine'[h][j].queues[l] = IF h = g /\ j = i /\ l = k
                                       THEN engine[h][j].queues[l] \cup {r}
                                       ELSE engine[h][j].queues[l]
  <2>1. ASSUME NEW h \in Group, NEW j \in Rank
        PROVE  engine'[h][j].queues =
                 IF h = g /\ j = i
                 THEN [engine[g][i].queues EXCEPT ![k] = engine[g][i].queues[k] \cup {r}]
                 ELSE engine[h][j].queues
    BY <1>3
  <2>2. QED
    BY <1>1, <2>1
<1>5. Handed' /\ \A h \in Group, j \in Rank : Copied(h, j)' <=> Copied(h, j)
  BY <1>1, <1>3, HandedKept
<1>6. ASSUME NEW s \in Req, s # r,
             NEW d \in Kind, NEW h \in Group, NEW j \in Rank, NEW l \in Slot
      PROVE  At(s, d, h, j, l)' <=> At(s, d, h, j, l)
  <2>1. s \in engine'[h][j].pending <=> s \in engine[h][j].pending
    BY <1>3, <1>6
  <2>2. \A m \in DOMAIN engine[h][j].queues :
          s \in engine'[h][j].queues[m] <=> s \in engine[h][j].queues[m]
    BY <1>4, <1>6
  <2>3. /\ DOMAIN engine'[h][j].queues = DOMAIN engine[h][j].queues
        /\ Copied(h, j)' <=> Copied(h, j)
        /\ parcel' = parcel
    BY <1>1, <1>4, <1>5
  <2>4. QED
    BY <2>1, <2>2, <2>3 DEF At
<1>7. "waiting" \in Kind /\ "queue" \in Kind /\ 1 \in Slot
  BY Ranked DEF Kind, Slot
<1>8. At(r, "waiting", g, i, 1)
  BY <1>1 DEF At
<1>9. r \in arrived \ served /\ Only(r, "waiting", g, i, 1)
  <2>1. Placed(r)
    BY <1>7, <1>8 DEF OwnerInv, Owned, Sole, Absent
  <2>2. QED
    BY <1>7, <1>8, <2>1 DEF Placed, Only
<1>10. ASSUME NEW d \in Kind, NEW h \in Group, NEW j \in Rank, NEW l \in Slot
       PROVE  At(r, d, h, j, l)' <=> d = "queue" /\ h = g /\ j = i /\ l = k
  <2>1. At(r, d, h, j, l) <=> d = "waiting" /\ h = g /\ j = i /\ l = 1
    BY <1>9 DEF Only
  <2>2. r \in engine'[h][j].pending <=> r \in engine[h][j].pending /\ ~ (h = g /\ j = i)
    BY <1>3
  <2>3. l \in DOMAIN engine[h][j].queues =>
          (r \in engine'[h][j].queues[l]
             <=> r \in engine[h][j].queues[l] \/ (h = g /\ j = i /\ l = k))
    BY <1>4
  <2>4. /\ DOMAIN engine'[h][j].queues = DOMAIN engine[h][j].queues
        /\ Copied(h, j)' <=> Copied(h, j)
        /\ parcel' = parcel
    BY <1>1, <1>4, <1>5
  <2>5. CASE d = "queue"
    <3>1. ~ At(r, d, h, j, l)
      BY <2>1, <2>5
    <3>2. QED
      BY <1>1, <2>3, <2>4, <2>5, <3>1 DEF At
  <2>6. CASE d = "waiting"
    BY <2>1, <2>2, <2>6 DEF At
  <2>7. CASE d \in {"sent", "sent waiting"}
    BY <2>1, <2>4, <2>7 DEF At
  <2>8. QED
    BY <2>5, <2>6, <2>7 DEF Kind
<1>11. Sole(r)'
  <2>1. (r \in arrived \ served)'
    BY <1>1, <1>9
  <2>2. Only(r, "queue", g, i, k)'
    BY <1>10 DEF Only
  <2>3. QED
    BY <1>7, <2>1, <2>2, Found
<1>12. QED
  BY <1>1, <1>5, <1>6, <1>11, Others DEF OwnerInv

LEMMA EndStepOwner ==
  ASSUME IInv, Data, Fresh, OwnerInv,
         NEW g \in Group, NEW i \in Rank, NEW k \in Slot, EndStep(g, i, k)
  PROVE  OwnerInv'
<1>1. PICK done \in SUBSET engine[g][i].queues[k] :
        /\ engine[g][i].stopped => done = {}
        /\ engine' = [engine EXCEPT ![g][i].busy = @ \ {k}, ![g][i].queues[k] = @ \ done]
        /\ served' = served \cup done
  BY DEF EndStep
<1>2. engine[g][i] \in Engine /\ k \in DOMAIN engine[g][i].queues
      /\ UNCHANGED <<routine, parcel, arrived>>
  BY DEF EndStep, Data, TypeOK
<1>3. \A h \in Group, j \in Rank :
        /\ engine'[h][j].instances = engine[h][j].instances
        /\ engine'[h][j].pending = engine[h][j].pending
        /\ engine'[h][j].queues =
             IF h = g /\ j = i
             THEN [engine[g][i].queues EXCEPT ![k] = engine[g][i].queues[k] \ done]
             ELSE engine[h][j].queues
  BY <1>1, <1>2 DEF Data, TypeOK, Engine
<1>4. \A h \in Group, j \in Rank :
        /\ DOMAIN engine'[h][j].queues = DOMAIN engine[h][j].queues
        /\ \A l \in DOMAIN engine[h][j].queues :
             engine'[h][j].queues[l] = IF h = g /\ j = i /\ l = k
                                       THEN engine[h][j].queues[l] \ done
                                       ELSE engine[h][j].queues[l]
  BY <1>3, ZenonT(40)
<1>5. Handed' /\ \A h \in Group, j \in Rank : Copied(h, j)' <=> Copied(h, j)
  BY <1>2, <1>3, HandedKept
<1>6. ASSUME NEW s \in Req, NEW d \in Kind, NEW h \in Group, NEW j \in Rank, NEW l \in Slot
      PROVE  At(s, d, h, j, l)' <=>
               At(s, d, h, j, l) /\ ~ (d = "queue" /\ h = g /\ j = i /\ l = k /\ s \in done)
  <2>1. l \in DOMAIN engine[h][j].queues =>
          (s \in engine'[h][j].queues[l]
             <=> s \in engine[h][j].queues[l] /\ ~ (h = g /\ j = i /\ l = k /\ s \in done))
    BY <1>4
  <2>2. /\ DOMAIN engine'[h][j].queues = DOMAIN engine[h][j].queues
        /\ Copied(h, j)' <=> Copied(h, j)
        /\ engine'[h][j].pending = engine[h][j].pending
        /\ parcel' = parcel
    BY <1>2, <1>3, <1>4, <1>5
  <2>3. QED
    BY <2>1, <2>2 DEF At
<1>7. ASSUME NEW s \in Req PROVE Sole(s)'
  <2>1. CASE s \notin done
    BY <1>1, <1>2, <1>6, <2>1, StaysPut DEF OwnerInv, Owned
  <2>2. CASE s \in done
    <3>1. ~ Copied(g, i)
      BY <1>1, <2>2, CopiedStopped
    <3>2. At(s, "queue", g, i, k) /\ "queue" \in Kind
      BY <1>2, <2>2, <3>1 DEF At, Kind
    <3>3. Only(s, "queue", g, i, k)
      <4>1. Placed(s)
        BY <3>2 DEF OwnerInv, Owned, Sole, Absent
      <4>2. QED
        BY <3>2, <4>1 DEF Placed, Only
    <3>4. \A d \in Kind, h \in Group, j \in Rank, l \in Slot : ~ At(s, d, h, j, l)'
      BY <1>6, <2>2, <3>3 DEF Only
    <3>5. s \notin (arrived \ served)'
      BY <1>1, <2>2
    <3>6. QED
      BY <3>4, <3>5 DEF Sole, Absent
  <2>3. QED
    BY <2>1, <2>2
<1>8. QED
  BY <1>5, <1>7 DEF OwnerInv, Owned

LEMMA TakePropertiesOwner ==
  ASSUME Data, Fresh, OwnerInv, NEW g \in Group, NEW i \in Follower, TakeProperties(g, i)
  PROVE  OwnerInv'
<1> DEFINE e == engine[g][i]
           sent == [ready |-> TRUE, queue |-> e.queues[1], pending |-> e.pending]
<1>1. i \in Rank /\ i # 0 /\ e \in Engine /\ DOMAIN e.queues = 1 .. 1
  BY Ranks DEF Data, TypeOK, Widths, Wide, Follower
<1>2. /\ routine[g] = "merge" /\ ~ parcel[g][i].ready
      /\ parcel[g][i].queue = {} /\ parcel[g][i].pending = {}
      /\ engine[g][0].instances = 1
  BY DEF TakeProperties, OwnerInv, Handed, Fresh
<1>3. /\ UNCHANGED <<routine, arrived, served>>
      /\ engine' = [engine EXCEPT ![g][i].pending = {}]
      /\ parcel' = [parcel EXCEPT ![g][i] = sent]
  BY DEF TakeProperties
<1>4. sent.ready /\ sent.queue = e.queues[1] /\ sent.pending = e.pending
  OBVIOUS
<1> HIDE DEF sent
<1>5. /\ parcel'[g][i] = sent
      /\ \A h \in Group, j \in Follower : h # g \/ j # i => parcel'[h][j] = parcel[h][j]
  BY <1>3 DEF Data, TypeOK
<1>6. \A h \in Group, j \in Rank :
        /\ engine'[h][j].instances = engine[h][j].instances
        /\ engine'[h][j].queues = engine[h][j].queues
        /\ engine'[h][j].pending = IF h = g /\ j = i THEN {} ELSE engine[h][j].pending
  BY <1>1, <1>3 DEF Data, TypeOK, Engine
<1>7. Handed'
  BY <1>2, <1>3, <1>4, <1>5, <1>6, Ranks DEF OwnerInv, Handed
<1>8. ~ Copied(g, i) /\ Copied(g, i)'
  BY <1>1, <1>2, <1>4, <1>5 DEF Copied
<1>9. \A h \in Group, j \in Rank : h # g \/ j # i => (Copied(h, j)' <=> Copied(h, j))
  BY <1>3, <1>5, <1>6, Ranks DEF Copied, Follower
<1>10. ASSUME NEW s \in Req, NEW d \in Kind, NEW h \in Group, NEW j \in Rank, NEW l \in Slot,
              h # g \/ j # i
       PROVE  At(s, d, h, j, l)' <=> At(s, d, h, j, l)
  <2>1. /\ engine'[h][j].queues = engine[h][j].queues
        /\ engine'[h][j].pending = engine[h][j].pending
        /\ Copied(h, j)' <=> Copied(h, j)
        /\ j # 0 => parcel'[h][j] = parcel[h][j]
    BY <1>5, <1>6, <1>9, <1>10 DEF Follower
  <2>2. QED
    BY <2>1 DEF At
<1>11. ASSUME NEW s \in Req, NEW d \in Kind, NEW l \in Slot
       PROVE  At(s, d, g, i, l)' <=>
                /\ l = 1
                /\ \/ d = "sent" /\ At(s, "queue", g, i, 1)
                   \/ d = "sent waiting" /\ At(s, "waiting", g, i, 1)
  <2>1. engine'[g][i].pending = {}
    BY <1>1, <1>6
  <2>2. At(s, d, g, i, l)' <=>
          /\ l = 1
          /\ \/ d = "sent" /\ s \in e.queues[1]
             \/ d = "sent waiting" /\ s \in e.pending
    BY <1>1, <1>4, <1>5, <1>8, <2>1 DEF At
  <2>3. /\ At(s, "queue", g, i, 1) <=> s \in e.queues[1]
        /\ At(s, "waiting", g, i, 1) <=> s \in e.pending
    BY <1>1, <1>8 DEF At
  <2>4. QED
    BY <2>2, <2>3
<1>12. ASSUME NEW s \in Req, NEW d \in Kind, NEW l \in Slot, At(s, d, g, i, l)
       PROVE  l = 1 /\ d \in {"queue", "waiting"}
  BY <1>1, <1>2, <1>12 DEF At
<1>13. {"queue", "waiting", "sent", "sent waiting"} = Kind /\ 1 \in Slot
  BY Ranked DEF Kind, Slot
<1>14. ASSUME NEW s \in Req PROVE Sole(s)'
  <2>1. CASE Absent(s)
    <3>1. \A d \in Kind, h \in Group, j \in Rank, l \in Slot : ~ At(s, d, h, j, l)
      BY <2>1 DEF Absent
    <3>2. ASSUME NEW d \in Kind, NEW h \in Group, NEW j \in Rank, NEW l \in Slot
          PROVE  ~ At(s, d, h, j, l)'
      <4>1. CASE h # g \/ j # i
        BY <1>10, <3>1, <4>1
      <4>2. CASE h = g /\ j = i
        BY <1>1, <1>11, <1>13, <3>1, <4>2
      <4>3. QED
        BY <4>1, <4>2
    <3>3. QED
      BY <1>3, <2>1, <3>2 DEF Sole, Absent, Lossy
  <2>2. CASE Placed(s)
    <3>1. PICK c \in Kind, a \in Group, b \in Rank, m \in Slot : Only(s, c, a, b, m)
      BY <2>2 DEF Placed
    <3>2. At(s, c, a, b, m) /\ (s \in arrived \ served)'
      BY <1>3, <2>2, <3>1 DEF Only, Placed
    <3>3. CASE a # g \/ b # i
      <4>1. ~ At(s, "queue", g, i, 1) /\ ~ At(s, "waiting", g, i, 1)
        BY <1>1, <1>13, <3>1, <3>3 DEF Only
      <4>2. ASSUME NEW d \in Kind, NEW h \in Group, NEW j \in Rank, NEW l \in Slot
            PROVE  At(s, d, h, j, l)' <=> d = c /\ h = a /\ j = b /\ l = m
        <5>1. CASE h # g \/ j # i
          <6>1. At(s, d, h, j, l)' <=> At(s, d, h, j, l)
            BY <1>10, <5>1
          <6>2. At(s, d, h, j, l) <=> d = c /\ h = a /\ j = b /\ l = m
            BY <3>1 DEF Only
          <6>3. QED
            BY <3>3, <5>1, <6>1, <6>2
        <5>2. CASE h = g /\ j = i
          BY <1>11, <3>3, <4>1, <5>2
        <5>3. QED
          BY <5>1, <5>2
      <4>3. Only(s, c, a, b, m)'
        BY <4>2 DEF Only
      <4>4. QED
        BY <1>1, <1>13, <3>2, <4>3, Found
    <3>4. CASE a = g /\ b = i /\ c = "queue"
      <4>1. At(s, "queue", g, i, 1) /\ ~ At(s, "waiting", g, i, 1)
        BY <1>1, <1>12, <1>13, <3>1, <3>2, <3>4 DEF Only
      <4>2. ASSUME NEW d \in Kind, NEW h \in Group, NEW j \in Rank, NEW l \in Slot
            PROVE  At(s, d, h, j, l)' <=> d = "sent" /\ h = g /\ j = i /\ l = 1
        <5>1. CASE h # g \/ j # i
          <6>1. At(s, d, h, j, l)' <=> At(s, d, h, j, l)
            BY <1>10, <5>1
          <6>2. At(s, d, h, j, l) <=> d = c /\ h = a /\ j = b /\ l = m
            BY <3>1 DEF Only
          <6>3. QED
            BY <3>4, <5>1, <6>1, <6>2
        <5>2. CASE h = g /\ j = i
          BY <1>11, <3>4, <4>1, <5>2
        <5>3. QED
          BY <5>1, <5>2
      <4>3. Only(s, "sent", g, i, 1)'
        BY <4>2 DEF Only
      <4>4. QED
        BY <1>1, <1>13, <3>2, <4>3, Found
    <3>5. CASE a = g /\ b = i /\ c = "waiting"
      <4>1. At(s, "waiting", g, i, 1) /\ ~ At(s, "queue", g, i, 1)
        BY <1>1, <1>12, <1>13, <3>1, <3>2, <3>5 DEF Only
      <4>2. ASSUME NEW d \in Kind, NEW h \in Group, NEW j \in Rank, NEW l \in Slot
            PROVE  At(s, d, h, j, l)' <=> d = "sent waiting" /\ h = g /\ j = i /\ l = 1
        <5>1. CASE h # g \/ j # i
          <6>1. At(s, d, h, j, l)' <=> At(s, d, h, j, l)
            BY <1>10, <5>1
          <6>2. At(s, d, h, j, l) <=> d = c /\ h = a /\ j = b /\ l = m
            BY <3>1 DEF Only
          <6>3. QED
            BY <3>5, <5>1, <6>1, <6>2
        <5>2. CASE h = g /\ j = i
          BY <1>11, <3>5, <4>1, <5>2
        <5>3. QED
          BY <5>1, <5>2
      <4>3. Only(s, "sent waiting", g, i, 1)'
        BY <4>2 DEF Only
      <4>4. QED
        BY <1>1, <1>13, <3>2, <4>3, Found
    <3>6. QED
      BY <1>12, <3>2, <3>3, <3>4, <3>5
  <2>3. QED
    BY <2>1, <2>2 DEF OwnerInv, Owned, Sole
<1>15. QED
  BY <1>7, <1>14 DEF OwnerInv, Owned

LEMMA SetPropertiesOwner ==
  ASSUME Data, OwnerInv, NEW g \in Group, NEW i \in Follower, SetProperties(g, i)
  PROVE  OwnerInv'
<1> DEFINE e == engine[g][i]
<1>1. i \in Rank /\ i # 0 /\ e \in Engine
  BY Ranks DEF Data, TypeOK, Follower
<1>2. routine[g] = "deal" /\ parcel[g][i].ready /\ parcel[g][i].pending = {}
  BY DEF SetProperties, OwnerInv, Handed
<1>3. /\ UNCHANGED <<routine, arrived, served>>
      /\ engine' = [engine EXCEPT ![g][i].queues = <<parcel[g][i].queue>>]
      /\ parcel' = [parcel EXCEPT ![g][i] = Nothing]
  BY DEF SetProperties
<1>4. Nothing.queue = {} /\ Nothing.pending = {} /\ ~ Nothing.ready
  BY DEF Nothing
<1>5. /\ parcel'[g][i] = Nothing
      /\ \A h \in Group, j \in Follower : h # g \/ j # i => parcel'[h][j] = parcel[h][j]
  BY <1>3 DEF Data, TypeOK
<1>6. \A h \in Group, j \in Rank :
        /\ engine'[h][j].instances = engine[h][j].instances
        /\ engine'[h][j].pending = engine[h][j].pending
        /\ engine'[h][j].queues = IF h = g /\ j = i THEN <<parcel[g][i].queue>>
                                                    ELSE engine[h][j].queues
  BY <1>1, <1>3 DEF Data, TypeOK, Engine
<1>7. Handed'
  BY <1>3, <1>4, <1>5, <1>6, Ranks DEF OwnerInv, Handed
<1>8. Copied(g, i) /\ ~ Copied(g, i)'
  BY <1>1, <1>2, <1>3, <1>4, <1>5 DEF Copied
<1>9. \A h \in Group, j \in Rank : h # g \/ j # i => (Copied(h, j)' <=> Copied(h, j))
  BY <1>3, <1>5, <1>6, Ranks DEF Copied, Follower
<1>10. ASSUME NEW s \in Req, NEW d \in Kind, NEW h \in Group, NEW j \in Rank, NEW l \in Slot,
              h # g \/ j # i
       PROVE  At(s, d, h, j, l)' <=> At(s, d, h, j, l)
  <2>1. /\ engine'[h][j].queues = engine[h][j].queues
        /\ engine'[h][j].pending = engine[h][j].pending
        /\ Copied(h, j)' <=> Copied(h, j)
        /\ j # 0 => parcel'[h][j] = parcel[h][j]
    BY <1>5, <1>6, <1>9, <1>10 DEF Follower
  <2>2. QED
    BY <2>1 DEF At
<1>11. ASSUME NEW s \in Req, NEW d \in Kind, NEW l \in Slot
       PROVE  At(s, d, g, i, l)' <=>
                \/ d = "queue" /\ l = 1 /\ At(s, "sent", g, i, 1)
                \/ d = "waiting" /\ At(s, "waiting", g, i, l)
  <2>1. /\ engine'[g][i].queues = <<parcel[g][i].queue>>
        /\ engine'[g][i].pending = e.pending
    BY <1>1, <1>6
  <2>2. /\ l \in DOMAIN engine'[g][i].queues <=> l = 1
        /\ engine'[g][i].queues[1] = parcel[g][i].queue
    BY <2>1
  <2>3. At(s, d, g, i, l)' <=>
          \/ d = "queue" /\ l = 1 /\ s \in parcel[g][i].queue
          \/ d = "waiting" /\ l = 1 /\ s \in e.pending
    BY <1>1, <1>4, <1>5, <1>8, <2>1, <2>2 DEF At
  <2>4. /\ At(s, "sent", g, i, 1) <=> s \in parcel[g][i].queue
        /\ At(s, "waiting", g, i, l) <=> l = 1 /\ s \in e.pending
    BY <1>1 DEF At
  <2>5. QED
    BY <2>3, <2>4
<1>12. ASSUME NEW s \in Req, NEW d \in Kind, NEW l \in Slot, At(s, d, g, i, l)
       PROVE  l = 1 /\ d \in {"waiting", "sent"}
  BY <1>1, <1>2, <1>8, <1>12 DEF At
<1>13. {"queue", "waiting", "sent", "sent waiting"} = Kind /\ 1 \in Slot
  BY Ranked DEF Kind, Slot
<1>14. ASSUME NEW s \in Req PROVE Sole(s)'
  <2>1. CASE Absent(s)
    <3>1. \A d \in Kind, h \in Group, j \in Rank, l \in Slot : ~ At(s, d, h, j, l)
      BY <2>1 DEF Absent
    <3>2. ASSUME NEW d \in Kind, NEW h \in Group, NEW j \in Rank, NEW l \in Slot
          PROVE  ~ At(s, d, h, j, l)'
      <4>1. CASE h # g \/ j # i
        BY <1>10, <3>1, <4>1
      <4>2. CASE h = g /\ j = i
        BY <1>1, <1>11, <1>13, <3>1, <4>2
      <4>3. QED
        BY <4>1, <4>2
    <3>3. QED
      BY <1>3, <2>1, <3>2 DEF Sole, Absent, Lossy
  <2>2. CASE Placed(s)
    <3>1. PICK c \in Kind, a \in Group, b \in Rank, m \in Slot : Only(s, c, a, b, m)
      BY <2>2 DEF Placed
    <3>2. At(s, c, a, b, m) /\ (s \in arrived \ served)'
      BY <1>3, <2>2, <3>1 DEF Only, Placed
    <3>3. ASSUME NEW d \in Kind, NEW h \in Group, NEW j \in Rank, NEW l \in Slot
          PROVE  At(s, d, h, j, l) <=> d = c /\ h = a /\ j = b /\ l = m
      BY <3>1 DEF Only
    <3>4. CASE a = g /\ b = i /\ c = "sent"
      <4>1. At(s, "sent", g, i, 1) /\ \A l \in Slot : ~ At(s, "waiting", g, i, l)
        BY <1>1, <1>12, <1>13, <3>2, <3>3, <3>4
      <4>2. ASSUME NEW d \in Kind, NEW h \in Group, NEW j \in Rank, NEW l \in Slot
            PROVE  At(s, d, h, j, l)' <=> d = "queue" /\ h = g /\ j = i /\ l = 1
        <5>1. CASE h # g \/ j # i
          BY <1>10, <3>3, <3>4, <5>1
        <5>2. CASE h = g /\ j = i
          BY <1>11, <4>1, <5>2
        <5>3. QED
          BY <5>1, <5>2
      <4>3. Only(s, "queue", g, i, 1)'
        BY <4>2 DEF Only
      <4>4. QED
        BY <1>1, <1>13, <3>2, <4>3, Found
    <3>5. CASE ~ (a = g /\ b = i /\ c = "sent")
      <4>1. ~ At(s, "sent", g, i, 1)
        BY <1>1, <1>13, <3>3, <3>5
      <4>2. ASSUME NEW d \in Kind, NEW h \in Group, NEW j \in Rank, NEW l \in Slot
            PROVE  At(s, d, h, j, l)' <=> d = c /\ h = a /\ j = b /\ l = m
        <5>1. CASE h # g \/ j # i
          BY <1>10, <3>3, <5>1
        <5>2. CASE h = g /\ j = i
          <6>1. At(s, d, g, i, l)' <=> d = "waiting" /\ At(s, "waiting", g, i, l)
            BY <1>11, <4>1
          <6>2. At(s, d, g, i, l) => d = "waiting"
            BY <1>12, <4>1
          <6>3. QED
            BY <3>3, <5>2, <6>1, <6>2
        <5>3. QED
          BY <5>1, <5>2
      <4>3. Only(s, c, a, b, m)'
        BY <4>2 DEF Only
      <4>4. QED
        BY <3>2, <4>3, Found
    <3>6. QED
      BY <3>4, <3>5
  <2>3. QED
    BY <2>1, <2>2 DEF OwnerInv, Owned, Sole
<1>15. QED
  BY <1>7, <1>14 DEF OwnerInv, Owned

LEMMA EnterBalloonOwner ==
  ASSUME Data, OwnerInv, NEW g \in Group, EnterBalloon(g)
  PROVE  OwnerInv'
<1> DEFINE e == engine[g][0]
<1>1. PICK q \in Evened(e.queues) :
        engine' = [engine EXCEPT ![g][0].queues = q, ![g][0].stopped = FALSE]
  BY DEF EnterBalloon
<1>2. /\ UNCHANGED <<parcel, arrived, served>>
      /\ \A h \in Group : routine'[h] = "deal" <=> routine[h] = "deal"
  BY DEF EnterBalloon, Data, TypeOK
<1>3. e \in Engine
  BY Ranks DEF Data, TypeOK
<1>4. \A h \in Group, j \in Rank :
        /\ engine'[h][j].instances = engine[h][j].instances
        /\ engine'[h][j].pending = engine[h][j].pending
        /\ engine'[h][j].queues = IF h = g /\ j = 0 THEN q ELSE engine[h][j].queues
  BY <1>1, <1>3 DEF Data, TypeOK, Engine
<1>5. CASE q = e.queues
  <2>1. \A h \in Group, j \in Rank : Same(h, j)
    BY <1>4, <1>5 DEF Same
  <2>2. QED
    BY <1>2, <2>1, Unmoved
<1>6. CASE q # e.queues
  <2>1. PICK b \in DOMAIN e.queues, l \in DOMAIN e.queues, moved \in SUBSET Req :
          q = Even(e.queues, b, l, moved)
    BY DEF Evened
  <2>2. /\ b # l /\ moved \subseteq e.queues[b]
        /\ q = [e.queues EXCEPT ![b] = @ \ moved, ![l] = @ \cup moved]
    BY <1>6, <2>1 DEF Even
  <2>3. /\ DOMAIN q = DOMAIN e.queues
        /\ \A k \in DOMAIN e.queues :
             q[k] = IF k = b THEN e.queues[k] \ moved
                    ELSE IF k = l THEN e.queues[k] \cup moved ELSE e.queues[k]
    <3>1. PICK n \in Slot : e.queues \in [1 .. n -> SUBSET Req]
      BY <1>3, Engines DEF Slot
    <3>2. QED
      BY <2>2, <3>1
  <2>4. b \in Slot /\ l \in Slot
    <3>1. PICK n \in Slot : DOMAIN e.queues = 1 .. n
      BY <1>3, Engines DEF Slot
    <3>2. QED
      BY <3>1, Ranked DEF Slot
  <2>5. \A h \in Group, j \in Rank : Copied(h, j)' <=> Copied(h, j)
    BY <1>2, <1>4, Ranks DEF Copied
  <2>6. Handed'
    BY <1>2, <1>4, Ranks DEF OwnerInv, Handed
  <2>7. ASSUME NEW s \in Req, NEW d \in Kind, NEW h \in Group, NEW j \in Rank, NEW k \in Slot,
               h # g \/ j # 0 \/ d # "queue"
        PROVE  At(s, d, h, j, k)' <=> At(s, d, h, j, k)
    <3>1. /\ engine'[h][j].pending = engine[h][j].pending /\ parcel' = parcel
          /\ Copied(h, j)' <=> Copied(h, j)
          /\ d = "queue" => engine'[h][j].queues = engine[h][j].queues
      BY <1>2, <1>4, <2>5, <2>7
    <3>2. QED
      BY <3>1 DEF At
  <2>8. ASSUME NEW s \in Req, NEW k \in Slot
        PROVE  /\ At(s, "queue", g, 0, k)' <=> k \in DOMAIN e.queues /\ s \in q[k]
               /\ At(s, "queue", g, 0, k) <=> k \in DOMAIN e.queues /\ s \in e.queues[k]
    <3>1. engine'[g][0].queues = q /\ ~ Copied(g, 0) /\ ~ Copied(g, 0)'
      BY <1>4, Ranks DEF Copied
    <3>2. QED
      BY <2>3, <3>1 DEF At
  <2>9. ASSUME NEW s \in Req PROVE Sole(s)'
    <3>1. CASE s \notin moved
      <4>1. ASSUME NEW d \in Kind, NEW h \in Group, NEW j \in Rank, NEW k \in Slot
            PROVE  At(s, d, h, j, k)' <=> At(s, d, h, j, k)
        <5>1. CASE h = g /\ j = 0 /\ d = "queue"
          BY <2>3, <2>8, <3>1, <5>1
        <5>2. QED
          BY <2>7, <5>1
      <4>2. QED
        BY <1>2, <4>1, StaysPut DEF OwnerInv, Owned
    <3>2. CASE s \in moved
      <4>1. At(s, "queue", g, 0, b) /\ "queue" \in Kind
        BY <2>2, <2>4, <2>8, <3>2 DEF Kind
      <4>2. s \in arrived \ served /\ Only(s, "queue", g, 0, b)
        <5>1. Placed(s)
          BY <2>4, <4>1, Ranks DEF OwnerInv, Owned, Sole, Absent
        <5>2. QED
          BY <2>4, <4>1, <5>1, Ranks DEF Placed, Only
      <4>3. ASSUME NEW d \in Kind, NEW h \in Group, NEW j \in Rank, NEW k \in Slot
            PROVE  At(s, d, h, j, k)' <=> d = "queue" /\ h = g /\ j = 0 /\ k = l
        <5>1. At(s, d, h, j, k) <=> d = "queue" /\ h = g /\ j = 0 /\ k = b
          BY <4>2 DEF Only
        <5>2. CASE h = g /\ j = 0 /\ d = "queue"
          <6>1. k \in DOMAIN e.queues /\ s \in e.queues[k] <=> k = b
            BY <2>8, <5>1, <5>2
          <6>2. At(s, d, h, j, k)' <=> k \in DOMAIN e.queues /\ s \in q[k]
            BY <2>8, <5>2
          <6>3. QED
            BY <2>1, <2>2, <2>3, <3>2, <5>2, <6>1, <6>2
        <5>3. QED
          BY <2>7, <5>1, <5>2
      <4>4. Only(s, "queue", g, 0, l)'
        BY <4>3 DEF Only
      <4>5. (s \in arrived \ served)'
        BY <1>2, <4>2
      <4>6. QED
        BY <2>4, <4>1, <4>4, <4>5, Found, Ranks
    <3>3. QED
      BY <3>1, <3>2
  <2>10. QED
    BY <2>6, <2>9 DEF OwnerInv, Owned
<1>7. QED
  BY <1>5, <1>6

LEMMA SplitEngineOwner ==
  ASSUME IInv, Data, OwnerInv, NEW g \in Group, SplitEngine(g)
  PROVE  OwnerInv'
<1> DEFINE e == engine[g][0]
           sent(i) == [ready |-> TRUE, queue |-> e.queues[i + 1], pending |-> {}]
<1>1. e \in Engine
  BY Ranks DEF Data, TypeOK
<1>2. /\ UNCHANGED <<arrived, served>>
      /\ engine' = [engine EXCEPT ![g][0].queues = <<e.queues[1]>>]
      /\ parcel' = [parcel EXCEPT ![g] = [i \in Follower |-> sent(i)]]
      /\ routine[g] = "split" /\ routine'[g] = "deal"
      /\ \A h \in Group : h # g => routine'[h] = routine[h]
  BY DEF SplitEngine, Data, TypeOK
<1>3. e.instances = Size /\ DOMAIN e.queues = 1 .. Size
  <2>1. Wide(g)
    BY DEF Data, Widths
  <2>2. e.instances = Size
    <3>1. e.instances >= Size /\ e.instances \in {1, Size}
      BY <1>2, <2>1 DEF Wide, OwnerInv, Handed
    <3>2. QED
      BY <3>1, Ranked
  <2>3. QED
    BY <1>2, <2>1, <2>2 DEF Wide, Width
<1>4. \A i \in Follower : ~ parcel[g][i].ready /\ parcel[g][i].queue = {} /\ parcel[g][i].pending = {}
  BY <1>2 DEF IInv, Parking, OwnerInv, Handed
<1>5. \A i \in Follower : sent(i).ready /\ sent(i).queue = e.queues[i + 1] /\ sent(i).pending = {}
  OBVIOUS
<1> HIDE DEF sent
<1>6. /\ \A i \in Follower : parcel'[g][i] = sent(i)
      /\ \A h \in Group : h # g => parcel'[h] = parcel[h]
  BY <1>2 DEF Data, TypeOK
<1>7. \A h \in Group, j \in Rank :
        /\ engine'[h][j].instances = engine[h][j].instances
        /\ engine'[h][j].pending = engine[h][j].pending
        /\ engine'[h][j].queues = IF h = g /\ j = 0 THEN <<e.queues[1]>> ELSE engine[h][j].queues
  BY <1>1, <1>2 DEF Data, TypeOK, Engine
<1>8. Handed'
  BY <1>2, <1>5, <1>6, <1>7, Ranks DEF OwnerInv, Handed
<1>9. \A i \in Follower : Copied(g, i) /\ Copied(g, i)'
  BY <1>2, <1>3, <1>5, <1>6, Ranked, Ranks DEF Copied
<1>10. \A h \in Group, j \in Rank : h # g => (Copied(h, j)' <=> Copied(h, j))
  BY <1>2, <1>6, <1>7, Ranks DEF Copied
<1>11. ASSUME NEW s \in Req, NEW d \in Kind, NEW h \in Group, NEW j \in Rank, NEW l \in Slot,
              h # g
       PROVE  At(s, d, h, j, l)' <=> At(s, d, h, j, l)
  <2>1. /\ engine'[h][j].queues = engine[h][j].queues
        /\ engine'[h][j].pending = engine[h][j].pending
        /\ Copied(h, j)' <=> Copied(h, j)
        /\ parcel'[h] = parcel[h]
    BY <1>6, <1>7, <1>10, <1>11
  <2>2. QED
    BY <2>1 DEF At
<1>12. ASSUME NEW s \in Req, NEW d \in Kind, NEW l \in Slot
       PROVE  At(s, d, g, 0, l)' <=> At(s, d, g, 0, l) /\ (d = "queue" => l = 1)
  <2>1. /\ engine'[g][0].pending = e.pending
        /\ engine'[g][0].queues = <<e.queues[1]>>
        /\ ~ Copied(g, 0) /\ ~ Copied(g, 0)'
    BY <1>7, Ranks DEF Copied
  <2>2. (l \in DOMAIN engine'[g][0].queues <=> l = 1) /\ engine'[g][0].queues[1] = e.queues[1]
    BY <2>1
  <2>3. 1 \in DOMAIN e.queues
    BY <1>3, Ranked
  <2>4. QED
    BY <2>1, <2>2, <2>3 DEF At
<1>13. ASSUME NEW s \in Req, NEW d \in Kind, NEW j \in Follower, NEW l \in Slot
       PROVE  /\ At(s, d, g, j, l)' <=>
                   \/ d = "sent" /\ l = 1 /\ At(s, "queue", g, 0, j + 1)
                   \/ d = "waiting" /\ At(s, "waiting", g, j, l)
              /\ At(s, d, g, j, l) => d = "waiting"
  <2>1. /\ engine'[g][j].pending = engine[g][j].pending
        /\ Copied(g, j)' /\ Copied(g, j) /\ ~ Copied(g, 0)
        /\ parcel'[g][j].queue = e.queues[j + 1] /\ parcel'[g][j].pending = {}
        /\ parcel[g][j].queue = {} /\ parcel[g][j].pending = {}
        /\ j # 0
    BY <1>4, <1>5, <1>6, <1>7, <1>9, Ranks DEF Copied
  <2>2. j + 1 \in DOMAIN e.queues
    BY <1>3, Ranked
  <2>3. At(s, "queue", g, 0, j + 1) <=> s \in e.queues[j + 1]
    BY <2>1, <2>2 DEF At
  <2>4. QED
    BY <2>1, <2>3 DEF At
<1>14. "sent" \in Kind /\ "queue" \in Kind /\ 1 \in Slot /\ \A j \in Follower : j + 1 \in Slot
  BY Ranked DEF Kind, Slot
<1>15. ASSUME NEW s \in Req PROVE Sole(s)'
  <2>1. CASE Absent(s)
    <3>1. \A d \in Kind, h \in Group, j \in Rank, l \in Slot : ~ At(s, d, h, j, l)
      BY <2>1 DEF Absent
    <3>2. ASSUME NEW d \in Kind, NEW h \in Group, NEW j \in Rank, NEW l \in Slot
          PROVE  ~ At(s, d, h, j, l)'
      <4>1. CASE h # g
        BY <1>11, <3>1, <4>1
      <4>2. CASE h = g /\ j = 0
        BY <1>12, <3>1, <4>2
      <4>3. CASE h = g /\ j \in Follower
        <5>1. ~ At(s, "queue", g, 0, j + 1) /\ (d = "waiting" => ~ At(s, "waiting", g, j, l))
          BY <1>14, <3>1, <4>3, Ranks
        <5>2. QED
          BY <1>13, <4>3, <5>1
      <4>4. QED
        BY <4>1, <4>2, <4>3 DEF Follower
    <3>3. QED
      BY <1>2, <2>1, <3>2 DEF Sole, Absent, Lossy
  <2>2. CASE Placed(s)
    <3>1. PICK c \in Kind, a \in Group, b \in Rank, m \in Slot : Only(s, c, a, b, m)
      BY <2>2 DEF Placed
    <3>2. At(s, c, a, b, m) /\ (s \in arrived \ served)'
      BY <1>2, <2>2, <3>1 DEF Only, Placed
    <3>3. ASSUME NEW d \in Kind, NEW h \in Group, NEW j \in Rank, NEW l \in Slot
          PROVE  At(s, d, h, j, l) <=> d = c /\ h = a /\ j = b /\ l = m
      BY <3>1 DEF Only
    <3>4. CASE a = g /\ b = 0 /\ c = "queue" /\ m # 1
      <4>1. PICK i \in Follower : m = i + 1
        <5>1. m \in 1 .. Size
          BY <1>3, <3>2, <3>4 DEF At
        <5>2. m - 1 \in Follower /\ m = (m - 1) + 1
          BY <3>4, <5>1, Ranked
        <5>3. QED
          BY <5>2
      <4>2. ASSUME NEW d \in Kind, NEW h \in Group, NEW j \in Rank, NEW l \in Slot
            PROVE  At(s, d, h, j, l)' <=> d = "sent" /\ h = g /\ j = i /\ l = 1
        <5>1. CASE h # g
          BY <1>11, <3>3, <3>4, <5>1
        <5>2. CASE h = g /\ j = 0
          BY <1>12, <3>3, <3>4, <4>1, <5>2, Ranks
        <5>3. CASE h = g /\ j \in Follower
          <6>1. At(s, "queue", g, 0, j + 1) <=> j = i
            <7>1. At(s, "queue", g, 0, j + 1) <=> j + 1 = m
              BY <1>14, <3>3, <3>4, <5>3, Ranks
            <7>2. j + 1 = m <=> j = i
              BY <4>1, <5>3, Ranked
            <7>3. QED
              BY <7>1, <7>2
          <6>2. d = "waiting" => ~ At(s, "waiting", g, j, l)
            BY <3>3, <3>4, <5>3
          <6>3. QED
            BY <1>13, <5>3, <6>1, <6>2
        <5>4. QED
          BY <5>1, <5>2, <5>3 DEF Follower
      <4>3. Only(s, "sent", g, i, 1)'
        BY <4>2 DEF Only
      <4>4. QED
        BY <1>14, <3>2, <4>3, Found, Ranks
    <3>5. CASE ~ (a = g /\ b = 0 /\ c = "queue" /\ m # 1)
      <4>1. ASSUME NEW d \in Kind, NEW h \in Group, NEW j \in Rank, NEW l \in Slot
            PROVE  At(s, d, h, j, l)' <=> At(s, d, h, j, l)
        <5>1. CASE h # g
          BY <1>11, <5>1
        <5>2. CASE h = g /\ j = 0
          <6>1. At(s, d, g, 0, l) => (d = "queue" => l = 1)
            BY <3>3, <3>5, <5>2
          <6>2. QED
            BY <1>12, <5>2, <6>1
        <5>3. CASE h = g /\ j \in Follower
          <6>1. ~ At(s, "queue", g, 0, j + 1)
            <7>1. j + 1 \in Slot /\ j + 1 # 1
              BY <1>14, <5>3, Ranked
            <7>2. QED
              BY <1>14, <3>3, <3>5, <7>1, Ranks
          <6>2. QED
            BY <1>13, <5>3, <6>1
        <5>4. QED
          BY <5>1, <5>2, <5>3 DEF Follower
      <4>2. Only(s, c, a, b, m)'
        BY <3>3, <4>1 DEF Only
      <4>3. QED
        BY <3>2, <4>2, Found
    <3>6. QED
      BY <3>4, <3>5
  <2>3. QED
    BY <2>1, <2>2 DEF OwnerInv, Owned, Sole
<1>16. QED
  BY <1>8, <1>15 DEF OwnerInv, Owned

\* The queues of a leader that takes over its followers.
LEMMA TakenOver ==
  ASSUME NEW s \in [1 .. 1 -> SUBSET Req], NEW t \in [1 .. Size - 1 -> SUBSET Req]
  PROVE  /\ DOMAIN (s \o t) = 1 .. Size /\ (s \o t)[1] = s[1]
         /\ \A j \in Follower : (s \o t)[j + 1] = t[j]
<1>1. 1 \in Nat /\ Size - 1 \in Nat /\ Size \in Nat
  BY Ranked
<1>2. s \in Seq(SUBSET Req) /\ t \in Seq(SUBSET Req)
  <2>1. ASSUME NEW n \in Nat PROVE [1 .. n -> SUBSET Req] \subseteq Seq(SUBSET Req)
    BY SeqDef
  <2>2. QED
    BY <1>1, <2>1
<1>3. Len(s) = 1 /\ Len(t) = Size - 1
  BY <1>1, <1>2, LenProperties
<1>4. /\ s \o t \in Seq(SUBSET Req) /\ Len(s \o t) = Len(s) + Len(t)
      /\ \A k \in 1 .. Len(s) + Len(t) :
           (s \o t)[k] = IF k <= Len(s) THEN s[k] ELSE t[k - Len(s)]
  BY <1>2, ConcatProperties
<1>5. Len(s) + Len(t) = Size
  BY <1>1, <1>3
<1>6. DOMAIN (s \o t) = 1 .. Size
  BY <1>4, <1>5, LenProperties
<1>7. \A k \in 1 .. Size : (s \o t)[k] = IF k <= 1 THEN s[k] ELSE t[k - 1]
  BY <1>3, <1>4, <1>5
<1>8. ASSUME NEW j \in Follower PROVE (s \o t)[j + 1] = t[j]
  <2>1. j + 1 \in 1 .. Size /\ ~ (j + 1 <= 1) /\ (j + 1) - 1 = j
    BY Ranked
  <2>2. QED
    BY <1>7, <2>1
<1>9. (s \o t)[1] = s[1]
  BY <1>7, Ranked
<1>10. QED
  BY <1>6, <1>8, <1>9

LEMMA MergeOwner ==
  ASSUME IInv, Data, Fresh, OwnerInv, NEW g \in Group, Merge(g)
  PROVE  OwnerInv'
<1> DEFINE e == engine[g][0]
           sent == [i \in Follower |-> parcel[g][i].queue]
           waiting == UNION {parcel[g][i].pending : i \in Follower}
           q == e.queues \o sent
           f == [stopped |-> TRUE, instances |-> e.instances + Size - 1, queues |-> q,
                 pending |-> e.pending \cup waiting, busy |-> e.busy]
<1>1. e \in Engine
  BY Ranks DEF Data, TypeOK
<1>2. /\ UNCHANGED <<arrived, served>>
      /\ engine' = [engine EXCEPT ![g][0] = f]
      /\ parcel' = [parcel EXCEPT ![g] = [i \in Follower |-> Nothing]]
      /\ routine[g] = "merge" /\ routine'[g] = "drop"
      /\ \A h \in Group : h # g => routine'[h] = routine[h]
      /\ \A i \in Follower : parcel[g][i].ready
  BY DEF Merge, Data, TypeOK
<1>3. e.instances = 1 /\ DOMAIN e.queues = 1 .. 1
  <2>1. Wide(g)
    BY DEF Data, Widths
  <2>2. e.instances = 1
    BY <1>2 DEF Fresh
  <2>3. QED
    BY <1>2, <2>1, <2>2 DEF Wide, Width
<1>4. /\ DOMAIN q = 1 .. Size /\ q[1] = e.queues[1]
      /\ \A j \in Follower : q[j + 1] = parcel[g][j].queue
  <2>1. e.queues \in [1 .. 1 -> SUBSET Req]
    BY <1>1, <1>3, Engines
  <2>2. sent \in [1 .. Size - 1 -> SUBSET Req] /\ \A j \in Follower : sent[j] = parcel[g][j].queue
    BY Ranked DEF Data, TypeOK, Parcel
  <2> HIDE DEF sent, e
  <2>3. ASSUME NEW s \in [1 .. 1 -> SUBSET Req], NEW u \in [1 .. Size - 1 -> SUBSET Req]
        PROVE  /\ DOMAIN (s \o u) = 1 .. Size /\ (s \o u)[1] = s[1]
               /\ \A j \in Follower : (s \o u)[j + 1] = u[j]
    BY TakenOver
  <2>4. /\ DOMAIN (e.queues \o sent) = 1 .. Size /\ (e.queues \o sent)[1] = e.queues[1]
        /\ \A j \in Follower : (e.queues \o sent)[j + 1] = sent[j]
    BY <2>1, <2>2, <2>3, Zenon
  <2>5. QED
    BY <2>2, <2>4
<1>5. ASSUME NEW s \in Req
      PROVE  s \in waiting <=> \E i \in Follower : s \in parcel[g][i].pending
  <2> DEFINE P == {parcel[g][i].pending : i \in Follower}
  <2>1. (\E p \in P : s \in p) <=> \E i \in Follower : s \in parcel[g][i].pending
    BY Zenon
  <2>2. waiting = UNION P
    OBVIOUS
  <2> HIDE DEF P, waiting
  <2>3. s \in waiting <=> \E p \in P : s \in p
    BY <2>2
  <2>4. QED
    BY <2>1, <2>3, Zenon
<1> HIDE DEF q, sent, waiting
<1>6. f.queues = q /\ f.pending = e.pending \cup waiting /\ f.instances = Size
  <2>1. f.queues = q /\ f.pending = e.pending \cup waiting /\ f.instances = e.instances + Size - 1
    OBVIOUS
  <2>2. e.instances + Size - 1 = Size
    BY <1>3, Ranked
  <2>3. QED
    BY <2>1, <2>2
<1> HIDE DEF f
<1>7. /\ engine'[g][0] = f
      /\ \A h \in Group, j \in Rank : h # g \/ j # 0 => engine'[h][j] = engine[h][j]
  BY <1>2, Ranks DEF Data, TypeOK
<1>8. /\ \A i \in Follower : parcel'[g][i] = Nothing
      /\ \A h \in Group : h # g => parcel'[h] = parcel[h]
  BY <1>2 DEF Data, TypeOK
<1>9. Nothing.queue = {} /\ Nothing.pending = {} /\ ~ Nothing.ready
  BY DEF Nothing
<1>10. Handed'
  <2>1. ASSUME NEW h \in Group
        PROVE  /\ engine'[h][0].instances \in {1, Size}
               /\ \A i \in Follower :
                    /\ ~ parcel'[h][i].ready => parcel'[h][i].queue = {} /\ parcel'[h][i].pending = {}
                    /\ routine'[h] = "deal" => parcel'[h][i].pending = {}
    <3>1. CASE h = g
      BY <1>6, <1>7, <1>8, <1>9, <3>1
    <3>2. CASE h # g
      BY <1>2, <1>7, <1>8, <3>2, Ranks DEF OwnerInv, Handed
    <3>3. QED
      BY <3>1, <3>2
  <2>2. QED
    BY <2>1 DEF Handed
<1>11. \A i \in Follower : Copied(g, i) /\ Copied(g, i)'
  BY <1>2, <1>6, <1>7, Ranked, Ranks DEF Copied
<1>12. ASSUME NEW s \in Req, NEW d \in Kind, NEW h \in Group, NEW j \in Rank, NEW l \in Slot,
              h # g
       PROVE  At(s, d, h, j, l)' <=> At(s, d, h, j, l)
  <2>1. /\ engine'[h][j] = engine[h][j] /\ engine'[h][0] = engine[h][0]
        /\ parcel'[h] = parcel[h] /\ routine'[h] = routine[h]
    BY <1>2, <1>7, <1>8, <1>12, Ranks
  <2>2. Copied(h, j)' <=> Copied(h, j)
    BY <2>1 DEF Copied
  <2>3. QED
    BY <2>1, <2>2 DEF At
<1>13. "sent" \in Kind /\ "sent waiting" \in Kind /\ "queue" \in Kind /\ "waiting" \in Kind
       /\ 1 \in Slot /\ \A j \in Follower : j + 1 \in Slot
  BY Ranked DEF Kind, Slot
<1>14. ASSUME NEW s \in Req, NEW l \in Slot
       PROVE  At(s, "queue", g, 0, l)' <=>
                \/ l = 1 /\ At(s, "queue", g, 0, 1)
                \/ \E j \in Follower : l = j + 1 /\ At(s, "sent", g, j, 1)
  <2>1. At(s, "queue", g, 0, l)' <=> l \in 1 .. Size /\ s \in q[l]
    BY <1>4, <1>6, <1>7, Ranks DEF At, Copied
  <2>2. At(s, "queue", g, 0, 1) <=> s \in e.queues[1]
    BY <1>3, Ranks DEF At, Copied
  <2>3. ASSUME NEW j \in Follower PROVE At(s, "sent", g, j, 1) <=> s \in parcel[g][j].queue
    BY Ranks DEF At
  <2>4. CASE l = 1
    <3>1. l \in 1 .. Size /\ \A j \in Follower : l # j + 1
      BY <2>4, Ranked
    <3>2. QED
      BY <1>4, <2>1, <2>2, <2>4, <3>1
  <2>5. CASE l # 1 /\ l \in 1 .. Size
    <3>1. PICK i \in Follower : l = i + 1
      <4>1. l - 1 \in Follower /\ l = (l - 1) + 1
        BY <2>5, Ranked
      <4>2. QED
        BY <4>1
    <3>2. \A j \in Follower : l = j + 1 => j = i
      BY <3>1, Ranked
    <3>3. s \in q[l] <=> At(s, "sent", g, i, 1)
      BY <1>4, <2>3, <3>1
    <3>4. QED
      BY <2>1, <2>5, <3>1, <3>2, <3>3
  <2>6. CASE l # 1 /\ l \notin 1 .. Size
    <3>1. \A j \in Follower : l # j + 1
      BY <2>6, Ranked
    <3>2. QED
      BY <2>1, <2>6, <3>1
  <2>7. QED
    BY <2>4, <2>5, <2>6
<1>15. ASSUME NEW s \in Req, NEW l \in Slot
       PROVE  At(s, "waiting", g, 0, l)' <=>
                /\ l = 1
                /\ \/ At(s, "waiting", g, 0, 1)
                   \/ \E j \in Follower : At(s, "sent waiting", g, j, 1)
  <2>1. At(s, "waiting", g, 0, l)' <=> l = 1 /\ (s \in e.pending \/ s \in waiting)
    BY <1>6, <1>7 DEF At
  <2>2. At(s, "waiting", g, 0, 1) <=> s \in e.pending
    BY DEF At
  <2>3. ASSUME NEW j \in Follower
        PROVE  At(s, "sent waiting", g, j, 1) <=> s \in parcel[g][j].pending
    BY Ranks DEF At
  <2>4. QED
    BY <1>5, <2>1, <2>2, <2>3
<1>16. ASSUME NEW s \in Req, NEW d \in Kind, NEW l \in Slot, d \in {"sent", "sent waiting"}
       PROVE  ~ At(s, d, g, 0, l)' /\ ~ At(s, d, g, 0, l)
  BY <1>16 DEF At
<1>17. ASSUME NEW s \in Req, NEW d \in Kind, NEW j \in Follower, NEW l \in Slot
       PROVE  /\ At(s, d, g, j, l)' <=> d = "waiting" /\ At(s, "waiting", g, j, l)
              /\ ~ At(s, "queue", g, j, l)
              /\ d \in {"sent", "sent waiting"} /\ At(s, d, g, j, l) => l = 1
  <2>1. /\ engine'[g][j] = engine[g][j] /\ Copied(g, j) /\ Copied(g, j)'
        /\ parcel'[g][j].queue = {} /\ parcel'[g][j].pending = {}
    BY <1>7, <1>8, <1>9, <1>11, Ranks
  <2>2. QED
    BY <2>1 DEF At
<1>18. ASSUME NEW s \in Req PROVE Sole(s)'
  <2>1. CASE Absent(s)
    <3>1. \A d \in Kind, h \in Group, j \in Rank, l \in Slot : ~ At(s, d, h, j, l)
      BY <2>1 DEF Absent
    <3>2. ASSUME NEW d \in Kind, NEW h \in Group, NEW j \in Rank, NEW l \in Slot
          PROVE  ~ At(s, d, h, j, l)'
      <4>1. CASE h # g
        BY <1>12, <3>1, <4>1
      <4>2. CASE h = g /\ j = 0
        <5>1. CASE d = "queue"
          BY <1>13, <1>14, <3>1, <4>2, <5>1, Ranks
        <5>2. CASE d = "waiting"
          BY <1>13, <1>15, <3>1, <4>2, <5>2, Ranks
        <5>3. CASE d \in {"sent", "sent waiting"}
          BY <1>16, <4>2, <5>3
        <5>4. QED
          BY <5>1, <5>2, <5>3 DEF Kind
      <4>3. CASE h = g /\ j \in Follower
        BY <1>13, <1>17, <3>1, <4>3, Ranks
      <4>4. QED
        BY <4>1, <4>2, <4>3 DEF Follower
    <3>3. QED
      BY <1>2, <2>1, <3>2 DEF Sole, Absent, Lossy
  <2>2. CASE Placed(s)
    <3>1. PICK c \in Kind, a \in Group, b \in Rank, m \in Slot : Only(s, c, a, b, m)
      BY <2>2 DEF Placed
    <3>2. At(s, c, a, b, m) /\ (s \in arrived \ served)'
      BY <1>2, <2>2, <3>1 DEF Only, Placed
    <3>3. ASSUME NEW d \in Kind, NEW h \in Group, NEW j \in Rank, NEW l \in Slot
          PROVE  At(s, d, h, j, l) <=> d = c /\ h = a /\ j = b /\ l = m
      BY <3>1 DEF Only
    <3>4. CASE a = g /\ b \in Follower /\ c = "sent"
      <4>1. /\ \A j \in Follower : At(s, "sent", g, j, 1) <=> j = b
            /\ ~ At(s, "queue", g, 0, 1) /\ ~ At(s, "waiting", g, 0, 1)
            /\ \A j \in Follower : ~ At(s, "sent waiting", g, j, 1)
            /\ \A j \in Follower, l \in Slot : ~ At(s, "waiting", g, j, l)
        BY <1>13, <1>17, <3>2, <3>3, <3>4, Ranks
      <4>2. ASSUME NEW d \in Kind, NEW h \in Group, NEW j \in Rank, NEW l \in Slot
            PROVE  At(s, d, h, j, l)' <=> d = "queue" /\ h = g /\ j = 0 /\ l = b + 1
        <5>1. CASE h # g
          <6>1. At(s, d, h, j, l)' <=> At(s, d, h, j, l)
            BY <1>12, <5>1
          <6>2. ~ At(s, d, h, j, l)
            BY <3>3, <3>4, <5>1
          <6>3. QED
            BY <5>1, <6>1, <6>2
        <5>2. CASE h = g /\ j = 0 /\ d = "queue"
          BY <1>14, <3>4, <4>1, <5>2
        <5>3. CASE h = g /\ j = 0 /\ d = "waiting"
          BY <1>15, <4>1, <5>3
        <5>4. CASE h = g /\ j = 0 /\ d \in {"sent", "sent waiting"}
          BY <1>16, <5>4
        <5>5. CASE h = g /\ j \in Follower
          BY <1>17, <4>1, <5>5, Ranks
        <5>6. QED
          BY <5>1, <5>2, <5>3, <5>4, <5>5 DEF Follower, Kind
      <4>3. Only(s, "queue", g, 0, b + 1)'
        BY <4>2 DEF Only
      <4>4. QED
        BY <1>13, <3>2, <3>4, <4>3, Found, Ranks
    <3>5. CASE a = g /\ b \in Follower /\ c = "sent waiting"
      <4>1. /\ At(s, "sent waiting", g, b, 1)
            /\ ~ At(s, "queue", g, 0, 1) /\ ~ At(s, "waiting", g, 0, 1)
            /\ \A j \in Follower : ~ At(s, "sent", g, j, 1)
            /\ \A j \in Follower, l \in Slot : ~ At(s, "waiting", g, j, l)
        BY <1>13, <1>17, <3>2, <3>3, <3>5, Ranks
      <4>2. ASSUME NEW d \in Kind, NEW h \in Group, NEW j \in Rank, NEW l \in Slot
            PROVE  At(s, d, h, j, l)' <=> d = "waiting" /\ h = g /\ j = 0 /\ l = 1
        <5>1. CASE h # g
          <6>1. At(s, d, h, j, l)' <=> At(s, d, h, j, l)
            BY <1>12, <5>1
          <6>2. ~ At(s, d, h, j, l)
            BY <3>3, <3>5, <5>1
          <6>3. QED
            BY <5>1, <6>1, <6>2
        <5>2. CASE h = g /\ j = 0 /\ d = "queue"
          BY <1>14, <4>1, <5>2
        <5>3. CASE h = g /\ j = 0 /\ d = "waiting"
          BY <1>15, <3>5, <4>1, <5>3
        <5>4. CASE h = g /\ j = 0 /\ d \in {"sent", "sent waiting"}
          BY <1>16, <5>4
        <5>5. CASE h = g /\ j \in Follower
          BY <1>17, <4>1, <5>5, Ranks
        <5>6. QED
          BY <5>1, <5>2, <5>3, <5>4, <5>5 DEF Follower, Kind
      <4>3. Only(s, "waiting", g, 0, 1)'
        BY <4>2 DEF Only
      <4>4. QED
        BY <1>13, <3>2, <3>5, <4>3, Found, Ranks
    <3>6. CASE ~ (a = g /\ b \in Follower /\ c \in {"sent", "sent waiting"})
      <4>1. \A j \in Follower : ~ At(s, "sent", g, j, 1) /\ ~ At(s, "sent waiting", g, j, 1)
        BY <1>13, <3>3, <3>6, Ranks
      <4>2. ASSUME NEW d \in Kind, NEW h \in Group, NEW j \in Rank, NEW l \in Slot
            PROVE  At(s, d, h, j, l)' <=> At(s, d, h, j, l)
        <5>1. CASE h # g
          BY <1>12, <5>1
        <5>2. CASE h = g /\ j = 0 /\ d = "queue"
          <6>1. At(s, "queue", g, 0, l) => l = 1
            BY <1>3, Ranks DEF At
          <6>2. QED
            BY <1>14, <4>1, <5>2, <6>1
        <5>3. CASE h = g /\ j = 0 /\ d = "waiting"
          <6>1. At(s, "waiting", g, 0, l) => l = 1
            BY DEF At
          <6>2. QED
            BY <1>15, <4>1, <5>3, <6>1
        <5>4. CASE h = g /\ j = 0 /\ d \in {"sent", "sent waiting"}
          BY <1>16, <5>4
        <5>5. CASE h = g /\ j \in Follower
          <6>1. At(s, d, g, j, l) => d = "waiting"
            BY <1>17, <4>1, <5>5 DEF Kind
          <6>2. QED
            BY <1>17, <5>5, <6>1
        <5>6. QED
          BY <5>1, <5>2, <5>3, <5>4, <5>5 DEF Follower, Kind
      <4>3. Only(s, c, a, b, m)'
        BY <3>3, <4>2 DEF Only
      <4>4. QED
        BY <3>2, <4>3, Found
    <3>7. QED
      BY <3>4, <3>5, <3>6
  <2>3. QED
    BY <2>1, <2>2 DEF OwnerInv, Owned, Sole
<1>19. QED
  BY <1>10, <1>18 DEF OwnerInv, Owned

-----------------------------------------------------------------------------
(* All steps.                                                              *)

LEMMA NextOwner == IInv /\ Data /\ Fresh /\ OwnerInv /\ [Next]_vars => OwnerInv'
<1> SUFFICES ASSUME IInv, Data, Fresh, OwnerInv, [Next]_vars PROVE OwnerInv'
  OBVIOUS
<1>1. CASE Lead
  BY <1>1, LeadOwner
<1>2. ASSUME NEW g \in Group, Ask(g) \/ Drive(g) PROVE OwnerInv'
  BY <1>2, AskOwner, MergeOwner, EnterBalloonOwner, ReloadedOwner, RestoreInstanceOwner,
     SplitEngineOwner, TriggerInitOwner, StopFollowerOwner, TakePropertiesOwner,
     SetPropertiesOwner DEF Drive
<1>3. ASSUME NEW g \in Group, NEW i \in Rank, NEW r \in Req, Dispatch(g, i, r) PROVE OwnerInv'
  BY <1>3, DispatchOwner
<1>4. ASSUME NEW g \in Group, NEW i \in Rank, NEW k \in 1 .. MaxInstances,
             \/ StartStep(g, i, k) \/ EndStep(g, i, k)
             \/ \E r \in Req : Accept(g, i, k, r)
      PROVE  OwnerInv'
  <2>1. k \in Slot
    BY DEF Slot
  <2>2. QED
    BY <1>4, <2>1, StartStepOwner, EndStepOwner, AcceptOwner
<1>5. CASE UNCHANGED vars
  <2>1. \A g \in Group, i \in Rank : Same(g, i)
    BY <1>5 DEF vars, Same
  <2>2. QED
    BY <1>5, <2>1, Unmoved DEF vars
<1>6. QED
  BY <1>1, <1>2, <1>3, <1>4, <1>5 DEF Next

\* The three sets of places that are counted.
LEMMA Counted ==
  ASSUME Data, OwnerInv, NEW r \in arrived
  PROVE  Owners(r) = IF Placed(r) THEN 1 ELSE 0
<1> DEFINE Q == {p \in Queued(r) : ~ Copied(p[1], p[2])}
           W == Waiting(r)
           T == InTransit(r)
<1>1. ASSUME NEW p \in Group \X Rank \X Slot
      PROVE  p \in Q <=> At(r, "queue", p[1], p[2], p[3])
  BY DEF Queued, At, Slot
<1>2. ASSUME NEW p \in Group \X Rank
      PROVE  p \in W <=> At(r, "waiting", p[1], p[2], 1)
  BY DEF Waiting, At
<1>3. ASSUME NEW p \in Group \X Follower
      PROVE  p \in T <=> \/ At(r, "sent", p[1], p[2], 1)
                         \/ At(r, "sent waiting", p[1], p[2], 1)
  BY DEF InTransit, At, Follower
<1>4. Q \subseteq Group \X Rank \X Slot /\ W \subseteq Group \X Rank /\ T \subseteq Group \X Follower
  BY DEF Queued, Waiting, InTransit, Slot
<1>5. r \in Req /\ Sole(r)
  BY DEF Data, TypeOK, OwnerInv, Owned
<1>6. {"queue", "waiting", "sent", "sent waiting"} = Kind /\ 1 \in Slot
  BY Ranked DEF Kind, Slot
<1>7. /\ \A p \in Group \X Rank \X Slot :
           p[1] \in Group /\ p[2] \in Rank /\ p[3] \in Slot /\ p = <<p[1], p[2], p[3]>>
      /\ \A p \in Group \X Rank : p[1] \in Group /\ p[2] \in Rank /\ p = <<p[1], p[2]>>
      /\ \A p \in Group \X Follower : p[1] \in Group /\ p[2] \in Rank /\ p = <<p[1], p[2]>>
  BY Ranks
<1> HIDE DEF Q, W, T
<1>8. CASE Absent(r)
  <2>1. \A d \in Kind, h \in Group, j \in Rank, l \in Slot : ~ At(r, d, h, j, l)
    BY <1>8 DEF Absent
  <2>2. Q = {} /\ W = {} /\ T = {}
    BY <1>1, <1>2, <1>3, <1>4, <1>6, <1>7, <2>1
  <2>3. ~ Placed(r)
    BY <2>1 DEF Placed, Only
  <2>4. QED
    BY <2>2, <2>3, FS_EmptySet DEF Owners, Q, W, T
<1>9. CASE Placed(r)
  <2>1. PICK c \in Kind, g \in Group, i \in Rank, k \in Slot : Only(r, c, g, i, k)
    BY <1>9 DEF Placed
  <2>2. ASSUME NEW d \in Kind, NEW h \in Group, NEW j \in Rank, NEW l \in Slot
        PROVE  At(r, d, h, j, l) <=> d = c /\ h = g /\ j = i /\ l = k
    BY <2>1 DEF Only
  <2>3. At(r, c, g, i, k)
    BY <2>2
  <2>4. c # "queue" => Q = {}
    <3>1. ASSUME c # "queue", NEW p \in Group \X Rank \X Slot PROVE p \notin Q
      BY <1>1, <1>6, <1>7, <2>2, <3>1
    <3>2. QED
      BY <1>4, <3>1
  <2>5. c # "waiting" => W = {}
    <3>1. ASSUME c # "waiting", NEW p \in Group \X Rank PROVE p \notin W
      BY <1>2, <1>6, <1>7, <2>2, <3>1
    <3>2. QED
      BY <1>4, <3>1
  <2>6. c \notin {"sent", "sent waiting"} => T = {}
    <3>1. ASSUME c \notin {"sent", "sent waiting"}, NEW p \in Group \X Follower PROVE p \notin T
      BY <1>3, <1>6, <1>7, <2>2, <3>1
    <3>2. QED
      BY <1>4, <3>1
  <2>7. CASE c = "queue"
    <3>1. ASSUME NEW p \in Group \X Rank \X Slot PROVE p \in Q <=> p = <<g, i, k>>
      <4>1. p \in Q <=> p[1] = g /\ p[2] = i /\ p[3] = k
        BY <1>1, <1>6, <1>7, <2>2, <2>7
      <4>2. p = <<p[1], p[2], p[3]>>
        BY <1>7
      <4>3. QED
        BY <4>1, <4>2
    <3>2. <<g, i, k>> \in Group \X Rank \X Slot
      OBVIOUS
    <3>3. Q = {<<g, i, k>>} /\ W = {} /\ T = {}
      BY <1>4, <2>5, <2>6, <2>7, <3>1, <3>2
    <3>4. Cardinality(Q) = 1 /\ Cardinality(W) = 0 /\ Cardinality(T) = 0
      BY <3>3, FS_EmptySet, FS_Singleton
    <3>5. QED
      BY <1>9, <3>4 DEF Owners, Q, W, T
  <2>8. CASE c = "waiting"
    <3>1. k = 1
      BY <2>3, <2>8 DEF At
    <3>2. ASSUME NEW p \in Group \X Rank PROVE p \in W <=> p = <<g, i>>
      <4>1. p \in W <=> p[1] = g /\ p[2] = i
        <5>1. p[1] \in Group /\ p[2] \in Rank
          BY <1>7
        <5>2. At(r, "waiting", p[1], p[2], 1) <=> p[1] = g /\ p[2] = i
          BY <1>6, <2>2, <2>8, <3>1, <5>1
        <5>3. QED
          BY <1>2, <5>2
      <4>2. p = <<p[1], p[2]>>
        BY <1>7
      <4>3. QED
        BY <4>1, <4>2
    <3>3. <<g, i>> \in Group \X Rank
      OBVIOUS
    <3>4. W = {<<g, i>>} /\ Q = {} /\ T = {}
      BY <1>4, <2>4, <2>6, <2>8, <3>2, <3>3
    <3>5. Cardinality(Q) = 0 /\ Cardinality(W) = 1 /\ Cardinality(T) = 0
      BY <3>4, FS_EmptySet, FS_Singleton
    <3>6. QED
      BY <1>9, <3>5 DEF Owners, Q, W, T
  <2>9. CASE c \in {"sent", "sent waiting"}
    <3>1. k = 1 /\ i \in Follower
      BY <2>3, <2>9 DEF At, Follower
    <3>2. ASSUME NEW p \in Group \X Follower PROVE p \in T <=> p = <<g, i>>
      <4>1. p \in T <=> p[1] = g /\ p[2] = i
        <5>1. p[1] \in Group /\ p[2] \in Rank
          BY <1>7
        <5>2. /\ At(r, "sent", p[1], p[2], 1) <=> c = "sent" /\ p[1] = g /\ p[2] = i
              /\ At(r, "sent waiting", p[1], p[2], 1) <=> c = "sent waiting" /\ p[1] = g /\ p[2] = i
          BY <1>6, <2>2, <3>1, <5>1
        <5>3. QED
          BY <1>3, <2>9, <5>2
      <4>2. p = <<p[1], p[2]>>
        BY <1>7
      <4>3. QED
        BY <4>1, <4>2
    <3>3. <<g, i>> \in Group \X Follower
      BY <3>1
    <3>4. T = {<<g, i>>} /\ Q = {} /\ W = {}
      BY <1>4, <2>4, <2>5, <2>9, <3>2, <3>3
    <3>5. Cardinality(Q) = 0 /\ Cardinality(W) = 0 /\ Cardinality(T) = 1
      BY <3>4, FS_EmptySet, FS_Singleton
    <3>6. QED
      BY <1>9, <3>5 DEF Owners, Q, W, T
  <2>10. QED
    BY <2>7, <2>8, <2>9 DEF Kind
<1>10. QED
  BY <1>5, <1>8, <1>9 DEF Sole

\* The owners of a system in which no group is merged again before it is split.
LEMMA OwnersKept == Spec /\ []Fresh => [](Data /\ OwnerInv)
  BY InitIInv, NextIInv, InitData, NextData, InitOwner, NextOwner, PTL DEF Spec

-----------------------------------------------------------------------------
(* The only group of a system is merged from INITIAL: the answer that      *)
(* orders the balloon is its own, and still true when the order is given.  *)

Votes ==
    /\ \A e \in events : e.event = "balloon" => e.state = "initial"
    /\ \A e, f \in events : e.group = f.group => e = f
    /\ turn = "init" => \E e \in events : e.event = "init"

LEMMA InitVotes == Init => Votes /\ Fresh
  BY DEF Init, Votes, Fresh

LEMMA NextVotes == IInv /\ Votes /\ [Next]_vars => Votes'
<1> SUFFICES ASSUME IInv, Votes, [Next]_vars PROVE Votes'
  OBVIOUS
<1>1. ASSUME NEW g \in Group, Ask(g) PROVE Votes'
  <2>1. PICK e : /\ events' = events \cup {e} /\ e.group = g
                 /\ e.event = "balloon" => e.state = "initial"
    <3>1. CASE AskInitial(g)
      <4>1. PICK kind \in {"balloon", "keep"} :
              events' = events \cup {[group |-> g, state |-> state[g], event |-> kind]}
        BY <3>1 DEF AskInitial, Answer
      <4> DEFINE e == [group |-> g, state |-> state[g], event |-> kind]
      <4>2. state[g] = "initial"
        BY <3>1 DEF AskInitial
      <4>3. e.group = g /\ e.state = state[g]
        OBVIOUS
      <4>4. events' = events \cup {e}
        BY <4>1
      <4> HIDE DEF e
      <4>5. QED
        BY <4>2, <4>3, <4>4
    <3>2. CASE AskLeader(g)
      <4>1. PICK kind \in {"restore", "init", "keep"} :
              events' = events \cup {[group |-> g, state |-> state[g], event |-> kind]}
        BY <3>2 DEF AskLeader, Answer
      <4> DEFINE e == [group |-> g, state |-> state[g], event |-> kind]
      <4>2. e.group = g /\ e.event # "balloon"
        OBVIOUS
      <4>3. events' = events \cup {e}
        BY <4>1
      <4> HIDE DEF e
      <4>4. QED
        BY <4>2, <4>3
    <3>3. QED
      BY <1>1, <3>1, <3>2 DEF Ask
  <2>2. \A f \in events : f.group # g
    BY <1>1 DEF Ask, Asked
  <2>3. turn' = "poll"
    BY <1>1 DEF Ask
  <2>4. QED
    BY <2>1, <2>2, <2>3 DEF Votes
<1>2. CASE BeginInit
  BY <1>2 DEF BeginInit, Wants, Votes
<1>3. CASE BeginBalloon \/ BeginRestore \/ Sleep
  BY <1>3 DEF BeginBalloon, BeginRestore, Sleep, Votes
<1>4. ASSUME NEW g \in Group, Drive(g) PROVE Votes'
  <2>1. UNCHANGED <<events, turn>>
    BY <1>4 DEF Drive, Merge, EnterBalloon, Reloaded, RestoreInstance, SplitEngine,
                TriggerInit, StopFollower, TakeProperties, SetProperties
  <2>2. QED
    BY <2>1 DEF Votes
<1>5. ASSUME NEW g \in Group, NEW i \in Rank,
             \/ \E r \in Req : Dispatch(g, i, r)
             \/ \E k \in 1 .. MaxInstances :
                  \/ StartStep(g, i, k) \/ EndStep(g, i, k)
                  \/ \E r \in Req : Accept(g, i, k, r)
      PROVE  Votes'
  <2>1. UNCHANGED <<events, turn>>
    BY <1>5 DEF Dispatch, StartStep, EndStep, Accept
  <2>2. QED
    BY <2>1 DEF Votes
<1>6. CASE UNCHANGED vars
  BY <1>6 DEF vars, Votes
<1>7. QED
  BY <1>1, <1>2, <1>3, <1>4, <1>5, <1>6 DEF Next, Lead

\* The leader of a group that is being merged is as wide as before.
LEMMA WidthKept ==
  ASSUME IInv, Data, NEW g \in Group, routine'[g] = "merge", ~ BeginBalloon, [Next]_vars
  PROVE  routine[g] = "merge" /\ engine'[g][0].instances = engine[g][0].instances
<1>1. ~ Lead
  <2>1. ~ BeginInit
    BY DEF BeginInit, Polled, Idle, IInv, Orders, InStep
  <2>2. ~ BeginRestore
    BY DecidedIdle DEF BeginRestore
  <2>3. ~ Sleep
    BY DecidedIdle DEF Sleep, Idle
  <2>4. QED
    BY <2>1, <2>2, <2>3 DEF Lead
<1>2. \A h \in Group : engine[h][0] \in Engine
  BY Ranks DEF Data, TypeOK
<1>3. ASSUME NEW h \in Group, Ask(h) \/ Drive(h)
      PROVE  routine[g] = "merge" /\ engine'[g][0] = engine[g][0]
  <2>1. ~ Ask(h)
    BY DEF Ask, IInv, Orders, InStep, Idle
  <2>2. CASE h = g
    <3>1. ~ (Merge(g) \/ EnterBalloon(g) \/ Reloaded(g) \/ RestoreInstance(g)
               \/ SplitEngine(g) \/ TriggerInit(g))
      BY DEF Merge, EnterBalloon, Reloaded, RestoreInstance, SplitEngine, TriggerInit, Data, TypeOK
    <3>2. PICK i \in Follower : StopFollower(g, i) \/ TakeProperties(g, i) \/ SetProperties(g, i)
      BY <1>3, <2>1, <2>2, <3>1 DEF Drive
    <3>3. QED
      BY <3>2, Ranks DEF StopFollower, TakeProperties, SetProperties, Data, TypeOK
  <2>3. CASE h # g
    <3>1. routine'[g] = routine[g] /\ engine'[g] = engine[g]
      BY <1>3, <2>1, <2>3 DEF Drive, Merge, EnterBalloon, Reloaded, RestoreInstance, SplitEngine,
         TriggerInit, StopFollower, TakeProperties, SetProperties, Data, TypeOK
    <3>2. QED
      BY <3>1
  <2>4. QED
    BY <2>2, <2>3
<1>4. ASSUME NEW h \in Group, NEW i \in Rank,
             \/ \E r \in Req : Dispatch(h, i, r)
             \/ \E k \in 1 .. MaxInstances :
                  \/ StartStep(h, i, k) \/ EndStep(h, i, k)
                  \/ \E r \in Req : Accept(h, i, k, r)
      PROVE  routine[g] = "merge" /\ engine'[g][0].instances = engine[g][0].instances
  <2>1. routine' = routine
    BY <1>4 DEF Dispatch, StartStep, EndStep, Accept
  <2>2. engine'[g][0].instances = engine[g][0].instances
    <3>1. engine \in [Group -> [Rank -> Engine]] /\ engine[g][0] \in Engine
      BY Ranks DEF Data, TypeOK
    <3>2. ASSUME NEW r \in Req, Dispatch(h, i, r)
          PROVE  engine'[g][0].instances = engine[g][0].instances
      <4>1. CASE LookAhead
        <5>1. engine' = [engine EXCEPT ![h][i].pending = @ \cup {r}]
          BY <3>2, <4>1 DEF Dispatch
        <5>2. QED
          BY <3>1, <5>1, Ranks DEF Engine
      <4>2. CASE ~ LookAhead
        <5>1. PICK k \in LeastLoaded(engine[h][i]) :
                engine' = [engine EXCEPT ![h][i].queues[k] = @ \cup {r}]
          BY <3>2, <4>2 DEF Dispatch
        <5>2. QED
          BY <3>1, <5>1, Ranks DEF Engine
      <4>3. QED
        BY <4>1, <4>2
    <3>3. ASSUME NEW k \in 1 .. MaxInstances, StartStep(h, i, k)
          PROVE  engine'[g][0].instances = engine[g][0].instances
      BY <3>1, <3>3, Ranks DEF StartStep, Engine
    <3>4. ASSUME NEW k \in 1 .. MaxInstances, EndStep(h, i, k)
          PROVE  engine'[g][0].instances = engine[g][0].instances
      BY <3>1, <3>4, Ranks DEF EndStep, Engine
    <3>5. ASSUME NEW k \in 1 .. MaxInstances, NEW r \in Req, Accept(h, i, k, r)
          PROVE  engine'[g][0].instances = engine[g][0].instances
      BY <3>1, <3>5, Ranks DEF Accept, Engine
    <3>6. QED
      BY <1>4, <3>2, <3>3, <3>4, <3>5
  <2>3. QED
    BY <2>1, <2>2
<1>5. CASE UNCHANGED vars
  BY <1>5 DEF vars
<1>6. QED
  BY <1>1, <1>3, <1>4, <1>5 DEF Next

LEMMA NextFresh ==
  Alone /\ IInv /\ Data /\ Votes /\ Fresh /\ [Next]_vars => Fresh'
<1> SUFFICES ASSUME Alone, IInv, Data, Votes, Fresh, [Next]_vars, NEW g \in Group,
                    routine'[g] = "merge"
             PROVE  engine'[g][0].instances = 1
  BY DEF Fresh
<1>1. CASE BeginBalloon
  <2>1. PICK e \in events : e.event = "balloon" /\ e.state = "initial"
    BY <1>1 DEF BeginBalloon, Wants, Votes
  <2>2. \A f \in events : f = e
    <3>1. \A f \in events : f.group \in Group
      BY DEF IInv, Orders, Answers
    <3>2. QED
      BY <3>1 DEF Votes, Alone
  <2>3. turn = "poll"
    <3>1. turn # "init"
      BY <2>1, <2>2 DEF Votes
    <3>2. QED
      BY <1>1, <3>1, DecidedIdle DEF BeginBalloon
  <2>4. state[g] = "initial"
    <3>1. e.group \in Group /\ e.state = state[e.group]
      BY <2>3 DEF IInv, Orders, Answers
    <3>2. e.group = g
      BY <3>1 DEF Alone
    <3>3. QED
      BY <2>1, <3>1, <3>2
  <2>5. engine[g][0].instances = 1
    BY <2>4 DEF Data, Widths, Wide
  <2>6. QED
    BY <1>1, <2>5 DEF BeginBalloon
<1>2. CASE ~ BeginBalloon
  BY <1>2, WidthKept DEF Fresh
<1>3. QED
  BY <1>1, <1>2

LEMMA FreshAlways == Alone /\ Spec => []Fresh
<1> SUFFICES ASSUME Alone PROVE Spec => []Fresh
  OBVIOUS
<1>1. IInv /\ Data /\ Votes /\ Fresh /\ [Next]_vars => Fresh'
  BY NextFresh
<1>2. QED
  BY <1>1, InitIInv, NextIInv, InitData, NextData, InitVotes, NextVotes, PTL DEF Spec

-----------------------------------------------------------------------------
(* The theorems.                                                           *)

\* A request is in exactly one place until it finishes, through every merge and every
\* split (merge_engine, split_engine, set_instance_properties), wherever it is sent, in
\* a system of one group (--ngroups is 1, kunserve_config.py:47) with look-ahead.
THEOREM OwnerTheorem == Alone /\ LookAhead /\ Spec => []OneOwner
<1> SUFFICES ASSUME Alone, LookAhead PROVE Spec => []OneOwner
  OBVIOUS
<1>1. Data /\ OwnerInv => OneOwner
  <2>1. ASSUME Data, OwnerInv, NEW r \in arrived
        PROVE  Placed(r) <=> r \notin served
    BY <2>1 DEF Data, TypeOK, OwnerInv, Owned, Sole, Placed, Absent, Lossy
  <2>2. QED
    BY <2>1, Counted DEF OneOwner
<1>2. Spec => []Fresh
  BY FreshAlways
<1>3. QED
  BY <1>1, <1>2, OwnersKept, PTL

\* Without look-ahead a request that is sent to a merged follower gets lost, but none
\* is ever in two places, and none that finished is anywhere, in a system of one group.
THEOREM DoubleTheorem == Alone /\ Spec => []NotDoubled
<1> SUFFICES ASSUME Alone PROVE Spec => []NotDoubled
  OBVIOUS
<1>1. Data /\ OwnerInv => NotDoubled
  <2>1. ASSUME NEW r \in arrived, Placed(r) PROVE r \notin served
    BY <2>1 DEF Placed
  <2>2. QED
    BY <2>1, Counted DEF NotDoubled
<1>2. Spec => []Fresh
  BY FreshAlways
<1>3. QED
  BY <1>1, <1>2, OwnersKept, PTL

=============================================================================
