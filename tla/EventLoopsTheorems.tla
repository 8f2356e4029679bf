------------------------- MODULE EventLoopsTheorems -------------------------
(***************************************************************************)
(* Type correctness of EventLoops, DriverAlone and RanksFollow, for every  *)
(* size of a group and every number of virtual engines.                    *)
(*                                                                         *)
(* DriverAlone is not inductive: that no step is in flight on an engine    *)
(* stays true only because the engine is stopped, and it becomes true      *)
(* because an event loop ends only when its steps have.  Inv says which    *)
(* engines are stopped and quiet during each routine of the driver.        *)
(***************************************************************************)
EXTENDS EventLoops, TLAPS

Quiet(i) == \A v \in Ve : task[i][v] \notin {"forward", "answered"}
Still(i) == stopped[i] /\ Quiet(i)

\* An instance without a running loop has no steps.
LoopOwnsSteps ==
  \A i \in Rank : loop[i] # "on" => \A v \in Ve : task[i][v] = "none"

\* The monitor starts again only loops that have ended, each of them once.
SeenEnded ==
  /\ \A i \in todo : loop[i] = "off"
  /\ asked # None => loop[asked] = "off" /\ asked \notin todo

\* The driver is at work exactly while the state is "stop".
Busy ==
  /\ state = "stop" <=> routine # "none"
  /\ routine = "merge" => called \subseteq Follower

\* Who is stopped, and who has no step in flight.
FollowersStill ==
  state \in {"balloon", "restore"} \/
  routine \in {"drop", "stop to restore", "restore", "stop to init", "split"} =>
    \A i \in Follower : Still(i)

CalledStill == routine = "merge" => \A i \in called : Still(i)

CalledStopped ==
  routine \in {"stop to restore", "stop to init"} => \A i \in called : stopped[i]

LeaderStill == routine \in {"restore", "split"} => Still(0)

UncalledStill ==
  routine = "start" =>
    \A i \in Rank : IF i \in called THEN ~ stopped[i] ELSE Still(i)

Stills == FollowersStill /\ CalledStill /\ CalledStopped /\ LeaderStill /\ UncalledStill

Inv == TypeOK /\ LoopOwnsSteps /\ SeenEnded /\ Busy /\ RanksFollow /\ Stills

-----------------------------------------------------------------------------
LEMMA Ranks ==
  /\ 0 \in Rank /\ Size * Pp \in Nat
  /\ Follower \subseteq Rank
  /\ \A i \in Rank : i \in Follower <=> i # 0
  /\ None \notin Rank
<1>1. Size \in Nat /\ Size > 0 /\ Pp \in Nat
  BY LoopsAssumption
<1>2. Size * Pp \in Nat
  BY <1>1
<1> QED
  BY <1>1, <1>2 DEF Rank, Follower, None

LEMMA InitInv == Init => Inv
<1> SUFFICES ASSUME Init PROVE Inv
  OBVIOUS
<1>1. TypeOK
  BY Ranks, LoopsAssumption DEF Init, TypeOK, None, Own, Rank, Stage
<1>2. RanksFollow
  BY DEF Init, RanksFollow
<1> QED
  BY <1>1, <1>2, Ranks
     DEF Init, Inv, LoopOwnsSteps, SeenEnded, Busy, Stills, FollowersStill, CalledStill,
         CalledStopped, LeaderStill, UncalledStill, None

-----------------------------------------------------------------------------
(* The ranks of the workers.                                               *)

\* The place of a worker while its group is one pipeline.
Piped(i, j) == [pp_size |-> Size * Pp, rp_size |-> 1, pp_rank |-> i * Pp + j, rp_rank |-> 0]

LEMMA Division ==
  ASSUME NEW q \in Nat, NEW b \in Nat \ {0}, NEW r \in 0 .. b - 1
  PROVE  (b * q + r) % b = r /\ (b * q + r) \div b = q
<1>1. b * q \in Nat
  OBVIOUS
<1> QED
  BY <1>1

\* The rank in the group lies below the length of the pipeline.
LEMMA RankBounded ==
  ASSUME NEW i \in Rank, NEW j \in Stage
  PROVE  /\ i \in Nat /\ j \in Nat /\ Size * Pp \in Nat \ {0}
         /\ i * Pp + j \in 0 .. Size * Pp - 1
<1>1. i \in 0 .. Size - 1 /\ j \in 0 .. Pp - 1 /\ Size \in Nat \ {0, 1} /\ Pp \in Nat \ {0}
  BY LoopsAssumption DEF Rank, Stage
<1>2. (Size - 1 - i) * Pp \in Nat
  BY <1>1
<1>3. (Size - 1 - i) * Pp = Size * Pp - Pp - i * Pp
  BY <1>1
<1>4. i * Pp \in Nat /\ Size * Pp \in Nat
  BY <1>1
<1>5. i * Pp + Pp <= Size * Pp
  BY <1>1, <1>2, <1>3, <1>4
<1> QED
  BY <1>1, <1>4, <1>5

\* One long pipeline: ranks in the group are ranks in the pipeline.
LEMMA DropRank ==
  ASSUME NEW i \in Rank, NEW j \in Stage
  PROVE  PmmDrop(Own(i, j)) = Piped(i, j)
<1>1. /\ i \in Nat /\ j \in Nat /\ Size * Pp \in Nat \ {0}
      /\ i * Pp + j \in 0 .. Size * Pp - 1
  BY RankBounded
<1>2. Size \in Nat \ {0} /\ Pp \in Nat
  BY LoopsAssumption
<1>3. Pp * Size = Size * Pp /\ Pp * i = i * Pp
  BY <1>1, <1>2
<1>4. Size \div Size = 1
  BY <1>2
<1>5. (i * Pp + j) % (Size * Pp) = i * Pp + j /\ (i * Pp + j) \div (Size * Pp) = 0
  <2> DEFINE b == Size * Pp
             r == i * Pp + j
  <2>1. b \in Nat \ {0} /\ r \in 0 .. b - 1
    BY <1>1
  <2>2. (b * 0 + r) % b = r /\ (b * 0 + r) \div b = 0
    <3> HIDE DEF b, r
    <3> QED
      BY <2>1, Division
  <2>3. b * 0 + r = r
    <3> HIDE DEF b, r
    <3> QED
      BY <2>1
  <2> QED
    BY <2>2, <2>3
<1> QED
  BY <1>3, <1>4, <1>5 DEF PmmDrop, Reranked, Own, Piped

\* And back.
LEMMA RestoreRank ==
  ASSUME NEW i \in Rank, NEW j \in Stage
  PROVE  PmmRestore(Piped(i, j)) = Own(i, j)
<1>1. i \in Nat /\ j \in 0 .. Pp - 1 /\ Size \in Nat \ {0} /\ Pp \in Nat \ {0}
  BY RankBounded, LoopsAssumption DEF Stage
<1>2. (Size * Pp) \div Size = Pp
  <2>1. (Size * Pp + 0) \div Size = Pp
    BY <1>1, Division
  <2> QED
    BY <1>1, <2>1
<1>3. 1 * Size = Size
  BY <1>1
<1>4. (Size * Pp) * 0 + (i * Pp + j) = Pp * i + j
  BY <1>1
<1>5. (Pp * i + j) % Pp = j /\ (Pp * i + j) \div Pp = i
  BY <1>1, Division
<1> QED
  BY <1>2, <1>3, <1>4, <1>5 DEF PmmRestore, Reranked, Own, Piped

LEMMA RankTypes ==
  \A i \in Rank, j \in Stage :
    {Own(i, j), Piped(i, j)} \subseteq [pp_size : Nat, rp_size : Nat, pp_rank : Nat,
                                       rp_rank : Nat]
BY RankBounded, LoopsAssumption DEF Own, Piped

-----------------------------------------------------------------------------
(* Types.                                                                  *)

LEMMA TypeStep == TypeOK /\ Busy /\ RanksFollow /\ [Next]_vars => TypeOK'
<1> USE Ranks DEF TypeOK, shape
<1> SUFFICES ASSUME TypeOK, Busy, RanksFollow, [Next]_vars PROVE TypeOK'
  OBVIOUS
<1>1. ASSUME NEW i \in Rank, EventLoop(i) PROVE TypeOK'
  <2>1. CASE StartLoop(i)
    BY <2>1 DEF StartLoop, driver, monitor
  <2>2. ASSUME NEW v \in Ve, BeginStep(i, v) PROVE TypeOK'
    BY <2>2 DEF BeginStep, driver, monitor
  <2>3. ASSUME NEW v \in Ve, Answer(i, v) PROVE TypeOK'
    BY <2>3 DEF Answer, driver, monitor
  <2>4. ASSUME NEW v \in Ve, EndStep(i, v) PROVE TypeOK'
    BY <2>4 DEF EndStep, driver, monitor
  <2>5. CASE EndLoop(i)
    BY <2>5 DEF EndLoop, driver, monitor
  <2>6. CASE Relaunch(i)
    BY <2>6 DEF Relaunch, driver, monitor
  <2> QED
    BY <1>1, <2>1, <2>2, <2>3, <2>4, <2>5, <2>6 DEF EventLoop, Step
<1>2. CASE Monitor
  BY <1>2 DEF Monitor, Poll, AskStopped, RestartLoop, driver, loops, monitor
<1>3. CASE Vote
  BY <1>3 DEF Vote, loops, monitor
<1>4. CASE BeginRestore \/ BeginInit
  <2>1. CASE BeginRestore
    <3>1. \A i \in Rank, j \in Stage : PmmRestore(para[i][j]) = Own(i, j)
      <4>1. \A i \in Rank, j \in Stage : para[i][j] = Piped(i, j)
        BY <2>1 DEF BeginRestore, BeginStop, RanksFollow, Piped
      <4> QED
        BY <4>1, RestoreRank
    <3>2. para' = [i \in Rank |-> [j \in Stage |-> PmmRestore(para[i][j])]]
      BY <2>1 DEF BeginRestore
    <3>3. para' \in [Rank -> [Stage -> [pp_size : Nat, rp_size : Nat, pp_rank : Nat,
                                        rp_rank : Nat]]]
      <4> HIDE DEF TypeOK
      <4> QED
        BY <3>1, <3>2, RankTypes
    <3> QED
      BY <2>1, <3>3 DEF BeginRestore, BeginStop, loops, monitor
  <2>2. CASE BeginInit
    BY <2>2 DEF BeginInit, BeginStop, loops, monitor
  <2> QED
    BY <1>4, <2>1, <2>2
<1>5. CASE Drive
  <2>1. ASSUME NEW i \in Follower, StopFollower(i) \/ GetProperties(i) PROVE TypeOK'
    BY <2>1 DEF StopFollower, GetProperties, driver, loops, monitor
  <2>2. ASSUME NEW i \in Rank, Drop(i) \/ Stop(i) \/ Start(i) PROVE TypeOK'
    <3>1. CASE Drop(i)
      <4>1. \A j \in Stage : PmmDrop(para[i][j]) = Piped(i, j)
        BY <3>1, DropRank DEF Drop, Busy, RanksFollow
      <4>2. para' \in [Rank -> [Stage -> [pp_size : Nat, rp_size : Nat, pp_rank : Nat,
                                          rp_rank : Nat]]]
        BY <3>1, <4>1, RankTypes DEF Drop
      <4> QED
        BY <3>1, <4>2 DEF Drop, loops, monitor
    <3> QED
      BY <2>2, <3>1 DEF Stop, Start, loops, monitor
  <2>3. CASE Merge
    BY <2>3 DEF Merge, loops, monitor
  <2>4. CASE EnterBalloon
    BY <2>4 DEF EnterBalloon, loops, monitor
  <2>5. CASE Stopped
    BY <2>5 DEF Stopped, loops, monitor
  <2>6. CASE RestoreInstance
    BY <2>6 DEF RestoreInstance, loops, monitor
  <2>7. CASE Split
    BY <2>7, LoopsAssumption DEF Split, loops, monitor
  <2>8. CASE EnterInitial
    BY <2>8 DEF EnterInitial, loops, monitor
  <2> QED
    BY <1>5, <2>1, <2>2, <2>3, <2>4, <2>5, <2>6, <2>7, <2>8 DEF Drive
<1>6. CASE UNCHANGED vars
  BY <1>6 DEF vars, driver, loops, monitor
<1> QED
  BY <1>1, <1>2, <1>3, <1>4, <1>5, <1>6 DEF Next

-----------------------------------------------------------------------------
(* Where the workers are.                                                  *)

LEMMA RanksFollowStep ==
  TypeOK /\ Busy /\ RanksFollow /\ [Next]_vars => RanksFollow'
<1> SUFFICES ASSUME TypeOK, Busy, RanksFollow, [Next]_vars PROVE RanksFollow'
  OBVIOUS
<1> USE Ranks DEF TypeOK, Busy, RanksFollow, shape
<1>1. CASE UNCHANGED <<state, routine, dropped, para>>
  BY <1>1
<1>2. ASSUME NEW i \in Rank, EventLoop(i) PROVE RanksFollow'
  BY <1>1, <1>2 DEF EventLoop, StartLoop, Step, BeginStep, Answer, EndStep, EndLoop,
                    Relaunch, driver
<1>3. CASE Monitor
  BY <1>1, <1>3 DEF Monitor, Poll, AskStopped, RestartLoop, driver
<1>4. CASE Vote
  BY <1>4 DEF Vote
<1>5. CASE BeginRestore
  BY <1>5, RestoreRank DEF BeginRestore, BeginStop, Piped
<1>6. CASE BeginInit
  BY <1>6 DEF BeginInit, BeginStop
<1>7. ASSUME NEW i \in Rank, Drop(i) PROVE RanksFollow'
  <2>1. \A j \in Stage : para'[i][j] = Piped(i, j)
    BY <1>7, DropRank DEF Drop
  <2> QED
    BY <1>7, <2>1 DEF Drop, Piped
<1>8. CASE Drive
  BY <1>1, <1>7, <1>8 DEF Drive, StopFollower, GetProperties, Stop, Start, Merge,
       EnterBalloon, Stopped, RestoreInstance, Split, EnterInitial, driver
<1>9. CASE UNCHANGED vars
  BY <1>1, <1>9 DEF vars, driver
<1> QED
  BY <1>2, <1>3, <1>4, <1>5, <1>6, <1>8, <1>9 DEF Next

-----------------------------------------------------------------------------
(* What a step of a loop does to the other facts.                          *)

\* A step of an engine that is stopped comes to its end and no other begins.
LEMMA LoopStill ==
  ASSUME TypeOK, LoopOwnsSteps, NEW i \in Rank, EventLoop(i), NEW j \in Rank, Still(j)
  PROVE  Still(j)'
<1> USE DEF TypeOK, Still, Quiet
<1>1. CASE StartLoop(i)
  BY <1>1 DEF StartLoop
<1>2. ASSUME NEW v \in Ve, BeginStep(i, v) \/ Answer(i, v) \/ EndStep(i, v)
      PROVE Still(j)'
  <2>1. CASE BeginStep(i, v)
    BY <2>1 DEF BeginStep
  <2>2. CASE Answer(i, v)
    BY <2>2 DEF Answer
  <2>3. CASE EndStep(i, v)
    BY <2>3 DEF EndStep
  <2> QED
    BY <1>2, <2>1, <2>2, <2>3
<1>3. CASE EndLoop(i)
  BY <1>3 DEF EndLoop
<1>4. CASE Relaunch(i)
  BY <1>4 DEF Relaunch
<1> QED
  BY <1>1, <1>2, <1>3, <1>4 DEF EventLoop, Step

LEMMA LoopFrame ==
  ASSUME NEW i \in Rank, EventLoop(i)
  PROVE  UNCHANGED <<state, routine, called, dropped, stopped>>
BY DEF EventLoop, StartLoop, Step, BeginStep, Answer, EndStep, EndLoop, Relaunch, driver

LEMMA MonitorFrame ==
  Monitor => UNCHANGED <<state, routine, called, dropped, stopped, task>>
BY DEF Monitor, Poll, AskStopped, RestartLoop, driver, loops

LEMMA DriveFrame ==
  Vote \/ BeginRestore \/ BeginInit \/ Drive => UNCHANGED <<loop, task>>
BY DEF Vote, BeginRestore, BeginInit, BeginStop, Drive, StopFollower, GetProperties, Drop,
       Stop, Start, Merge, EnterBalloon, Stopped, RestoreInstance, Split, EnterInitial,
       loops

LEMMA LoopOwnsStepsStep ==
  TypeOK /\ LoopOwnsSteps /\ SeenEnded /\ [Next]_vars => LoopOwnsSteps'
<1> SUFFICES ASSUME TypeOK, LoopOwnsSteps, SeenEnded, [Next]_vars PROVE LoopOwnsSteps'
  OBVIOUS
<1> USE DEF TypeOK, LoopOwnsSteps
<1>1. ASSUME NEW i \in Rank, EventLoop(i) PROVE LoopOwnsSteps'
  <2>1. CASE StartLoop(i)
    BY <2>1 DEF StartLoop
  <2>2. ASSUME NEW v \in Ve, BeginStep(i, v) PROVE LoopOwnsSteps'
    BY <2>2 DEF BeginStep
  <2>3. ASSUME NEW v \in Ve, Answer(i, v) PROVE LoopOwnsSteps'
    BY <2>3 DEF Answer
  <2>4. ASSUME NEW v \in Ve, EndStep(i, v) PROVE LoopOwnsSteps'
    BY <2>4 DEF EndStep
  <2>5. CASE EndLoop(i)
    BY <2>5 DEF EndLoop
  <2>6. CASE Relaunch(i)
    BY <2>6 DEF Relaunch
  <2> QED
    BY <1>1, <2>1, <2>2, <2>3, <2>4, <2>5, <2>6 DEF EventLoop, Step
<1>2. CASE Monitor
  <2>1. CASE RestartLoop
    BY <2>1 DEF RestartLoop, SeenEnded
  <2> QED
    BY <1>2, <2>1 DEF Monitor, Poll, AskStopped, loops
<1>3. CASE Vote \/ BeginRestore \/ BeginInit \/ Drive
  BY <1>3, DriveFrame
<1>4. CASE UNCHANGED vars
  BY <1>4 DEF vars, loops
<1> QED
  BY <1>1, <1>2, <1>3, <1>4 DEF Next

LEMMA SeenEndedStep ==
  TypeOK /\ SeenEnded /\ [Next]_vars => SeenEnded'
<1> SUFFICES ASSUME TypeOK, SeenEnded, [Next]_vars PROVE SeenEnded'
  OBVIOUS
<1> USE DEF TypeOK, SeenEnded
<1>0. None \notin Rank
  BY Ranks
<1>1. ASSUME NEW i \in Rank, EventLoop(i) PROVE SeenEnded'
  BY <1>0, <1>1 DEF EventLoop, StartLoop, Step, BeginStep, Answer, EndStep, EndLoop,
                    Relaunch, monitor
<1>2. CASE Poll
  BY <1>2 DEF Poll, loops
<1>3. CASE AskStopped
  BY <1>0, <1>3 DEF AskStopped, loops
<1>4. CASE RestartLoop
  BY <1>0, <1>4 DEF RestartLoop
<1>5. CASE Vote \/ BeginRestore \/ BeginInit \/ Drive
  <2>1. UNCHANGED monitor
    BY <1>5 DEF Vote, BeginRestore, BeginInit, BeginStop, Drive, StopFollower,
                GetProperties, Drop, Stop, Start, Merge, EnterBalloon, Stopped,
                RestoreInstance, Split, EnterInitial
  <2> QED
    BY <1>5, <2>1, DriveFrame DEF monitor
<1>6. CASE UNCHANGED vars
  BY <1>6 DEF vars, loops, monitor
<1> QED
  BY <1>1, <1>2, <1>3, <1>4, <1>5, <1>6 DEF Next, Monitor

-----------------------------------------------------------------------------
(* Who is stopped and quiet.                                               *)

\* A routine stops engines; only its last actions let them go on.
LEMMA Kept ==
  ASSUME TypeOK, NEW j \in Rank, Still(j),
         Vote \/ BeginRestore \/ BeginInit \/ Drive, stopped'[j]
  PROVE  Still(j)'
BY DriveFrame DEF Still, Quiet

LEMMA BusyStep == TypeOK /\ Busy /\ [Next]_vars => Busy'
<1> SUFFICES ASSUME TypeOK, Busy, [Next]_vars PROVE Busy'
  OBVIOUS
<1> USE DEF TypeOK, Busy
<1>1. ASSUME NEW i \in Rank, EventLoop(i) PROVE Busy'
  BY <1>1, LoopFrame
<1>2. CASE Monitor
  BY <1>2, MonitorFrame
<1>3. CASE Vote \/ BeginRestore \/ BeginInit
  BY <1>3 DEF Vote, BeginRestore, BeginInit, BeginStop
<1>4. CASE Drive
  BY <1>4, Ranks DEF Drive, StopFollower, GetProperties, Drop, Stop, Start, Merge,
                     EnterBalloon, Stopped, RestoreInstance, Split, EnterInitial, driver
<1>5. CASE UNCHANGED vars
  BY <1>5 DEF vars, driver
<1> QED
  BY <1>1, <1>2, <1>3, <1>4, <1>5 DEF Next

LEMMA StillsStep == Inv /\ [Next]_vars => Stills'
<1> SUFFICES ASSUME Inv, [Next]_vars PROVE Stills'
  OBVIOUS
<1>y. TypeOK
  BY DEF Inv
<1>t. /\ called \subseteq Rank /\ stopped \in [Rank -> BOOLEAN]
      /\ LoopOwnsSteps /\ Busy
  BY DEF Inv, TypeOK
<1>s. Stills
  BY DEF Inv
<1> USE DEF Stills, FollowersStill, CalledStill, CalledStopped, LeaderStill, UncalledStill
<1>1. ASSUME NEW i \in Rank, EventLoop(i) PROVE Stills'
  <2>1. UNCHANGED <<state, routine, called, dropped, stopped>>
    BY <1>1, LoopFrame
  <2>2. \A j \in Rank : Still(j) => Still(j)'
    BY <1>1, <1>y, <1>t, LoopStill
  <2>3. called \subseteq Rank
    BY <1>t
  <2> QED
    BY <1>s, <2>1, <2>2, <2>3, Ranks
<1>2. CASE Monitor
  BY <1>2, <1>s, MonitorFrame DEF Still, Quiet
<1>3. CASE UNCHANGED vars
  BY <1>3, <1>s DEF vars, driver, loops, Still, Quiet
<1>4. CASE Vote
  BY <1>4 DEF Vote
<1>5. CASE BeginRestore \/ BeginInit
  BY <1>5, <1>s, <1>t, DriveFrame DEF BeginRestore, BeginInit, BeginStop, Still, Quiet
<1>6. CASE Drive
  <2> UNCHANGED <<loop, task>>
    BY <1>6, DriveFrame
  <2>1. ASSUME NEW i \in Follower, StopFollower(i) PROVE Stills'
    BY <2>1, <1>s, <1>t, Ranks DEF StopFollower, driver, Still, Quiet, Busy
  <2>2. ASSUME NEW i \in Follower, GetProperties(i) PROVE Stills'
    BY <2>2, <1>s, <1>t, Ranks DEF GetProperties, InFlight, Still, Quiet, Busy
  <2>3. ASSUME NEW i \in Rank, Drop(i) PROVE Stills'
    <3>1. /\ routine = "drop" /\ routine' = routine
          /\ UNCHANGED <<state, called, stopped>>
      BY <2>3 DEF Drop
    <3> QED
      BY <3>1, <1>s, Ranks DEF Still, Quiet
  <2>4. ASSUME NEW i \in Rank, Stop(i) PROVE Stills'
    BY <2>4, <1>s, <1>t, Ranks DEF Stop, Still, Quiet, Busy
  <2>5. ASSUME NEW i \in Rank, Start(i) PROVE Stills'
    BY <2>5, <1>s, <1>t, Ranks DEF Start, Still, Quiet, Busy
  <2>6. CASE Merge
    BY <2>6, <1>s, <1>t, Ranks DEF Merge, Still, Quiet, Busy
  <2>7. CASE EnterBalloon
    BY <2>7, <1>s, <1>t, Ranks DEF EnterBalloon, Still, Quiet, Busy
  <2>8. CASE Stopped
    \* All loops have ended: no engine has a step.
    BY <2>8, <1>s, <1>t, Ranks DEF Stopped, AllEnded, LoopOwnsSteps, Still, Quiet, Busy
  <2>9. CASE RestoreInstance
    BY <2>9, <1>s, <1>t, Ranks DEF RestoreInstance, Still, Quiet, Busy
  <2>10. CASE Split
    BY <2>10, <1>s, <1>t, Ranks DEF Split, Still, Quiet, Busy
  <2>11. CASE EnterInitial
    BY <2>11, <1>s, <1>t, Ranks DEF EnterInitial, Still, Quiet, Busy
  <2> QED
    BY <1>6, <2>1, <2>2, <2>3, <2>4, <2>5, <2>6, <2>7, <2>8, <2>9, <2>10, <2>11 DEF Drive
<1> QED
  BY <1>1, <1>2, <1>3, <1>4, <1>5, <1>6 DEF Next

-----------------------------------------------------------------------------
LEMMA StepInv == Inv /\ [Next]_vars => Inv'
BY TypeStep, LoopOwnsStepsStep, SeenEndedStep, BusyStep, RanksFollowStep, StillsStep DEF Inv

LEMMA InvAlone == Inv => DriverAlone
<1> SUFFICES ASSUME Inv PROVE DriverAlone
  OBVIOUS
<1> USE DEF Inv, TypeOK, Stills
<1>1. \A i \in Rank : Still(i) => InFlight(i) = {}
  BY DEF Still, Quiet, InFlight
<1>2. routine \in {"restore", "split", "start"} =>
        \A i \in Rank : stopped[i] => InFlight(i) = {}
  BY <1>1, Ranks DEF FollowersStill, LeaderStill, UncalledStill
<1>3. routine = "merge" => \A i \in called : InFlight(i) = {}
  BY <1>1 DEF CalledStill
<1>4. routine \in {"drop", "stop to restore", "restore"} =>
        \A i \in Follower : InFlight(i) = {}
  BY <1>1, Ranks DEF FollowersStill
<1> QED
  BY <1>2, <1>3, <1>4 DEF DriverAlone

-----------------------------------------------------------------------------
(* The theorems.                                                           *)

\* Every variable of the loops, the monitor and the driver has its type.
THEOREM TypeCorrect == Spec => []TypeOK
<1>1. Inv => TypeOK
  BY DEF Inv
<1> QED
  BY InitInv, StepInv, <1>1, PTL DEF Spec

\* The driver changes what steps work on only while no step is in flight
\* there, whatever the monitor starts again meanwhile (trigger_balloon,
\* trigger_restore and trigger_init).
THEOREM DriverIsAlone == Spec => []DriverAlone
BY InitInv, StepInv, InvAlone, PTL DEF Spec

\* Workers have the ranks of the pipeline they are in, through the dropping
\* and loading of parameters (pmm_drop and pmm_restore).
THEOREM RanksRight == Spec => []RanksFollow
<1>1. Inv => RanksFollow
  BY DEF Inv
<1> QED
  BY InitInv, StepInv, <1>1, PTL DEF Spec
=============================================================================
