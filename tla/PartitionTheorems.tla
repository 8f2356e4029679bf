-------------------------- MODULE PartitionTheorems --------------------------
(***************************************************************************)
(* Theorems about who owns the blocks of a fusion group: the blocks of a   *)
(* batch on the workers do not change, no block is lost or given out       *)
(* twice, what runs on the pipeline has been exchanged, and every batch    *)
(* has the blocks its tokens need.                                         *)
(*                                                                         *)
(* The inductive invariant of FusionGroupTheorems says what every manager  *)
(* and every coroutine looks like.  Here it is strengthened twice: by what *)
(* the coroutines know of the requests they hold (FInv), and by where the  *)
(* blocks of every request are (PInv).                                     *)
(***************************************************************************)
EXTENDS FusionGroupTheorems

-----------------------------------------------------------------------------
(* What a coroutine holds.                                                 *)

\* Every part of a coroutine is in use only between the awaits it is for.
Shape(st) ==
  /\ st.pc # "pipe" => st.pipe = {}
  /\ st.pc \notin {"pipe", "repl"} => st.repl = {}
  /\ st.pc # "pack" => \A i \in Inst : st.pack[i] = {}
  /\ \A r, s \in st.moved : r = s
  /\ \A r, s \in st.shard : r = s
  /\ st.moved = {} <=> st.fresh = {}

\* The requests the coroutine of v holds are those of its own queue, with
\* the kind of its batch.
Members(v, st, rq) ==
  /\ \A r \in st.pipe : rq[r].q = "running" /\ rq[r].ve = v /\ rq[r].fx
  /\ \A r \in st.repl : rq[r].q = "running" /\ rq[r].ve = v /\ ~ rq[r].fx
  /\ \A i \in Inst : \A r \in st.pack[i] : rq[r].q = "running" /\ rq[r].ve = v
  /\ \A r \in st.shard : rq[r].ve = v

Flow == \A v \in Inst : Shape(step[v]) /\ Members(v, step[v], req)

\* Which requests wait, and which may be at home away from their virtual
\* engine.
KindOf(q, ph) ==
  /\ q.q = "waiting" => q.fx /\ Mode = "livereshard" /\ ph = "balloon"
  /\ q.q # "lost"
  /\ q.q = "running" /\ ~ q.fx =>
       q.home = q.ve \/ (Mode = "livereshard" /\ ph = "balloon")
  /\ ph = "handling" /\ Mode = "reshard" /\ q.q = "running" => q.fx

Kinds ==
  /\ \A r \in Req : KindOf(req[r], phase)
  /\ remaining # {} => Mode = "reshard"

FInv == IInv /\ Flow /\ Kinds

-----------------------------------------------------------------------------
(* How coroutines keep what they hold.                                     *)

\* A step changes the requests of one virtual engine, or requests that are
\* neither running nor being exchanged.
LEMMA MembersKept ==
  ASSUME IInv, Flow, NEW u \in Inst, step'[u] = step[u],
         \A s \in Req :
           \/ req'[s].q = req[s].q /\ req'[s].ve = req[s].ve /\ req'[s].fx = req[s].fx
           \/ req[s].ve # u
           \/ req[s].q # "running" /\ s \notin step[u].shard
  PROVE  Shape(step'[u]) /\ Members(u, step'[u], req')
<1>1. /\ step[u].pipe \subseteq Req /\ step[u].repl \subseteq Req
      /\ step[u].shard \subseteq Req
      /\ \A i \in Inst : step[u].pack[i] \subseteq Req
  BY DEF IInv, TypeOK, Step
<1>2. Shape(step[u]) /\ Members(u, step[u], req)
  BY DEF Flow
<1>3. \A s \in step[u].pipe \cup step[u].repl :
        req'[s].q = req[s].q /\ req'[s].ve = req[s].ve /\ req'[s].fx = req[s].fx
  BY <1>1, <1>2 DEF Members
<1>4. \A i \in Inst : \A s \in step[u].pack[i] :
        req'[s].q = req[s].q /\ req'[s].ve = req[s].ve
  BY <1>1, <1>2 DEF Members
<1>5. \A s \in step[u].shard : req'[s].ve = req[s].ve
  BY <1>1, <1>2 DEF Members
<1>6. QED
  BY <1>2, <1>3, <1>4, <1>5 DEF Members

LEMMA FlowStep ==
  ASSUME IInv, Flow, NEW v \in Inst,
         \A u \in Inst \ {v} : step'[u] = step[u],
         \A s \in Req :
           \/ req'[s].q = req[s].q /\ req'[s].ve = req[s].ve /\ req'[s].fx = req[s].fx
           \/ req[s].ve = v
           \/ req[s].q # "running" /\ s \notin Sharding,
         Shape(step'[v]), Members(v, step'[v], req')
  PROVE  Flow'
<1>1. ASSUME NEW u \in Inst
      PROVE  Shape(step'[u]) /\ Members(u, step'[u], req')
  <2>1. CASE u = v
    BY <2>1
  <2>2. CASE u # v
    <3>1. step[u].shard \subseteq Sharding
      BY DEF Sharding
    <3>2. QED
      BY <2>2, <3>1, MembersKept
  <2>3. QED
    BY <2>1, <2>2
<1>2. QED
  BY <1>1 DEF Flow

\* A coroutine that is neither at the workers nor packing holds nothing.
Empty(st) ==
  /\ st.pipe = {} /\ st.repl = {} /\ st.shard = {} /\ st.moved = {} /\ st.fresh = {}
  /\ \A i \in Inst : st.pack[i] = {}

LEMMA Quiet ==
  ASSUME IInv, Flow, NEW v \in Inst, step[v].pc \notin {"pipe", "repl", "pack"}
  PROVE  Empty(step[v])
  BY DEF IInv, Control, Flow, Shape, Empty

LEMMA EmptyFlow ==
  ASSUME NEW v, NEW st, Empty(st), NEW rq
  PROVE  Shape(st) /\ Members(v, st, rq)
  BY DEF Empty, Shape, Members

LEMMA EmptySteps ==
  /\ Empty(NoStep)
  /\ \A pc : Empty([NoStep EXCEPT !.pc = pc]) /\ [NoStep EXCEPT !.pc = pc].pc = pc
  BY DEF Empty, NoStep

\* Nothing is held while every coroutine is idle.
LEMMA IdleFlow ==
  ASSUME IInv, Flow, AllIdle, UNCHANGED step
  PROVE  Flow' /\ \A v \in Inst : Empty(step[v])
<1>1. \A v \in Inst : Empty(step[v])
  BY Quiet DEF AllIdle, Idle
<1>2. QED
  BY <1>1, EmptyFlow DEF Flow

LEMMA SameFlow ==
  ASSUME Flow, UNCHANGED <<req, step>>
  PROVE  Flow'
  BY DEF Flow

LEMMA SetPcEmpty ==
  ASSUME IInv, Flow, NEW v \in Inst, NEW pc, SetPc(v, pc),
         step[v].pc \notin {"pipe", "repl", "pack"}
  PROVE  /\ Empty(step'[v]) /\ step'[v].pc = pc
         /\ \A u \in Inst \ {v} : step'[u] = step[u]
         /\ \A u \in Inst : step'[u].fresh = step[u].fresh /\ step'[u].shard = step[u].shard
                              /\ step'[u].pipe = step[u].pipe /\ step'[u].repl = step[u].repl
<1>1. Empty(step[v]) /\ step \in [Inst -> Step]
  BY Quiet DEF IInv, TypeOK
<1>2. CASE pc = "idle"
  <2>1. step' = [step EXCEPT ![v] = NoStep]
    BY <1>2 DEF SetPc
  <2>2. step'[v] = NoStep /\ NoStep.pc = "idle"
    BY <1>1, <2>1 DEF NoStep
  <2>3. QED
    BY <1>1, <1>2, <2>1, <2>2, EmptySteps DEF Empty
<1>3. CASE pc # "idle"
  <2>1. step' = [step EXCEPT ![v] = [step[v] EXCEPT !.pc = pc]]
    BY <1>1, <1>3 DEF SetPc
  <2>2. step'[v] = [step[v] EXCEPT !.pc = pc]
    BY <1>1, <2>1
  <2>3. /\ step'[v].pipe = step[v].pipe /\ step'[v].repl = step[v].repl
        /\ step'[v].shard = step[v].shard /\ step'[v].moved = step[v].moved
        /\ step'[v].fresh = step[v].fresh /\ step'[v].pack = step[v].pack
        /\ step'[v].pc = pc
    BY <1>1, <2>2 DEF Step
  <2>4. QED
    BY <1>1, <2>1, <2>3 DEF Empty
<1>4. QED
  BY <1>2, <1>3

\* The kinds while the phase stays.
LEMMA KindsKept ==
  ASSUME Kinds, UNCHANGED phase, remaining' \subseteq remaining,
         \A s \in Req :
           \/ KindOf(req'[s], phase)
           \/ /\ req'[s].q = req[s].q /\ req'[s].fx = req[s].fx
              /\ req'[s].ve = req[s].ve /\ req'[s].home = req[s].home
  PROVE  Kinds'
<1>1. ASSUME NEW s \in Req PROVE KindOf(req'[s], phase')
  BY DEF Kinds, KindOf
<1>2. QED
  BY <1>1 DEF Kinds

-----------------------------------------------------------------------------
(* The first part of a step, in full.                                      *)

\* The local blocks S of a manager are set aside.
Without(m, S) == [m EXCEPT !.free_gpu = @ \ S]

LEMMA LaunchShape ==
  ASSUME IInv, NEW v \in Inst, NEW b \in [Inst -> Manager],
         NEW sh \in SUBSET Req, \A r, s \in sh : r = s, Launch(v, b, sh)
  PROVE  /\ \A u \in Inst \ {v} : step'[u] = step[u]
         /\ step'[v].shard = sh
         /\ step'[v].pipe \subseteq {r \in Running(v) \ sh : req[r].fx}
         /\ step'[v].repl \subseteq {r \in Running(v) \ sh : ~ req[r].fx}
         /\ Fused => step'[v].repl = {}
         /\ Shape(step'[v])
         /\ \A i \in Inst : step'[v].pack[i] = {}
         /\ step'[v].fresh \subseteq b[v].free_gpu
         /\ bm'[v] = Without(b[v], step'[v].fresh)
         /\ \A i \in Inst \ {v} : bm'[i] = b[i]
<1> DEFINE batch == Scheduled(Running(v) \ sh)
           pipe  == {r \in batch : req[r].fx}
           repl  == batch \ pipe
<1>1. PICK take \in Restorable(v, b, pipe) :
        /\ bm' = [b EXCEPT ![v].free_gpu = @ \ take[2]]
        /\ step' = [step EXCEPT ![v] =
             [NoStep EXCEPT
                !.pc = IF pipe \cup sh # {} THEN "pipe"
                       ELSE IF repl # {} /\ ~ Fused THEN "repl" ELSE "grow",
                !.pipe = pipe, !.repl = IF Fused THEN {} ELSE repl,
                !.shard = sh, !.moved = take[1], !.fresh = take[2]]]
  BY DEF Launch
<1>2. batch \subseteq Running(v) \ sh
  BY DEF Scheduled
<1>3. /\ take[1] = {} <=> take[2] = {}
      /\ \A r, s \in take[1] : r = s
      /\ take[2] \subseteq b[v].free_gpu
      /\ pipe = {} => take[1] = {}
  <2>1. CASE phase # "restore" \/ pipe = {}
    <3>1. take = <<{}, {}>>
      BY <2>1, <1>1 DEF Restorable
    <3>2. QED
      BY <3>1
  <2>2. CASE phase = "restore" /\ pipe # {}
    <3> DEFINE c(r) == Held(b[v], r) \in 1 .. Cardinality(b[v].free_gpu)
               T(r) == {<<{r}, S>> : S \in kSubset(Held(b[v], r), b[v].free_gpu)}
    <3>1. take \in UNION {IF c(r) THEN T(r) ELSE {<<{}, {}>>} : r \in pipe}
      BY <2>2, <1>1 DEF Restorable
    <3>2. PICK r \in pipe : take \in IF c(r) THEN T(r) ELSE {<<{}, {}>>}
      BY <3>1
    <3>3. CASE c(r)
      <4>1. PICK S \in kSubset(Held(b[v], r), b[v].free_gpu) : take = <<{r}, S>>
        BY <3>2, <3>3
      <4>2. S \subseteq b[v].free_gpu /\ Cardinality(S) = Held(b[v], r)
        BY DEF kSubset
      <4>3. Cardinality(S) # 0
        BY <3>3, <4>2
      <4>4. S # {}
        BY <4>3, FS_EmptySet
      <4>5. take[1] = {r} /\ take[2] = S
        BY <4>1
      <4>6. QED
        BY <2>2, <4>2, <4>4, <4>5
    <3>4. CASE ~ c(r)
      <4>1. take = <<{}, {}>>
        BY <3>2, <3>4
      <4>2. QED
        BY <4>1
    <3>5. QED
      BY <3>3, <3>4
  <2>3. QED
    BY <2>1, <2>2
<1> DEFINE st == [NoStep EXCEPT
                !.pc = IF pipe \cup sh # {} THEN "pipe"
                       ELSE IF repl # {} /\ ~ Fused THEN "repl" ELSE "grow",
                !.pipe = pipe, !.repl = IF Fused THEN {} ELSE repl,
                !.shard = sh, !.moved = take[1], !.fresh = take[2]]
<1>4. step \in [Inst -> Step] /\ step' = [step EXCEPT ![v] = st]
  BY <1>1 DEF IInv, TypeOK
<1>5. /\ st.pc = IF pipe \cup sh # {} THEN "pipe"
                 ELSE IF repl # {} /\ ~ Fused THEN "repl" ELSE "grow"
      /\ st.pipe = pipe /\ st.repl = IF Fused THEN {} ELSE repl
      /\ st.shard = sh /\ st.moved = take[1] /\ st.fresh = take[2]
      /\ \A i \in Inst : st.pack[i] = {}
  BY DEF NoStep
<1> HIDE DEF st
<1>6. step'[v] = st /\ \A u \in Inst \ {v} : step'[u] = step[u]
  BY <1>4
<1>7. Shape(st)
  <2>1. st.pc # "pipe" => pipe = {}
    BY <1>5
  <2>2. st.pc \notin {"pipe", "repl"} => st.repl = {}
    BY <1>5
  <2> HIDE DEF pipe, repl
  <2>3. QED
    BY <1>3, <1>5, <2>1, <2>2 DEF Shape
<1>8. st.pipe \subseteq {r \in Running(v) \ sh : req[r].fx}
  BY <1>2, <1>5
<1>9. st.repl \subseteq {r \in Running(v) \ sh : ~ req[r].fx}
  BY <1>2, <1>5
<1>10. /\ bm'[v] = Without(b[v], take[2])
       /\ \A i \in Inst \ {v} : bm'[i] = b[i]
  BY <1>1 DEF Without
<1> HIDE DEF pipe, repl
<1>11. QED
  BY <1>3, <1>5, <1>6, <1>7, <1>8, <1>9, <1>10

LEMMA LaunchFlow ==
  ASSUME FInv, NEW v \in Inst, NEW b \in [Inst -> Manager],
         NEW sh \in SUBSET Req, \A r, s \in sh : r = s, Launch(v, b, sh),
         \A s \in sh : req[s].q = "running" /\ req[s].ve = v /\ req'[s].ve = v,
         \A s \in Req \ sh : req'[s] = req[s]
  PROVE  Flow'
<1>1. /\ \A u \in Inst \ {v} : step'[u] = step[u]
      /\ step'[v].shard = sh
      /\ step'[v].pipe \subseteq {r \in Running(v) \ sh : req[r].fx}
      /\ step'[v].repl \subseteq {r \in Running(v) \ sh : ~ req[r].fx}
      /\ Shape(step'[v])
      /\ \A i \in Inst : step'[v].pack[i] = {}
  <2>1. IInv
    BY DEF FInv
  <2>2. QED
    BY <2>1, LaunchShape
<1>2. Members(v, step'[v], req')
  BY <1>1 DEF Members, Running
<1>3. QED
  BY <1>1, <1>2, FlowStep DEF FInv

-----------------------------------------------------------------------------
(* The steps of a virtual engine.                                          *)

\* In _get_next_batch a virtual engine changes one request of its queue and
\* goes on.
LEMMA QueueFlow ==
  ASSUME FInv, NEW v \in Inst, step[v].pc \in {"grow", "adopt", "dispatch"},
         NEW r \in Req, req[r].ve = v, NEW q, req' = [req EXCEPT ![r] = q],
         KindOf(q, phase),
         UNCHANGED step \/ \E pc \in Pc : SetPc(v, pc),
         UNCHANGED <<phase, remaining>>
  PROVE  Flow' /\ Kinds'
<1>1. IInv /\ Flow /\ Kinds /\ req \in [Req -> Request]
  BY DEF FInv, IInv, TypeOK
<1>2. /\ \A u \in Inst \ {v} : step'[u] = step[u]
      /\ Empty(step'[v])
  <2>1. CASE UNCHANGED step
    BY <1>1, <2>1, Quiet
  <2>2. ASSUME NEW pc \in Pc, SetPc(v, pc)
        PROVE  /\ \A u \in Inst \ {v} : step'[u] = step[u]
               /\ Empty(step'[v])
    BY <1>1, <2>2, SetPcEmpty
  <2>3. QED
    BY <2>1, <2>2
<1>3. req'[r] = q /\ \A s \in Req \ {r} : req'[s] = req[s]
  BY <1>1
<1>4. Flow'
  <2>1. Shape(step'[v]) /\ Members(v, step'[v], req')
    BY <1>2, EmptyFlow
  <2>2. QED
    BY <1>1, <1>2, <1>3, <2>1, FlowStep
<1>5. Kinds'
  BY <1>1, <1>3, KindsKept
<1>6. QED
  BY <1>4, <1>5

LEMMA PcFlow ==
  ASSUME FInv, NEW v \in Inst, step[v].pc \in {"grow", "adopt", "dispatch"},
         UNCHANGED step \/ \E pc \in Pc : SetPc(v, pc),
         UNCHANGED <<phase, req, remaining>>
  PROVE  Flow' /\ Kinds'
<1>1. IInv /\ Flow /\ Kinds
  BY DEF FInv
<1>2. CASE UNCHANGED step
  BY <1>1, <1>2, SameFlow, KindsKept
<1>3. ASSUME NEW pc \in Pc, SetPc(v, pc)
      PROVE  Flow'
  <2>1. /\ \A u \in Inst \ {v} : step'[u] = step[u]
        /\ Empty(step'[v])
    BY <1>1, <1>3, SetPcEmpty
  <2>2. Shape(step'[v]) /\ Members(v, step'[v], req')
    BY <2>1, EmptyFlow
  <2>3. QED
    BY <1>1, <2>1, <2>2, FlowStep
<1>4. Kinds'
  BY <1>1, KindsKept
<1>5. QED
  BY <1>2, <1>3, <1>4

LEMMA NextStoppedFlow ==
  ASSUME FInv, NEW v \in Inst, NextStopped(v)
  PROVE  Flow' /\ Kinds'
<1>1. "idle" \in Pc
  BY DEF Pc
<1>2. QED
  BY <1>1, PcFlow DEF NextStopped

LEMMA GrownFlow ==
  ASSUME FInv, NEW v \in Inst, Grown(v)
  PROVE  Flow' /\ Kinds'
<1>1. \E pc \in Pc : SetPc(v, pc)
  BY DEF Grown, Pc
<1>2. QED
  BY <1>1, PcFlow DEF Grown, Growing

LEMMA GrowFlow ==
  ASSUME FInv, NEW v \in Inst, NEW r \in Req, Grow(v, r)
  PROVE  Flow' /\ Kinds'
  BY PcFlow DEF Grow, Growing

LEMMA FreeFinishedFlow ==
  ASSUME FInv, NEW v \in Inst, NEW r \in Req, FreeFinished(v, r)
  PROVE  Flow' /\ Kinds'
<1> DEFINE q == [NewRequest EXCEPT !.q = "done"]
<1>1. KindOf(q, phase)
  BY DEF KindOf, NewRequest
<1>2. /\ step[v].pc = "grow" /\ req[r].ve = v
      /\ req' = [req EXCEPT ![r] = q] /\ UNCHANGED <<phase, step, remaining>>
  BY DEF FreeFinished, Growing, Finished, Running
<1> HIDE DEF q
<1>3. QED
  BY <1>1, <1>2, QueueFlow

LEMMA RecomputedKind ==
  ASSUME TypeOK, NEW r \in Req
  PROVE  KindOf(Recomputed(r), phase)
  BY RecomputedType DEF KindOf

LEMMA PreemptFlow ==
  ASSUME FInv, NEW v \in Inst, NEW r \in Req, Preempt(v, r)
  PROVE  Flow' /\ Kinds'
<1>1. step[v].pc = "grow" /\ UNCHANGED <<phase, remaining>> /\ TypeOK
  BY DEF Preempt, Growing, FInv, IInv
<1>2. \/ SetPc(v, "idle") /\ UNCHANGED req
      \/ \E w \in Victims(v, r) :
           req' = [req EXCEPT ![w] = Recomputed(w)] /\ UNCHANGED step
  BY DEF Preempt
<1>3. CASE SetPc(v, "idle") /\ UNCHANGED req
  <2>1. "idle" \in Pc
    BY DEF Pc
  <2>2. QED
    BY <1>1, <1>3, <2>1, PcFlow
<1>4. ASSUME NEW w \in Victims(v, r),
             req' = [req EXCEPT ![w] = Recomputed(w)], UNCHANGED step
      PROVE  Flow' /\ Kinds'
  <2>1. w \in Req /\ req[w].ve = v
    BY DEF Victims, Running
  <2>2. KindOf(Recomputed(w), phase)
    BY <1>1, <2>1, RecomputedKind
  <2>3. QED
    BY <1>1, <1>4, <2>1, <2>2, QueueFlow
<1>5. QED
  BY <1>2, <1>3, <1>4

\* is_fusion_state is what the phase says it is.
LEMMA FusedPhase ==
  ASSUME IInv
  PROVE  Fused = (phase \in FusedPhases)
  BY StageType DEF IInv, Pools, PoolOK, Fused

LEMMA CheckedKind ==
  ASSUME FInv, NEW v \in Inst, NEW r \in Req, req[r].ve = v,
         phase # "handling", NEW q \in {"running", "waiting", "queued"},
         q = "waiting" => req[r].q = "waiting"
  PROVE  KindOf(Checked(r, v, q), phase)
<1>1. req[r] \in Request /\ Fused = (phase \in FusedPhases)
  BY FusedPhase DEF FInv, IInv, TypeOK
<1>2. /\ Checked(r, v, q).q = q /\ Checked(r, v, q).fx = Fused
      /\ Checked(r, v, q).home = v /\ Checked(r, v, q).ve = v
  BY <1>1 DEF Checked, Request
<1>3. req[r].q = "waiting" => Mode = "livereshard" /\ phase = "balloon"
  BY DEF FInv, Kinds, KindOf
<1>4. phase = "balloon" => Fused
  BY <1>1 DEF FusedPhases
<1>5. QED
  BY <1>2, <1>3, <1>4 DEF KindOf

LEMMA CheckFlow ==
  ASSUME FInv, NEW v \in Inst, NEW r \in Req, req[r].ve = v,
         step[v].pc \in {"adopt", "dispatch"},
         NEW q \in {"running", "waiting", "queued"},
         q = "waiting" => req[r].q = "waiting",
         req' = [req EXCEPT ![r] = Checked(r, v, q)],
         \E pc \in Pc : SetPc(v, pc), UNCHANGED <<phase, remaining>>
  PROVE  Flow' /\ Kinds'
<1>1. phase # "handling"
  BY Serving DEF FInv
<1>2. KindOf(Checked(r, v, q), phase)
  BY <1>1, CheckedKind
<1>3. QED
  BY <1>2, QueueFlow

LEMMA AdoptFlow ==
  ASSUME FInv, NEW v \in Inst, NEW r \in Req, Adopt(v, r)
  PROVE  Flow' /\ Kinds'
<1>1. step[v].pc = "adopt" /\ req[r].ve = v /\ req[r].q = "waiting"
      /\ UNCHANGED <<phase, remaining>>
  BY DEF Adopt, Adoptable
<1>2. PICK q \in {"running", "waiting"} : req' = [req EXCEPT ![r] = Checked(r, v, q)]
  BY DEF Adopt
<1>3. \E pc \in Pc : SetPc(v, pc)
  BY DEF Adopt, Pc
<1>4. QED
  BY <1>1, <1>2, <1>3, CheckFlow

LEMMA AdmitFlow ==
  ASSUME FInv, NEW v \in Inst, NEW r \in Req, Admit(v, r)
  PROVE  Flow' /\ Kinds'
<1>1. /\ step[v].pc = "dispatch" /\ req[r].ve = v /\ UNCHANGED <<phase, remaining>>
      /\ req' = [req EXCEPT ![r] = Checked(r, v, "running")]
  BY DEF Admit, Queued
<1>2. \E pc \in Pc : SetPc(v, pc)
  BY DEF Admit, Pc
<1>3. QED
  BY <1>1, <1>2, CheckFlow

LEMMA RefuseFlow ==
  ASSUME FInv, NEW v \in Inst, NEW r \in Req, Refuse(v, r)
  PROVE  Flow' /\ Kinds'
<1>1. /\ step[v].pc = "dispatch" /\ req[r].ve = v /\ UNCHANGED <<phase, remaining>>
      /\ req' = [req EXCEPT ![r] = Checked(r, v, "queued")]
  BY DEF Refuse, Queued
<1>2. \E pc \in Pc : SetPc(v, pc)
  BY DEF Refuse, Pc
<1>3. QED
  BY <1>1, <1>2, CheckFlow

LEMMA StartStepFlow ==
  ASSUME FInv, NEW v \in Inst, StartStep(v)
  PROVE  Flow' /\ Kinds'
<1>1. bm \in [Inst -> Manager] /\ Launch(v, bm, {}) /\ UNCHANGED <<phase, req, remaining>>
  BY DEF StartStep, FInv, IInv, TypeOK
<1>2. Flow'
  BY <1>1, LaunchFlow
<1>3. Kinds'
  BY <1>1, KindsKept DEF FInv
<1>4. QED
  BY <1>2, <1>3

LEMMA StartReshardFlow ==
  ASSUME FInv, NEW v \in Inst, NEW r \in Req, StartReshard(v, r)
  PROVE  Flow' /\ Kinds'
<1>1. PICK b \in OneEach(OnPeers(r)) : Launch(v, b, {r})
  BY DEF StartReshard
<1>2. /\ CanStart(v) /\ resharding[v]
      /\ req[r].q = "running" /\ ~ req[r].fx /\ req[r].ve = v
      /\ req' = [req EXCEPT ![r].q = "waiting", ![r].fx = TRUE]
      /\ UNCHANGED <<phase, remaining>>
  BY DEF StartReshard, Stale, Running
<1>3. IInv /\ req \in [Req -> Request] /\ Mode = "livereshard" /\ phase = "balloon"
  BY <1>2, Serving DEF FInv, IInv, TypeOK, Control
<1>4. b \in [Inst -> Manager]
  BY <1>1, <1>3, OnPeersStep
<1>5. /\ req'[r].q = "waiting" /\ req'[r].fx /\ req'[r].ve = v
      /\ \A s \in Req \ {r} : req'[s] = req[s]
  BY <1>2, <1>3 DEF Request
<1>6. Flow'
  <2> DEFINE sh == {r}
  <2>1. /\ sh \in SUBSET Req /\ Launch(v, b, sh) /\ \A s, t \in sh : s = t
        /\ \A s \in sh : req[s].q = "running" /\ req[s].ve = v /\ req'[s].ve = v
        /\ \A s \in Req \ sh : req'[s] = req[s]
    BY <1>1, <1>2, <1>5
  <2> HIDE DEF sh
  <2>2. QED
    BY <1>4, <2>1, LaunchFlow
<1>7. KindOf(req'[r], phase)
  BY <1>3, <1>5 DEF KindOf
<1>8. Kinds'
  BY <1>2, <1>5, <1>7, KindsKept DEF FInv
<1>9. QED
  BY <1>6, <1>8

\* finish_one_iteration moves no request, and a request it changes has left
\* the context stage.
LEMMA AdvancedTo ==
  ASSUME TypeOK, NEW S \in SUBSET Req, NEW g \in Advanced(S), NEW r \in S
  PROVE  g[r].ve = req[r].ve /\ (g[r] = req[r] \/ ~ g[r].ctx)
<1>1. g[r] \in Advance(req[r]) /\ req[r] \in Request
  BY DEF Advanced, TypeOK
<1>2. CASE g[r] = req[r]
  BY <1>1, <1>2
<1>3. CASE g[r] # req[r]
  <2> DEFINE q  == req[r]
             ns == {q.need, q.need + 1} \cap (1 .. MaxLen)
             fs == {q.finished, TRUE}
  <2>1. g[r] \in UNION {{[q EXCEPT !.ctx = FALSE, !.need = n, !.finished = f] :
                           f \in fs} : n \in ns}
    BY <1>1, <1>3 DEF Advance
  <2>2. q \in Request
    BY <1>1
  <2> HIDE DEF q, ns, fs
  <2>3. PICK n \in ns, f \in fs :
          g[r] = [q EXCEPT !.ctx = FALSE, !.need = n, !.finished = f]
    BY <2>1
  <2>4. QED
    BY <2>2, <2>3 DEF Request, q
<1>4. QED
  BY <1>2, <1>3

LEMMA FinishReshardFlow ==
  ASSUME FInv, NEW v \in Inst, FinishReshard(v)
  PROVE  Flow' /\ Kinds'
<1>1. /\ IInv /\ Flow /\ Kinds /\ step \in [Inst -> Step]
      /\ step' = [step EXCEPT ![v].shard = {}] /\ UNCHANGED <<phase, req, remaining>>
  BY DEF FinishReshard, FInv, IInv, TypeOK
<1>2. /\ \A u \in Inst \ {v} : step'[u] = step[u]
      /\ step'[v].shard = {}
      /\ step'[v].pc = step[v].pc /\ step'[v].pipe = step[v].pipe
      /\ step'[v].repl = step[v].repl /\ step'[v].moved = step[v].moved
      /\ step'[v].fresh = step[v].fresh /\ step'[v].pack = step[v].pack
  BY <1>1 DEF Step
<1>3. Shape(step'[v]) /\ Members(v, step'[v], req')
  <2>1. Shape(step[v]) /\ Members(v, step[v], req)
    BY <1>1 DEF Flow
  <2>2. QED
    BY <1>1, <1>2, <2>1 DEF Shape, Members
<1>4. Flow'
  BY <1>1, <1>2, <1>3, FlowStep
<1>5. Kinds'
  BY <1>1, KindsKept
<1>6. QED
  BY <1>4, <1>5

LEMMA EndReplFlow ==
  ASSUME FInv, NEW v \in Inst, EndRepl(v)
  PROVE  Flow' /\ Kinds'
<1>1. PICK g \in Advanced(step[v].repl) :
        req' = [r \in Req |-> IF r \in step[v].repl THEN g[r] ELSE req[r]]
  BY DEF EndRepl
<1>2. /\ step' = [step EXCEPT ![v] = [NoStep EXCEPT !.pc = "grow"]]
      /\ UNCHANGED <<phase, remaining>>
  BY DEF EndRepl
<1>3. /\ IInv /\ Flow /\ Kinds /\ TypeOK /\ step \in [Inst -> Step]
      /\ step[v].repl \in SUBSET Req
  BY DEF FInv, IInv, TypeOK, Step
<1>4. \A s \in Req : /\ req'[s].q = req[s].q /\ req'[s].fx = req[s].fx
                     /\ req'[s].home = req[s].home /\ req'[s].ve = req[s].ve
  BY <1>1, <1>3, AdvanceStep, AdvancedTo
<1>5. /\ \A u \in Inst \ {v} : step'[u] = step[u]
      /\ Empty(step'[v])
  BY <1>2, <1>3, EmptySteps
<1>6. Flow'
  <2>1. Shape(step'[v]) /\ Members(v, step'[v], req')
    BY <1>5, EmptyFlow
  <2>2. QED
    BY <1>3, <1>4, <1>5, <2>1, FlowStep
<1>7. Kinds'
  BY <1>2, <1>3, <1>4, KindsKept
<1>8. QED
  BY <1>6, <1>7

\* What becomes of the requests and of the coroutine at the end of a
\* pipeline batch.
LEMMA EndPipeRequests ==
  ASSUME FInv, NEW v \in Inst, EndPipe(v)
  PROVE  /\ step[v].moved \subseteq step[v].pipe /\ step[v].pipe \subseteq Req
         /\ \A s \in Req :
              /\ req'[s].q = req[s].q /\ req'[s].ve = req[s].ve
              /\ s \in step[v].moved => ~ req'[s].fx /\ req'[s].home = v
              /\ s \notin step[v].moved =>
                   req'[s].fx = req[s].fx /\ req'[s].home = req[s].home
              /\ s \notin step[v].pipe => req'[s] = req[s]
              /\ req'[s].need = req[s].need \/ ~ req'[s].ctx
              /\ req'[s].ctx => req[s].ctx
<1>1. PICK g \in Advanced(step[v].pipe) :
        req' = [r \in Req |-> IF r \in step[v].moved
                              THEN [g[r] EXCEPT !.fx = FALSE, !.home = v]
                              ELSE IF r \in step[v].pipe THEN g[r] ELSE req[r]]
  BY DEF EndPipe
<1>2. /\ TypeOK /\ step[v].pipe \in SUBSET Req
      /\ step[v].moved \subseteq step[v].pipe
  BY DEF FInv, IInv, TypeOK, Step, Control
<1>3. ASSUME NEW s \in Req
      PROVE  /\ req'[s].q = req[s].q /\ req'[s].ve = req[s].ve
             /\ s \in step[v].moved => ~ req'[s].fx /\ req'[s].home = v
             /\ s \notin step[v].moved =>
                  req'[s].fx = req[s].fx /\ req'[s].home = req[s].home
             /\ s \notin step[v].pipe => req'[s] = req[s]
             /\ req'[s].need = req[s].need \/ ~ req'[s].ctx
             /\ req'[s].ctx => req[s].ctx
  <2>1. s \in step[v].pipe =>
          /\ g[s] \in Request
          /\ g[s].q = req[s].q /\ g[s].fx = req[s].fx /\ g[s].home = req[s].home
          /\ g[s].ve = req[s].ve /\ (g[s] = req[s] \/ ~ g[s].ctx)
    BY <1>2, AdvanceStep, AdvancedTo
  <2>2. CASE s \in step[v].moved
    <3>1. req'[s] = [g[s] EXCEPT !.fx = FALSE, !.home = v] /\ s \in step[v].pipe
      BY <1>1, <1>2, <2>2
    <3>2. /\ req'[s].q = g[s].q /\ req'[s].ve = g[s].ve /\ ~ req'[s].fx
          /\ req'[s].home = v /\ req'[s].need = g[s].need /\ req'[s].ctx = g[s].ctx
      BY <2>1, <3>1 DEF Request
    <3>3. QED
      BY <2>1, <2>2, <3>1, <3>2
  <2>3. CASE s \notin step[v].moved /\ s \in step[v].pipe
    <3>1. req'[s] = g[s]
      BY <1>1, <2>3
    <3>2. QED
      BY <2>1, <2>3, <3>1
  <2>4. CASE s \notin step[v].moved /\ s \notin step[v].pipe
    BY <1>1, <2>4
  <2>5. QED
    BY <2>2, <2>3, <2>4
<1>4. QED
  BY <1>2, <1>3

LEMMA EndPipeCoroutine ==
  ASSUME FInv, NEW v \in Inst, EndPipe(v)
  PROVE  /\ \A u \in Inst \ {v} : step'[u] = step[u]
         /\ step'[v].pc = "repl" \/ step'[v].repl = {}
         /\ step'[v].repl \subseteq step[v].repl
         /\ step'[v].pc \in {"repl", "pack", "grow"}
         /\ step'[v].pc = "pack" => phase = "reclaiming"
         /\ \A i \in Inst : /\ step'[v].pack[i] \subseteq step[v].pipe
                            /\ step'[v].pc # "pack" => step'[v].pack[i] = {}
         /\ step'[v].pipe = {} /\ step'[v].shard = {}
         /\ step'[v].moved = {} /\ step'[v].fresh = {}
<1> DEFINE packing == phase = "reclaiming" /\ step[v].pipe # {}
           next == IF step[v].repl # {} /\ ~ stopped[Engine(v)] THEN "repl"
                   ELSE IF packing THEN "pack" ELSE "grow"
           st   == [NoStep EXCEPT
                      !.pc = next,
                      !.repl = IF next = "repl" THEN step[v].repl ELSE {},
                      !.pack = [i \in Inst |-> IF next = "pack" THEN step[v].pipe
                                               ELSE {}]]
<1>1. step' = [step EXCEPT ![v] = st] /\ step \in [Inst -> Step]
  BY DEF EndPipe, FInv, IInv, TypeOK
<1>2. next \in {"repl", "pack", "grow"} /\ (next = "pack" => phase = "reclaiming")
  OBVIOUS
<1>3. /\ st.pc = next /\ st.repl = IF next = "repl" THEN step[v].repl ELSE {}
      /\ \A i \in Inst : st.pack[i] = IF next = "pack" THEN step[v].pipe ELSE {}
      /\ st.pipe = {} /\ st.shard = {} /\ st.moved = {} /\ st.fresh = {}
  <2> HIDE DEF next
  <2>1. QED
    BY DEF NoStep
<1> HIDE DEF next, st
<1>4. step'[v] = st /\ \A u \in Inst \ {v} : step'[u] = step[u]
  BY <1>1
<1>5. QED
  BY <1>2, <1>3, <1>4

LEMMA EndPipeFlow ==
  ASSUME FInv, NEW v \in Inst, EndPipe(v)
  PROVE  Flow' /\ Kinds'
<1>1. /\ IInv /\ Flow /\ Kinds /\ step[v].pc = "pipe" /\ UNCHANGED <<phase, remaining>>
      /\ phase # "handling" /\ step[v].repl \subseteq Req
      /\ Shape(step[v]) /\ Members(v, step[v], req)
  BY Serving DEF EndPipe, FInv, Flow, IInv, TypeOK, Step
<1>2. /\ step[v].moved \subseteq step[v].pipe /\ step[v].pipe \subseteq Req
      /\ \A s \in Req :
           /\ req'[s].q = req[s].q /\ req'[s].ve = req[s].ve
           /\ s \in step[v].moved => ~ req'[s].fx /\ req'[s].home = v
           /\ s \notin step[v].moved =>
                req'[s].fx = req[s].fx /\ req'[s].home = req[s].home
           /\ s \notin step[v].pipe => req'[s] = req[s]
  BY EndPipeRequests
<1>3. /\ \A u \in Inst \ {v} : step'[u] = step[u]
      /\ step'[v].pc = "repl" \/ step'[v].repl = {}
      /\ step'[v].repl \subseteq step[v].repl
      /\ \A i \in Inst : /\ step'[v].pack[i] \subseteq step[v].pipe
                         /\ step'[v].pc # "pack" => step'[v].pack[i] = {}
      /\ step'[v].pipe = {} /\ step'[v].shard = {}
      /\ step'[v].moved = {} /\ step'[v].fresh = {}
  BY EndPipeCoroutine
<1>4. Shape(step'[v])
  BY <1>3 DEF Shape
<1>5. Members(v, step'[v], req')
  <2>1. ASSUME NEW r \in step'[v].repl
        PROVE  req'[r].q = "running" /\ req'[r].ve = v /\ ~ req'[r].fx
    <3>1. r \in Req /\ req[r].q = "running" /\ req[r].ve = v /\ ~ req[r].fx
      BY <1>1, <1>3 DEF Members
    <3>2. r \notin step[v].moved
      BY <1>1, <1>2, <3>1 DEF Members
    <3>3. QED
      BY <1>2, <3>1, <3>2
  <2>2. ASSUME NEW i \in Inst, NEW r \in step'[v].pack[i]
        PROVE  req'[r].q = "running" /\ req'[r].ve = v
    BY <1>1, <1>2, <1>3 DEF Members
  <2>3. QED
    BY <1>3, <2>1, <2>2 DEF Members
<1>6. Flow'
  <2>1. \A s \in step[v].pipe : req[s].ve = v
    BY <1>1 DEF Members
  <2>2. QED
    BY <1>1, <1>2, <1>3, <1>4, <1>5, <2>1, FlowStep
<1>7. Kinds'
  <2>1. ASSUME NEW s \in step[v].moved
        PROVE  KindOf(req'[s], phase)
    <3>1. req[s].q = "running" /\ req[s].ve = v /\ s \in Req
      BY <1>1, <1>2 DEF Members
    <3>2. QED
      BY <1>1, <1>2, <3>1 DEF KindOf
  <2>2. QED
    BY <1>1, <1>2, <2>1, KindsKept
<1>8. QED
  BY <1>6, <1>7

\* One request is packed by one manager, which may leave it as it is.
LEMMA PackOf ==
  ASSUME FInv, NEW v \in Inst, Pack(v)
  PROVE  /\ step[v].pc = "pack" /\ UNCHANGED <<phase, req, stopped, resharding, remaining>>
         /\ \A u \in Inst \ {v} : step'[u] = step[u]
         /\ step'[v].pc \in {"grow", "pack"}
         /\ \A i \in Inst : /\ step'[v].pack[i] \subseteq step[v].pack[i]
                            /\ step'[v].pc = "grow" => step'[v].pack[i] = {}
         /\ step'[v].pipe = step[v].pipe /\ step'[v].repl = step[v].repl
         /\ step'[v].shard = step[v].shard
         /\ step'[v].moved = step[v].moved /\ step'[v].fresh = step[v].fresh
         /\ \E i \in Inst, r \in Req :
              /\ r \in step[v].pack[i]
              /\ bm'[i] = bm[i] \/ bm'[i] \in PackOne(bm[i], r)
              /\ \A j \in Inst \ {i} : bm'[j] = bm[j]
<1>1. /\ step[v].pc = "pack" /\ UNCHANGED <<phase, req, stopped, resharding, remaining>>
      /\ bm \in [Inst -> Manager] /\ step \in [Inst -> Step] /\ step[v] \in Step
  BY DEF Pack, FInv, IInv, TypeOK
<1>2. PICK i \in Inst, r \in Req :
       /\ r \in step[v].pack[i]
       /\ LET packed == PackOne(bm[i], r)
              left == [step[v].pack EXCEPT ![i] = IF packed = {} THEN {}
                                                  ELSE @ \ {r}]
          IN  /\ bm' \in {[bm EXCEPT ![i] = m] :
                            m \in IF packed = {} THEN {bm[i]} ELSE packed}
              /\ step' = [step EXCEPT
                            ![v].pack = left,
                            ![v].pc = IF \A j \in Inst : left[j] = {}
                                      THEN "grow" ELSE "pack"]
  BY DEF Pack
<1> DEFINE packed == PackOne(bm[i], r)
           left == [step[v].pack EXCEPT ![i] = IF packed = {} THEN {} ELSE @ \ {r}]
           pc == IF \A j \in Inst : left[j] = {} THEN "grow" ELSE "pack"
<1>3. PICK m \in IF packed = {} THEN {bm[i]} ELSE packed : bm' = [bm EXCEPT ![i] = m]
  BY <1>2
<1>4. /\ bm'[i] = m /\ \A j \in Inst \ {i} : bm'[j] = bm[j]
      /\ m = bm[i] \/ m \in PackOne(bm[i], r)
  BY <1>1, <1>3
<1>5. /\ \A j \in Inst : left[j] \subseteq step[v].pack[j]
      /\ pc \in {"grow", "pack"} /\ (pc = "grow" => \A j \in Inst : left[j] = {})
  <2>1. step[v].pack \in [Inst -> SUBSET Req]
    BY <1>1 DEF Step
  <2>2. QED
    BY <2>1
<1>6. step' = [step EXCEPT ![v] = [step[v] EXCEPT !.pack = left, !.pc = pc]]
  BY <1>1, <1>2
<1> HIDE DEF left, pc
<1>7. step'[v] = [step[v] EXCEPT !.pack = left, !.pc = pc]
      /\ \A u \in Inst \ {v} : step'[u] = step[u]
  BY <1>1, <1>6
<1>8. /\ step'[v].pack = left /\ step'[v].pc = pc
      /\ step'[v].pipe = step[v].pipe /\ step'[v].repl = step[v].repl
      /\ step'[v].shard = step[v].shard
      /\ step'[v].moved = step[v].moved /\ step'[v].fresh = step[v].fresh
  BY <1>1, <1>7 DEF Step
<1>9. \E j \in Inst, s \in Req :
        /\ s \in step[v].pack[j]
        /\ bm'[j] = bm[j] \/ bm'[j] \in PackOne(bm[j], s)
        /\ \A k \in Inst \ {j} : bm'[k] = bm[k]
  BY <1>2, <1>4
<1>10. QED
  BY <1>1, <1>5, <1>7, <1>8, <1>9

LEMMA PackFlow ==
  ASSUME FInv, NEW v \in Inst, Pack(v)
  PROVE  Flow' /\ Kinds'
<1>1. /\ step[v].pc = "pack" /\ UNCHANGED <<phase, req, stopped, resharding, remaining>>
      /\ \A u \in Inst \ {v} : step'[u] = step[u]
      /\ step'[v].pc \in {"grow", "pack"}
      /\ \A i \in Inst : /\ step'[v].pack[i] \subseteq step[v].pack[i]
                         /\ step'[v].pc = "grow" => step'[v].pack[i] = {}
      /\ step'[v].pipe = step[v].pipe /\ step'[v].repl = step[v].repl
      /\ step'[v].shard = step[v].shard
      /\ step'[v].moved = step[v].moved /\ step'[v].fresh = step[v].fresh
  BY PackOf
<1>2. /\ IInv /\ Flow /\ Kinds /\ Shape(step[v]) /\ Members(v, step[v], req)
  BY DEF FInv, Flow
<1>3. Shape(step'[v]) /\ Members(v, step'[v], req')
  BY <1>1, <1>2 DEF Shape, Members
<1>4. Flow'
  BY <1>1, <1>2, <1>3, FlowStep
<1>5. Kinds'
  BY <1>1, <1>2, KindsKept
<1>6. QED
  BY <1>4, <1>5

LEMMA ArriveFlow ==
  ASSUME FInv, NEW r \in Req, Arrive(r)
  PROVE  Flow' /\ Kinds'
<1>1. /\ IInv /\ Flow /\ Kinds /\ Marked /\ req \in [Req -> Request]
      /\ req[r].q = "out" /\ UNCHANGED <<phase, step, remaining>>
  BY DEF Arrive, FInv, IInv, TypeOK
<1>2. PICK v \in Inst, n \in 1 .. MaxLen :
        req' = [req EXCEPT ![r] = [@ EXCEPT !.q = "queued", !.ve = v, !.need = n]]
  BY DEF Arrive
<1>3. req'[r].q = "queued" /\ \A s \in Req \ {r} : req'[s] = req[s]
  BY <1>1, <1>2 DEF Request
<1>4. Flow'
  <2>1. r \notin Sharding
    BY <1>1, NotExchanged
  <2>2. ASSUME NEW u \in Inst
        PROVE  Shape(step'[u]) /\ Members(u, step'[u], req')
    BY <1>1, <1>3, <2>1, MembersKept DEF Sharding
  <2>3. QED
    BY <2>2 DEF Flow
<1>5. Kinds'
  <2>1. KindOf(req'[r], phase)
    BY <1>3 DEF KindOf
  <2>2. QED
    BY <1>1, <1>3, <2>1, KindsKept
<1>6. QED
  BY <1>4, <1>5

-----------------------------------------------------------------------------
(* The steps of the group.                                                 *)

\* Another phase, with the same requests.
LEMMA PhaseKinds ==
  ASSUME Kinds, UNCHANGED <<req, remaining>>,
         phase' # "handling", phase' = "balloon" \/ phase # "balloon" \/ Mode # "livereshard"
  PROVE  Kinds'
<1>1. ASSUME NEW s \in Req PROVE KindOf(req'[s], phase')
  BY DEF Kinds, KindOf
<1>2. QED
  BY <1>1 DEF Kinds

LEMMA VoteBalloonFlow ==
  ASSUME FInv, NEW S \in SUBSET Inst, VoteBalloon(S)
  PROVE  Flow' /\ Kinds'
<1>1. /\ phase = "initial" /\ phase' \in {"initial", "stopping_followers"}
      /\ UNCHANGED <<req, step, remaining>>
  BY DEF VoteBalloon
<1>2. QED
  BY <1>1, SameFlow, PhaseKinds DEF FInv

LEMMA MergeFlow ==
  ASSUME FInv, Merge
  PROVE  Flow' /\ Kinds'
<1>1. /\ IInv /\ Flow /\ Kinds /\ req \in [Req -> Request]
      /\ phase = "stopping_followers" /\ phase' = "dropping"
      /\ req' = [r \in Req |-> IF req[r].q = "running"
                               THEN [req[r] EXCEPT !.home = req[r].ve] ELSE req[r]]
      /\ UNCHANGED <<step, remaining>>
  BY DEF Merge, FInv, IInv, TypeOK
<1>2. \A s \in Req : /\ req'[s].q = req[s].q /\ req'[s].ve = req[s].ve
                     /\ req'[s].fx = req[s].fx
                     /\ req[s].q = "running" => req'[s].home = req[s].ve
  BY <1>1 DEF Request
<1>3. Flow'
  <2>1. ASSUME NEW u \in Inst
        PROVE  Shape(step'[u]) /\ Members(u, step'[u], req')
    BY <1>1, <1>2, MembersKept
  <2>2. QED
    BY <2>1 DEF Flow
<1>4. ASSUME NEW s \in Req PROVE KindOf(req'[s], phase')
  BY <1>1, <1>2 DEF Kinds, KindOf
<1>5. QED
  BY <1>1, <1>3, <1>4 DEF Kinds

LEMMA DropParametersFlow ==
  ASSUME FInv, DropParameters
  PROVE  Flow' /\ Kinds'
<1> DEFINE stale == UNION {Stale(v) : v \in Inst}
           early == IF Mode = "reshard" THEN stale ELSE {}
<1>1. /\ IInv /\ Flow /\ Kinds /\ req \in [Req -> Request]
      /\ phase = "dropping" /\ phase' = "handling" /\ AllIdle
      /\ req' = [r \in Req |-> [req[r] EXCEPT !.fx = @ \/ r \in early]]
      /\ remaining' = early /\ UNCHANGED step
  BY DEF DropParameters, FInv, IInv, TypeOK
<1>2. Flow'
  BY <1>1, IdleFlow
<1>3. ASSUME NEW s \in Req PROVE KindOf(req'[s], phase')
  <2>1. /\ req'[s].q = req[s].q /\ req'[s].ve = req[s].ve /\ req'[s].home = req[s].home
        /\ req'[s].fx <=> req[s].fx \/ s \in early
    BY <1>1 DEF Request
  <2>2. req[s].q = "running" /\ ~ req[s].fx => s \in stale
    BY <1>1 DEF Stale, Running, Request
  <2>3. KindOf(req[s], phase)
    BY <1>1 DEF Kinds
  <2> HIDE DEF stale
  <2>4. QED
    BY <1>1, <2>1, <2>2, <2>3 DEF KindOf
<1>4. QED
  BY <1>1, <1>2, <1>3 DEF Kinds

LEMMA RecomputeStaleFlow ==
  ASSUME FInv, NEW r \in Req, RecomputeStale(r)
  PROVE  Flow' /\ Kinds'
<1>1. /\ IInv /\ Flow /\ Kinds /\ TypeOK /\ AllIdle /\ req \in [Req -> Request]
      /\ req' = [req EXCEPT ![r] = Recomputed(r)]
      /\ UNCHANGED <<phase, step, remaining>>
  BY DEF RecomputeStale, FInv, IInv, TypeOK, Control
<1>2. KindOf(Recomputed(r), phase)
  BY <1>1, RecomputedKind
<1>3. req'[r] = Recomputed(r) /\ \A s \in Req \ {r} : req'[s] = req[s]
  BY <1>1
<1>4. QED
  BY <1>1, <1>2, <1>3, IdleFlow, KindsKept

LEMMA ReshardFlow ==
  ASSUME FInv, NEW r \in Req, Reshard(r)
  PROVE  Flow' /\ Kinds'
<1>1. remaining' \subseteq remaining /\ UNCHANGED <<phase, req, step>>
  BY DEF Reshard
<1>2. QED
  BY <1>1, SameFlow, KindsKept DEF FInv

LEMMA GiveUpReshardFlow ==
  ASSUME FInv, GiveUpReshard
  PROVE  Flow' /\ Kinds'
<1>1. remaining' \subseteq remaining /\ UNCHANGED <<phase, req, step>>
  BY DEF GiveUpReshard
<1>2. QED
  BY <1>1, SameFlow, KindsKept DEF FInv

\* The requests change their virtual engine, nothing else.
LEMMA EnterBalloonRequests ==
  ASSUME FInv, EnterBalloon
  PROVE  \A s \in Req : /\ req'[s] \in Request
                        /\ req'[s].q = req[s].q /\ req'[s].fx = req[s].fx
                        /\ req'[s].home = req[s].home /\ req'[s].need = req[s].need
                        /\ req'[s].ctx = req[s].ctx
                        /\ req[s].q # "running" => req'[s] = req[s]
<1> DEFINE load(v) == Cardinality(Running(v))
<1>1. PICK busiest \in Inst : \E laziest \in Inst :
        \E S \in kSubset((load(busiest) - load(laziest)) \div 2, Running(busiest)) :
          req' = [r \in Req |-> IF r \in S THEN [req[r] EXCEPT !.ve = laziest]
                                ELSE req[r]]
  BY DEF EnterBalloon
<1>2. PICK laziest \in Inst :
        \E S \in kSubset((load(busiest) - load(laziest)) \div 2, Running(busiest)) :
          req' = [r \in Req |-> IF r \in S THEN [req[r] EXCEPT !.ve = laziest]
                                ELSE req[r]]
  BY <1>1
<1>3. PICK S \in kSubset((load(busiest) - load(laziest)) \div 2, Running(busiest)) :
        req' = [r \in Req |-> IF r \in S THEN [req[r] EXCEPT !.ve = laziest]
                              ELSE req[r]]
  BY <1>2
<1>4. S \subseteq Running(busiest)
  BY DEF kSubset
<1>5. ASSUME NEW s \in Req
      PROVE  /\ req'[s] \in Request
             /\ req'[s].q = req[s].q /\ req'[s].fx = req[s].fx
             /\ req'[s].home = req[s].home /\ req'[s].need = req[s].need
             /\ req'[s].ctx = req[s].ctx
             /\ req[s].q # "running" => req'[s] = req[s]
  <2>1. req[s] \in Request
    BY DEF FInv, IInv, TypeOK
  <2>2. CASE s \in S
    <3>1. req'[s] = [req[s] EXCEPT !.ve = laziest] /\ req[s].q = "running"
      BY <1>3, <1>4, <2>2 DEF Running
    <3>2. QED
      BY <2>1, <3>1 DEF Request
  <2>3. CASE s \notin S
    BY <1>3, <2>1, <2>3
  <2>4. QED
    BY <2>2, <2>3
<1>6. QED
  BY <1>5

LEMMA EnterBalloonFlow ==
  ASSUME FInv, EnterBalloon
  PROVE  Flow' /\ Kinds'
<1>1. /\ phase = "handling" /\ phase' = "balloon" /\ remaining = {} /\ remaining' = {}
      /\ (Mode = "recompute" => \A v \in Inst : Stale(v) = {})
      /\ step' = FirstBatch /\ Kinds /\ TypeOK
  BY DEF EnterBalloon, FInv, IInv
<1>2. Flow'
  <2>1. \A v \in Inst : Empty(step'[v])
    BY <1>1, EmptySteps DEF FirstBatch
  <2>2. QED
    BY <2>1, EmptyFlow DEF Flow
<1>3. ASSUME NEW s \in Req PROVE KindOf(req'[s], phase')
  <2>1. /\ req'[s].q = req[s].q /\ req'[s].fx = req[s].fx /\ req[s].ve \in Inst
    BY <1>1, EnterBalloonRequests DEF TypeOK, Request
  <2>2. KindOf(req[s], phase)
    BY <1>1 DEF Kinds
  <2>3. Mode = "recompute" => ~ (req[s].q = "running" /\ ~ req[s].fx)
    BY <1>1, <2>1 DEF Stale, Running
  <2>4. QED
    BY <1>1, <2>1, <2>2, <2>3, GroupAssumption DEF KindOf
<1>4. QED
  BY <1>1, <1>2, <1>3 DEF Kinds

LEMMA RestoreFlow ==
  ASSUME NoLiveRestore, FInv, Restore
  PROVE  Flow' /\ Kinds'
<1>1. IInv /\ Flow /\ Kinds /\ TypeOK
  BY DEF FInv, IInv
<1>2. CASE Split
  <2>1. /\ phase = "stopping_init" /\ phase' = "initial" /\ AllIdle
        /\ req' = [r \in Req |->
                     IF req[r].ve = 0 THEN req[r]
                     ELSE IF req[r].q = "running" THEN [req[r] EXCEPT !.home = req[r].ve]
                     ELSE IF req[r].q = "waiting" THEN [req[r] EXCEPT !.q = "lost"]
                     ELSE req[r]]
        /\ UNCHANGED <<step, remaining>>
    BY <1>2 DEF Split
  <2>2. ASSUME NEW s \in Req PROVE KindOf(req'[s], phase')
    <3>1. req[s] \in Request /\ KindOf(req[s], phase)
      BY <1>1 DEF TypeOK, Kinds
    <3>2. req[s].q # "waiting"
      BY <2>1, <3>1 DEF KindOf
    <3>3. req'[s] = req[s] \/ req'[s] = [req[s] EXCEPT !.home = req[s].ve]
      BY <2>1, <3>2
    <3>4. QED
      BY <2>1, <3>1, <3>2, <3>3 DEF KindOf, Request
  <2>3. QED
    BY <1>1, <2>1, <2>2, IdleFlow DEF Kinds
<1>3. CASE ~ Split
  <2>1. /\ UNCHANGED <<req, step, remaining>>
        /\ phase' # "handling" /\ AllowRestore
        /\ phase # "balloon" \/ phase' = "reclaiming"
    BY <1>1, <1>3 DEF Restore, StartReclaim, EndReclaim, Reloaded, Reclaim,
                      RestoreInstance, VoteInit, IInv, Control, RestorePhases
  <2>2. Mode # "livereshard"
    BY <2>1 DEF NoLiveRestore
  <2>3. QED
    BY <1>1, <2>1, <2>2, SameFlow, PhaseKinds
<1>4. QED
  BY <1>2, <1>3

LEMMA NextFInv ==
  ASSUME NoLiveRestore, FInv, [Next]_vars
  PROVE  FInv'
<1>1. SUFFICES Flow' /\ Kinds'
  BY NextIInv DEF FInv
<1>2. ASSUME NEW r \in Req, Arrive(r) PROVE Flow' /\ Kinds'
  BY <1>2, ArriveFlow
<1>3. ASSUME NEW v \in Inst, StepOf(v) PROVE Flow' /\ Kinds'
  <2>1. ASSUME NEW r \in Req,
               \/ StartReshard(v, r)
               \/ FreeFinished(v, r) \/ Grow(v, r) \/ Preempt(v, r)
               \/ Adopt(v, r) \/ Admit(v, r) \/ Refuse(v, r)
        PROVE  Flow' /\ Kinds'
    BY <2>1, StartReshardFlow, FreeFinishedFlow, GrowFlow, PreemptFlow, AdoptFlow,
       AdmitFlow, RefuseFlow
  <2>2. QED
    BY <1>3, <2>1, StartStepFlow, FinishReshardFlow, EndPipeFlow, EndReplFlow,
       PackFlow, NextStoppedFlow, GrownFlow DEF StepOf
<1>4. CASE Balloon
  <2>1. ASSUME NEW S \in SUBSET Inst, VoteBalloon(S) PROVE Flow' /\ Kinds'
    BY <2>1, VoteBalloonFlow
  <2>2. ASSUME NEW r \in Req, RecomputeStale(r) \/ Reshard(r) PROVE Flow' /\ Kinds'
    BY <2>2, RecomputeStaleFlow, ReshardFlow
  <2>3. QED
    BY <1>4, <2>1, <2>2, MergeFlow, DropParametersFlow, GiveUpReshardFlow,
       EnterBalloonFlow DEF Balloon
<1>5. CASE Restore
  BY <1>5, RestoreFlow
<1>6. CASE UNCHANGED vars
  BY <1>6 DEF vars, FInv, Flow, Kinds
<1>7. QED
  BY <1>2, <1>3, <1>4, <1>5, <1>6 DEF Next

LEMMA InitFInv == Init => FInv
<1> SUFFICES ASSUME Init PROVE FInv
  OBVIOUS
<1>1. /\ phase = "initial" /\ req = [r \in Req |-> NewRequest]
      /\ step = [v \in Inst |-> NoStep] /\ remaining = {}
  BY DEF Init
<1>2. Flow
  BY <1>1, EmptySteps, EmptyFlow DEF Flow
<1>3. Kinds
  BY <1>1 DEF Kinds, KindOf, NewRequest
<1>4. QED
  BY <1>2, <1>3, InitIInv DEF FInv

LEMMA FInvariance == NoLiveRestore => (Spec => []FInv)
<1> SUFFICES ASSUME NoLiveRestore PROVE Spec => []FInv
  OBVIOUS
<1>1. Init => FInv
  BY InitFInv
<1>2. FInv /\ [Next]_vars => FInv'
  BY NextFInv
<1>3. QED
  BY <1>1, <1>2, PTL DEF Spec

-----------------------------------------------------------------------------
(* The blocks of a batch on the workers.                                   *)

\* What is on the workers is running, and its virtual engine is there.
LEMMA Flying ==
  ASSUME FInv, NEW r \in InFlight
  PROVE  /\ r \in Req /\ req[r].q = "running"
         /\ r \in step[req[r].ve].pipe \cup step[req[r].ve].repl
         /\ step[req[r].ve].pc \in {"pipe", "repl"}
<1>1. PICK v \in Inst : r \in step[v].pipe \cup step[v].repl
  BY DEF InFlight
<1>2. /\ Shape(step[v]) /\ Members(v, step[v], req) /\ step[v] \in Step
  BY DEF FInv, Flow, IInv, TypeOK
<1>3. r \in Req /\ req[r].q = "running" /\ req[r].ve = v
  BY <1>1, <1>2 DEF Members, Step
<1>4. step[v].pc \in {"pipe", "repl"}
  BY <1>1, <1>2 DEF Shape
<1>5. QED
  BY <1>1, <1>3, <1>4

KeepsFlying ==
  \A r \in Req : r \in InFlight /\ r \in InFlight' =>
    \A i \in Inst : bm'[i].block_table[r] = bm[i].block_table[r]

LEMMA TablesKept ==
  ASSUME \A i \in Inst : bm'[i].block_table = bm[i].block_table
  PROVE  KeepsFlying
  BY DEF KeepsFlying

LEMMA OneKept ==
  ASSUME NEW r, r \notin InFlight \/ r \notin InFlight', OthersKeep(bm, bm', r)
  PROVE  KeepsFlying
  BY DEF KeepsFlying, OthersKeep

LEMMA NoneFlying ==
  ASSUME FInv, AllIdle
  PROVE  KeepsFlying
<1>1. InFlight = {}
  BY IdleFlow DEF FInv, InFlight, AllIdle, Idle, Flow, Shape
<1>2. QED
  BY <1>1 DEF KeepsFlying

LEMMA GrowFlying ==
  ASSUME FInv, NEW v \in Inst, NEW r \in Req, Grow(v, r)
  PROVE  KeepsFlying
<1>1. /\ step[v].pc = "grow" /\ req[r].q = "running" /\ req[r].ve = v
      /\ bm' \in OneEach(AllocateOn(bm, r, Where(r)))
      /\ IInv /\ TypeOK
  BY DEF Grow, Growing, Running, FInv, IInv
<1>2. Where(r) \in SUBSET Inst
  BY <1>1 DEF TypeOK, Request, Where
<1>3. OthersKeep(bm, bm', r)
  BY <1>1, <1>2, RightNow, AllocateManagers
<1>4. r \notin InFlight
  BY <1>1, Flying
<1>5. QED
  BY <1>3, <1>4, OneKept

LEMMA FreeFinishedFlying ==
  ASSUME FInv, NEW v \in Inst, NEW r \in Req, FreeFinished(v, r)
  PROVE  KeepsFlying
<1>1. /\ step[v].pc = "grow" /\ req[r].q = "running" /\ req[r].ve = v
      /\ bm' \in OneEach(FreeOn(bm, r, Where(r)))
      /\ IInv
  BY DEF FreeFinished, Growing, Finished, Running, FInv
<1>2. OthersKeep(bm, bm', r)
  BY <1>1, RightNow, FreeEverywhere
<1>3. r \notin InFlight
  BY <1>1, Flying
<1>4. QED
  BY <1>2, <1>3, OneKept

\* A preemption: r gets blocks on some instances, and w, if there is one,
\* gives all of its own back.
LEMMA PreemptManagers ==
  ASSUME IInv, NEW v \in Inst, NEW r \in Req, Preempt(v, r)
  PROVE  \E Is \in SUBSET Where(r) : \E b \in OneEach(AllocateOn(bm, r, Is)) :
           /\ Is \in SUBSET Inst /\ Right(b) /\ OthersKeep(bm, b, r)
           /\ \/ Victims(v, r) = {} /\ bm' = b /\ SetPc(v, "idle") /\ UNCHANGED req
              \/ \E w \in Victims(v, r) :
                   /\ bm' \in OneEach(FreeOn(b, w, Where(w)))
                   /\ req' = [req EXCEPT ![w] = Recomputed(w)]
                   /\ UNCHANGED step
<1> DEFINE fails == {i \in Where(r) : Allocate(bm[i], r, req[r].need, req[r].fx) = {}}
           first == CHOOSE i \in fails : \A j \in fails : i <= j
           Is    == {i \in Where(r) : i < first}
<1>1. PICK b \in OneEach(AllocateOn(bm, r, Is)) :
           IF Victims(v, r) = {} THEN bm' = b /\ SetPc(v, "idle") /\ UNCHANGED req
           ELSE \E w \in Victims(v, r) :
                  /\ bm' \in OneEach(FreeOn(b, w, Where(w)))
                  /\ req' = [req EXCEPT ![w] = Recomputed(w)]
                  /\ UNCHANGED step
  BY DEF Preempt
<1>2. Is \in SUBSET Where(r) /\ Is \in SUBSET Inst
  BY DEF IInv, TypeOK, Request, Where
<1> HIDE DEF Is
<1>3. Right(b) /\ OthersKeep(bm, b, r)
  BY <1>1, <1>2, RightNow, AllocateManagers DEF Preempt, Running, IInv
<1>4. QED
  BY <1>1, <1>2, <1>3

LEMMA PreemptFlying ==
  ASSUME FInv, NEW v \in Inst, NEW r \in Req, Preempt(v, r)
  PROVE  KeepsFlying
<1>1. step[v].pc = "grow" /\ req[r].q = "running" /\ req[r].ve = v /\ IInv
  BY DEF Preempt, Growing, Running, FInv
<1>2. PICK b :
        /\ OthersKeep(bm, b, r) /\ Right(b)
        /\ \/ bm' = b
           \/ \E w \in Victims(v, r) : bm' \in OneEach(FreeOn(b, w, Where(w)))
  BY <1>1, PreemptManagers
<1>3. r \notin InFlight
  BY <1>1, Flying
<1>4. CASE bm' = b
  BY <1>2, <1>3, <1>4, OneKept
<1>5. ASSUME NEW w \in Victims(v, r), bm' \in OneEach(FreeOn(b, w, Where(w)))
      PROVE  KeepsFlying
  <2>1. w \in Req /\ req[w].q = "running" /\ req[w].ve = v
    BY DEF Victims, Running
  <2>2. w \notin InFlight
    BY <1>1, <2>1, Flying
  <2>3. OthersKeep(b, bm', w)
    BY <1>1, <1>2, <1>5, <2>1, FreeEverywhere
  <2>4. QED
    BY <1>2, <1>3, <2>2, <2>3 DEF KeepsFlying, OthersKeep
<1>6. QED
  BY <1>2, <1>4, <1>5

\* An admission allocates for the admitted request only.
LEMMA AdmitManagers ==
  ASSUME IInv, NEW v \in Inst, NEW r \in Req, Admit(v, r)
  PROVE  /\ bm' \in [Inst -> Manager] /\ OthersKeep(bm, bm', r)
         /\ req[r].need \in Nat /\ Fused \in BOOLEAN
         /\ \A i \in Inst :
              IF Fused \/ i = v THEN bm'[i] \in Allocate(bm[i], r, req[r].need, Fused)
              ELSE bm'[i] = bm[i]
<1> DEFINE rq == Checked(r, v, "running")
           M  == [i \in Inst |->
                    IF Fused \/ i = v THEN Allocate(bm[i], r, rq.need, rq.fx)
                    ELSE {bm[i]}]
<1>1. bm' \in OneEach(M)
  BY DEF Admit
<1>2. /\ rq.need = req[r].need /\ rq.fx = Fused
      /\ req[r].need \in Nat /\ Fused \in BOOLEAN
  <2>1. req[r] \in Request
    BY DEF IInv, TypeOK
  <2>2. rq.need = req[r].need /\ rq.fx = Fused
    BY <2>1 DEF Checked, Request
  <2>3. Fused \in BOOLEAN
    BY FusedPhase
  <2>4. req[r].need \in Nat
    BY <2>1, GroupAssumption DEF Request
  <2>5. QED
    BY <2>2, <2>3, <2>4
<1> HIDE DEF rq
<1>3. ASSUME NEW i \in Inst
      PROVE  /\ bm'[i] \in Manager
             /\ \A s \in Req \ {r} : bm'[i].block_table[s] = bm[i].block_table[s]
             /\ IF Fused \/ i = v
                THEN bm'[i] \in Allocate(bm[i], r, req[r].need, Fused)
                ELSE bm'[i] = bm[i]
  <2>1. PoolOK(bm[i], phase)
    BY DEF IInv, Pools
  <2>2. bm'[i] \in M[i]
    BY <1>1, OneEachType
  <2>3. CASE Fused \/ i = v
    <3>1. bm'[i] \in Allocate(bm[i], r, req[r].need, Fused)
      BY <1>2, <2>2, <2>3
    <3>2. /\ PoolOK(bm'[i], phase)
          /\ \A s \in Req \ {r} : bm'[i].block_table[s] = bm[i].block_table[s]
      BY <1>2, <2>1, <3>1, AllocatePool
    <3>3. QED
      BY <2>3, <3>1, <3>2 DEF PoolOK
  <2>4. CASE ~ (Fused \/ i = v)
    BY <2>1, <2>2, <2>4 DEF PoolOK
  <2>5. QED
    BY <2>3, <2>4
<1>4. bm' = [i \in Inst |-> bm'[i]]
  BY <1>1, OneEachType
<1>5. bm' \in [Inst -> Manager] /\ OthersKeep(bm, bm', r)
  BY <1>3, <1>4 DEF OthersKeep
<1>6. QED
  BY <1>2, <1>3, <1>5

LEMMA AdmitFlying ==
  ASSUME FInv, NEW v \in Inst, NEW r \in Req, Admit(v, r)
  PROVE  KeepsFlying
<1>1. req[r].q = "queued" /\ IInv
  BY DEF Admit, Queued, FInv
<1>2. r \notin InFlight
  BY <1>1, Flying
<1>3. QED
  BY <1>1, <1>2, AdmitManagers, OneKept

LEMMA StartReshardFlying ==
  ASSUME FInv, NEW v \in Inst, NEW r \in Req, StartReshard(v, r)
  PROVE  KeepsFlying
<1>1. PICK b \in OneEach(OnPeers(r)) : Launch(v, b, {r})
  BY DEF StartReshard
<1>2. /\ req[r].q = "running" /\ req[r].ve = v /\ step[v].pc = "idle" /\ IInv
  BY DEF StartReshard, Stale, Running, CanStart, Idle, FInv
<1>3. r \notin InFlight
  BY <1>2, Flying
<1>4. b \in [Inst -> Manager] /\ OthersKeep(bm, b, r)
  BY <1>1, <1>2, OnPeersStep
<1>5. \A i \in Inst : bm'[i].block_table = b[i].block_table
  <2> DEFINE sh == {r}
  <2>1. sh \in SUBSET Req /\ Launch(v, b, sh) /\ \A s, t \in sh : s = t
    BY <1>1
  <2> HIDE DEF sh
  <2>2. /\ bm'[v] = Without(b[v], step'[v].fresh)
        /\ \A i \in Inst \ {v} : bm'[i] = b[i]
    BY <1>2, <1>4, <2>1, LaunchShape
  <2>3. b[v] \in Manager
    BY <1>4
  <2>4. bm'[v].block_table = b[v].block_table
    BY <2>2, <2>3 DEF Without, Manager
  <2>5. QED
    BY <2>2, <2>4
<1>6. OthersKeep(bm, bm', r)
  BY <1>4, <1>5 DEF OthersKeep
<1>7. QED
  BY <1>3, <1>6, OneKept

LEMMA FinishReshardFlying ==
  ASSUME FInv, NEW v \in Inst, FinishReshard(v)
  PROVE  KeepsFlying
<1>1. PICK r \in step[v].shard :
        bm' = [bm EXCEPT ![req[r].home] = FreeIntoFusionExcept(@, r, req[r].home)]
  BY DEF FinishReshard
<1>2. /\ IInv /\ TypeOK /\ Control /\ Owners /\ r \in Req
      /\ req[r].q = "waiting" /\ phase = "balloon" /\ phase \in FusedPhases
      /\ bm \in [Inst -> Manager] /\ \A i \in Inst : PoolOK(bm[i], phase)
      /\ Local0(bm, r)
  BY DEF FInv, IInv, TypeOK, Step, Control, Marked, Pools, Owners, FusedPhases
<1>3. OthersKeep(bm, bm', r)
  BY <1>1, <1>2, ExchangeHome
<1>4. r \notin InFlight
  BY <1>2, Flying
<1>5. QED
  BY <1>3, <1>4, OneKept

\* The blocks S become those of request r.
Giving(m, r, S) ==
  [m EXCEPT !.block_table = [s \in Req |-> IF s = r THEN S ELSE m.block_table[s]]]

LEMMA GivingStep ==
  ASSUME NEW m \in Manager, NEW r \in Req, NEW S
  PROVE  LET b == Giving(m, r, S)
         IN  /\ b.block_table[r] = S
             /\ \A s \in Req \ {r} : b.block_table[s] = m.block_table[s]
             /\ b.free_gpu = m.free_gpu /\ b.reserved = m.reserved
             /\ b.free_fusion = m.free_fusion /\ b.is_fusion_state = m.is_fusion_state
  BY DEF Giving, Manager

\* After a live restore every manager has freed the request that moved home.
LEMMA RestoredManagers ==
  ASSUME FInv, NEW v \in Inst, bm' \in Restored(v), NEW r \in step[v].moved
  PROVE  /\ step[v].moved = {r} /\ r \in Req
         /\ \E b \in OneEach(FreeOn(bm, r, Inst)) :
              /\ \A i \in Inst : b[i] \in Free(bm[i], r, req[r].fx)
              /\ \A i \in Inst \ {v} : bm'[i] = b[i]
              /\ bm'[v] = Giving(b[v], r, step[v].fresh)
<1>1. step[v].moved = {r} /\ r \in Req
  BY DEF FInv, Flow, Shape, IInv, TypeOK, Step
<1>2. PICK b \in OneEach(FreeOn(bm, r, Inst)) :
        bm' = [b EXCEPT ![v].block_table =
                 [s \in Req |-> IF s \in step[v].moved THEN step[v].fresh ELSE @[s]]]
  BY <1>1 DEF Restored
<1>3. /\ \A i \in Inst : b[i] \in Free(bm[i], r, req[r].fx)
      /\ b = [i \in Inst |-> b[i]]
  BY <1>2, OneEachType DEF FreeOn
<1>4. /\ bm'[v] = [b[v] EXCEPT !.block_table =
             [s \in Req |-> IF s \in step[v].moved THEN step[v].fresh
                            ELSE b[v].block_table[s]]]
      /\ \A i \in Inst \ {v} : bm'[i] = b[i]
  BY <1>2, <1>3
<1>5. \A s : s \in step[v].moved <=> s = r
  BY <1>1
<1>6. bm'[v] = Giving(b[v], r, step[v].fresh)
  BY <1>4, <1>5 DEF Giving
<1>7. QED
  BY <1>1, <1>2, <1>3, <1>4, <1>6

LEMMA EndPipeFlying ==
  ASSUME FInv, NEW v \in Inst, EndPipe(v)
  PROVE  KeepsFlying
<1>1. bm' \in Restored(v) /\ IInv
  BY DEF EndPipe, FInv
<1>2. CASE step[v].moved = {}
  BY <1>1, <1>2, TablesKept DEF Restored
<1>3. CASE step[v].moved # {}
  <2>1. PICK r \in step[v].moved : TRUE
    BY <1>3
  <2>2. r \in Req /\ step[v].moved = {r}
    BY <1>1, RestoredManagers
  <2>3. PICK b \in OneEach(FreeOn(bm, r, Inst)) :
          /\ \A i \in Inst \ {v} : bm'[i] = b[i]
          /\ bm'[v] = Giving(b[v], r, step[v].fresh)
    BY <1>1, RestoredManagers
  <2>4. r \in step[v].pipe /\ req[r].q = "running" /\ req[r].fx /\ req[r].ve = v
    BY <1>1, <2>1 DEF IInv, Control, FInv, Flow, Members
  <2>5. Right(b) /\ OthersKeep(bm, b, r)
    BY <1>1, <2>2, <2>4, RightNow, FreeManagers DEF IInv
  <2>6. b[v] \in Manager
    BY <2>5 DEF Right
  <2>7. \A s \in Req \ {r} : bm'[v].block_table[s] = b[v].block_table[s]
    BY <2>2, <2>3, <2>6, GivingStep
  <2>8. OthersKeep(bm, bm', r)
    <3>1. ASSUME NEW i \in Inst, NEW s \in Req \ {r}
          PROVE  bm'[i].block_table[s] = bm[i].block_table[s]
      BY <2>3, <2>5, <2>7 DEF OthersKeep
    <3>2. QED
      BY <3>1 DEF OthersKeep
  <2>9. r \notin InFlight'
    <3>1. /\ \A u \in Inst \ {v} : step'[u] = step[u]
          /\ step'[v].repl \subseteq step[v].repl /\ step'[v].pipe = {}
      BY EndPipeCoroutine
    <3>2. r \notin step[v].repl
      BY <2>4 DEF FInv, Flow, Members
    <3>3. \A u \in Inst \ {v} : r \notin step[u].pipe \cup step[u].repl
      BY <2>4 DEF FInv, Flow, Members
    <3>4. QED
      BY <3>1, <3>2, <3>3 DEF InFlight
  <2>10. QED
    BY <2>8, <2>9, OneKept
<1>4. QED
  BY <1>2, <1>3

LEMMA PackFlying ==
  ASSUME FInv, NEW v \in Inst, Pack(v)
  PROVE  KeepsFlying
<1>1. step[v].pc = "pack"
  BY DEF Pack
<1>2. PICK i \in Inst, r \in Req :
        /\ r \in step[v].pack[i]
        /\ bm'[i] = bm[i] \/ bm'[i] \in PackOne(bm[i], r)
        /\ \A j \in Inst \ {i} : bm'[j] = bm[j]
  BY PackOf
<1>3. req[r].ve = v
  BY <1>2 DEF FInv, Flow, Members
<1>4. r \notin InFlight
  BY <1>1, <1>3, Flying
<1>5. OthersKeep(bm, bm', r)
  <2>1. bm[i] \in Manager /\ ExtendCounted(bm[i]) /\ Counted(bm[i])
    BY DEF FInv, IInv, Pools, PoolOK
  <2>2. \A s \in Req \ {r} : bm'[i].block_table[s] = bm[i].block_table[s]
    BY <1>2, <2>1, PackOneStep DEF Keeps
  <2>3. QED
    BY <1>2, <2>2 DEF OthersKeep
<1>6. QED
  BY <1>4, <1>5, OneKept

LEMMA MergeTables ==
  ASSUME IInv, Merge
  PROVE  \A i \in Inst : bm'[i].block_table = bm[i].block_table
<1> TAKE i \in Inst
<1>1. bm[i] \in Manager /\ bm'[i] = ConvertToPipeline(Given(i, bm[i]))
  BY DEF Merge, IInv, TypeOK
<1>2. /\ Given(i, bm[i]).block_table = bm[i].block_table
      /\ ConvertToPipeline(Given(i, bm[i])).block_table = Given(i, bm[i]).block_table
  BY <1>1 DEF Given, Handed, ConvertToPipeline, Manager
<1>3. QED
  BY <1>1, <1>2

LEMMA NextFlying ==
  ASSUME FInv, Next
  PROVE  KeepsFlying
<1>1. ASSUME NEW r \in Req, Arrive(r) PROVE KeepsFlying
  BY <1>1, TablesKept DEF Arrive
<1>2. ASSUME NEW v \in Inst, StepOf(v) PROVE KeepsFlying
  <2>1. ASSUME NEW r \in Req,
               \/ StartReshard(v, r)
               \/ FreeFinished(v, r) \/ Grow(v, r) \/ Preempt(v, r) \/ Admit(v, r)
        PROVE  KeepsFlying
    BY <2>1, StartReshardFlying, FreeFinishedFlying, GrowFlying, PreemptFlying,
       AdmitFlying
  <2>2. ASSUME NEW r \in Req, Adopt(v, r) \/ Refuse(v, r) PROVE KeepsFlying
    BY <2>2, TablesKept DEF Adopt, Refuse
  <2>3. CASE EndRepl(v) \/ NextStopped(v) \/ Grown(v)
    BY <2>3, TablesKept DEF EndRepl, NextStopped, Grown
  <2>4. CASE StartStep(v)
    <3>1. /\ IInv /\ bm \in [Inst -> Manager] /\ \A i \in Inst : PoolOK(bm[i], phase)
          /\ Launch(v, bm, {}) /\ UNCHANGED <<phase>>
      BY <2>4 DEF StartStep, FInv, IInv, TypeOK, Pools
    <3>2. \A i \in Inst : bm'[i].block_table = bm[i].block_table
      BY <3>1, LaunchStep
    <3>3. QED
      BY <3>2, TablesKept
  <2>5. QED
    BY <1>2, <2>1, <2>2, <2>3, <2>4, FinishReshardFlying, EndPipeFlying, PackFlying
       DEF StepOf
<1>3. CASE Balloon
  <2>1. ASSUME NEW S \in SUBSET Inst, VoteBalloon(S) PROVE KeepsFlying
    BY <2>1, TablesKept DEF VoteBalloon
  <2>2. CASE phase = "handling" \/ DropParameters
    <3>1. AllIdle
      BY <2>2 DEF DropParameters, FInv, IInv, Control
    <3>2. QED
      BY <3>1, NoneFlying
  <2>3. CASE Merge
    BY <2>3, MergeTables, TablesKept DEF FInv
  <2>4. QED
    BY <1>3, <2>1, <2>2, <2>3
       DEF Balloon, RecomputeStale, Reshard, GiveUpReshard, EnterBalloon
<1>4. CASE Restore
  <2>1. CASE RestoreInstance \/ Split
    BY <2>1, NoneFlying DEF RestoreInstance, Split
  <2>2. ASSUME NEW i \in Inst, Reclaim(i) PROVE KeepsFlying
    <3>1. /\ bm \in [Inst -> Manager] /\ bm' = [bm EXCEPT ![i] = PollExtend(@)]
      BY <2>2 DEF Reclaim, FInv, IInv, TypeOK
    <3>2. PollExtend(bm[i]).block_table = bm[i].block_table
      BY <3>1 DEF PollExtend, Manager
    <3>3. \A j \in Inst : bm'[j].block_table = bm[j].block_table
      BY <3>1, <3>2
    <3>4. QED
      BY <3>3, TablesKept
  <2>3. CASE StartReclaim \/ EndReclaim \/ Reloaded \/ VoteInit
    BY <2>3, TablesKept DEF StartReclaim, EndReclaim, Reloaded, VoteInit
  <2>4. QED
    BY <1>4, <2>1, <2>2, <2>3 DEF Restore
<1>5. QED
  BY <1>1, <1>2, <1>3, <1>4 DEF Next

\* The blocks of a request do not change while its batch is on the workers,
\* whatever the other virtual engines and the group do meanwhile: exchanges,
\* preemptions, admissions, the merge of the group and its reclaiming
\* (_step, _get_next_batch, _reshard_blocks_batched).
THEOREM InFlightTheorem == NoLiveRestore => (Spec => InFlightKeepsBlocks)
<1> SUFFICES ASSUME NoLiveRestore PROVE Spec => InFlightKeepsBlocks
  OBVIOUS
<1>1. FInv /\ [Next]_vars => [KeepsFlying]_vars
  BY NextFlying DEF vars
<1>2. Spec => []FInv
  BY FInvariance
<1>3. Spec => [][KeepsFlying]_vars
  BY <1>1, <1>2, PTL DEF Spec
<1>4. QED
  BY <1>3 DEF KeepsFlying, InFlightKeepsBlocks

-----------------------------------------------------------------------------
(* Where the blocks of every request are.                                  *)

\* reshard_blocks never returns with stale requests it has not exchanged
\* (only the mode "reshard" exchanges them before the group runs).
NeverGivesUp == [][Mode = "reshard" => ~ GiveUpReshard]_vars

Resting == {"out", "queued", "done"}
Active  == {"running", "waiting"}

\* The instances on which a scheduled request has blocks.
Owns(r) == IF r \in remaining THEN {req[r].home} ELSE Where(r)

\* What the managers b hold of request r.
Placed(b, r) ==
  /\ req[r].q \in Resting => \A i \in Inst : b[i].block_table[r] = {}
  /\ ~ req[r].fx => \A i \in Inst \ {req[r].home} : b[i].block_table[r] = {}
  /\ req[r].q \in Active => \A i \in Owns(r) : b[i].block_table[r] # {}

Placement == \A r \in Req : Placed(bm, r)

\* The managers b share the memory of their instances out; before a merge
\* nothing is reserved.
SharedOut(b) ==
  \A i \in Inst :
    /\ Parted(b[i], LocalOn(i), step[i].fresh)
    /\ phase \in InitialPhases => b[i].reserved = {}

PInv == FInv /\ Placement /\ SharedOut(bm)

-----------------------------------------------------------------------------
(* Steps that leave the placement or the shares as they are.               *)

SameTables(b, c) == \A i \in Inst : c[i].block_table = b[i].block_table

\* Request s goes on as it is, except that a request of the whole group may
\* get another home.
GoesOn(s) ==
  /\ req'[s].q \in Resting => req[s].q \in Resting
  /\ req'[s].q \in Active => req[s].q \in Active
  /\ req'[s].fx = req[s].fx
  /\ req'[s].home = req[s].home \/ (req[s].fx /\ s \notin Unexchanged)

\* Request s rests with no blocks.
Rests(b, s) == req'[s].q \in Resting /\ \A i \in Inst : b[i].block_table[s] = {}

LEMMA PlacedOn ==
  ASSUME NEW s \in Req, NEW b, Placed(b, s), GoesOn(s),
         s \in remaining' <=> s \in remaining,
         \A i \in Inst : bm'[i].block_table[s] = {} <=> b[i].block_table[s] = {},
         req[s].home \in Inst
  PROVE  Placed(bm, s)'
<1>1. CASE req'[s].home = req[s].home
  <2>1. /\ Where(s)' = Where(s) /\ Owns(s)' = Owns(s)
        /\ Where(s) \subseteq Inst /\ Owns(s) \subseteq Inst
    BY <1>1 DEF GoesOn, Where, Owns
  <2>2. QED
    BY <1>1, <2>1 DEF Placed, GoesOn
<1>2. CASE req[s].fx /\ s \notin Unexchanged
  <2>1. Owns(s)' = Inst /\ Owns(s) = Inst
    BY <1>2 DEF GoesOn, Where, Owns, Unexchanged
  <2>2. QED
    BY <1>2, <2>1 DEF Placed, GoesOn
<1>3. QED
  BY <1>1, <1>2 DEF GoesOn

LEMMA RestsPlaced ==
  ASSUME NEW s, Rests(bm', s)
  PROVE  Placed(bm, s)'
  BY DEF Rests, Placed, Resting, Active

LEMMA LabelOn ==
  ASSUME NEW s \in Req, NEW i \in Inst, GoesOn(s),
         s \in Unexchanged' <=> s \in Unexchanged
  PROVE  s \in LocalOn(i) <=> s \in LocalOn(i)'
  BY DEF GoesOn, LocalOn

\* The managers b are shared out with the labels of before the step.
LEMMA Labelled ==
  ASSUME \A i \in Inst : Parted(bm'[i], LocalOn(i), step'[i].fresh),
         \A i \in Inst, s \in Req : bm'[i].block_table[s] # {} =>
           (s \in LocalOn(i) <=> s \in LocalOn(i)'),
         phase' \in InitialPhases => \A i \in Inst : bm'[i].reserved = {}
  PROVE  SharedOut(bm)'
<1>1. ASSUME NEW i \in Inst PROVE Parted(bm'[i], LocalOn(i)', step'[i].fresh)
  BY Relabelled
<1>2. QED
  BY <1>1 DEF SharedOut

\* A step that moves no block and exchanges nothing.
LEMMA StillPlaced ==
  ASSUME PInv, SameTables(bm, bm'), UNCHANGED remaining,
         \A i \in Inst : step'[i].shard = step[i].shard,
         \A i \in Inst : Parted(bm'[i], LocalOn(i), step'[i].fresh),
         \A s \in Req : GoesOn(s) \/ Rests(bm, s),
         phase' \in InitialPhases => \A i \in Inst : bm'[i].reserved = {}
  PROVE  Placement' /\ SharedOut(bm)'
<1>1. ASSUME NEW s \in Req PROVE Placed(bm, s)'
  <2>1. CASE GoesOn(s)
    BY <2>1, PlacedOn DEF SameTables, PInv, Placement, FInv, IInv, TypeOK, Request
  <2>2. CASE Rests(bm, s)
    BY <2>2, RestsPlaced DEF Rests, SameTables
  <2>3. QED
    BY <2>1, <2>2
<1>2. \A s \in Req : s \in Unexchanged' <=> s \in Unexchanged
  BY DEF Unexchanged, Sharding
<1>3. \A i \in Inst, s \in Req : bm'[i].block_table[s] # {} =>
           (s \in LocalOn(i) <=> s \in LocalOn(i)')
  BY <1>2, LabelOn DEF Rests, SameTables
<1>4. QED
  BY <1>1, <1>3, Labelled DEF Placement

LEMMA StillShared ==
  ASSUME PInv, UNCHANGED <<bm, remaining>>,
         \A i \in Inst : step'[i].shard = step[i].shard /\ step'[i].fresh = step[i].fresh,
         \A s \in Req : GoesOn(s) \/ Rests(bm, s),
         phase' \in InitialPhases => phase \in InitialPhases
  PROVE  Placement' /\ SharedOut(bm)'
  BY StillPlaced DEF PInv, SharedOut, SameTables

LEMMA SameGoesOn ==
  ASSUME NEW s, req'[s] = req[s]
  PROVE  GoesOn(s)
  BY DEF GoesOn

LEMMA RestingRests ==
  ASSUME Placement, NEW s \in Req, req[s].q \in Resting, req'[s].q \in Resting
  PROVE  Rests(bm, s)
  BY DEF Placement, Placed, Rests

\* A step that only advances a coroutine which holds nothing.
LEMMA PcShared ==
  ASSUME PInv, NEW v \in Inst, step[v].pc \notin {"pipe", "repl", "pack"},
         NEW pc, SetPc(v, pc), UNCHANGED <<phase, bm, req, remaining>>
  PROVE  Placement' /\ SharedOut(bm)'
<1>1. \A i \in Inst : step'[i].shard = step[i].shard /\ step'[i].fresh = step[i].fresh
  BY SetPcEmpty DEF PInv, FInv
<1>2. \A s \in Req : GoesOn(s)
  BY SameGoesOn
<1>3. QED
  BY <1>1, <1>2, StillShared

LEMMA NextStoppedShared ==
  ASSUME PInv, NEW v \in Inst, NextStopped(v)
  PROVE  Placement' /\ SharedOut(bm)'
  BY PcShared DEF NextStopped

LEMMA GrownShared ==
  ASSUME PInv, NEW v \in Inst, Grown(v)
  PROVE  Placement' /\ SharedOut(bm)'
<1>1. PICK pc : SetPc(v, pc)
  BY DEF Grown
<1>2. QED
  BY <1>1, PcShared DEF Grown, Growing

LEMMA EndReplShared ==
  ASSUME PInv, NEW v \in Inst, EndRepl(v)
  PROVE  Placement' /\ SharedOut(bm)'
<1>1. PICK g \in Advanced(step[v].repl) :
        req' = [r \in Req |-> IF r \in step[v].repl THEN g[r] ELSE req[r]]
  BY DEF EndRepl
<1>2. /\ step' = [step EXCEPT ![v] = [NoStep EXCEPT !.pc = "grow"]]
      /\ UNCHANGED <<phase, bm, remaining>> /\ step[v].pc = "repl"
  BY DEF EndRepl
<1>3. /\ IInv /\ Flow /\ TypeOK /\ Control /\ step \in [Inst -> Step]
      /\ step[v].repl \in SUBSET Req
  BY DEF PInv, FInv, IInv, TypeOK, Step
<1>4. ASSUME NEW s \in Req PROVE GoesOn(s)
  <2>1. /\ req'[s].q = req[s].q /\ req'[s].fx = req[s].fx
        /\ req'[s].home = req[s].home
    BY <1>1, <1>3, AdvanceStep
  <2>2. QED
    BY <2>1 DEF GoesOn
<1>5. /\ \A u \in Inst \ {v} : step'[u] = step[u]
      /\ Empty(step'[v])
  BY <1>2, <1>3, EmptySteps
<1>6. step[v].shard = {} /\ step[v].moved = {} /\ step[v].fresh = {}
  BY <1>2, <1>3 DEF Control, Flow, Shape
<1>7. \A i \in Inst : step'[i].shard = step[i].shard /\ step'[i].fresh = step[i].fresh
  BY <1>5, <1>6 DEF Empty
<1>8. QED
  BY <1>2, <1>4, <1>7, StillShared

LEMMA ArriveShared ==
  ASSUME PInv, NEW r \in Req, Arrive(r)
  PROVE  Placement' /\ SharedOut(bm)'
<1>1. /\ req \in [Req -> Request] /\ Placement
      /\ req[r].q = "out" /\ UNCHANGED <<phase, bm, step, remaining>>
  BY DEF Arrive, PInv, FInv, IInv, TypeOK
<1>2. PICK v \in Inst, n \in 1 .. MaxLen :
        req' = [req EXCEPT ![r] = [@ EXCEPT !.q = "queued", !.ve = v, !.need = n]]
  BY DEF Arrive
<1>3. req'[r].q = "queued" /\ \A s \in Req \ {r} : req'[s] = req[s]
  BY <1>1, <1>2 DEF Request
<1>4. Rests(bm, r)
  BY <1>1, <1>3, RestingRests DEF Resting
<1>5. \A s \in Req : GoesOn(s) \/ Rests(bm, s)
  BY <1>3, <1>4, SameGoesOn
<1>6. QED
  BY <1>1, <1>5, StillShared

\* _check_add_to_cur_batch marks a request that has no blocks, or one that
\* is back from its exchange and keeps its mark.
LEMMA RefuseShared ==
  ASSUME PInv, NEW v \in Inst, NEW r \in Req, Refuse(v, r)
  PROVE  Placement' /\ SharedOut(bm)'
<1>1. /\ req \in [Req -> Request] /\ IInv /\ Flow /\ Placement
      /\ step[v].pc = "dispatch" /\ req[r].q = "queued"
      /\ req' = [req EXCEPT ![r] = Checked(r, v, "queued")] /\ SetPc(v, "idle")
      /\ UNCHANGED <<phase, bm, remaining>>
  BY DEF Refuse, Queued, PInv, FInv, IInv, TypeOK
<1>2. req'[r].q = "queued" /\ \A s \in Req \ {r} : req'[s] = req[s]
  BY <1>1 DEF Request, Checked
<1>3. Rests(bm, r)
  BY <1>1, <1>2, RestingRests DEF Resting
<1>4. \A s \in Req : GoesOn(s) \/ Rests(bm, s)
  BY <1>2, <1>3, SameGoesOn
<1>5. \A i \in Inst : step'[i].shard = step[i].shard /\ step'[i].fresh = step[i].fresh
  BY <1>1, SetPcEmpty
<1>6. QED
  BY <1>1, <1>4, <1>5, StillShared

LEMMA AdoptShared ==
  ASSUME PInv, NEW v \in Inst, NEW r \in Req, Adopt(v, r)
  PROVE  Placement' /\ SharedOut(bm)'
<1>1. /\ req \in [Req -> Request] /\ IInv /\ Flow /\ Kinds /\ Placement
      /\ step[v].pc = "adopt" /\ req[r].q = "waiting" /\ r \notin Sharding
      /\ UNCHANGED <<phase, bm, remaining>>
  BY DEF Adopt, Adoptable, PInv, FInv, IInv, TypeOK
<1>2. PICK q \in {"running", "waiting"} : req' = [req EXCEPT ![r] = Checked(r, v, q)]
  BY DEF Adopt
<1>3. PICK pc : SetPc(v, pc)
  BY DEF Adopt
<1>4. /\ req'[r].q \in {"running", "waiting"} /\ req'[r].fx = Fused
      /\ \A s \in Req \ {r} : req'[s] = req[s]
  BY <1>1, <1>2 DEF Request, Checked
<1>5. req[r].fx /\ Fused
  BY <1>1, FusedPhase DEF Kinds, KindOf, FusedPhases
<1>6. r \notin Unexchanged
  BY <1>1, NotExchanged DEF Unexchanged
<1>7. GoesOn(r)
  BY <1>1, <1>4, <1>5, <1>6 DEF GoesOn, Resting, Active
<1>8. \A s \in Req : GoesOn(s)
  BY <1>4, <1>7, SameGoesOn
<1>9. \A i \in Inst : step'[i].shard = step[i].shard /\ step'[i].fresh = step[i].fresh
  BY <1>1, <1>3, SetPcEmpty
<1>10. QED
  BY <1>1, <1>8, <1>9, StillShared

\* The group decides on a change of state, or takes a step of it that
\* concerns no block.
LEMMA DecisionShared ==
  ASSUME PInv, UNCHANGED <<bm, req, step, remaining>>,
         phase' \in InitialPhases => phase \in InitialPhases
  PROVE  Placement' /\ SharedOut(bm)'
  BY SameGoesOn, StillShared

LEMMA VoteBalloonShared ==
  ASSUME PInv, NEW S \in SUBSET Inst, VoteBalloon(S)
  PROVE  Placement' /\ SharedOut(bm)'
  BY DecisionShared DEF VoteBalloon, InitialPhases

LEMMA DecideShared ==
  ASSUME PInv, StartReclaim \/ EndReclaim \/ Reloaded \/ VoteInit
  PROVE  Placement' /\ SharedOut(bm)'
  BY DecisionShared DEF StartReclaim, EndReclaim, Reloaded, VoteInit, InitialPhases

\* What of the invariant the steps below start from.
LEMMA PartedNow ==
  ASSUME PInv, NEW i \in Inst
  PROVE  /\ IInv /\ Flow /\ Kinds /\ TypeOK /\ bm[i] \in Manager
         /\ PoolOK(bm[i], phase)
         /\ Parted(bm[i], LocalOn(i), step[i].fresh)
         /\ phase \in InitialPhases => bm[i].reserved = {}
  BY DEF PInv, FInv, IInv, TypeOK, Pools, SharedOut

LEMMA StartStepShared ==
  ASSUME PInv, NEW v \in Inst, StartStep(v)
  PROVE  Placement' /\ SharedOut(bm)'
<1>1. /\ bm \in [Inst -> Manager] /\ Launch(v, bm, {}) /\ UNCHANGED <<phase, req, remaining>>
      /\ IInv /\ Flow /\ step[v].pc = "idle"
  BY DEF StartStep, CanStart, Idle, PInv, FInv, IInv, TypeOK
<1>2. /\ \A u \in Inst \ {v} : step'[u] = step[u]
      /\ step'[v].shard = {}
      /\ step'[v].fresh \subseteq bm[v].free_gpu
      /\ bm'[v] = Without(bm[v], step'[v].fresh)
      /\ \A i \in Inst \ {v} : bm'[i] = bm[i]
  BY <1>1, LaunchShape
<1>3. step[v].shard = {} /\ step[v].fresh = {}
  BY <1>1, Quiet DEF Empty
<1>4. /\ Parted(bm'[v], LocalOn(v), step'[v].fresh)
      /\ bm'[v].block_table = bm[v].block_table /\ bm'[v].reserved = bm[v].reserved
  <2>1. bm[v] \in Manager /\ Parted(bm[v], LocalOn(v), {})
    BY <1>3, PartedNow
  <2>2. Parted(Without(bm[v], step'[v].fresh), LocalOn(v), step'[v].fresh)
    BY <1>2, <2>1, FreshTaken DEF Without
  <2>3. QED
    BY <1>2, <2>1, <2>2 DEF Without, Manager
<1>5. ASSUME NEW i \in Inst
      PROVE  /\ Parted(bm'[i], LocalOn(i), step'[i].fresh)
             /\ bm'[i].block_table = bm[i].block_table
             /\ phase' \in InitialPhases => bm'[i].reserved = {}
             /\ step'[i].shard = step[i].shard
  BY <1>1, <1>2, <1>3, <1>4, PartedNow
<1>6. \A s \in Req : GoesOn(s)
  BY <1>1, SameGoesOn
<1>7. QED
  BY <1>1, <1>5, <1>6, StillPlaced DEF SameTables

LEMMA MergeShared ==
  ASSUME PInv, Merge
  PROVE  Placement' /\ SharedOut(bm)'
<1>1. /\ phase = "stopping_followers" /\ phase' = "dropping"
      /\ req' = [r \in Req |-> IF req[r].q = "running"
                               THEN [req[r] EXCEPT !.home = req[r].ve] ELSE req[r]]
      /\ bm' = [i \in Inst |-> ConvertToPipeline(Given(i, bm[i]))]
      /\ UNCHANGED <<step, remaining>>
  BY DEF Merge
<1>2. ASSUME NEW i \in Inst
      PROVE  /\ Parted(bm'[i], LocalOn(i), step'[i].fresh)
             /\ bm'[i].block_table = bm[i].block_table
  <2>1. /\ bm[i] \in Manager /\ bm[i].reserved = {} /\ bm[i].max_gpu = N
        /\ bm[i].free_fusion = {} /\ ~ bm[i].is_fusion_state
        /\ Parted(bm[i], LocalOn(i), step[i].fresh)
    BY <1>1, PartedNow DEF PoolOK, InitialPhases, FusedPhases
  <2> DEFINE m == Given(i, bm[i])
  <2>2. /\ m \in Manager /\ m.block_table = bm[i].block_table
        /\ m.is_fusion_state = bm[i].is_fusion_state
        /\ m.free_fusion = bm[i].free_fusion /\ m.max_gpu = N
    BY <2>1, GivenStep DEF Reformatted
  <2>3. m.free_gpu = bm[i].free_gpu /\ m.reserved = bm[i].reserved
    BY <2>1 DEF Given, Handed, Manager
  <2> HIDE DEF m
  <2>4. Parted(m, LocalOn(i), step[i].fresh)
    BY <2>1, <2>2, <2>3, SameParted
  <2>5. Parted(ConvertToPipeline(m), LocalOn(i), step[i].fresh)
    BY <2>1, <2>2, <2>3, <2>4, ConvertToPipelineParted
  <2>6. ConvertToPipeline(m).block_table = m.block_table
    BY <2>1, <2>2, ConvertToPipelineStep DEF Reformatted
  <2>7. bm'[i] = ConvertToPipeline(m)
    BY <1>1 DEF m
  <2>8. QED
    BY <1>1, <2>2, <2>5, <2>6, <2>7
<1>3. ASSUME NEW s \in Req PROVE GoesOn(s)
  <2>1. req[s] \in Request /\ KindOf(req[s], phase)
    BY DEF PInv, FInv, IInv, TypeOK, Kinds
  <2>2. req[s].q = "running" => ~ req[s].fx
    BY <1>1 DEF PInv, FInv, IInv, Marked, InitialPhases
  <2>3. CASE req[s].q = "running"
    <3>1. req'[s] = [req[s] EXCEPT !.home = req[s].ve] /\ req[s].home = req[s].ve
      BY <1>1, <2>1, <2>2, <2>3 DEF KindOf
    <3>2. QED
      BY <2>1, <3>1 DEF GoesOn, Request
  <2>4. CASE req[s].q # "running"
    BY <1>1, <2>4, SameGoesOn
  <2>5. QED
    BY <2>3, <2>4
<1>4. phase' \notin InitialPhases
  BY <1>1 DEF InitialPhases
<1>5. QED
  BY <1>1, <1>2, <1>3, <1>4, StillPlaced DEF SameTables

LEMMA EnterBalloonShared ==
  ASSUME PInv, EnterBalloon
  PROVE  Placement' /\ SharedOut(bm)'
<1>1. /\ phase = "handling" /\ phase' = "balloon" /\ UNCHANGED remaining
      /\ bm' = [i \in Inst |-> ConvertReserved(bm[i])]
      /\ step' = FirstBatch /\ FInv
  BY DEF EnterBalloon, PInv
<1>2. \A i \in Inst : Empty(step[i]) /\ Empty(step'[i])
  <2>1. AllIdle
    BY <1>1 DEF FInv, IInv, Control
  <2>2. \A i \in Inst : Empty(step[i])
    BY <1>1, <2>1, Quiet DEF AllIdle, Idle, FInv
  <2>3. \A i \in Inst : Empty(step'[i])
    BY <1>1, EmptySteps DEF FirstBatch
  <2>4. QED
    BY <2>2, <2>3
<1>3. ASSUME NEW i \in Inst
      PROVE  /\ Parted(bm'[i], LocalOn(i), step'[i].fresh)
             /\ bm'[i].block_table = bm[i].block_table
  <2>1. /\ bm[i] \in Manager /\ bm[i].is_fusion_state /\ Counted(bm[i])
        /\ Parted(bm[i], LocalOn(i), step'[i].fresh)
    BY <1>1, <1>2, PartedNow DEF PoolOK, FusedPhases, Empty
  <2>2. bm'[i] = ConvertReserved(bm[i])
    BY <1>1
  <2>3. QED
    BY <2>1, <2>2, ConvertReservedParted, ConvertReservedStep DEF Reformatted
<1>4. ASSUME NEW s \in Req PROVE GoesOn(s)
  BY <1>1, EnterBalloonRequests DEF GoesOn
<1>5. phase' \notin InitialPhases
  BY <1>1 DEF InitialPhases
<1>6. \A i \in Inst : step'[i].shard = step[i].shard
  BY <1>2 DEF Empty
<1>7. QED
  BY <1>1, <1>3, <1>4, <1>5, <1>6, StillPlaced DEF SameTables

LEMMA ReclaimShared ==
  ASSUME PInv, NEW i \in Inst, Reclaim(i)
  PROVE  Placement' /\ SharedOut(bm)'
<1>1. /\ bm' = [bm EXCEPT ![i] = PollExtend(@)] /\ bm \in [Inst -> Manager]
      /\ UNCHANGED <<phase, req, step, remaining>>
  BY DEF Reclaim, PInv, FInv, IInv, TypeOK
<1>2. /\ bm'[i] = PollExtend(bm[i]) /\ bm[i] \in Manager
      /\ \A j \in Inst \ {i} : bm'[j] = bm[j]
  BY <1>1
<1>3. /\ bm'[i].block_table = bm[i].block_table /\ bm'[i].free_gpu = bm[i].free_gpu
      /\ bm'[i].reserved = bm[i].reserved /\ bm'[i].free_fusion = bm[i].free_fusion
      /\ bm'[i].is_fusion_state = bm[i].is_fusion_state
  BY <1>2 DEF PollExtend, Manager
<1>4. ASSUME NEW j \in Inst
      PROVE  /\ Parted(bm'[j], LocalOn(j), step'[j].fresh)
             /\ bm'[j].block_table = bm[j].block_table
             /\ phase' \in InitialPhases => bm'[j].reserved = {}
  <2>1. Parted(bm'[i], LocalOn(i), step[i].fresh)
    BY <1>3, PartedNow, SameParted
  <2>2. QED
    BY <1>1, <1>2, <1>3, <2>1, PartedNow
<1>5. QED
  BY <1>1, <1>4, SameGoesOn, StillPlaced DEF SameTables

LEMMA RestoreInstanceShared ==
  ASSUME PInv, RestoreInstance
  PROVE  Placement' /\ SharedOut(bm)'
<1>1. /\ phase = "stopping" /\ phase' = "restore"
      /\ bm' \in OneEach([i \in Inst |-> RestoreKv(bm[i])])
      /\ UNCHANGED <<req, step, remaining>>
  BY DEF RestoreInstance
<1>2. ASSUME NEW i \in Inst
      PROVE  /\ Parted(bm'[i], LocalOn(i), step'[i].fresh)
             /\ bm'[i].block_table = bm[i].block_table
  <2>1. /\ bm[i] \in Manager /\ bm[i].is_fusion_state /\ Counted(bm[i])
        /\ Parted(bm[i], LocalOn(i), step'[i].fresh)
    BY <1>1, PartedNow DEF PoolOK, FusedPhases
  <2>2. bm'[i] \in RestoreKv(bm[i])
    BY <1>1, OneEachType
  <2>3. QED
    BY <2>1, <2>2, RestoreKvParted, RestoreKvStep DEF Reformatted
<1>3. phase' \notin InitialPhases
  BY <1>1 DEF InitialPhases
<1>4. QED
  BY <1>1, <1>2, <1>3, SameGoesOn, StillPlaced DEF SameTables

\* When the group splits every request that has blocks is at home.
LEMMA SplitShared ==
  ASSUME PInv, Split
  PROVE  Placement' /\ SharedOut(bm)'
<1>1. /\ phase = "stopping_init" /\ phase' = "initial" /\ AllIdle
      /\ bm' \in OneEach([i \in Inst |-> {Given(i, m) : m \in RestoreFromFusion(bm[i])}])
      /\ UNCHANGED <<step, remaining>>
  BY DEF Split
<1>r. req' = [r \in Req |->
                IF req[r].ve = 0 THEN req[r]
                ELSE IF req[r].q = "running" THEN [req[r] EXCEPT !.home = req[r].ve]
                ELSE IF req[r].q = "waiting" THEN [req[r] EXCEPT !.q = "lost"]
                ELSE req[r]]
  BY DEF Split
<1>2. /\ FInv /\ Placement /\ TypeOK
      /\ \A i \in Inst : Empty(step[i])
  <2>1. \A i \in Inst : Empty(step[i])
    BY <1>1, IdleFlow DEF PInv, FInv
  <2>2. QED
    BY <2>1 DEF PInv, FInv, IInv
<1>3. ASSUME NEW s \in Req
      PROVE  /\ GoesOn(s)
             /\ ~ req[s].fx \/ \A i \in Inst : bm[i].block_table[s] = {}
  <2>1. req[s] \in Request /\ KindOf(req[s], phase)
    BY <1>2 DEF TypeOK, FInv, Kinds
  <2>2. req[s].q = "running" => ~ req[s].fx /\ req[s].home = req[s].ve
    BY <1>1, <1>2, <2>1 DEF FInv, IInv, Marked, KindOf
  <2>3. req[s].q = "running" \/ req[s].q \in Resting
    BY <1>1, <2>1 DEF KindOf, Request, Queue, Resting
  <2>4. \/ req'[s] = req[s]
        \/ /\ req'[s] = [req[s] EXCEPT !.home = req[s].ve]
           /\ req[s].home = req[s].ve
    <3>1. req[s].q # "waiting"
      BY <2>3 DEF Resting
    <3>2. CASE req[s].ve = 0
      BY <1>r, <3>2
    <3>3. CASE req[s].ve # 0 /\ req[s].q = "running"
      BY <1>r, <2>2, <3>3
    <3>4. CASE req[s].ve # 0 /\ req[s].q # "running"
      BY <1>r, <3>1, <3>4
    <3>5. QED
      BY <3>2, <3>3, <3>4
  <2>5. GoesOn(s)
    BY <2>1, <2>4 DEF GoesOn, Request
  <2>6. req[s].q \in Resting => \A i \in Inst : bm[i].block_table[s] = {}
    BY <1>2 DEF Placement, Placed
  <2>7. QED
    BY <2>2, <2>3, <2>5, <2>6
<1>4. ASSUME NEW i \in Inst
      PROVE  /\ Parted(bm'[i], LocalOn(i), step'[i].fresh)
             /\ bm'[i].block_table = bm[i].block_table
             /\ bm'[i].reserved = {}
  <2>1. /\ bm[i] \in Manager /\ ~ bm[i].is_fusion_state /\ Counted(bm[i])
        /\ bm[i].free_fusion = {}
        /\ Parted(bm[i], LocalOn(i), {})
    BY <1>1, <1>2, PartedNow DEF PoolOK, FusedPhases, Empty
  <2>2. PICK m \in RestoreFromFusion(bm[i]) : bm'[i] = Given(i, m)
    BY <1>1, OneEachType
  <2>3. \A r \in Req : r \in LocalOn(i) \/ bm[i].block_table[r] = {}
    BY <1>3 DEF LocalOn
  <2>4. Parted(m, LocalOn(i), {}) /\ m.reserved = {}
    BY <2>1, <2>3, RestoreFromFusionParted
  <2>5. m \in Manager /\ m.max_gpu = N /\ m.block_table = bm[i].block_table
    BY <2>1, RestoreFromFusionStep DEF Reformatted
  <2> DEFINE b == Given(i, m)
  <2>6. /\ b.block_table = m.block_table /\ b.is_fusion_state = m.is_fusion_state
        /\ b.free_fusion = m.free_fusion
    BY <2>5, GivenStep DEF Reformatted
  <2>7. b.free_gpu = m.free_gpu /\ b.reserved = m.reserved
    BY <2>5 DEF Given, Handed, Manager
  <2> HIDE DEF b
  <2>8. Parted(b, LocalOn(i), {})
    BY <2>4, <2>6, <2>7, SameParted
  <2>9. step'[i].fresh = {} /\ bm'[i] = b
    BY <1>1, <1>2, <2>2 DEF Empty, b
  <2>10. QED
    BY <2>4, <2>5, <2>6, <2>7, <2>8, <2>9
<1>5. QED
  BY <1>1, <1>3, <1>4, StillPlaced DEF SameTables

-----------------------------------------------------------------------------
(* Steps that give a request of the queue blocks, or take them away.       *)

\* Outside of an exchange the blocks of a request have the format its mark
\* says.
LEMMA MarkedFormat ==
  ASSUME TypeOK, NEW r \in Req, r \notin Unexchanged, NEW i \in Inst
  PROVE  req[r].fx \in BOOLEAN /\ (req[r].fx <=> r \notin LocalOn(i))
  BY DEF TypeOK, Request, LocalOn

LEMMA AllocateKeepsReserve ==
  ASSUME NEW m \in Manager, ~ m.is_fusion_state, NEW r \in Req, NEW n \in Nat,
         NEW p \in BOOLEAN, ~ p, NEW b \in Allocate(m, r, n, p)
  PROVE  b.reserved = m.reserved
<1>1. CASE Lacks(m, r, n) <= 0
  BY <1>1 DEF Allocate, AllocateGpu
<1>2. CASE ~ (Lacks(m, r, n) <= 0)
  <2>1. PICK S \in kSubset(Lacks(m, r, n), m.free_gpu) :
          b = [m EXCEPT !.free_gpu = @ \ S, !.block_table[r] = @ \cup S]
    BY <1>2 DEF Allocate, AllocateGpu
  <2>2. QED
    BY <2>1 DEF Manager
<1>3. QED
  BY <1>1, <1>2

LEMMA FreeKeepsReserve ==
  ASSUME NEW m \in Manager, ~ m.is_fusion_state, NEW r \in Req,
         NEW p \in BOOLEAN, ~ p, NEW b \in Free(m, r, p)
  PROVE  b.reserved = m.reserved
  BY DEF Free, FreeGpu, Manager

LEMMA AllocateShared ==
  ASSUME TypeOK, NEW r \in Req, req[r].q = "running", r \notin Unexchanged,
         phase \in InitialPhases => ~ req[r].fx,
         NEW Is \in SUBSET Where(r), NEW b, Right(b), SharedOut(b),
         \A s \in Req : Placed(b, s), NEW c \in OneEach(AllocateOn(b, r, Is))
  PROVE  /\ Right(c) /\ SharedOut(c) /\ \A s \in Req : Placed(c, s)
         /\ \A i \in Is : Held(c[i], r) >= req[r].need
         /\ \A i \in Inst : Held(c[i], r) \in Nat /\ Held(c[i], r) >= Held(b[i], r)
<1>1. /\ Where(r) \subseteq Inst /\ req[r].need \in Nat /\ req[r].home \in Inst
  BY GroupAssumption DEF TypeOK, Request, Where
<1>2. Right(c) /\ OthersKeep(b, c, r)
  BY <1>1, AllocateManagers
<1>3. ASSUME NEW i \in Inst
      PROVE  /\ Parted(c[i], LocalOn(i), step[i].fresh)
             /\ phase \in InitialPhases => c[i].reserved = {}
             /\ Held(c[i], r) \in Nat /\ Held(c[i], r) >= Held(b[i], r)
             /\ i \in Is => Held(c[i], r) >= req[r].need
             /\ i \notin Is => c[i] = b[i]
  <2>1. /\ b[i] \in Manager /\ PoolOK(b[i], phase) /\ ExtendCounted(b[i])
        /\ Parted(b[i], LocalOn(i), step[i].fresh)
        /\ phase \in InitialPhases => b[i].reserved = {} /\ ~ b[i].is_fusion_state
    BY DEF Right, SharedOut, PoolOK, InitialPhases, FusedPhases
  <2>2. CASE i \in Is
    <3>1. c[i] \in Allocate(b[i], r, req[r].need, req[r].fx)
      BY <2>2, OneEachType DEF AllocateOn
    <3>2. req[r].fx \in BOOLEAN /\ (req[r].fx <=> r \notin LocalOn(i))
      BY MarkedFormat
    <3>3. Parted(c[i], LocalOn(i), step[i].fresh)
      BY <1>1, <2>1, <3>1, <3>2, AllocateParted
    <3>4. /\ Held(c[i], r) \in Nat /\ Held(c[i], r) >= req[r].need
          /\ Held(c[i], r) >= Held(b[i], r)
      BY <1>1, <2>1, <3>1, <3>2, AllocateHeld
    <3>5. phase \in InitialPhases => c[i].reserved = {}
      <4>1. SUFFICES ASSUME phase \in InitialPhases PROVE c[i].reserved = {}
        OBVIOUS
      <4>2. QED
        BY <1>1, <2>1, <3>1, <3>2, <4>1, AllocateKeepsReserve
    <3>6. QED
      BY <2>2, <3>3, <3>4, <3>5
  <2>3. CASE i \notin Is
    <3>1. c[i] = b[i]
      BY <2>3, OneEachType DEF AllocateOn
    <3>2. Held(b[i], r) \in Nat
      BY <2>1, HeldType
    <3>3. QED
      BY <2>1, <2>3, <3>1, <3>2
  <2>4. QED
    BY <2>2, <2>3
<1>4. SharedOut(c)
  BY <1>3 DEF SharedOut
<1>5. Placed(c, r)
  <2>1. Placed(b, r) /\ req[r].q \notin Resting
    BY DEF Resting
  <2>2. ~ req[r].fx => \A i \in Inst \ {req[r].home} : c[i].block_table[r] = {}
    <3>1. ~ req[r].fx => \A i \in Inst \ {req[r].home} : c[i] = b[i]
      BY <1>3 DEF Where
    <3>2. QED
      BY <2>1, <3>1 DEF Placed
  <2>3. ASSUME NEW i \in Inst, b[i].block_table[r] # {}
        PROVE  c[i].block_table[r] # {}
    <3>1. b[i] \in Manager /\ c[i] \in Manager
      BY <1>2 DEF Right
    <3>2. Held(b[i], r) \in Nat /\ Held(b[i], r) # 0
      BY <2>3, <3>1, HeldType
    <3>3. Held(c[i], r) # 0
      BY <1>3, <3>2
    <3>4. QED
      BY <3>1, <3>3, HeldType
  <2>4. Owns(r) \subseteq Inst
    BY <1>1 DEF Owns
  <2>5. QED
    BY <2>1, <2>2, <2>3, <2>4 DEF Placed
<1>6. ASSUME NEW s \in Req, s # r PROVE Placed(c, s)
  <2>1. \A i \in Inst : c[i].block_table[s] = b[i].block_table[s]
    BY <1>2, <1>6 DEF OthersKeep
  <2>2. Owns(s) \subseteq Inst
    BY DEF Owns, Where, TypeOK, Request
  <2>3. Placed(b, s)
    OBVIOUS
  <2>4. QED
    BY <2>1, <2>2, <2>3 DEF Placed
<1>7. QED
  BY <1>1, <1>2, <1>3, <1>4, <1>5, <1>6

LEMMA FreeShared ==
  ASSUME TypeOK, Marked, NEW r \in Req, req[r].q = "running", r \notin Unexchanged,
         NEW Is \in SUBSET Inst, NEW b, Right(b), SharedOut(b),
         NEW c \in OneEach(FreeOn(b, r, Is))
  PROVE  SharedOut(c)
<1>1. ASSUME NEW i \in Inst
      PROVE  /\ Parted(c[i], LocalOn(i), step[i].fresh)
             /\ phase \in InitialPhases => c[i].reserved = {}
  <2>1. /\ b[i] \in Manager /\ PoolOK(b[i], phase)
        /\ Parted(b[i], LocalOn(i), step[i].fresh)
        /\ phase \in InitialPhases => b[i].reserved = {} /\ ~ b[i].is_fusion_state
    BY DEF Right, SharedOut, PoolOK, InitialPhases, FusedPhases
  <2>2. CASE i \in Is
    <3>1. c[i] \in Free(b[i], r, req[r].fx)
      BY <2>2, OneEachType DEF FreeOn
    <3>2. req[r].fx \in BOOLEAN /\ (req[r].fx <=> r \notin LocalOn(i))
      BY MarkedFormat
    <3>3. b[i].is_fusion_state \/ Extend \cap b[i].block_table[r] = {}
      <4>1. ~ b[i].is_fusion_state => b[i].max_extend = 0
        BY <2>1 DEF PoolOK, LoanPhases, FusedPhases
      <4>2. QED
        BY <2>1, <4>1, NoLoan
    <3>4. Parted(c[i], LocalOn(i), step[i].fresh)
      BY <2>1, <3>1, <3>2, <3>3, FreeParted
    <3>5. phase \in InitialPhases => c[i].reserved = {}
      <4>1. phase \in InitialPhases => ~ req[r].fx
        BY DEF Marked
      <4>2. QED
        BY <2>1, <3>1, <3>2, <4>1, FreeKeepsReserve
    <3>6. QED
      BY <3>4, <3>5
  <2>3. CASE i \notin Is
    <3>1. c[i] = b[i]
      BY <2>3, OneEachType DEF FreeOn
    <3>2. QED
      BY <2>1, <3>1
  <2>4. QED
    BY <2>2, <2>3
<1>2. QED
  BY <1>1 DEF SharedOut

\* The managers become bm' while the requests stay as they are.
LEMMA ManagersShared ==
  ASSUME TypeOK, SharedOut(bm'), \A s \in Req : Placed(bm', s),
         UNCHANGED <<phase, req, remaining>>,
         \A i \in Inst : step'[i].shard = step[i].shard /\ step'[i].fresh = step[i].fresh
  PROVE  Placement' /\ SharedOut(bm)'
<1>1. \A s \in Req : Placed(bm, s)'
  BY SameGoesOn, PlacedOn DEF TypeOK, Request
<1>2. \A s \in Req : s \in Unexchanged' <=> s \in Unexchanged
  BY DEF Unexchanged, Sharding
<1>3. \A i \in Inst, s \in Req : s \in LocalOn(i) <=> s \in LocalOn(i)'
  BY <1>2, SameGoesOn, LabelOn
<1>4. QED
  BY <1>1, <1>3, Labelled DEF Placement, SharedOut

\* Request r gives all its blocks back and leaves the batch.
LEMMA LeavesShared ==
  ASSUME IInv, NEW r \in Req, req[r].q = "running", r \notin Unexchanged,
         NEW b, Right(b), SharedOut(b), \A s \in Req : Placed(b, s),
         bm' \in OneEach(FreeOn(b, r, Where(r))),
         NEW q, req' = [req EXCEPT ![r] = q], q.q \in Resting,
         UNCHANGED <<phase, step, remaining>>
  PROVE  Placement' /\ SharedOut(bm)'
<1>1. TypeOK /\ Marked /\ req \in [Req -> Request] /\ Where(r) \in SUBSET Inst
  BY DEF IInv, TypeOK, Where, Request
<1>2. /\ OthersKeep(b, bm', r)
      /\ \A i \in Where(r) : bm'[i].block_table[r] = {}
      /\ \A i \in Inst \ Where(r) : bm'[i] = b[i]
  <2>1. /\ OthersKeep(b, bm', r)
        /\ \A i \in Where(r) : bm'[i].block_table[r] = {}
    BY <1>1, FreeManagers
  <2>2. ASSUME NEW i \in Inst \ Where(r) PROVE bm'[i] = b[i]
    BY OneEachType DEF FreeOn
  <2>3. QED
    BY <2>1, <2>2
<1>3. SharedOut(bm')
  BY <1>1, FreeShared
<1>4. req'[r].q \in Resting /\ \A s \in Req \ {r} : req'[s] = req[s]
  BY <1>1
<1>5. \A i \in Inst : bm'[i].block_table[r] = {}
  BY <1>2 DEF Placed, Where
<1>6. \A s \in Req : s \in Unexchanged' <=> s \in Unexchanged
  BY DEF Unexchanged, Sharding
<1>7. ASSUME NEW s \in Req PROVE Placed(bm, s)'
  <2>1. CASE s = r
    BY <1>4, <1>5, <2>1, RestsPlaced DEF Rests
  <2>2. CASE s # r
    <3>1. \A i \in Inst : bm'[i].block_table[s] = b[i].block_table[s]
      BY <1>2, <2>2 DEF OthersKeep
    <3>2. GoesOn(s) /\ req[s].home \in Inst /\ Placed(b, s)
      BY <1>1, <1>4, <2>2, SameGoesOn DEF Request
    <3>3. QED
      BY <3>1, <3>2, PlacedOn
  <2>3. QED
    BY <2>1, <2>2
<1>8. \A i \in Inst, s \in Req : bm'[i].block_table[s] # {} =>
        (s \in LocalOn(i) <=> s \in LocalOn(i)')
  BY <1>4, <1>5, <1>6, SameGoesOn, LabelOn
<1>9. QED
  BY <1>3, <1>7, <1>8, Labelled DEF Placement, SharedOut

\* Where the steps of _get_next_batch and of the recomputation start.
LEMMA BatchNow ==
  ASSUME PInv, NEW r \in Req, req[r].q = "running", r \notin remaining
  PROVE  /\ IInv /\ TypeOK /\ Flow /\ Right(bm) /\ SharedOut(bm)
         /\ \A s \in Req : Placed(bm, s)
         /\ r \notin Unexchanged
         /\ phase \in InitialPhases => ~ req[r].fx
<1>1. IInv /\ TypeOK /\ Flow /\ SharedOut(bm) /\ Marked
  BY DEF PInv, FInv, IInv
<1>2. \A s \in Req : Placed(bm, s)
  BY DEF PInv, Placement
<1>3. r \notin Unexchanged
  BY <1>1, NotExchanged DEF Unexchanged
<1>4. QED
  BY <1>1, <1>2, <1>3, RightNow DEF Marked

LEMMA GrowShared ==
  ASSUME PInv, NEW v \in Inst, NEW r \in Req, Grow(v, r)
  PROVE  Placement' /\ SharedOut(bm)'
<1>1. /\ step[v].pc = "grow" /\ req[r].q = "running"
      /\ bm' \in OneEach(AllocateOn(bm, r, Where(r)))
      /\ UNCHANGED <<phase, req, step, remaining>>
  BY DEF Grow, Growing, Running
<1>2. remaining = {}
  BY <1>1, Serving DEF PInv, FInv
<1>3. /\ IInv /\ TypeOK /\ Flow /\ Right(bm) /\ SharedOut(bm)
      /\ \A s \in Req : Placed(bm, s)
      /\ r \notin Unexchanged
      /\ phase \in InitialPhases => ~ req[r].fx
  BY <1>1, <1>2, BatchNow
<1>4. SharedOut(bm') /\ \A s \in Req : Placed(bm', s)
  BY <1>1, <1>3, AllocateShared
<1>5. QED
  BY <1>1, <1>3, <1>4, ManagersShared

LEMMA FreeFinishedShared ==
  ASSUME PInv, NEW v \in Inst, NEW r \in Req, FreeFinished(v, r)
  PROVE  Placement' /\ SharedOut(bm)'
<1> DEFINE q == [NewRequest EXCEPT !.q = "done"]
<1>1. /\ step[v].pc = "grow" /\ req[r].q = "running"
      /\ bm' \in OneEach(FreeOn(bm, r, Where(r)))
      /\ req' = [req EXCEPT ![r] = q]
      /\ UNCHANGED <<phase, step, remaining>>
  BY DEF FreeFinished, Growing, Finished, Running
<1>2. q.q \in Resting
  BY DEF NewRequest, Resting
<1> HIDE DEF q
<1>3. remaining = {}
  BY <1>1, Serving DEF PInv, FInv
<1>4. /\ IInv /\ Right(bm) /\ SharedOut(bm)
      /\ \A s \in Req : Placed(bm, s)
      /\ r \notin Unexchanged
  BY <1>1, <1>3, BatchNow
<1>5. QED
  BY <1>1, <1>2, <1>4, LeavesShared

LEMMA RecomputeStaleShared ==
  ASSUME PInv, NEW r \in Req, RecomputeStale(r)
  PROVE  Placement' /\ SharedOut(bm)'
<1>1. /\ req[r].q = "running" /\ ~ req[r].fx
      /\ bm' \in OneEach(FreeOn(bm, r, Where(r)))
      /\ req' = [req EXCEPT ![r] = Recomputed(r)]
      /\ UNCHANGED <<phase, step, remaining>>
  BY DEF RecomputeStale
<1>2. r \notin remaining
  BY <1>1 DEF PInv, FInv, IInv, Marked
<1>3. /\ IInv /\ TypeOK /\ Right(bm) /\ SharedOut(bm)
      /\ \A s \in Req : Placed(bm, s)
      /\ r \notin Unexchanged
  BY <1>1, <1>2, BatchNow
<1>4. Recomputed(r).q \in Resting
  BY <1>3, RecomputedType DEF Resting
<1>5. QED
  BY <1>1, <1>3, <1>4, LeavesShared

LEMMA PreemptShared ==
  ASSUME PInv, NEW v \in Inst, NEW r \in Req, Preempt(v, r)
  PROVE  Placement' /\ SharedOut(bm)'
<1> DEFINE fails == {i \in Where(r) : Allocate(bm[i], r, req[r].need, req[r].fx) = {}}
           first == CHOOSE i \in fails : \A j \in fails : i <= j
           Is    == {i \in Where(r) : i < first}
<1>1. /\ step[v].pc = "grow" /\ req[r].q = "running"
      /\ UNCHANGED <<phase, remaining>>
  BY DEF Preempt, Growing, Running
<1>2. PICK b \in OneEach(AllocateOn(bm, r, Is)) :
        \/ bm' = b /\ SetPc(v, "idle") /\ UNCHANGED req
        \/ \E w \in Victims(v, r) : /\ bm' \in OneEach(FreeOn(b, w, Where(w)))
                                    /\ req' = [req EXCEPT ![w] = Recomputed(w)]
                                    /\ UNCHANGED step
  BY DEF Preempt
<1>3. Is \in SUBSET Where(r)
  OBVIOUS
<1> HIDE DEF Is
<1>4. remaining = {}
  BY <1>1, Serving DEF PInv, FInv
<1>5. /\ IInv /\ TypeOK /\ Flow /\ Right(bm) /\ SharedOut(bm)
      /\ \A s \in Req : Placed(bm, s)
      /\ r \notin Unexchanged
      /\ phase \in InitialPhases => ~ req[r].fx
  BY <1>1, <1>4, BatchNow
<1>6. Right(b) /\ SharedOut(b) /\ \A s \in Req : Placed(b, s)
  BY <1>1, <1>2, <1>3, <1>5, AllocateShared
<1>7. CASE bm' = b /\ SetPc(v, "idle") /\ UNCHANGED req
  <2>1. \A i \in Inst : step'[i].shard = step[i].shard /\ step'[i].fresh = step[i].fresh
    BY <1>1, <1>5, <1>7, SetPcEmpty
  <2>2. QED
    BY <1>1, <1>5, <1>6, <1>7, <2>1, ManagersShared
<1>8. ASSUME NEW w \in Victims(v, r), bm' \in OneEach(FreeOn(b, w, Where(w))),
             req' = [req EXCEPT ![w] = Recomputed(w)], UNCHANGED step
      PROVE  Placement' /\ SharedOut(bm)'
  <2>1. w \in Req /\ req[w].q = "running"
    BY DEF Victims, Running
  <2>2. w \notin Unexchanged
    BY <1>4, <2>1, BatchNow
  <2>3. Recomputed(w).q \in Resting
    BY <1>5, <2>1, RecomputedType DEF Resting
  <2>4. QED
    BY <1>1, <1>5, <1>6, <1>8, <2>1, <2>2, <2>3, LeavesShared
<1>9. QED
  BY <1>2, <1>7, <1>8

-----------------------------------------------------------------------------
(* Steps that change the format of one request, or admit one.              *)

LEMMA OneShared ==
  ASSUME PInv, NEW r \in Req, OthersKeep(bm, bm', r),
         \A s \in Req : s # r => GoesOn(s) /\ (s \in remaining' <=> s \in remaining),
         Placed(bm, r)',
         \A i \in Inst : Parted(bm'[i], LocalOn(i)', step'[i].fresh),
         phase' \in InitialPhases => \A i \in Inst : bm'[i].reserved = {}
  PROVE  Placement' /\ SharedOut(bm)'
<1>1. ASSUME NEW s \in Req, s # r PROVE Placed(bm, s)'
  <2>1. \A i \in Inst : bm'[i].block_table[s] = bm[i].block_table[s]
    BY <1>1 DEF OthersKeep
  <2>2. GoesOn(s) /\ (s \in remaining' <=> s \in remaining)
    BY <1>1
  <2>3. req[s].home \in Inst /\ Placed(bm, s)
    BY DEF PInv, Placement, FInv, IInv, TypeOK, Request
  <2>4. QED
    BY <2>1, <2>2, <2>3, PlacedOn
<1>2. QED
  BY <1>1 DEF Placement, SharedOut

LEMMA OtherLabels ==
  ASSUME NEW r, \A s \in Req : s # r => GoesOn(s) /\ (s \in Unexchanged' <=> s \in Unexchanged)
  PROVE  \A i \in Inst, s \in Req : s # r => (s \in LocalOn(i) <=> s \in LocalOn(i)')
  BY LabelOn

LEMMA AdmitShared ==
  ASSUME PInv, NEW v \in Inst, NEW r \in Req, Admit(v, r)
  PROVE  Placement' /\ SharedOut(bm)'
<1>1. /\ step[v].pc = "dispatch" /\ req[r].q = "queued"
      /\ req' = [req EXCEPT ![r] = Checked(r, v, "running")]
      /\ UNCHANGED <<phase, remaining>>
  BY DEF Admit, Queued
<1>2. PICK pc : SetPc(v, pc)
  BY DEF Admit
<1>3. /\ IInv /\ TypeOK /\ Flow /\ req \in [Req -> Request] /\ req[r] \in Request
      /\ \A i \in Inst : bm[i].block_table[r] = {}
      /\ remaining = {} /\ r \notin Sharding
  <2>1. IInv /\ TypeOK /\ Flow /\ req \in [Req -> Request]
    BY DEF PInv, FInv, IInv, TypeOK
  <2>2. remaining = {} /\ r \notin Sharding
    BY <1>1, <2>1, Serving, NotExchanged
  <2>3. \A i \in Inst : bm[i].block_table[r] = {}
    BY <1>1 DEF PInv, Placement, Placed, Resting
  <2>4. QED
    BY <2>1, <2>2, <2>3
<1>4. \A i \in Inst : step'[i].shard = step[i].shard /\ step'[i].fresh = step[i].fresh
  BY <1>1, <1>2, <1>3, SetPcEmpty
<1>5. /\ req'[r].q = "running" /\ req'[r].fx = Fused /\ req'[r].home = v
      /\ \A s \in Req : s # r => req'[s] = req[s]
  BY <1>1, <1>3 DEF Checked, Request
<1>6. /\ OthersKeep(bm, bm', r)
      /\ req[r].need \in Nat /\ Fused \in BOOLEAN /\ req[r].need # 0
      /\ bm' \in [Inst -> Manager]
      /\ \A i \in Inst :
           IF Fused \/ i = v THEN bm'[i] \in Allocate(bm[i], r, req[r].need, Fused)
           ELSE bm'[i] = bm[i]
  BY <1>3, AdmitManagers DEF Request
<1>7. \A s \in Req : s # r => /\ GoesOn(s) /\ (s \in remaining' <=> s \in remaining)
                              /\ (s \in Unexchanged' <=> s \in Unexchanged)
  BY <1>1, <1>4, <1>5, SameGoesOn DEF Unexchanged, Sharding
<1>8. \A i \in Inst : Fused <=> r \notin LocalOn(i)'
  <2>1. r \notin Unexchanged'
    BY <1>1, <1>3, <1>4 DEF Unexchanged, Sharding
  <2>2. QED
    BY <1>5, <2>1 DEF LocalOn
<1>9. ASSUME NEW i \in Inst
      PROVE  /\ Parted(bm'[i], LocalOn(i)', step'[i].fresh)
             /\ phase' \in InitialPhases => bm'[i].reserved = {}
             /\ Fused \/ i = v => bm'[i].block_table[r] # {}
  <2>1. /\ bm[i] \in Manager /\ PoolOK(bm[i], phase) /\ ExtendCounted(bm[i])
        /\ Parted(bm[i], LocalOn(i), step[i].fresh)
        /\ (phase \in InitialPhases =>
              bm[i].reserved = {} /\ ~ bm[i].is_fusion_state /\ ~ Fused)
    BY <1>3, PartedNow, FusedPhase DEF PoolOK, InitialPhases, FusedPhases
  <2>2. \A s \in Req : bm[i].block_table[s] # {} => (s \in LocalOn(i) <=> s \in LocalOn(i)')
    BY <1>3, <1>7, OtherLabels
  <2>3. Parted(bm[i], LocalOn(i)', step'[i].fresh)
    BY <1>4, <2>1, <2>2, Relabelled
  <2>4. CASE Fused \/ i = v
    <3>1. bm'[i] \in Allocate(bm[i], r, req[r].need, Fused)
      BY <1>6, <2>4
    <3>2. Parted(bm'[i], LocalOn(i)', step'[i].fresh)
      BY <1>6, <1>8, <2>1, <2>3, <3>1, AllocateParted
    <3>3. Held(bm'[i], r) \in Nat /\ Held(bm'[i], r) >= req[r].need
      BY <1>6, <1>8, <2>1, <2>3, <3>1, AllocateHeld
    <3>4. bm'[i].block_table[r] # {}
      <4>1. Held(bm'[i], r) # 0 /\ bm'[i] \in Manager
        BY <1>6, <3>3
      <4>2. QED
        BY <4>1, HeldType
    <3>5. phase \in InitialPhases => bm'[i].reserved = {}
      <4>1. SUFFICES ASSUME phase \in InitialPhases PROVE bm'[i].reserved = {}
        OBVIOUS
      <4>2. QED
        BY <1>6, <2>1, <3>1, <4>1, AllocateKeepsReserve
    <3>6. QED
      BY <1>1, <3>2, <3>4, <3>5
  <2>5. CASE ~ (Fused \/ i = v)
    <3>1. bm'[i] = bm[i]
      BY <1>6, <2>5
    <3>2. QED
      BY <1>1, <2>1, <2>3, <2>5, <3>1
  <2>6. QED
    BY <2>4, <2>5
<1>10. Placed(bm, r)'
  <2>1. Owns(r)' = IF Fused THEN Inst ELSE {v}
    BY <1>1, <1>3, <1>5 DEF Owns, Where
  <2>2. \A i \in Owns(r)' : bm'[i].block_table[r] # {}
    BY <1>9, <2>1
  <2>3. ~ Fused => \A i \in Inst \ {v} : bm'[i].block_table[r] = {}
    BY <1>3, <1>6
  <2>4. QED
    BY <1>5, <2>2, <2>3 DEF Placed, Resting
<1>11. QED
  BY <1>6, <1>7, <1>9, <1>10, OneShared

\* The request to be exchanged gets blocks of the pipeline format on the
\* other instances, and keeps local blocks at home until the exchange ends.
LEMMA PeersParted ==
  ASSUME IInv, phase \in FusedPhases, NEW r \in Req, NEW b \in OneEach(OnPeers(r)),
         NEW i \in Inst, i # req[r].home, NEW L, NEW fr, Parted(bm[i], L, fr), r \notin L
  PROVE  /\ Parted(b[i], L, fr) /\ b[i].block_table[r] # {}
         /\ Held(b[i], r) >= req[r].need
<1>1. /\ bm[i] \in Manager /\ ExtendCounted(bm[i]) /\ bm[i].is_fusion_state
      /\ req[r].need \in Nat /\ req[r].need # 0
  <2>1. bm[i] \in Manager /\ ExtendCounted(bm[i]) /\ bm[i].is_fusion_state
    BY DEF IInv, Pools, PoolOK
  <2>2. req[r].need \in Nat /\ req[r].need # 0
    BY GroupAssumption DEF IInv, TypeOK, Request
  <2>3. QED
    BY <2>1, <2>2
<1>2. b[i] \in Allocate(bm[i], r, req[r].need, bm[i].is_fusion_state \/ req[r].fx)
  BY OneEachType DEF OnPeers
<1>3. b[i] \in Allocate(bm[i], r, req[r].need, TRUE)
  <2>1. (bm[i].is_fusion_state \/ req[r].fx) = TRUE
    BY <1>1
  <2>2. QED
    BY <1>2, <2>1
<1>4. Parted(b[i], L, fr)
  BY <1>1, <1>3, AllocateParted
<1>5. Held(b[i], r) \in Nat /\ Held(b[i], r) >= req[r].need
  BY <1>1, <1>3, AllocateHeld
<1>6. b[i] \in Manager
  BY OnPeersStep
<1>7. Held(b[i], r) # 0
  BY <1>1, <1>5
<1>8. QED
  BY <1>4, <1>5, <1>6, <1>7, HeldType

LEMMA StartReshardShared ==
  ASSUME PInv, NEW v \in Inst, NEW r \in Req, StartReshard(v, r)
  PROVE  Placement' /\ SharedOut(bm)'
<1>1. PICK b \in OneEach(OnPeers(r)) : Launch(v, b, {r})
  BY DEF StartReshard
<1>2. /\ CanStart(v) /\ step[v].pc = "idle" /\ resharding[v]
      /\ req[r].q = "running" /\ ~ req[r].fx /\ req[r].ve = v
      /\ req' = [req EXCEPT ![r].q = "waiting", ![r].fx = TRUE]
      /\ UNCHANGED <<phase, remaining>>
  BY DEF StartReshard, CanStart, Idle, Stale, Running
<1>3. /\ IInv /\ TypeOK /\ Flow /\ req \in [Req -> Request] /\ phase = "balloon"
      /\ phase \in FusedPhases /\ remaining = {} /\ req[r].home \in Inst
  BY <1>2, Serving DEF PInv, FInv, IInv, TypeOK, Control, FusedPhases, Request
<1>4. /\ b \in [Inst -> Manager] /\ OthersKeep(bm, b, r)
      /\ b[req[r].home] = bm[req[r].home]
  BY <1>1, <1>3, OnPeersStep
<1>5. /\ req'[r].q = "waiting" /\ req'[r].fx /\ req'[r].home = req[r].home
      /\ \A s \in Req : s # r => req'[s] = req[s]
  BY <1>2, <1>3 DEF Request
<1>6. /\ \A u \in Inst \ {v} : step'[u] = step[u]
      /\ step'[v].shard = {r}
      /\ step'[v].fresh \subseteq b[v].free_gpu
      /\ bm'[v] = Without(b[v], step'[v].fresh)
      /\ \A i \in Inst \ {v} : bm'[i] = b[i]
  <2> DEFINE sh == {r}
  <2>1. sh \in SUBSET Req /\ Launch(v, b, sh) /\ \A s, t \in sh : s = t
    BY <1>1
  <2> HIDE DEF sh
  <2>2. /\ \A u \in Inst \ {v} : step'[u] = step[u]
        /\ step'[v].shard = sh
        /\ step'[v].fresh \subseteq b[v].free_gpu
        /\ bm'[v] = Without(b[v], step'[v].fresh)
        /\ \A i \in Inst \ {v} : bm'[i] = b[i]
    BY <1>3, <1>4, <2>1, LaunchShape
  <2>3. QED
    BY <2>2 DEF sh
<1>7. step[v].shard = {} /\ step[v].fresh = {}
  BY <1>2, <1>3, Quiet DEF Empty
<1>8. /\ r \in Unexchanged'
      /\ \A s \in Req : s # r => (s \in Unexchanged' <=> s \in Unexchanged)
  <2>1. Sharding' = Sharding \cup {r}
    BY <1>6, <1>7 DEF Sharding
  <2>2. QED
    BY <1>2, <2>1 DEF Unexchanged
<1>9. \A s \in Req : s # r => GoesOn(s) /\ (s \in remaining' <=> s \in remaining)
  BY <1>2, <1>5, SameGoesOn
<1>10. \A i \in Inst : r \in LocalOn(i)' <=> i = req[r].home
  BY <1>5, <1>8 DEF LocalOn
<1>11. \A i \in Inst \ {req[r].home} : bm[i].block_table[r] = {}
  BY <1>2 DEF PInv, Placement, Placed
<1>12. ASSUME NEW i \in Inst
       PROVE  /\ Parted(b[i], LocalOn(i)', step[i].fresh)
              /\ b[i].block_table[r] # {}
  <2>1. r \in LocalOn(i) /\ Parted(bm[i], LocalOn(i), step[i].fresh)
    BY <1>2, PartedNow DEF LocalOn
  <2>2. \A s \in Req : bm[i].block_table[s] # {} => (s \in LocalOn(i) <=> s \in LocalOn(i)')
    BY <1>8, <1>9, <1>10, <1>11, <2>1, OtherLabels
  <2>3. Parted(bm[i], LocalOn(i)', step[i].fresh)
    BY <2>1, <2>2, Relabelled
  <2>4. CASE i = req[r].home
    <3>1. Owns(r) = {i} /\ Placed(bm, r)
      BY <1>2, <1>3, <2>4 DEF Owns, Where, PInv, Placement
    <3>2. QED
      BY <1>2, <1>4, <2>3, <2>4, <3>1 DEF Placed, Active
  <2>5. CASE i # req[r].home
    BY <1>3, <1>10, <2>3, <2>5, PeersParted
  <2>6. QED
    BY <2>4, <2>5
<1>13. ASSUME NEW i \in Inst
       PROVE  /\ Parted(bm'[i], LocalOn(i)', step'[i].fresh)
              /\ bm'[i].block_table = b[i].block_table
  <2>1. CASE i = v
    <3>1. b[v] \in Manager /\ Parted(b[v], LocalOn(v)', {})
      BY <1>4, <1>7, <1>12
    <3>2. Parted(Without(b[v], step'[v].fresh), LocalOn(v)', step'[v].fresh)
      BY <1>6, <3>1, FreshTaken DEF Without
    <3>3. QED
      BY <1>6, <2>1, <3>1, <3>2 DEF Without, Manager
  <2>2. CASE i # v
    BY <1>6, <1>12, <2>2
  <2>3. QED
    BY <2>1, <2>2
<1>14. Placed(bm, r)'
  <2>1. Owns(r)' = Inst
    BY <1>2, <1>3, <1>5 DEF Owns, Where
  <2>2. \A i \in Inst : bm'[i].block_table[r] # {}
    BY <1>12, <1>13
  <2>3. QED
    BY <1>5, <2>1, <2>2 DEF Placed, Resting
<1>15. OthersKeep(bm, bm', r)
  BY <1>4, <1>13 DEF OthersKeep
<1>16. phase' \notin InitialPhases
  BY <1>2, <1>3 DEF InitialPhases
<1>17. QED
  BY <1>9, <1>13, <1>14, <1>15, <1>16, OneShared

LEMMA ExchangedTable ==
  ASSUME NEW m \in Manager, NEW r \in Req, NEW rank
  PROVE  FreeIntoFusionExcept(m, r, rank).block_table[r] = {} <=> m.block_table[r] = {}
<1>1. FreeIntoFusionExcept(m, r, rank).block_table[r]
        = {<<rank, x[2]>> : x \in m.block_table[r]}
  BY DEF FreeIntoFusionExcept, Manager
<1>2. QED
  BY <1>1

\* The end of an exchange: the home instance keeps its own part.
LEMMA ExchangedShared ==
  ASSUME PInv, phase \in FusedPhases, UNCHANGED <<phase, req>>,
         NEW r \in Req, req[r].q \in Active, req[r].fx,
         NEW b \in [Inst -> Manager], \A i \in Inst : PoolOK(b[i], phase),
         OthersKeep(bm, b, r), Local0(b, r),
         bm' = [b EXCEPT ![req[r].home] = FreeIntoFusionExcept(@, r, req[r].home)],
         \A i \in Inst : Parted(b[i], LocalOn(i), step'[i].fresh),
         \A i \in Inst : b[i].block_table[r] # {},
         r \in Unexchanged, r \notin Unexchanged',
         \A s \in Req : s # r => /\ s \in remaining' <=> s \in remaining
                                 /\ s \in Unexchanged' <=> s \in Unexchanged
  PROVE  Placement' /\ SharedOut(bm)'
<1> DEFINE h == req[r].home
<1>1. IInv /\ h \in Inst /\ Inst = Stage
  BY StageType DEF PInv, FInv, IInv, TypeOK, Request
<1>2. /\ OthersKeep(b, bm', r) /\ bm' \in [Inst -> Manager]
      /\ bm'[h] = FreeIntoFusionExcept(b[h], r, h)
      /\ \A i \in Inst \ {h} : bm'[i] = b[i]
  <2>1. OthersKeep(b, bm', r) /\ bm' \in [Inst -> Manager]
    BY <1>1, ExchangeHome
  <2>2. QED
    BY <1>1, <2>1
<1>3. \A s \in Req : s # r => GoesOn(s) /\ (s \in remaining' <=> s \in remaining)
  BY SameGoesOn
<1>4. \A i \in Inst : LocalOn(i)' = IF i = h THEN LocalOn(i) \ {r} ELSE LocalOn(i)
  <2>1. \A i \in Inst : r \notin LocalOn(i)'
    BY DEF LocalOn
  <2>2. \A i \in Inst : r \in LocalOn(i) <=> i = h
    BY DEF LocalOn
  <2>3. \A i \in Inst, s \in Req : s # r => (s \in LocalOn(i) <=> s \in LocalOn(i)')
    BY <1>3, OtherLabels
  <2>4. \A i \in Inst : LocalOn(i) \subseteq Req /\ LocalOn(i)' \subseteq Req
    BY DEF LocalOn
  <2>5. ASSUME NEW i \in Inst PROVE LocalOn(i)' = LocalOn(i) \ {r}
    <3>1. ASSUME NEW x \in LocalOn(i)' PROVE x \in LocalOn(i) \ {r}
      BY <2>1, <2>3, <2>4
    <3>2. ASSUME NEW x \in LocalOn(i) \ {r} PROVE x \in LocalOn(i)'
      BY <2>3, <2>4
    <3>3. QED
      BY <3>1, <3>2
  <2>6. \A i \in Inst \ {h} : LocalOn(i) \ {r} = LocalOn(i)
    BY <2>2
  <2>7. QED
    BY <2>5, <2>6
<1>5. \A i \in Inst : Parted(bm'[i], LocalOn(i)', step'[i].fresh)
  <2>1. Parted(bm'[h], LocalOn(h)', step'[h].fresh)
    <3>1. b[h] \in Manager /\ b[h].is_fusion_state /\ r \in LocalOn(h)
      BY <1>1 DEF PoolOK, LocalOn
    <3>2. Parted(b[h], LocalOn(h), step'[h].fresh)
      BY <1>1
    <3>3. Parted(bm'[h], LocalOn(h) \ {r}, step'[h].fresh)
      BY <1>1, <1>2, <3>1, <3>2, FreeIntoFusionExceptParted
    <3>4. QED
      BY <1>1, <1>4, <3>3
  <2>2. QED
    BY <1>2, <1>4, <2>1
<1>6. \A i \in Inst : bm'[i].block_table[r] # {}
  BY <1>1, <1>2, ExchangedTable
<1>7. Placed(bm, r)'
  <2>1. Owns(r)' \subseteq Inst
    BY <1>1 DEF Owns, Where
  <2>2. QED
    BY <1>6, <2>1 DEF Placed, Active, Resting
<1>8. OthersKeep(bm, bm', r)
  BY <1>2 DEF OthersKeep
<1>9. phase' \notin InitialPhases
  BY DEF FusedPhases, InitialPhases
<1>10. QED
  BY <1>3, <1>5, <1>7, <1>8, <1>9, OneShared

LEMMA FinishReshardShared ==
  ASSUME PInv, NEW v \in Inst, FinishReshard(v)
  PROVE  Placement' /\ SharedOut(bm)'
<1>1. PICK r \in step[v].shard :
        bm' = [bm EXCEPT ![req[r].home] = FreeIntoFusionExcept(@, r, req[r].home)]
  BY DEF FinishReshard
<1>2. /\ IInv /\ TypeOK /\ Control /\ Owners /\ Flow /\ r \in Req
      /\ req[r].q = "waiting" /\ req[r].fx /\ phase = "balloon" /\ phase \in FusedPhases
      /\ bm \in [Inst -> Manager] /\ \A i \in Inst : PoolOK(bm[i], phase)
      /\ step \in [Inst -> Step] /\ Local0(bm, r)
  BY DEF PInv, FInv, IInv, TypeOK, Step, Control, Marked, Pools, Owners, FusedPhases
<1>3. /\ step' = [step EXCEPT ![v].shard = {}]
      /\ UNCHANGED <<phase, req, remaining>>
  BY DEF FinishReshard
<1>4. /\ \A u \in Inst \ {v} : step'[u] = step[u]
      /\ step'[v].shard = {} /\ step'[v].fresh = step[v].fresh
  BY <1>2, <1>3 DEF Step
<1>5. step[v].shard = {r} /\ \A u \in Inst \ {v} : r \notin step[u].shard
  BY <1>1, <1>2 DEF Flow, Shape, Members
<1>6. remaining = {}
  BY <1>2, Excluded
<1>7. /\ r \in Unexchanged /\ r \notin Unexchanged'
      /\ \A s \in Req : s # r => (s \in Unexchanged' <=> s \in Unexchanged)
  <2>1. r \in Sharding /\ Sharding' = Sharding \ {r}
    BY <1>4, <1>5 DEF Sharding
  <2>2. QED
    BY <1>3, <1>6, <2>1 DEF Unexchanged
<1>8. \A i \in Inst : bm[i].block_table[r] # {}
  <2>1. Owns(r) = Inst /\ Placed(bm, r)
    BY <1>2, <1>6 DEF Owns, Where, PInv, Placement
  <2>2. QED
    BY <1>2, <2>1 DEF Placed, Active
<1>9. \A i \in Inst : Parted(bm[i], LocalOn(i), step'[i].fresh)
  BY <1>4, PartedNow
<1>10. OthersKeep(bm, bm, r) /\ req[r].q \in Active
  BY <1>2 DEF OthersKeep, Active
<1>11. QED
  BY <1>1, <1>2, <1>3, <1>7, <1>8, <1>9, <1>10, ExchangedShared

LEMMA ReshardShared ==
  ASSUME PInv, NEW r \in Req, Reshard(r)
  PROVE  Placement' /\ SharedOut(bm)'
<1>1. PICK b \in OneEach(OnPeers(r)) :
        bm' = [b EXCEPT ![req[r].home] = FreeIntoFusionExcept(@, r, req[r].home)]
  BY DEF Reshard
<1>2. /\ phase = "handling" /\ phase \in FusedPhases /\ r \in remaining
      /\ remaining' = remaining \ {r} /\ UNCHANGED <<phase, req, step>>
  BY DEF Reshard, FusedPhases
<1>3. /\ IInv /\ TypeOK /\ req[r].q = "running" /\ req[r].fx /\ req[r].home \in Inst
      /\ Local0(bm, r)
  BY <1>2 DEF PInv, FInv, IInv, TypeOK, Request, Marked, Owners
<1>4. /\ b \in [Inst -> Manager] /\ \A i \in Inst : PoolOK(b[i], phase)
      /\ OthersKeep(bm, b, r) /\ b[req[r].home] = bm[req[r].home]
  BY <1>1, <1>3, OnPeersStep
<1>5. /\ r \in Unexchanged /\ r \notin Unexchanged'
      /\ \A s \in Req : s # r => /\ s \in remaining' <=> s \in remaining
                                 /\ s \in Unexchanged' <=> s \in Unexchanged
  <2>1. Sharding = {} /\ Sharding' = {}
    <3>1. Sharding = {}
      BY <1>2, <1>3, NotExchanged
    <3>2. QED
      BY <1>2, <3>1 DEF Sharding
  <2>2. QED
    BY <1>2, <2>1 DEF Unexchanged
<1>6. ASSUME NEW i \in Inst
      PROVE  /\ Parted(b[i], LocalOn(i), step'[i].fresh)
             /\ b[i].block_table[r] # {}
  <2>1. Parted(bm[i], LocalOn(i), step'[i].fresh)
    BY <1>2, PartedNow
  <2>2. CASE i = req[r].home
    <3>1. Owns(r) = {i} /\ Placed(bm, r)
      BY <1>2, <2>2 DEF Owns, PInv, Placement
    <3>2. QED
      BY <1>3, <1>4, <2>1, <2>2, <3>1 DEF Placed, Active
  <2>3. CASE i # req[r].home
    <3>1. r \notin LocalOn(i)
      BY <1>3, <2>3 DEF LocalOn
    <3>2. QED
      BY <1>1, <1>2, <1>3, <2>1, <2>3, <3>1, PeersParted
  <2>4. QED
    BY <2>2, <2>3
<1>7. Local0(b, r) /\ req[r].q \in Active
  BY <1>3, <1>4 DEF Local0, Active
<1>8. QED
  BY <1>1, <1>2, <1>3, <1>4, <1>5, <1>6, <1>7, ExchangedShared

\* The stale requests are marked for the pipeline before their exchange.
LEMMA DropParametersShared ==
  ASSUME PInv, DropParameters
  PROVE  Placement' /\ SharedOut(bm)'
<1> DEFINE stale == UNION {Stale(v) : v \in Inst}
           early == IF Mode = "reshard" THEN stale ELSE {}
<1>1. /\ phase = "dropping" /\ phase' = "handling" /\ AllIdle
      /\ bm' = [i \in Inst |-> AddExtend(bm[i])]
      /\ remaining' = early
      /\ req' = [s \in Req |-> [req[s] EXCEPT !.fx = @ \/ s \in early]]
      /\ UNCHANGED step
  BY DEF DropParameters
<1>2. /\ IInv /\ TypeOK /\ Flow /\ \A s \in Req : Placed(bm, s)
  BY DEF PInv, FInv, IInv, Placement
<1>3. \A s \in early : s \in Req /\ ~ req[s].fx /\ req[s].q = "running"
  BY DEF Stale, Running
<1> HIDE DEF early
<1>4. remaining = {} /\ Sharding = {} /\ Sharding' = {}
  <2>1. remaining = {} /\ Sharding = {}
    BY <1>1, <1>2, Excluded DEF Sharding
  <2>2. QED
    BY <1>1, <2>1 DEF Sharding
<1>5. Unexchanged = {} /\ Unexchanged' = early
  BY <1>1, <1>4 DEF Unexchanged
<1>6. ASSUME NEW s \in Req
      PROVE  /\ req'[s].q = req[s].q /\ req'[s].home = req[s].home
             /\ req'[s].fx = (req[s].fx \/ s \in early)
             /\ req[s].home \in Inst /\ req[s].fx \in BOOLEAN
  BY <1>1, <1>2 DEF TypeOK, Request
<1>7. ASSUME NEW i \in Inst
      PROVE  /\ Parted(bm'[i], LocalOn(i), step'[i].fresh)
             /\ bm'[i].block_table = bm[i].block_table
  <2>1. /\ bm[i] \in Manager /\ Parted(bm[i], LocalOn(i), step'[i].fresh)
    BY <1>1, PartedNow
  <2>2. bm'[i] = AddExtend(bm[i])
    BY <1>1
  <2>3. /\ bm'[i].block_table = bm[i].block_table /\ bm'[i].free_gpu = bm[i].free_gpu
        /\ bm'[i].reserved = bm[i].reserved /\ bm'[i].free_fusion = bm[i].free_fusion
        /\ bm'[i].is_fusion_state = bm[i].is_fusion_state
    BY <2>1, <2>2 DEF AddExtend, Manager
  <2>4. QED
    BY <2>1, <2>3, SameParted
<1>8. ASSUME NEW s \in Req PROVE Placed(bm, s)'
  <2>1. CASE s \in early
    <3>1. /\ ~ req[s].fx /\ req[s].q = "running" /\ Placed(bm, s)
          /\ req'[s].fx /\ req'[s].q = "running" /\ req'[s].home = req[s].home
          /\ req[s].home \in Inst
      BY <1>2, <1>3, <1>6, <2>1
    <3>2. Owns(s)' = {req[s].home} /\ Owns(s) = {req[s].home}
      BY <1>1, <1>4, <2>1, <3>1 DEF Owns, Where
    <3>3. QED
      BY <1>7, <3>1, <3>2 DEF Placed, Active, Resting
  <2>2. CASE s \notin early
    <3>1. GoesOn(s) /\ Placed(bm, s) /\ (s \in remaining' <=> s \in remaining)
      BY <1>1, <1>2, <1>4, <1>6, <2>2 DEF GoesOn
    <3>2. QED
      BY <1>6, <1>7, <3>1, PlacedOn
  <2>3. QED
    BY <2>1, <2>2
<1>9. ASSUME NEW i \in Inst, NEW s \in Req, bm'[i].block_table[s] # {}
      PROVE  s \in LocalOn(i) <=> s \in LocalOn(i)'
  <2>1. CASE s \in early
    <3>1. ~ req[s].fx /\ Placed(bm, s) /\ bm[i].block_table[s] # {}
      BY <1>2, <1>3, <1>7, <1>9, <2>1
    <3>2. i = req[s].home
      BY <3>1 DEF Placed
    <3>3. QED
      BY <1>5, <1>6, <2>1, <3>1, <3>2 DEF LocalOn
  <2>2. CASE s \notin early
    BY <1>5, <1>6, <2>2 DEF LocalOn
  <2>3. QED
    BY <2>1, <2>2
<1>10. phase' \notin InitialPhases
  BY <1>1 DEF InitialPhases
<1>11. QED
  BY <1>7, <1>8, <1>9, <1>10, Labelled DEF Placement

LEMMA PackOneTable ==
  ASSUME NEW m \in Manager, NEW r \in Req, NEW b \in PackOne(m, r)
  PROVE  /\ b.block_table[r] = {} <=> m.block_table[r] = {}
         /\ b.reserved = m.reserved
<1> DEFINE ext == m.block_table[r] \cap Extend
<1>1. CASE ext = {}
  BY <1>1 DEF PackOne
<1>2. CASE ext # {}
  <2>1. PICK S \in kSubset(Cardinality(ext), m.free_fusion) :
          b = [m EXCEPT !.block_table[r] = (@ \ ext) \cup S,
                        !.free_fusion = @ \ S,
                        !.free_extend = @ \cup ext]
    BY <1>2 DEF PackOne
  <2>2. IsFiniteSet(ext) /\ Cardinality(ext) # 0
    <3>1. IsFiniteSet(ext)
      BY BlockSets
    <3>2. QED
      BY <1>2, <3>1, FS_EmptySet
  <2>3. S # {}
    <3>1. Cardinality(S) = Cardinality(ext)
      BY DEF kSubset
    <3>2. QED
      BY <2>2, <3>1, FS_EmptySet
  <2>4. b.block_table[r] = (m.block_table[r] \ ext) \cup S /\ b.reserved = m.reserved
    BY <2>1 DEF Manager
  <2>5. QED
    BY <1>2, <2>3, <2>4
<1>3. QED
  BY <1>1, <1>2

LEMMA PackShared ==
  ASSUME PInv, NEW v \in Inst, Pack(v)
  PROVE  Placement' /\ SharedOut(bm)'
<1>0. FInv
  BY DEF PInv
<1>1. /\ UNCHANGED <<phase, req, remaining>>
      /\ \A u \in Inst : step'[u].shard = step[u].shard /\ step'[u].fresh = step[u].fresh
  BY <1>0, PackOf
<1>2. PICK i \in Inst, r \in Req :
        /\ bm'[i] = bm[i] \/ bm'[i] \in PackOne(bm[i], r)
        /\ \A j \in Inst \ {i} : bm'[j] = bm[j]
  BY <1>0, PackOf
<1>3. /\ TypeOK /\ bm[i] \in Manager /\ ExtendCounted(bm[i]) /\ Counted(bm[i])
      /\ Parted(bm[i], LocalOn(i), step[i].fresh)
      /\ phase \in InitialPhases => bm[i].reserved = {}
  BY PartedNow DEF PoolOK
<1>4. /\ Parted(bm'[i], LocalOn(i), step[i].fresh)
      /\ phase \in InitialPhases => bm'[i].reserved = {}
      /\ \A s \in Req : bm'[i].block_table[s] = {} <=> bm[i].block_table[s] = {}
  <2>1. CASE bm'[i] = bm[i]
    BY <1>3, <2>1
  <2>2. CASE bm'[i] \in PackOne(bm[i], r)
    <3>1. Parted(bm'[i], LocalOn(i), step[i].fresh)
      BY <1>3, <2>2, PackOneParted
    <3>2. /\ bm'[i].block_table[r] = {} <=> bm[i].block_table[r] = {}
          /\ bm'[i].reserved = bm[i].reserved
      BY <1>3, <2>2, PackOneTable
    <3>3. \A s \in Req \ {r} : bm'[i].block_table[s] = bm[i].block_table[s]
      BY <1>3, <2>2, PackOneStep DEF Keeps
    <3>4. ASSUME NEW s \in Req
          PROVE  bm'[i].block_table[s] = {} <=> bm[i].block_table[s] = {}
      BY <3>2, <3>3
    <3>5. QED
      BY <1>3, <3>1, <3>2, <3>4
  <2>3. QED
    BY <1>2, <2>1, <2>2
<1>5. ASSUME NEW j \in Inst
      PROVE  /\ Parted(bm'[j], LocalOn(j), step[j].fresh)
             /\ phase \in InitialPhases => bm'[j].reserved = {}
             /\ \A s \in Req : bm'[j].block_table[s] = {} <=> bm[j].block_table[s] = {}
  BY <1>2, <1>4, PartedNow
<1>6. SharedOut(bm')
  BY <1>5 DEF SharedOut
<1>7. ASSUME NEW s \in Req PROVE Placed(bm', s)
  <2>1. Placed(bm, s) /\ Owns(s) \subseteq Inst
    BY <1>3 DEF PInv, Placement, Owns, Where, TypeOK, Request
  <2>2. QED
    BY <1>5, <2>1 DEF Placed
<1>8. QED
  BY <1>1, <1>3, <1>6, <1>7, ManagersShared

\* After a live restore the request has the fresh blocks of its instance and
\* no others.
LEMMA EndPipeShared ==
  ASSUME PInv, NEW v \in Inst, EndPipe(v)
  PROVE  Placement' /\ SharedOut(bm)'
<1>0. /\ FInv /\ IInv /\ TypeOK /\ Control /\ Marked /\ Flow
      /\ bm' \in Restored(v) /\ UNCHANGED <<phase, remaining>>
      /\ step[v].pc = "pipe" /\ step[v].shard = {} /\ Shape(step[v])
  BY DEF EndPipe, PInv, FInv, IInv, Flow
<1>1. /\ step[v].moved \subseteq step[v].pipe /\ step[v].pipe \subseteq Req
      /\ \A s \in Req :
           /\ req'[s].q = req[s].q /\ req'[s].ve = req[s].ve
           /\ s \in step[v].moved => ~ req'[s].fx /\ req'[s].home = v
           /\ s \notin step[v].moved =>
                req'[s].fx = req[s].fx /\ req'[s].home = req[s].home
  BY <1>0, EndPipeRequests
<1>2. /\ \A u \in Inst \ {v} : step'[u] = step[u]
      /\ step'[v].shard = {} /\ step'[v].fresh = {}
  BY <1>0, EndPipeCoroutine
<1>3. \A u \in Inst : step'[u].shard = step[u].shard
  BY <1>0, <1>2
<1>4. \A s \in Req : s \notin step[v].moved => GoesOn(s)
  BY <1>1 DEF GoesOn
<1>5. CASE step[v].moved = {}
  <2>1. bm' = bm /\ step[v].fresh = {}
    BY <1>0, <1>5 DEF Restored, Shape
  <2>2. QED
    BY <1>0, <1>2, <1>3, <1>4, <1>5, <2>1, StillShared
<1>6. CASE step[v].moved # {}
  <2>1. PICK r \in step[v].moved : TRUE
    BY <1>6
  <2>2. r \in Req /\ step[v].moved = {r}
    BY <1>0, RestoredManagers
  <2>3. PICK b \in OneEach(FreeOn(bm, r, Inst)) :
          /\ \A i \in Inst : b[i] \in Free(bm[i], r, req[r].fx)
          /\ \A i \in Inst \ {v} : bm'[i] = b[i]
          /\ bm'[v] = Giving(b[v], r, step[v].fresh)
    BY <1>0, RestoredManagers
  <2>4. /\ req[r].q = "running" /\ req[r].fx
        /\ phase \in {"restore", "stopping_init"} /\ phase \notin InitialPhases
    BY <1>0, <2>1 DEF Control, Flow, Members, InitialPhases
  <2>5. /\ Right(b) /\ OthersKeep(bm, b, r)
        /\ \A i \in Inst : b[i].block_table[r] = {}
    BY <1>0, <2>2, <2>4, RightNow, FreeManagers
  <2>6. r \notin Unexchanged
    BY <1>0, <2>2, <2>4, Serving, NotExchanged DEF Unexchanged
  <2>7. \A s \in Req : s # r => /\ GoesOn(s) /\ (s \in remaining' <=> s \in remaining)
                                /\ s \in Unexchanged' <=> s \in Unexchanged
    BY <1>0, <1>3, <1>4, <2>2 DEF Unexchanged, Sharding
  <2>8. /\ ~ req'[r].fx /\ req'[r].home = v /\ req'[r].q = "running"
        /\ \A i \in Inst : r \in LocalOn(i)'
    BY <1>1, <2>2, <2>4 DEF LocalOn
  <2>9. ASSUME NEW i \in Inst
        PROVE  b[i] \in Manager /\ Parted(b[i], LocalOn(i)', step[i].fresh)
    <3>1. /\ bm[i] \in Manager /\ PoolOK(bm[i], phase)
          /\ Parted(bm[i], LocalOn(i), step[i].fresh)
      BY PartedNow
    <3>2. bm[i].is_fusion_state \/ Extend \cap bm[i].block_table[r] = {}
      <4>1. bm[i].max_extend = 0
        BY <2>4, <3>1 DEF PoolOK, LoanPhases
      <4>2. QED
        BY <2>2, <3>1, <4>1, NoLoan
    <3>3. r \notin LocalOn(i) /\ req[r].fx \in BOOLEAN /\ (req[r].fx <=> r \notin LocalOn(i))
      BY <1>0, <2>2, <2>4, <2>6, MarkedFormat
    <3>4. Parted(b[i], LocalOn(i), step[i].fresh)
      BY <2>2, <2>3, <3>1, <3>2, <3>3, FreeParted
    <3>5. \A s \in Req : b[i].block_table[s] # {} => (s \in LocalOn(i) <=> s \in LocalOn(i)')
      BY <2>5, <2>7, OtherLabels
    <3>6. QED
      BY <2>5, <3>4, <3>5, Relabelled DEF Right
  <2>10. /\ bm'[v].block_table[r] = step[v].fresh
         /\ \A s \in Req \ {r} : bm'[v].block_table[s] = b[v].block_table[s]
         /\ bm'[v].free_gpu = b[v].free_gpu /\ bm'[v].reserved = b[v].reserved
         /\ bm'[v].free_fusion = b[v].free_fusion
         /\ bm'[v].is_fusion_state = b[v].is_fusion_state
    BY <2>2, <2>3, <2>9, GivingStep
  <2>11. Parted(bm'[v], LocalOn(v)', {})
    BY <2>2, <2>5, <2>8, <2>9, <2>10, FreshGiven
  <2>12. \A i \in Inst : Parted(bm'[i], LocalOn(i)', step'[i].fresh)
    BY <1>2, <2>3, <2>9, <2>11
  <2>13. OthersKeep(bm, bm', r)
    <3>1. ASSUME NEW i \in Inst, NEW s \in Req \ {r}
          PROVE  bm'[i].block_table[s] = bm[i].block_table[s]
      BY <2>3, <2>5, <2>10 DEF OthersKeep
    <3>2. QED
      BY <3>1 DEF OthersKeep
  <2>14. Placed(bm, r)'
    <3>1. step[v].fresh # {} /\ remaining = {}
      BY <1>0, <1>6, Serving DEF Shape
    <3>2. Owns(r)' = {v}
      BY <1>0, <2>8, <3>1 DEF Owns, Where
    <3>3. \A i \in Inst \ {v} : bm'[i].block_table[r] = {}
      BY <2>3, <2>5
    <3>4. QED
      BY <2>8, <2>10, <3>1, <3>2, <3>3 DEF Placed, Resting
  <2>15. QED
    BY <1>0, <2>2, <2>4, <2>7, <2>12, <2>13, <2>14, OneShared
<1>7. QED
  BY <1>5, <1>6

-----------------------------------------------------------------------------
(* Every step keeps the placement and the shares.                          *)

LEMMA NextPInv ==
  ASSUME NoLiveRestore, PInv, [Next]_vars, [Mode = "reshard" => ~ GiveUpReshard]_vars
  PROVE  PInv'
<1>0. FInv /\ FInv'
  BY NextFInv DEF PInv
<1>1. SUFFICES Placement' /\ SharedOut(bm)'
  BY <1>0 DEF PInv
<1>2. ASSUME NEW r \in Req, Arrive(r) PROVE Placement' /\ SharedOut(bm)'
  BY <1>2, ArriveShared
<1>3. ASSUME NEW v \in Inst, StepOf(v) PROVE Placement' /\ SharedOut(bm)'
  <2>1. ASSUME NEW r \in Req,
               \/ StartReshard(v, r)
               \/ FreeFinished(v, r) \/ Grow(v, r) \/ Preempt(v, r)
               \/ Adopt(v, r) \/ Admit(v, r) \/ Refuse(v, r)
        PROVE  Placement' /\ SharedOut(bm)'
    BY <2>1, StartReshardShared, FreeFinishedShared, GrowShared, PreemptShared,
       AdoptShared, AdmitShared, RefuseShared
  <2>2. QED
    BY <1>3, <2>1, StartStepShared, FinishReshardShared, EndPipeShared, EndReplShared,
       PackShared, NextStoppedShared, GrownShared DEF StepOf
<1>4. CASE UNCHANGED vars
  <2>1. UNCHANGED <<phase, bm, req, step, remaining>>
    BY <1>4 DEF vars
  <2>2. QED
    BY <2>1, DecisionShared
<1>5. CASE Balloon /\ ~ UNCHANGED vars
  <2>1. ASSUME NEW S \in SUBSET Inst, VoteBalloon(S) PROVE Placement' /\ SharedOut(bm)'
    BY <2>1, VoteBalloonShared
  <2>2. ASSUME NEW r \in Req, RecomputeStale(r) \/ Reshard(r)
        PROVE  Placement' /\ SharedOut(bm)'
    BY <2>2, RecomputeStaleShared, ReshardShared
  <2>3. ~ GiveUpReshard
    <3>1. Mode = "reshard" => ~ GiveUpReshard
      BY <1>5
    <3>2. GiveUpReshard => remaining # {}
      BY DEF GiveUpReshard
    <3>3. remaining # {} => Mode = "reshard"
      BY <1>0 DEF FInv, Kinds
    <3>4. QED
      BY <3>1, <3>2, <3>3
  <2>4. QED
    BY <1>5, <2>1, <2>2, <2>3, MergeShared, DropParametersShared, EnterBalloonShared
       DEF Balloon
<1>6. CASE Restore
  <2>1. ASSUME NEW i \in Inst, Reclaim(i) PROVE Placement' /\ SharedOut(bm)'
    BY <2>1, ReclaimShared
  <2>2. QED
    BY <1>6, <2>1, DecideShared, RestoreInstanceShared, SplitShared DEF Restore
<1>7. QED
  BY <1>2, <1>3, <1>4, <1>5, <1>6 DEF Next

LEMMA InitPInv == Init => PInv
<1> SUFFICES ASSUME Init PROVE PInv
  OBVIOUS
<1>1. /\ phase = "initial" /\ req = [r \in Req |-> NewRequest]
      /\ bm = [i \in Inst |-> InitManager]
      /\ step = [v \in Inst |-> NoStep] /\ remaining = {}
  BY DEF Init
<1>2. \A i \in Inst : /\ bm[i] = InitManager /\ bm[i].reserved = {}
                      /\ step[i].fresh = {}
                      /\ \A r \in Req : bm[i].block_table[r] = {}
  BY <1>1 DEF InitManager, NoStep
<1>3. Placement
  <2>1. \A r \in Req : req[r].q = "out"
    BY <1>1 DEF NewRequest
  <2>2. QED
    BY <1>2, <2>1, StageType DEF Placement, Placed, Active
<1>4. SharedOut(bm)
  <2>1. \A i \in Inst : Parted(bm[i], LocalOn(i), step[i].fresh)
    BY <1>2, InitParted
  <2>2. QED
    BY <1>2, <2>1 DEF SharedOut
<1>5. QED
  BY <1>3, <1>4, InitFInv DEF PInv

LEMMA PInvariance == NoLiveRestore => (Spec /\ NeverGivesUp => []PInv)
<1> SUFFICES ASSUME NoLiveRestore PROVE Spec /\ NeverGivesUp => []PInv
  OBVIOUS
<1>1. Init => PInv
  BY InitPInv
<1>2. PInv /\ [Next]_vars /\ [Mode = "reshard" => ~ GiveUpReshard]_vars => PInv'
  BY NextPInv
<1>3. QED
  BY <1>1, <1>2, PTL DEF Spec, NeverGivesUp

\* No block of an instance is lost and none is given out twice, through every
\* allocation and preemption, the changes of format of a merge, of a restore
\* and of a split, and every exchange; and a request in no batch owns nothing
\* (block_manager.py, _reshard_blocks_batched, _restore_requests).
THEOREM PartitionTheorem ==
  NoLiveRestore => (Spec /\ NeverGivesUp => []BlocksPartitioned)
<1> SUFFICES ASSUME NoLiveRestore PROVE Spec /\ NeverGivesUp => []BlocksPartitioned
  OBVIOUS
<1>1. PInv => BlocksPartitioned
  BY DEF PInv, SharedOut, Parted, Placement, Placed, Resting, BlocksPartitioned
<1>2. QED
  BY <1>1, PInvariance, PTL

\* "All stale requests are handled before this line": when the group starts
\* to run as a pipeline every request has blocks wherever it runs
\* (enter_balloon_state), provided that reshard_blocks has not given up.
THEOREM HandledTheorem ==
  NoLiveRestore => (Spec /\ NeverGivesUp => StaleHandled)
<1> SUFFICES ASSUME NoLiveRestore PROVE Spec /\ NeverGivesUp => StaleHandled
  OBVIOUS
<1> DEFINE Handled == phase = "handling" /\ phase' = "balloon" =>
             \A r \in Req : req[r].q = "running" =>
               \A i \in Where(r) : bm[i].block_table[r] # {}
<1>1. ASSUME PInv, Next PROVE Handled
  <2>1. SUFFICES ASSUME phase = "handling", phase' = "balloon",
                        NEW r \in Req, req[r].q = "running", NEW i \in Where(r)
                 PROVE  bm[i].block_table[r] # {}
    OBVIOUS
  <2>2. AllIdle
    BY <1>1, <2>1 DEF PInv, FInv, IInv, Control
  <2>3. EnterBalloon
    <3>1. ~ (\E v \in Inst : StepOf(v))
      BY <2>1 DEF StepOf, StartStep, FinishReshard, EndPipe, EndRepl, Pack, NextStopped,
                  Grown, StartReshard, FreeFinished, Grow, Preempt, Adopt, Admit, Refuse
    <3>2. ~ Restore /\ ~ (\E s \in Req : Arrive(s))
      BY <2>1 DEF Restore, StartReclaim, EndReclaim, Reloaded, Reclaim, RestoreInstance,
                  VoteInit, Split, Arrive
    <3>3. QED
      BY <1>1, <2>1, <3>1, <3>2 DEF Next, Balloon, VoteBalloon, Merge, DropParameters,
                  RecomputeStale, Reshard, GiveUpReshard
  <2>4. remaining = {}
    BY <2>3 DEF EnterBalloon
  <2>5. Placed(bm, r) /\ Owns(r) = Where(r)
    BY <1>1, <2>4 DEF PInv, Placement, Owns
  <2>6. QED
    BY <2>1, <2>5 DEF Placed, Active
<1>2. PInv /\ [Next]_vars => [Handled]_vars
  BY <1>1
<1>3. Spec /\ NeverGivesUp => [][Handled]_vars
  BY <1>2, PInvariance, PTL DEF Spec
<1>4. QED
  BY <1>3 DEF StaleHandled

-----------------------------------------------------------------------------
(* Every batch has the blocks its tokens need.                             *)
(*                                                                         *)
(* Between two iterations the requests of a batch may be short of blocks:  *)
(* the last one added a token, and a batch that stops is not grown any     *)
(* more.  What a step may rely on is that a virtual engine grew its batch  *)
(* before it came to where it may start the next one.                      *)

\* Virtual engine v has grown its batch: it admits further requests to it,
\* or it may start the next step with it.
Ready(v) ==
  step[v].pc \in {"adopt", "dispatch"} \/ (Idle(v) /\ ~ stopped[Engine(v)])

Working(v) == step[v].pipe \cup step[v].repl

\* The requests that have blocks for all their tokens now.  A prompt has
\* them from its admission to its first token, and an exchanged request
\* until it rejoins a batch.
Due(r) ==
  \/ req[r].q = "waiting"
  \/ req[r].q = "running" /\ \/ req[r].ctx
                             \/ Ready(req[r].ve)
                             \/ r \in Working(req[r].ve)

Enough(r) == \A i \in Owns(r) : Held(bm[i], r) >= req[r].need

Backed == \A r \in Req : Due(r) => Enough(r)

\* A group that does not restore packs no blocks, and in BALLOON it runs
\* batches of the pipeline only.
Forward ==
  \A v \in Inst : /\ step[v].pc # "pack"
                  /\ phase = "balloon" => step[v].repl = {}

BInv == PInv /\ Backed /\ Forward

\* Request s keeps its blocks on the instances it runs on.
Grows(s) ==
  \A i \in Inst : \/ bm'[i].block_table[s] = bm[i].block_table[s]
                  \/ Held(bm'[i], s) >= Held(bm[i], s)
Carries(s) ==
  req'[s].need = req[s].need /\ Owns(s)' \subseteq Owns(s) /\ Grows(s)

\* A step provides for every request that must have its blocks after it.
Provides == \A s \in Req : Due(s)' => (Due(s) /\ Carries(s)) \/ Enough(s)'

LEMMA OwnsType ==
  ASSUME TypeOK, NEW s \in Req
  PROVE  /\ req[s] \in Request /\ req[s].need \in Nat /\ req[s].home \in Inst
         /\ req[s].ve \in Inst /\ Owns(s) \subseteq Inst
         /\ \A i \in Inst : bm[i] \in Manager /\ Held(bm[i], s) \in Nat
<1>1. req[s] \in Request /\ bm \in [Inst -> Manager]
  BY DEF TypeOK
<1>2. req[s].need \in Nat /\ req[s].home \in Inst /\ req[s].ve \in Inst
  BY <1>1, GroupAssumption DEF Request
<1>3. Owns(s) \subseteq Inst
  BY <1>2 DEF Owns, Where
<1>4. \A i \in Inst : bm[i] \in Manager /\ Held(bm[i], s) \in Nat
  BY <1>1, HeldType
<1>5. QED
  BY <1>1, <1>2, <1>3, <1>4

LEMMA ProvidesBacked ==
  ASSUME TypeOK, TypeOK', Backed, Provides
  PROVE  Backed'
<1> SUFFICES ASSUME NEW s \in Req, Due(s)' PROVE Enough(s)'
  BY DEF Backed
<1>1. CASE Due(s) /\ Carries(s)
  <2>1. SUFFICES ASSUME NEW i \in Owns(s)' PROVE Held(bm'[i], s) >= req'[s].need
    BY DEF Enough
  <2>2. /\ i \in Owns(s) /\ req'[s].need = req[s].need
        /\ i \in Inst /\ Held(bm[i], s) \in Nat /\ req[s].need \in Nat
    BY <1>1, OwnsType DEF Carries
  <2>3. Held(bm[i], s) >= req[s].need
    BY <1>1, <2>2 DEF Backed, Enough
  <2>4. bm'[i] \in Manager /\ Held(bm'[i], s) \in Nat
    BY <2>2, HeldType DEF TypeOK
  <2>5. Held(bm'[i], s) = Held(bm[i], s) \/ Held(bm'[i], s) >= Held(bm[i], s)
    BY <1>1, <2>2 DEF Carries, Grows, Held
  <2>6. QED
    BY <2>2, <2>3, <2>4, <2>5
<1>2. QED
  BY <1>1 DEF Provides

\* Nothing about s changes but its blocks, of which it gets more.
LEMMA SameCarries ==
  ASSUME NEW s \in Req, req'[s] = req[s], s \in remaining' <=> s \in remaining, Grows(s)
  PROVE  Carries(s)
<1>1. Owns(s)' = Owns(s)
  BY DEF Owns, Where
<1>2. QED
  BY <1>1 DEF Carries

\* A step at which no coroutine advances.
LEMMA SameSteps ==
  ASSUME UNCHANGED <<phase, stopped, step>>,
         \A s \in Req : \/ req'[s].q \in Resting
                        \/ Enough(s)'
                        \/ req'[s] = req[s] /\ Carries(s)
  PROVE  Provides
<1>1. \A v : Ready(v)' <=> Ready(v)
  BY DEF Ready, Idle, Engine, Merged
<1>2. ASSUME NEW s \in Req, Due(s)', ~ Enough(s)' PROVE Due(s) /\ Carries(s)
  <2>1. req'[s] = req[s] /\ Carries(s)
    BY <1>2 DEF Due, Resting
  <2>2. QED
    BY <1>1, <1>2, <2>1 DEF Due, Working
<1>3. QED
  BY <1>2 DEF Provides

\* Only the coroutine of v advances, from where its batch had grown or to
\* where nothing is expected of the requests it does not hold.
LEMMA DueBefore ==
  ASSUME TypeOK, NEW v \in Inst, UNCHANGED <<phase, stopped>>,
         \A u \in Inst \ {v} : step'[u] = step[u],
         NEW s \in Req, req'[s].q = req[s].q, req'[s].ve = req[s].ve,
         req'[s].ctx => req[s].ctx,
         req[s].ve = v =>
           Ready(v) \/ (~ Ready(v)' /\ (s \in Working(v)' => s \in Working(v))),
         Due(s)'
  PROVE  Due(s)
<1>1. req[s].ve \in Inst
  BY OwnsType
<1>2. CASE req[s].ve # v
  <2>1. step'[req[s].ve] = step[req[s].ve]
    BY <1>1, <1>2
  <2>2. /\ Ready(req[s].ve)' <=> Ready(req[s].ve)
        /\ s \in Working(req[s].ve)' <=> s \in Working(req[s].ve)
    BY <2>1 DEF Ready, Idle, Engine, Merged, Working
  <2>3. QED
    BY <2>2 DEF Due
<1>3. CASE req[s].ve = v
  BY <1>3 DEF Due
<1>4. QED
  BY <1>2, <1>3

\* Only the coroutine of v advances, and no request changes.
LEMMA PcProvides ==
  ASSUME TypeOK, NEW v \in Inst, UNCHANGED <<phase, stopped, bm, req, remaining>>,
         \A u \in Inst \ {v} : step'[u] = step[u],
         \/ Ready(v)
         \/ ~ Ready(v)' /\ Working(v)' \subseteq Working(v)
  PROVE  Provides
<1>1. ASSUME NEW s \in Req, Due(s)' PROVE Due(s)
  <2>1. req'[s] = req[s]
    OBVIOUS
  <2>2. req[s].ve = v =>
          Ready(v) \/ (~ Ready(v)' /\ (s \in Working(v)' => s \in Working(v)))
    OBVIOUS
  <2>3. QED
    BY <1>1, <2>1, <2>2, DueBefore
<1>2. \A s \in Req : Carries(s)
  BY SameCarries DEF Grows
<1>3. QED
  BY <1>1, <1>2 DEF Provides

LEMMA NextStoppedProvides ==
  ASSUME BInv, NEW v \in Inst, NextStopped(v)
  PROVE  Provides
<1>1. /\ IInv /\ Flow /\ TypeOK /\ step[v].pc = "grow" /\ stopped[Engine(v)]
      /\ SetPc(v, "idle") /\ UNCHANGED <<phase, bm, req, stopped, remaining>>
  BY DEF BInv, PInv, FInv, IInv, NextStopped
<1>2. /\ step'[v].pc = "idle" /\ \A u \in Inst \ {v} : step'[u] = step[u]
      /\ step'[v].pipe = step[v].pipe /\ step'[v].repl = step[v].repl
  BY <1>1, SetPcEmpty
<1>3. ~ Ready(v)' /\ Working(v)' \subseteq Working(v)
  BY <1>1, <1>2 DEF Ready, Idle, Engine, Merged, Working
<1>4. QED
  BY <1>1, <1>2, <1>3, PcProvides

\* The batch is grown when no request of it is short of a block.
LEMMA GrownProvides ==
  ASSUME BInv, NEW v \in Inst, Grown(v)
  PROVE  Provides
<1>1. /\ IInv /\ Flow /\ TypeOK /\ step[v].pc = "grow"
      /\ \A r \in Running(v) : ~ Short(r)
      /\ UNCHANGED <<phase, bm, req, stopped, remaining>>
  BY DEF BInv, PInv, FInv, IInv, Grown, Growing
<1>2. PICK pc : SetPc(v, pc)
  BY DEF Grown
<1>3. /\ \A u \in Inst \ {v} : step'[u] = step[u]
      /\ step'[v].pipe = step[v].pipe /\ step'[v].repl = step[v].repl
      /\ remaining = {}
  BY <1>1, <1>2, SetPcEmpty, Serving
<1>4. ASSUME NEW s \in Req, Due(s)' PROVE (Due(s) /\ Carries(s)) \/ Enough(s)'
  <2>1. CASE s \in Running(v)
    <3>1. SUFFICES ASSUME NEW i \in Owns(s) PROVE Held(bm[i], s) >= req[s].need
      <4>1. Owns(s)' = Owns(s)
        BY <1>1 DEF Owns, Where
      <4>2. QED
        BY <1>1, <4>1 DEF Enough
    <3>2. /\ i \in Where(s) /\ ~ Short(s) /\ i \in Inst
          /\ Held(bm[i], s) \in Nat /\ req[s].need \in Nat
      BY <1>1, <1>3, <2>1, OwnsType DEF Owns
    <3>3. ~ (req[s].need - Held(bm[i], s) > 0)
      BY <3>2 DEF Short, Lacks
    <3>4. QED
      BY <3>2, <3>3
  <2>2. CASE s \notin Running(v)
    <3>1. Due(s)
      <4>1. req'[s] = req[s] /\ req[s].ve \in Inst
        BY <1>1, OwnsType
      <4>2. CASE req[s].ve = v
        BY <1>4, <2>2, <4>1, <4>2 DEF Due, Running
      <4>3. CASE req[s].ve # v
        BY <1>1, <1>3, <1>4, <4>1, <4>3, DueBefore
      <4>4. QED
        BY <4>2, <4>3
    <3>2. Carries(s)
      BY <1>1, SameCarries DEF Grows
    <3>3. QED
      BY <3>1, <3>2
  <2>3. QED
    BY <2>1, <2>2
<1>5. QED
  BY <1>4 DEF Provides

LEMMA ArriveProvides ==
  ASSUME BInv, NEW r \in Req, Arrive(r)
  PROVE  Provides
<1>1. /\ req \in [Req -> Request]
      /\ UNCHANGED <<phase, bm, stopped, step, remaining>>
  BY DEF BInv, PInv, FInv, IInv, TypeOK, Arrive
<1>2. PICK v \in Inst, n \in 1 .. MaxLen :
        req' = [req EXCEPT ![r] = [@ EXCEPT !.q = "queued", !.ve = v, !.need = n]]
  BY DEF Arrive
<1>3. req'[r].q \in Resting /\ \A s \in Req : s # r => req'[s] = req[s]
  BY <1>1, <1>2 DEF Request, Resting
<1>4. \A s \in Req : s # r => Carries(s)
  BY <1>1, <1>3, SameCarries DEF Grows
<1>5. QED
  BY <1>1, <1>3, <1>4, SameSteps

LEMMA VoteBalloonProvides ==
  ASSUME BInv, NEW S \in SUBSET Inst, VoteBalloon(S)
  PROVE  Provides
<1>1. /\ phase = "initial" /\ phase' \in InitialPhases
      /\ stopped' = [v \in Inst |-> \/ stopped[v]
                                    \/ v \in S
                                    \/ phase' = "stopping_followers" /\ v # 0]
      /\ UNCHANGED <<bm, req, step, remaining>> /\ TypeOK
  BY DEF VoteBalloon, BInv, PInv, FInv, IInv, InitialPhases
<1>2. \A v \in Inst : Ready(v)' => Ready(v)
  BY <1>1 DEF Ready, Idle, Engine, Merged, InitialPhases
<1>3. ASSUME NEW s \in Req, Due(s)' PROVE Due(s)
  BY <1>1, <1>2, <1>3, OwnsType DEF Due, Working
<1>4. \A s \in Req : Carries(s)
  BY <1>1, SameCarries DEF Grows
<1>5. QED
  BY <1>3, <1>4 DEF Provides

LEMMA StartStepProvides ==
  ASSUME BInv, NEW v \in Inst, StartStep(v)
  PROVE  Provides
<1>1. /\ IInv /\ TypeOK /\ CanStart(v) /\ Launch(v, bm, {}) /\ bm \in [Inst -> Manager]
      /\ UNCHANGED <<phase, req, stopped, remaining>>
  BY DEF BInv, PInv, FInv, IInv, TypeOK, StartStep
<1>2. /\ \A u \in Inst \ {v} : step'[u] = step[u]
      /\ bm'[v] = Without(bm[v], step'[v].fresh)
      /\ \A i \in Inst \ {v} : bm'[i] = bm[i]
  <2> DEFINE sh == {}
  <2>1. sh \in SUBSET Req /\ (\A r, s \in sh : r = s) /\ Launch(v, bm, sh)
    BY <1>1
  <2> HIDE DEF sh
  <2>2. QED
    BY <1>1, <2>1, LaunchShape
<1>3. Ready(v)
  BY <1>1 DEF CanStart, Ready
<1>4. \A i \in Inst : bm'[i].block_table = bm[i].block_table
  BY <1>1, <1>2 DEF Without, Manager
<1>5. ASSUME NEW s \in Req PROVE (Due(s)' => Due(s)) /\ Carries(s)
  <2>1. req'[s] = req[s]
    BY <1>1
  <2>2. QED
    BY <1>1, <1>2, <1>3, <1>4, <2>1, DueBefore, SameCarries DEF Grows
<1>6. QED
  BY <1>5 DEF Provides

\* A batch that has been on the workers is due again when it has grown; a
\* prompt that is not finished needs no more than it did.
LEMMA EndReplProvides ==
  ASSUME BInv, NEW v \in Inst, EndRepl(v)
  PROVE  Provides
<1>1. PICK g \in Advanced(step[v].repl) :
        req' = [r \in Req |-> IF r \in step[v].repl THEN g[r] ELSE req[r]]
  BY DEF EndRepl
<1>2. /\ step' = [step EXCEPT ![v] = [NoStep EXCEPT !.pc = "grow"]]
      /\ UNCHANGED <<phase, bm, stopped, remaining>>
  BY DEF EndRepl
<1>3. /\ TypeOK /\ Flow /\ step \in [Inst -> Step] /\ step[v].repl \in SUBSET Req
  BY DEF BInv, PInv, FInv, IInv, TypeOK, Step
<1>4. /\ step'[v].pc = "grow" /\ Working(v)' = {}
      /\ \A u \in Inst \ {v} : step'[u] = step[u]
  BY <1>2, <1>3 DEF NoStep, Working
<1>5. ~ Ready(v)'
  BY <1>4 DEF Ready, Idle
<1>6. ASSUME NEW s \in Req, Due(s)' PROVE Due(s) /\ Carries(s)
  <2>1. CASE s \in step[v].repl
    <3>1. /\ req'[s].ve = req[s].ve /\ (req'[s] = req[s] \/ ~ req'[s].ctx)
          /\ req'[s].q = req[s].q
      BY <1>1, <1>3, <2>1, AdvancedTo, AdvanceStep
    <3>2. req[s].q = "running" /\ req[s].ve = v
      BY <1>3, <2>1 DEF Flow, Members
    <3>3. req'[s].ctx
      BY <1>4, <1>5, <1>6, <3>1, <3>2 DEF Due
    <3>4. req'[s] = req[s]
      BY <3>1, <3>3
    <3>5. QED
      BY <1>2, <3>2, <3>3, <3>4, SameCarries DEF Grows, Due
  <2>2. CASE s \notin step[v].repl
    <3>1. req'[s] = req[s]
      BY <1>1, <2>2
    <3>2. QED
      BY <1>2, <1>3, <1>4, <1>5, <1>6, <3>1, DueBefore, SameCarries DEF Grows
  <2>3. QED
    BY <2>1, <2>2
<1>7. QED
  BY <1>6 DEF Provides

LEMMA EndPipeProvides ==
  ASSUME ~ AllowRestore, BInv, NEW v \in Inst, EndPipe(v)
  PROVE  Provides
<1>1. /\ FInv /\ TypeOK /\ Control /\ Flow /\ phase \notin RestorePhases
      /\ bm' \in Restored(v) /\ UNCHANGED <<phase, stopped, remaining>>
  BY DEF BInv, PInv, FInv, IInv, Control, EndPipe
<1>2. step[v].moved = {} /\ bm' = bm
  BY <1>1 DEF Control, RestorePhases, Restored
<1>3. \A s \in Req :
        /\ req'[s].q = req[s].q /\ req'[s].ve = req[s].ve
        /\ req'[s].fx = req[s].fx /\ req'[s].home = req[s].home
        /\ s \notin step[v].pipe => req'[s] = req[s]
        /\ req'[s].need = req[s].need \/ ~ req'[s].ctx
        /\ req'[s].ctx => req[s].ctx
  BY <1>1, <1>2, EndPipeRequests
<1>4. /\ \A u \in Inst \ {v} : step'[u] = step[u]
      /\ step'[v].pc \in {"repl", "pack", "grow"}
      /\ step'[v].pipe = {} /\ step'[v].repl \subseteq step[v].repl
  BY <1>1, EndPipeCoroutine
<1>5. ~ Ready(v)' /\ Working(v)' \subseteq step[v].repl
  BY <1>4 DEF Ready, Idle, Working
<1>6. ASSUME NEW s \in Req, Due(s)' PROVE Due(s)
  <2>1. s \in Working(v)' => s \in Working(v)
    BY <1>5 DEF Working
  <2>2. QED
    BY <1>1, <1>3, <1>4, <1>5, <1>6, <2>1, DueBefore
<1>7. ASSUME NEW s \in Req, Due(s)' PROVE Carries(s)
  <2>1. CASE s \in step[v].pipe
    <3>1. req[s].q = "running" /\ req[s].ve = v /\ s \notin step[v].repl
      BY <1>1, <2>1 DEF Flow, Members
    <3>2. req'[s].ctx
      BY <1>3, <1>5, <1>7, <3>1 DEF Due
    <3>3. Owns(s)' = Owns(s)
      BY <1>1, <1>3 DEF Owns, Where
    <3>4. QED
      BY <1>2, <1>3, <3>2, <3>3 DEF Carries, Grows
  <2>2. CASE s \notin step[v].pipe
    BY <1>1, <1>2, <1>3, <2>2, SameCarries DEF Grows
  <2>3. QED
    BY <2>1, <2>2
<1>8. QED
  BY <1>6, <1>7 DEF Provides

-----------------------------------------------------------------------------
(* Requests that leave a batch, or that come into one.                     *)

LEMMA RefuseProvides ==
  ASSUME BInv, NEW v \in Inst, NEW r \in Req, Refuse(v, r)
  PROVE  Provides
<1>1. /\ IInv /\ Flow /\ TypeOK /\ req \in [Req -> Request] /\ step[v].pc = "dispatch"
      /\ req' = [req EXCEPT ![r] = Checked(r, v, "queued")] /\ SetPc(v, "idle")
      /\ UNCHANGED <<phase, bm, stopped, remaining>>
  BY DEF BInv, PInv, FInv, IInv, TypeOK, Refuse
<1>2. req'[r].q = "queued" /\ \A s \in Req : s # r => req'[s] = req[s]
  BY <1>1 DEF Checked, Request
<1>3. Ready(v) /\ \A u \in Inst \ {v} : step'[u] = step[u]
  BY <1>1, SetPcEmpty DEF Ready
<1>4. ASSUME NEW s \in Req, Due(s)' PROVE Due(s) /\ Carries(s)
  <2>1. s # r
    BY <1>2, <1>4 DEF Due
  <2>2. req'[s] = req[s]
    BY <1>2, <2>1
  <2>3. QED
    BY <1>1, <1>3, <1>4, <2>2, DueBefore, SameCarries DEF Grows
<1>5. QED
  BY <1>4 DEF Provides

\* An exchanged request has its blocks on every instance when it rejoins.
LEMMA AdoptProvides ==
  ASSUME BInv, NEW v \in Inst, NEW r \in Req, Adopt(v, r)
  PROVE  Provides
<1>1. /\ IInv /\ Flow /\ Kinds /\ TypeOK /\ req \in [Req -> Request]
      /\ step[v].pc = "adopt" /\ req[r].q = "waiting" /\ r \in Req
      /\ UNCHANGED <<phase, bm, stopped, remaining>>
  BY DEF BInv, PInv, FInv, IInv, TypeOK, Adopt, Adoptable
<1>2. PICK q \in {"running", "waiting"} : req' = [req EXCEPT ![r] = Checked(r, v, q)]
  BY DEF Adopt
<1>3. PICK pc : SetPc(v, pc)
  BY DEF Adopt
<1>4. /\ req'[r].fx = Fused /\ req'[r].need = req[r].need
      /\ \A s \in Req : s # r => req'[s] = req[s]
  BY <1>1, <1>2 DEF Request, Checked
<1>5. req[r].fx /\ Fused
  BY <1>1, FusedPhase DEF Kinds, KindOf, FusedPhases
<1>6. remaining = {} /\ Ready(v) /\ \A u \in Inst \ {v} : step'[u] = step[u]
  BY <1>1, <1>3, Serving, SetPcEmpty DEF Ready
<1>7. Due(r) /\ Carries(r)
  <2>1. Owns(r) = Inst /\ Owns(r)' = Inst
    BY <1>1, <1>4, <1>5, <1>6 DEF Owns, Where
  <2>2. QED
    BY <1>1, <1>4, <2>1 DEF Carries, Grows, Due
<1>8. ASSUME NEW s \in Req, s # r, Due(s)' PROVE Due(s) /\ Carries(s)
  <2>1. req'[s] = req[s]
    BY <1>4, <1>8
  <2>2. QED
    BY <1>1, <1>6, <1>8, <2>1, DueBefore, SameCarries DEF Grows
<1>9. QED
  BY <1>7, <1>8 DEF Provides

\* A request that leaves its batch takes nobody else's blocks along.
LEMMA LeavesProvides ==
  ASSUME IInv, NEW r \in Req, req[r].q = "running", NEW b, Right(b),
         \A s \in Req : s # r =>
           \A i \in Inst : \/ b[i].block_table[s] = bm[i].block_table[s]
                           \/ Held(b[i], s) >= Held(bm[i], s),
         bm' \in OneEach(FreeOn(b, r, Where(r))),
         NEW q, req' = [req EXCEPT ![r] = q], q.q \in Resting,
         UNCHANGED <<phase, stopped, step, remaining>>
  PROVE  Provides
<1>1. TypeOK /\ Marked /\ req \in [Req -> Request] /\ Where(r) \in SUBSET Inst
  BY DEF IInv, TypeOK, Where, Request
<1>2. OthersKeep(b, bm', r)
  BY <1>1, FreeManagers
<1>3. req'[r].q \in Resting /\ \A s \in Req : s # r => req'[s] = req[s]
  BY <1>1
<1>4. ASSUME NEW s \in Req, s # r PROVE Carries(s)
  <2>1. \A i \in Inst : /\ bm'[i].block_table[s] = b[i].block_table[s]
                        /\ Held(bm'[i], s) = Held(b[i], s)
    BY <1>2, <1>4 DEF OthersKeep, Held
  <2>2. Grows(s)
    BY <1>4, <2>1 DEF Grows
  <2>3. QED
    BY <1>3, <1>4, <2>2, SameCarries
<1>5. QED
  BY <1>3, <1>4, SameSteps

LEMMA FreeFinishedProvides ==
  ASSUME BInv, NEW v \in Inst, NEW r \in Req, FreeFinished(v, r)
  PROVE  Provides
<1> DEFINE q == [NewRequest EXCEPT !.q = "done"]
<1>1. /\ IInv /\ Right(bm) /\ req[r].q = "running"
      /\ bm' \in OneEach(FreeOn(bm, r, Where(r)))
      /\ req' = [req EXCEPT ![r] = q]
      /\ UNCHANGED <<phase, stopped, step, remaining>>
  BY RightNow DEF BInv, PInv, FInv, FreeFinished, Growing, Finished, Running
<1>2. q.q \in Resting
  BY DEF NewRequest, Resting
<1> HIDE DEF q
<1>3. QED
  BY <1>1, <1>2, LeavesProvides

LEMMA RecomputeStaleProvides ==
  ASSUME BInv, NEW r \in Req, RecomputeStale(r)
  PROVE  Provides
<1>1. /\ IInv /\ TypeOK /\ Right(bm) /\ req[r].q = "running"
      /\ bm' \in OneEach(FreeOn(bm, r, Where(r)))
      /\ req' = [req EXCEPT ![r] = Recomputed(r)]
      /\ UNCHANGED <<phase, stopped, step, remaining>>
  BY RightNow DEF BInv, PInv, FInv, IInv, RecomputeStale
<1>2. Recomputed(r).q \in Resting
  BY <1>1, RecomputedType DEF Resting
<1>3. QED
  BY <1>1, <1>2, LeavesProvides

LEMMA GrowProvides ==
  ASSUME BInv, NEW v \in Inst, NEW r \in Req, Grow(v, r)
  PROVE  Provides
<1>1. /\ step[v].pc = "grow" /\ req[r].q = "running" /\ PInv
      /\ bm' \in OneEach(AllocateOn(bm, r, Where(r)))
      /\ UNCHANGED <<phase, req, stopped, step, remaining>>
  BY DEF BInv, Grow, Growing, Running
<1>2. remaining = {}
  BY <1>1, Serving DEF PInv, FInv
<1>3. /\ IInv /\ TypeOK /\ Right(bm) /\ SharedOut(bm)
      /\ \A s \in Req : Placed(bm, s)
      /\ r \notin Unexchanged
      /\ phase \in InitialPhases => ~ req[r].fx
  BY <1>1, <1>2, BatchNow
<1>4. \A i \in Inst : Held(bm'[i], r) \in Nat /\ Held(bm'[i], r) >= Held(bm[i], r)
  BY <1>1, <1>3, AllocateShared
<1>5. OthersKeep(bm, bm', r)
  <2>1. Where(r) \in SUBSET Inst
    BY <1>3 DEF TypeOK, Request, Where
  <2>2. QED
    BY <1>1, <1>3, <2>1, AllocateManagers
<1>6. \A s \in Req : req'[s] = req[s] /\ Carries(s)
  BY <1>1, <1>4, <1>5, SameCarries DEF Grows, OthersKeep
<1>7. QED
  BY <1>1, <1>6, SameSteps

\* A request with enough blocks is given none.
LEMMA AllocateNone ==
  ASSUME NEW m, NEW r, NEW n \in Nat, NEW p \in BOOLEAN,
         Held(m, r) \in Nat, Held(m, r) >= n
  PROVE  Allocate(m, r, n, p) # {}
<1>1. Lacks(m, r, n) <= 0
  BY DEF Lacks
<1>2. /\ AllocateFusion(m, r, n) = {m} /\ AllocateReserved(m, r, n) = {m}
      /\ AllocateGpu(m, r, n) = {m}
  BY <1>1 DEF AllocateFusion, AllocateReserved, AllocateGpu
<1>3. QED
  BY <1>2 DEF Allocate

\* Only a request that decodes can lack blocks, and it is itself a request
\* that may be recomputed: there always is a victim.
LEMMA VictimFound ==
  ASSUME BInv, NEW v \in Inst, NEW r \in Req, Preempt(v, r)
  PROVE  r \in Victims(v, r)
<1>1. /\ r \in Running(v) /\ step[v].pc = "grow"
      /\ {i \in Where(r) : Allocate(bm[i], r, req[r].need, req[r].fx) = {}} # {}
  BY DEF Preempt, Growing
<1>2. PICK i \in Where(r) : Allocate(bm[i], r, req[r].need, req[r].fx) = {}
  BY <1>1
<1>3. TypeOK /\ remaining = {} /\ Backed
  BY <1>1, Serving DEF BInv, PInv, FInv, IInv
<1>4. /\ i \in Inst /\ i \in Owns(r) /\ req[r].need \in Nat /\ req[r].fx \in BOOLEAN
      /\ Held(bm[i], r) \in Nat
  BY <1>3, OwnsType DEF Owns, Request
<1>5. ~ (Held(bm[i], r) >= req[r].need)
  BY <1>2, <1>4, AllocateNone
<1>6. ~ req[r].ctx
  BY <1>1, <1>3, <1>4, <1>5 DEF Backed, Due, Enough, Running
<1>7. QED
  BY <1>1, <1>6 DEF Victims

LEMMA PreemptProvides ==
  ASSUME BInv, NEW v \in Inst, NEW r \in Req, Preempt(v, r)
  PROVE  Provides
<1>1. /\ step[v].pc = "grow" /\ req[r].q = "running" /\ PInv /\ IInv
      /\ UNCHANGED <<phase, stopped, remaining>>
  BY DEF BInv, PInv, FInv, Preempt, Growing, Running
<1>2. remaining = {}
  BY <1>1, Serving
<1>3. /\ TypeOK /\ Right(bm) /\ SharedOut(bm) /\ \A s \in Req : Placed(bm, s)
      /\ r \notin Unexchanged
      /\ phase \in InitialPhases => ~ req[r].fx
  BY <1>1, <1>2, BatchNow
<1>4. PICK Is \in SUBSET Where(r) : \E b \in OneEach(AllocateOn(bm, r, Is)) :
        /\ Right(b) /\ OthersKeep(bm, b, r)
        /\ \/ Victims(v, r) = {}
           \/ \E w \in Victims(v, r) :
                /\ bm' \in OneEach(FreeOn(b, w, Where(w)))
                /\ req' = [req EXCEPT ![w] = Recomputed(w)]
                /\ UNCHANGED step
  BY <1>1, PreemptManagers
<1>5. PICK b \in OneEach(AllocateOn(bm, r, Is)) :
        /\ Right(b) /\ OthersKeep(bm, b, r)
        /\ \/ Victims(v, r) = {}
           \/ \E w \in Victims(v, r) :
                /\ bm' \in OneEach(FreeOn(b, w, Where(w)))
                /\ req' = [req EXCEPT ![w] = Recomputed(w)]
                /\ UNCHANGED step
  BY <1>4
<1>6. PICK w \in Victims(v, r) : /\ bm' \in OneEach(FreeOn(b, w, Where(w)))
                                 /\ req' = [req EXCEPT ![w] = Recomputed(w)]
                                 /\ UNCHANGED step
  BY <1>5, VictimFound
<1>7. \A i \in Inst : Held(b[i], r) \in Nat /\ Held(b[i], r) >= Held(bm[i], r)
  BY <1>1, <1>3, <1>5, AllocateShared
<1>8. \A s \in Req : s # w => \A i \in Inst :
        \/ b[i].block_table[s] = bm[i].block_table[s]
        \/ Held(b[i], s) >= Held(bm[i], s)
  BY <1>5, <1>7 DEF OthersKeep
<1>9. w \in Req /\ req[w].q = "running" /\ Recomputed(w).q \in Resting
  BY <1>3, RecomputedType DEF Victims, Running, Resting
<1>10. QED
  BY <1>1, <1>5, <1>6, <1>8, <1>9, LeavesProvides

\* Admission allocates the blocks of the whole prompt.
LEMMA AdmitProvides ==
  ASSUME BInv, NEW v \in Inst, NEW r \in Req, Admit(v, r)
  PROVE  Provides
<1>1. /\ PInv /\ IInv /\ Flow /\ TypeOK /\ req \in [Req -> Request]
      /\ step[v].pc = "dispatch" /\ req[r].q = "queued"
      /\ req' = [req EXCEPT ![r] = Checked(r, v, "running")]
      /\ UNCHANGED <<phase, stopped, remaining>>
  BY DEF BInv, PInv, FInv, IInv, TypeOK, Admit, Queued
<1>2. PICK pc : SetPc(v, pc)
  BY DEF Admit
<1>3. /\ remaining = {} /\ r \notin Sharding /\ Ready(v)
      /\ \A u \in Inst \ {v} : step'[u] = step[u]
      /\ \A i \in Inst : bm[i].block_table[r] = {}
      /\ \A i \in Inst : step'[i].shard = step[i].shard
  BY <1>1, <1>2, Serving, NotExchanged, SetPcEmpty
     DEF Ready, PInv, Placement, Placed, Resting
<1>4. /\ req'[r].fx = Fused /\ req'[r].home = v /\ req'[r].need = req[r].need
      /\ \A s \in Req : s # r => req'[s] = req[s]
  BY <1>1 DEF Checked, Request
<1>5. /\ OthersKeep(bm, bm', r)
      /\ req[r].need \in Nat /\ Fused \in BOOLEAN
      /\ \A i \in Inst :
           Fused \/ i = v => bm'[i] \in Allocate(bm[i], r, req[r].need, Fused)
  BY <1>1, AdmitManagers
<1>6. ASSUME NEW i \in Inst, Fused \/ i = v
      PROVE  Held(bm'[i], r) >= req[r].need
  <2>1. /\ bm[i] \in Manager /\ ExtendCounted(bm[i])
        /\ Parted(bm[i], LocalOn(i), step[i].fresh)
    BY <1>1, PartedNow DEF PoolOK
  <2>2. Fused <=> r \notin LocalOn(i)'
    BY <1>1, <1>3, <1>4 DEF LocalOn, Unexchanged, Sharding
  <2>3. \A s \in Req : s # r => (s \in LocalOn(i) <=> s \in LocalOn(i)')
    BY <1>1, <1>3, <1>4 DEF LocalOn, Unexchanged, Sharding
  <2>4. Parted(bm[i], LocalOn(i)', step[i].fresh)
    BY <1>3, <2>1, <2>3, Relabelled
  <2>5. QED
    BY <1>5, <1>6, <2>1, <2>2, <2>4, AllocateHeld
<1>7. Enough(r)'
  <2>1. Owns(r)' = IF Fused THEN Inst ELSE {v}
    BY <1>1, <1>3, <1>4 DEF Owns, Where
  <2>2. QED
    BY <1>4, <1>6, <2>1 DEF Enough
<1>8. ASSUME NEW s \in Req, s # r, Due(s)' PROVE Due(s) /\ Carries(s)
  <2>1. req'[s] = req[s] /\ Grows(s)
    BY <1>4, <1>5, <1>8 DEF Grows, OthersKeep
  <2>2. QED
    BY <1>1, <1>3, <1>8, <2>1, DueBefore, SameCarries
<1>9. QED
  BY <1>7, <1>8 DEF Provides

-----------------------------------------------------------------------------
(* Exchanges.                                                              *)

\* The home instance keeps as many blocks as it had, of the new format.
LEMMA ExchangeGrows ==
  ASSUME PInv, NEW r \in Req, req[r].fx, r \in Unexchanged,
         NEW b \in [Inst -> Manager], \A i \in Inst : PoolOK(b[i], phase),
         phase \in FusedPhases, OthersKeep(bm, b, r), Local0(b, r),
         b[req[r].home] = bm[req[r].home],
         bm' = [b EXCEPT ![req[r].home] = FreeIntoFusionExcept(@, r, req[r].home)]
  PROVE  /\ \A i \in Inst \ {req[r].home} : bm'[i] = b[i]
         /\ Held(bm'[req[r].home], r) = Held(bm[req[r].home], r)
         /\ OthersKeep(bm, bm', r)
<1> DEFINE h == req[r].home
<1>1. IInv /\ h \in Inst /\ Inst = Stage
  BY StageType DEF PInv, FInv, IInv, TypeOK, Request
<1>2. OthersKeep(b, bm', r)
  BY <1>1, ExchangeHome
<1>3. bm[h] \in Manager /\ bm[h].block_table[r] \subseteq Local
  <2>1. r \in LocalOn(h)
    BY DEF LocalOn
  <2>2. QED
    BY <1>1, <2>1, PartedNow DEF Parted, Format
<1>4. Held(FreeIntoFusionExcept(bm[h], r, h), r) = Held(bm[h], r)
  BY <1>1, <1>3, ExchangeHeld
<1>5. bm'[h] = FreeIntoFusionExcept(bm[h], r, h) /\ \A i \in Inst \ {h} : bm'[i] = b[i]
  BY <1>1
<1>6. OthersKeep(bm, bm', r)
  BY <1>2 DEF OthersKeep
<1>7. QED
  BY <1>4, <1>5, <1>6

LEMMA FinishReshardProvides ==
  ASSUME BInv, NEW v \in Inst, FinishReshard(v)
  PROVE  Provides
<1>1. PICK r \in step[v].shard :
        bm' = [bm EXCEPT ![req[r].home] = FreeIntoFusionExcept(@, r, req[r].home)]
  BY DEF FinishReshard
<1>2. /\ PInv /\ IInv /\ TypeOK /\ r \in Req /\ req[r].q = "waiting" /\ req[r].fx
      /\ phase \in FusedPhases /\ step[v].pc = "pipe"
      /\ bm \in [Inst -> Manager] /\ \A i \in Inst : PoolOK(bm[i], phase)
      /\ step \in [Inst -> Step] /\ Local0(bm, r) /\ OthersKeep(bm, bm, r)
  BY DEF BInv, PInv, FInv, IInv, TypeOK, Step, Control, Marked, Pools, Owners,
         FusedPhases, OthersKeep
<1>3. /\ step' = [step EXCEPT ![v].shard = {}]
      /\ UNCHANGED <<phase, req, stopped, remaining>>
  BY DEF FinishReshard
<1>4. /\ \A u \in Inst \ {v} : step'[u] = step[u]
      /\ step'[v].pc = "pipe" /\ Working(v)' = Working(v)
  BY <1>2, <1>3 DEF Step, Working
<1>5. ~ Ready(v)'
  BY <1>4 DEF Ready, Idle
<1>6. r \in Unexchanged
  BY <1>1 DEF Unexchanged, Sharding
<1>7. /\ \A i \in Inst \ {req[r].home} : bm'[i] = bm[i]
      /\ Held(bm'[req[r].home], r) = Held(bm[req[r].home], r)
      /\ OthersKeep(bm, bm', r)
  BY <1>1, <1>2, <1>6, ExchangeGrows
<1>8. ASSUME NEW s \in Req PROVE Carries(s)
  <2>1. ASSUME NEW i \in Inst
        PROVE  \/ bm'[i].block_table[s] = bm[i].block_table[s]
               \/ Held(bm'[i], s) >= Held(bm[i], s)
    <3>1. CASE s # r \/ i # req[r].home
      BY <1>7, <3>1 DEF OthersKeep
    <3>2. CASE s = r /\ i = req[r].home
      <4>1. Held(bm[i], s) \in Nat
        BY <1>2, OwnsType
      <4>2. QED
        BY <1>7, <3>2, <4>1
    <3>3. QED
      BY <3>1, <3>2
  <2>2. QED
    BY <1>3, <2>1, SameCarries DEF Grows
<1>9. ASSUME NEW s \in Req, Due(s)' PROVE Due(s)
  <2>1. req'[s] = req[s]
    BY <1>3
  <2>2. QED
    BY <1>2, <1>3, <1>4, <1>5, <1>9, <2>1, DueBefore
<1>10. QED
  BY <1>8, <1>9 DEF Provides

\* The other instances allocate as many blocks as the home instance, which
\* had grown them before the virtual engine could start, uses.
LEMMA StartReshardProvides ==
  ASSUME BInv, NEW v \in Inst, NEW r \in Req, StartReshard(v, r)
  PROVE  Provides
<1>1. PICK b \in OneEach(OnPeers(r)) : Launch(v, b, {r})
  BY DEF StartReshard
<1>2. /\ CanStart(v) /\ step[v].pc = "idle" /\ resharding[v]
      /\ req[r].q = "running" /\ ~ req[r].fx /\ req[r].ve = v
      /\ req' = [req EXCEPT ![r].q = "waiting", ![r].fx = TRUE]
      /\ UNCHANGED <<phase, stopped, remaining>>
  BY DEF StartReshard, CanStart, Idle, Stale, Running
<1>3. /\ PInv /\ IInv /\ TypeOK /\ req \in [Req -> Request]
      /\ phase \in FusedPhases /\ remaining = {} /\ req[r].home \in Inst /\ Ready(v)
  BY <1>2, Serving
     DEF BInv, PInv, FInv, IInv, TypeOK, Control, FusedPhases, Request, CanStart, Ready
<1>4. /\ b \in [Inst -> Manager] /\ OthersKeep(bm, b, r)
      /\ b[req[r].home] = bm[req[r].home]
  BY <1>1, <1>3, OnPeersStep
<1>5. /\ req'[r].fx /\ req'[r].need = req[r].need
      /\ \A s \in Req : s # r => req'[s] = req[s]
  BY <1>2, <1>3 DEF Request
<1>6. /\ \A u \in Inst \ {v} : step'[u] = step[u]
      /\ bm'[v] = Without(b[v], step'[v].fresh)
      /\ \A i \in Inst \ {v} : bm'[i] = b[i]
  <2> DEFINE sh == {r}
  <2>1. sh \in SUBSET Req /\ Launch(v, b, sh) /\ \A s, t \in sh : s = t
    BY <1>1
  <2> HIDE DEF sh
  <2>2. QED
    BY <1>3, <1>4, <2>1, LaunchShape
<1>7. \A i \in Inst : bm'[i].block_table = b[i].block_table
  BY <1>4, <1>6 DEF Without, Manager
<1>8. ASSUME NEW i \in Inst PROVE Held(b[i], r) >= req[r].need
  <2>1. CASE i = req[r].home
    <3>1. Owns(r) = {i} /\ Due(r)
      BY <1>2, <1>3, <2>1 DEF Owns, Where, Due
    <3>2. Held(bm[i], r) >= req[r].need
      BY <3>1 DEF BInv, Backed, Enough
    <3>3. QED
      BY <1>4, <2>1, <3>2
  <2>2. CASE i # req[r].home
    <3> DEFINE L == LocalOn(i) \ {r}
    <3>1. Parted(bm[i], LocalOn(i), step[i].fresh) /\ bm[i].block_table[r] = {}
      BY <1>2, <1>3, <2>2, PartedNow DEF PInv, Placement, Placed
    <3>2. \A s \in Req : bm[i].block_table[s] # {} => (s \in LocalOn(i) <=> s \in L)
      BY <3>1
    <3>3. r \notin L
      OBVIOUS
    <3> HIDE DEF L
    <3>4. Parted(bm[i], L, step[i].fresh)
      BY <3>1, <3>2, Relabelled
    <3>5. QED
      BY <1>1, <1>3, <2>2, <3>3, <3>4, PeersParted
  <2>3. QED
    BY <2>1, <2>2
<1>9. Enough(r)'
  <2>1. Owns(r)' = Inst
    BY <1>2, <1>3, <1>5 DEF Owns, Where
  <2>2. \A i \in Inst : Held(bm'[i], r) = Held(b[i], r)
    BY <1>7 DEF Held
  <2>3. QED
    BY <1>5, <1>8, <2>1, <2>2 DEF Enough
<1>10. ASSUME NEW s \in Req, s # r, Due(s)' PROVE Due(s) /\ Carries(s)
  <2>1. req'[s] = req[s] /\ Grows(s)
    BY <1>4, <1>5, <1>7, <1>10 DEF Grows, OthersKeep
  <2>2. QED
    BY <1>2, <1>3, <1>6, <1>10, <2>1, DueBefore, SameCarries
<1>11. QED
  BY <1>9, <1>10 DEF Provides

LEMMA ReshardProvides ==
  ASSUME BInv, NEW r \in Req, Reshard(r)
  PROVE  Provides
<1>1. PICK b \in OneEach(OnPeers(r)) :
        bm' = [b EXCEPT ![req[r].home] = FreeIntoFusionExcept(@, r, req[r].home)]
  BY DEF Reshard
<1>2. /\ phase \in FusedPhases /\ r \in remaining /\ remaining' = remaining \ {r}
      /\ UNCHANGED <<phase, req, stopped, step>>
  BY DEF Reshard, FusedPhases
<1>3. /\ PInv /\ IInv /\ TypeOK /\ req[r].fx /\ req[r].home \in Inst
      /\ Local0(bm, r) /\ r \in Unexchanged
  BY <1>2 DEF BInv, PInv, FInv, IInv, TypeOK, Request, Marked, Owners, Unexchanged
<1>4. /\ b \in [Inst -> Manager] /\ \A i \in Inst : PoolOK(b[i], phase)
      /\ OthersKeep(bm, b, r) /\ b[req[r].home] = bm[req[r].home]
  BY <1>1, <1>3, OnPeersStep
<1>5. /\ \A i \in Inst \ {req[r].home} : bm'[i] = b[i]
      /\ Held(bm'[req[r].home], r) = Held(bm[req[r].home], r)
      /\ OthersKeep(bm, bm', r)
  <2>1. Local0(b, r)
    BY <1>3, <1>4 DEF Local0
  <2>2. QED
    BY <1>1, <1>2, <1>3, <1>4, <2>1, ExchangeGrows
<1>6. ASSUME NEW i \in Inst, i # req[r].home
      PROVE  Held(bm'[i], r) >= req[r].need
  <2>1. r \notin LocalOn(i) /\ Parted(bm[i], LocalOn(i), step[i].fresh)
    BY <1>3, <1>6, PartedNow DEF LocalOn
  <2>2. Held(b[i], r) >= req[r].need
    BY <1>1, <1>2, <1>3, <1>6, <2>1, PeersParted
  <2>3. QED
    BY <1>5, <1>6, <2>2
<1>7. \A s \in Req : Due(s)' => Due(s)
  BY <1>2 DEF Due, Ready, Idle, Engine, Merged, Working
<1>8. Due(r) => Enough(r)'
  <2>1. SUFFICES ASSUME Due(r), NEW i \in Owns(r)' PROVE Held(bm'[i], r) >= req'[r].need
    BY DEF Enough
  <2>2. Owns(r) = {req[r].home} /\ Owns(r)' \subseteq Inst /\ req'[r].need = req[r].need
    BY <1>2, <1>3 DEF Owns, Where
  <2>3. Held(bm[req[r].home], r) >= req[r].need
    BY <2>1, <2>2 DEF BInv, Backed, Enough
  <2>4. QED
    BY <1>5, <1>6, <2>1, <2>2, <2>3
<1>9. ASSUME NEW s \in Req, s # r PROVE Carries(s)
  <2>1. Grows(s)
    BY <1>5, <1>9 DEF Grows, OthersKeep
  <2>2. QED
    BY <1>2, <1>9, <2>1, SameCarries
<1>10. QED
  BY <1>7, <1>8, <1>9 DEF Provides

-----------------------------------------------------------------------------
(* The switch to BALLOON.                                                  *)

\* While the leader is stopped nothing is expected of a batch but what it
\* had already.
LEMMA StoppedNotReady ==
  ASSUME NEW v, step'[v].pc \notin {"adopt", "dispatch"},
         phase' \notin InitialPhases, stopped'[0]
  PROVE  ~ Ready(v)'
  BY DEF Ready, Engine, Merged, InitialPhases

LEMMA MergeProvides ==
  ASSUME BInv, Merge
  PROVE  Provides
<1>1. /\ phase = "stopping_followers" /\ phase' = "dropping" /\ Locked = {}
      /\ stopped' = [stopped EXCEPT ![0] = TRUE]
      /\ req' = [r \in Req |-> IF req[r].q = "running"
                               THEN [req[r] EXCEPT !.home = req[r].ve] ELSE req[r]]
      /\ UNCHANGED <<step, remaining>>
  BY DEF Merge
<1>2. IInv /\ TypeOK /\ stopped'[0]
  BY <1>1, StageType DEF BInv, PInv, FInv, IInv, TypeOK
<1>3. ASSUME NEW s \in Req
      PROVE  req'[s] = req[s]
  <2>1. req[s] \in Request /\ KindOf(req[s], phase)
    BY DEF BInv, PInv, FInv, IInv, TypeOK, Kinds
  <2>2. req[s].q = "running" => ~ req[s].fx
    BY <1>1 DEF BInv, PInv, FInv, IInv, Marked, InitialPhases
  <2>3. req[s].q = "running" => req[s].home = req[s].ve
    BY <1>1, <2>1, <2>2 DEF KindOf
  <2>4. req[s].q = "running" => [req[s] EXCEPT !.home = req[s].ve] = req[s]
    BY <2>1, <2>3 DEF Request
  <2>5. QED
    BY <1>1, <2>4
<1>4. \A v \in Inst : ~ Ready(v)'
  <2>1. ASSUME NEW v \in Inst PROVE step'[v].pc \notin {"adopt", "dispatch"}
    BY <1>1 DEF Locked
  <2>2. phase' \notin InitialPhases
    BY <1>1 DEF InitialPhases
  <2>3. QED
    BY <1>2, <2>1, <2>2, StoppedNotReady
<1>5. ASSUME NEW s \in Req, Due(s)' PROVE Due(s)
  BY <1>1, <1>2, <1>3, <1>4, <1>5, OwnsType DEF Due, Working
<1>6. ASSUME NEW s \in Req PROVE Carries(s)
  <2>1. Grows(s)
    BY <1>2, MergeTables DEF Grows
  <2>2. QED
    BY <1>1, <1>3, <2>1, SameCarries
<1>7. QED
  BY <1>5, <1>6 DEF Provides

LEMMA DropParametersProvides ==
  ASSUME BInv, DropParameters
  PROVE  Provides
<1> DEFINE stale == UNION {Stale(v) : v \in Inst}
           early == IF Mode = "reshard" THEN stale ELSE {}
<1>1. /\ phase = "dropping" /\ phase' = "handling" /\ AllIdle
      /\ bm' = [i \in Inst |-> AddExtend(bm[i])]
      /\ remaining' = early
      /\ req' = [s \in Req |-> [req[s] EXCEPT !.fx = @ \/ s \in early]]
      /\ UNCHANGED <<stopped, step>>
  BY DEF DropParameters
<1>2. /\ IInv /\ TypeOK /\ stopped[0] /\ req \in [Req -> Request]
      /\ bm \in [Inst -> Manager]
  BY <1>1 DEF BInv, PInv, FInv, IInv, TypeOK, Control
<1>3. \A s \in early : ~ req[s].fx
  BY DEF Stale
<1> HIDE DEF early
<1>4. remaining = {}
  BY <1>1, <1>2, Excluded
<1>5. ASSUME NEW s \in Req
      PROVE  /\ req'[s].q = req[s].q /\ req'[s].home = req[s].home
             /\ req'[s].ctx = req[s].ctx /\ req'[s].ve = req[s].ve
             /\ req'[s].need = req[s].need
             /\ req'[s].fx = (req[s].fx \/ s \in early)
  BY <1>1, <1>2 DEF Request
<1>6. ASSUME NEW s \in Req PROVE Grows(s)
  <2>1. ASSUME NEW i \in Inst PROVE bm'[i].block_table = bm[i].block_table
    <3>1. bm[i] \in Manager /\ bm'[i] = AddExtend(bm[i])
      BY <1>1, <1>2
    <3>2. QED
      BY <3>1 DEF AddExtend, Manager
  <2>2. QED
    BY <2>1 DEF Grows
<1>7. ASSUME NEW s \in Req PROVE Carries(s)
  <2>1. CASE s \in early
    <3>1. ~ req[s].fx /\ req'[s].fx
      BY <1>3, <1>5, <2>1
    <3>2. Owns(s)' = {req[s].home} /\ Owns(s) = {req[s].home}
      BY <1>1, <1>4, <1>5, <2>1, <3>1 DEF Owns, Where
    <3>3. QED
      BY <1>5, <1>6, <3>2 DEF Carries
  <2>2. CASE s \notin early
    <3>1. req'[s].fx = req[s].fx
      BY <1>2, <1>5, <2>2 DEF Request
    <3>2. Owns(s)' = Owns(s)
      BY <1>1, <1>4, <1>5, <2>2, <3>1 DEF Owns, Where
    <3>3. QED
      BY <1>5, <1>6, <3>2 DEF Carries
  <2>3. QED
    BY <2>1, <2>2
<1>8. \A v \in Inst : ~ Ready(v)'
  <2>1. ASSUME NEW v \in Inst PROVE step'[v].pc \notin {"adopt", "dispatch"}
    BY <1>1 DEF AllIdle, Idle
  <2>2. phase' \notin InitialPhases /\ stopped'[0]
    BY <1>1, <1>2 DEF InitialPhases
  <2>3. QED
    BY <2>1, <2>2, StoppedNotReady
<1>9. ASSUME NEW s \in Req, Due(s)' PROVE Due(s)
  BY <1>1, <1>2, <1>5, <1>8, <1>9, OwnsType DEF Due, Working
<1>10. QED
  BY <1>7, <1>9 DEF Provides

\* Every virtual engine grows its batch before its first step.
LEMMA EnterBalloonProvides ==
  ASSUME BInv, EnterBalloon
  PROVE  Provides
<1>1. /\ phase = "handling" /\ UNCHANGED remaining
      /\ bm' = [i \in Inst |-> ConvertReserved(bm[i])]
      /\ step' = FirstBatch /\ FInv /\ TypeOK
  BY DEF EnterBalloon, BInv, PInv, FInv, IInv
<1>2. \A v \in Inst : ~ Ready(v)' /\ Working(v)' = {}
  BY <1>1 DEF FirstBatch, NoStep, Ready, Idle, Working
<1>3. ASSUME NEW s \in Req
      PROVE  /\ req'[s].q = req[s].q /\ req'[s].fx = req[s].fx
             /\ req'[s].home = req[s].home /\ req'[s].need = req[s].need
             /\ req'[s].ctx = req[s].ctx /\ req'[s].ve \in Inst
  BY <1>1, EnterBalloonRequests DEF Request
<1>4. ASSUME NEW s \in Req, Due(s)' PROVE Due(s)
  BY <1>2, <1>3, <1>4 DEF Due
<1>5. ASSUME NEW s \in Req PROVE Carries(s)
  <2>1. ASSUME NEW i \in Inst PROVE bm'[i].block_table = bm[i].block_table
    <3>1. bm[i] \in Manager /\ bm'[i] = ConvertReserved(bm[i])
      BY <1>1 DEF TypeOK
    <3>2. QED
      BY <3>1 DEF ConvertReserved, Manager
  <2>2. Owns(s)' = Owns(s)
    BY <1>1, <1>3 DEF Owns, Where
  <2>3. QED
    BY <1>3, <2>1, <2>2 DEF Carries, Grows
<1>6. QED
  BY <1>4, <1>5 DEF Provides

-----------------------------------------------------------------------------
(* Every step provides for the requests that are due.                      *)

\* The coroutine of v goes on where blocks are not packed.
Elsewhere(v) ==
  /\ step'[v].pc # "pack"
  /\ phase = "balloon" => step'[v].repl = {}
  /\ \A u \in Inst \ {v} : step'[u] = step[u]

LEMMA LaunchElsewhere ==
  ASSUME IInv, NEW v \in Inst, NEW b, NEW sh, Launch(v, b, sh)
  PROVE  Elsewhere(v)
<1> DEFINE pipe == {r \in Scheduled(Running(v) \ sh) : req[r].fx}
           repl == Scheduled(Running(v) \ sh) \ pipe
           to   == IF pipe \cup sh # {} THEN "pipe"
                   ELSE IF repl # {} /\ ~ Fused THEN "repl" ELSE "grow"
<1>1. PICK take \in Restorable(v, b, pipe) :
        step' = [step EXCEPT ![v] =
          [NoStep EXCEPT !.pc = to, !.pipe = pipe, !.repl = IF Fused THEN {} ELSE repl,
                         !.shard = sh, !.moved = take[1], !.fresh = take[2]]]
  BY DEF Launch
<1>2. to # "pack"
  OBVIOUS
<1> HIDE DEF to
<1>3. step \in [Inst -> Step] /\ (phase = "balloon" => Fused)
  BY FusedPhase DEF IInv, TypeOK, FusedPhases
<1>4. step'[v].pc = to /\ (Fused => step'[v].repl = {})
  BY <1>1, <1>3 DEF NoStep
<1>5. \A u \in Inst \ {v} : step'[u] = step[u]
  BY <1>1, <1>3
<1>6. QED
  BY <1>2, <1>3, <1>4, <1>5 DEF Elsewhere

LEMMA SetPcElsewhere ==
  ASSUME TypeOK, Forward, NEW v \in Inst, NEW pc, pc # "pack", SetPc(v, pc)
  PROVE  Elsewhere(v)
<1>1. step \in [Inst -> Step]
  BY DEF TypeOK
<1>2. /\ step'[v].pc = pc /\ \A u \in Inst \ {v} : step'[u] = step[u]
      /\ step'[v].repl = {} \/ step'[v].repl = step[v].repl
  BY <1>1 DEF SetPc, NoStep, Step
<1>3. QED
  BY <1>2 DEF Elsewhere, Forward

LEMMA SameElsewhere ==
  ASSUME Forward, NEW v \in Inst, UNCHANGED step
  PROVE  Elsewhere(v)
  BY DEF Forward, Elsewhere

LEMMA NothingPacked ==
  ASSUME ~ AllowRestore, BInv, NEW v \in Inst, StepOf(v)
  PROVE  ~ Pack(v) /\ Elsewhere(v) /\ UNCHANGED phase
<1>1. /\ FInv /\ IInv /\ TypeOK /\ step \in [Inst -> Step] /\ Forward
      /\ phase # "reclaiming"
  BY DEF BInv, PInv, FInv, IInv, TypeOK, Control, RestorePhases
<1>2. ~ Pack(v)
  BY <1>1 DEF Pack, Forward
<1>0. UNCHANGED phase
  BY DEF StepOf, StartStep, FinishReshard, EndPipe, EndRepl, Pack, NextStopped, Grown,
         StartReshard, FreeFinished, Grow, Preempt, Adopt, Admit, Refuse
<1> SUFFICES Elsewhere(v)
  BY <1>0, <1>2
<1>3. CASE StartStep(v)
  <2> DEFINE sh == {}
  <2>1. Launch(v, bm, sh)
    BY <1>3 DEF StartStep
  <2> HIDE DEF sh
  <2>2. QED
    BY <1>1, <2>1, LaunchElsewhere
<1>4. CASE FinishReshard(v)
  <2>1. step' = [step EXCEPT ![v].shard = {}]
    BY <1>4 DEF FinishReshard
  <2>2. QED
    BY <1>1, <2>1 DEF Forward, Elsewhere, Step
<1>5. CASE EndPipe(v)
  BY <1>1, <1>5, EndPipeCoroutine DEF Elsewhere, Forward
<1>6. CASE EndRepl(v)
  <2>1. step' = [step EXCEPT ![v] = [NoStep EXCEPT !.pc = "grow"]]
    BY <1>6 DEF EndRepl
  <2>2. QED
    BY <1>1, <2>1 DEF NoStep, Elsewhere
<1>7. CASE NextStopped(v)
  BY <1>1, <1>7, SetPcElsewhere DEF NextStopped
<1>8. CASE Grown(v)
  <2>1. PICK pc \in {"adopt", "dispatch", "idle"} : SetPc(v, pc)
    BY <1>8 DEF Grown
  <2>2. QED
    BY <1>1, <2>1, SetPcElsewhere
<1>9. ASSUME NEW r \in Req, \/ StartReshard(v, r)
                            \/ FreeFinished(v, r) \/ Grow(v, r) \/ Preempt(v, r)
                            \/ Adopt(v, r) \/ Admit(v, r) \/ Refuse(v, r)
      PROVE  Elsewhere(v)
  <2>1. CASE StartReshard(v, r)
    <3>1. PICK b \in OneEach(OnPeers(r)) : Launch(v, b, {r})
      BY <2>1 DEF StartReshard
    <3>2. QED
      BY <1>1, <3>1, LaunchElsewhere
  <2>2. CASE FreeFinished(v, r) \/ Grow(v, r)
    BY <1>1, <2>2, SameElsewhere DEF FreeFinished, Grow
  <2>3. CASE Preempt(v, r)
    <3>1. SetPc(v, "idle") \/ UNCHANGED step
      BY <2>3 DEF Preempt
    <3>2. QED
      BY <1>1, <3>1, SetPcElsewhere, SameElsewhere
  <2>4. CASE Adopt(v, r)
    <3>1. PICK pc \in {"adopt", "dispatch", "idle"} : SetPc(v, pc)
      BY <2>4 DEF Adopt
    <3>2. QED
      BY <1>1, <3>1, SetPcElsewhere
  <2>5. CASE Admit(v, r)
    <3>1. PICK pc \in {"dispatch", "idle"} : SetPc(v, pc)
      BY <2>5 DEF Admit
    <3>2. QED
      BY <1>1, <3>1, SetPcElsewhere
  <2>6. CASE Refuse(v, r)
    BY <1>1, <2>6, SetPcElsewhere DEF Refuse
  <2>7. QED
    BY <1>9, <2>1, <2>2, <2>3, <2>4, <2>5, <2>6
<1>10. QED
  BY <1>2, <1>3, <1>4, <1>5, <1>6, <1>7, <1>8, <1>9 DEF StepOf

LEMMA StepProvides ==
  ASSUME ~ AllowRestore, BInv, NEW v \in Inst, StepOf(v)
  PROVE  Provides /\ Forward'
<1>1. ~ Pack(v) /\ Elsewhere(v) /\ Forward /\ UNCHANGED phase
  BY NothingPacked DEF BInv
<1>2. Forward'
  BY <1>1 DEF Elsewhere, Forward
<1>3. ASSUME NEW r \in Req, \/ StartReshard(v, r)
                            \/ FreeFinished(v, r) \/ Grow(v, r) \/ Preempt(v, r)
                            \/ Adopt(v, r) \/ Admit(v, r) \/ Refuse(v, r)
      PROVE  Provides
  BY <1>3, StartReshardProvides, FreeFinishedProvides, GrowProvides, PreemptProvides,
     AdoptProvides, AdmitProvides, RefuseProvides
<1>4. Provides
  BY <1>1, <1>3, StartStepProvides, FinishReshardProvides, EndPipeProvides,
     EndReplProvides, NextStoppedProvides, GrownProvides DEF StepOf
<1>5. QED
  BY <1>2, <1>4

LEMMA BalloonProvides ==
  ASSUME BInv, Balloon, ~ GiveUpReshard
  PROVE  Provides /\ Forward'
<1>1. Forward
  BY DEF BInv
<1>2. ASSUME NEW S \in SUBSET Inst, VoteBalloon(S) PROVE Provides /\ Forward'
  BY <1>1, <1>2, VoteBalloonProvides DEF VoteBalloon, Forward
<1>3. ASSUME NEW r \in Req, RecomputeStale(r) \/ Reshard(r)
      PROVE  Provides /\ Forward'
  BY <1>1, <1>3, RecomputeStaleProvides, ReshardProvides
     DEF RecomputeStale, Reshard, Forward
<1>4. CASE Merge
  BY <1>1, <1>4, MergeProvides DEF Merge, Forward
<1>5. CASE DropParameters
  BY <1>1, <1>5, DropParametersProvides DEF DropParameters, Forward
<1>6. CASE EnterBalloon
  BY <1>6, EnterBalloonProvides DEF EnterBalloon, FirstBatch, NoStep, Forward
<1>7. QED
  BY <1>2, <1>3, <1>4, <1>5, <1>6 DEF Balloon

\* A group that may not restore never leaves BALLOON.
LEMMA NoRestore ==
  ASSUME ~ AllowRestore, IInv
  PROVE  ~ Restore
<1>1. phase \notin RestorePhases
  BY DEF IInv, Control
<1>2. QED
  BY <1>1 DEF RestorePhases, Restore, StartReclaim, Reclaim, EndReclaim, Reloaded,
              RestoreInstance, VoteInit, Split

LEMMA NextBInv ==
  ASSUME ~ AllowRestore, BInv, [Next]_vars, [Mode = "reshard" => ~ GiveUpReshard]_vars
  PROVE  BInv'
<1>1. NoLiveRestore
  BY DEF NoLiveRestore
<1>2. /\ PInv /\ PInv' /\ IInv /\ TypeOK /\ TypeOK' /\ Backed /\ Forward
  BY <1>1, NextPInv DEF BInv, PInv, FInv, IInv
<1>3. Provides /\ Forward'
  <2>1. CASE UNCHANGED vars
    <3>1. /\ UNCHANGED <<phase, stopped, step, remaining>>
          /\ \A s \in Req : req'[s] = req[s]
          /\ bm' = bm
      BY <2>1 DEF vars
    <3>2. \A s \in Req : Carries(s)
      BY <3>1, SameCarries DEF Grows
    <3>3. Provides
      BY <3>1, <3>2, SameSteps
    <3>4. QED
      BY <1>2, <3>1, <3>3 DEF Forward
  <2>2. ASSUME NEW r \in Req, Arrive(r) PROVE Provides /\ Forward'
    BY <1>2, <2>2, ArriveProvides DEF Arrive, Forward
  <2>3. ASSUME NEW v \in Inst, StepOf(v) PROVE Provides /\ Forward'
    BY <2>3, StepProvides
  <2>4. CASE Balloon /\ ~ UNCHANGED vars
    <3>1. ~ GiveUpReshard
      <4>1. Mode = "reshard" => ~ GiveUpReshard
        BY <2>4
      <4>2. GiveUpReshard => remaining # {}
        BY DEF GiveUpReshard
      <4>3. remaining # {} => Mode = "reshard"
        BY <1>2 DEF PInv, FInv, Kinds
      <4>4. QED
        BY <4>1, <4>2, <4>3
    <3>2. QED
      BY <2>4, <3>1, BalloonProvides
  <2>5. ~ Restore
    BY <1>2, NoRestore
  <2>6. QED
    BY <2>1, <2>2, <2>3, <2>4, <2>5 DEF Next
<1>4. Backed'
  BY <1>2, <1>3, ProvidesBacked
<1>5. QED
  BY <1>2, <1>3, <1>4 DEF BInv

LEMMA InitBInv == Init => BInv
<1> SUFFICES ASSUME Init PROVE BInv
  OBVIOUS
<1>1. PInv
  BY InitPInv
<1>2. \A r \in Req : req[r].q = "out"
  BY DEF Init, NewRequest
<1>3. phase = "initial" /\ \A v \in Inst : step[v].pc = "idle"
  BY DEF Init, NoStep
<1>4. QED
  BY <1>1, <1>2, <1>3 DEF BInv, Backed, Due, Forward

\* A batch on the workers has the blocks its tokens need on every instance
\* that runs it (get_next_batch, _check_add_to_cur_batch, _reshard_blocks).
\* Two things must not happen: that reshard_blocks gives up, after which the
\* pipeline runs requests it has no blocks for, and that RESTORE begins,
\* which restarts a batch that was stopped before it had grown.
THEOREM BackedTheorem ==
  ~ AllowRestore => (Spec /\ NeverGivesUp => []ScheduledBacked)
<1> SUFFICES ASSUME ~ AllowRestore PROVE Spec /\ NeverGivesUp => []ScheduledBacked
  OBVIOUS
<1>1. Init => BInv
  BY InitBInv
<1>2. BInv /\ [Next]_vars /\ [Mode = "reshard" => ~ GiveUpReshard]_vars => BInv'
  BY NextBInv
<1>3. ASSUME BInv PROVE ScheduledBacked
  <2>1. SUFFICES ASSUME NEW v \in Inst
                 PROVE  /\ \A r \in step[v].pipe, i \in Inst : Held(bm[i], r) >= req[r].need
                        /\ \A r \in step[v].repl : Held(bm[v], r) >= req[r].need
    BY DEF ScheduledBacked
  <2>2. /\ IInv /\ Flow /\ Kinds /\ TypeOK /\ Backed /\ Forward
        /\ step[v].pipe \subseteq Req /\ step[v].repl \subseteq Req
    BY <1>3 DEF BInv, PInv, FInv, IInv, TypeOK, Step
  <2>3. ASSUME NEW r \in step[v].pipe, NEW i \in Inst
        PROVE  Held(bm[i], r) >= req[r].need
    <3>1. /\ req[r].q = "running" /\ req[r].ve = v /\ req[r].fx /\ step[v].pc # "idle"
          /\ r \in Req
      BY <2>2 DEF Flow, Members, Shape
    <3>2. remaining = {} /\ Due(r)
      BY <2>2, <3>1, Serving DEF Due, Working
    <3>3. Owns(r) = Inst
      BY <3>1, <3>2 DEF Owns, Where
    <3>4. QED
      BY <2>2, <3>1, <3>2, <3>3 DEF Backed, Enough
  <2>4. ASSUME NEW r \in step[v].repl PROVE Held(bm[v], r) >= req[r].need
    <3>1. /\ req[r].q = "running" /\ req[r].ve = v /\ ~ req[r].fx /\ step[v].pc # "idle"
          /\ r \in Req
      BY <2>2 DEF Flow, Members, Shape
    <3>2. remaining = {} /\ Due(r)
      BY <2>2, <3>1, Serving DEF Due, Working
    <3>3. req[r].home = v
      BY <2>2, <3>1 DEF Kinds, KindOf, Forward
    <3>4. Owns(r) = {v}
      BY <3>1, <3>2, <3>3 DEF Owns, Where
    <3>5. QED
      BY <2>2, <3>1, <3>2, <3>4 DEF Backed, Enough
  <2>5. QED
    BY <2>3, <2>4
<1>4. QED
  BY <1>1, <1>2, <1>3, PTL DEF Spec, NeverGivesUp
=============================================================================
