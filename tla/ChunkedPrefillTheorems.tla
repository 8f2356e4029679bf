------------------------ MODULE ChunkedPrefillTheorems ------------------------
(***************************************************************************)
(* The properties of ChunkedPrefill, for every number of requests, every   *)
(* length of a prompt and every budget: types, the budget of the batches,  *)
(* that no chunk is skipped, and that an answer is complete.               *)
(*                                                                         *)
(* Steps of the engine are long, so each is taken apart: what the answer   *)
(* of the workers, a submission, a preemption, the chunks that follow and  *)
(* the admission make of the queues (Queues, Room) is a lemma each, and    *)
(* NextBatch, EndStepMoves and BalloonMoves put them together.             *)
(***************************************************************************)
EXTENDS ChunkedPrefill, RequestsTheorems

-----------------------------------------------------------------------------
(* The queues, and what the next batch does to them.                       *)

\* Requests, the running queue and the queue of those not yet accepted.
Queues(rq, run, un) ==
    /\ rq \in [Req -> Record(Req)]
    /\ run \in Seq(Req) /\ un \in Seq(Req) /\ OneEach(run \o un)
    /\ \A r \in Req : Inside(rq[r])
    /\ \A r \in ToSet(run) : Started(rq[r])
    /\ \A r \in ToSet(un) : Whole(rq[r])

\* Whoever has a chunk to come fits into the budget with its batch.
Room(on, rq, run) ==
    (\E r \in ToSet(run) : FollowUp(rq[r])) => on /\ TokensOf(rq, run) <= Budget

\* A request before and after a batch is made: the same, or started again.
After(again, p, q) == SameLife(q, IF again THEN Recomputed(p) ELSE p)

\* What becomes of a request in the running queue.
Stays(p, q)     == q = p \/ (FollowUp(p) /\ \E extra \in Nat : q = NextChunk(p, extra))

\* A request at the start of its prompt, in the format fx.
Entering(q, fx) == Context(q) /\ q.cached = {} /\ q.begin = 0 /\ q.fusion_exec = fx

\* The budget of what is in the running queue.
Afforded(on, rq, run) ==
  IF on THEN TokensOf(rq, run) <= Budget ELSE TokensOf(rq, Prefills(rq, run)) <= MaxTokens

\* What the queues say of each request.
LEMMA QueuesTyped ==
  ASSUME NEW rq, NEW run, NEW un, Queues(rq, run, un)
  PROVE  /\ ToSet(run) \subseteq Req /\ ToSet(un) \subseteq Req
         /\ ToSet(run) \cap ToSet(un) = {} /\ OneEach(run) /\ OneEach(un)
         /\ \A r \in Req : rq[r] \in Record(Req)
<1>1. run \in Seq(Req) /\ un \in Seq(Req) /\ OneEach(run \o un) /\ rq \in [Req -> Record(Req)]
  BY DEF Queues
<1>2. ToSet(run) \subseteq Req /\ ToSet(un) \subseteq Req
  BY <1>1, ToSetRange
<1>3. ToSet(run) \cap ToSet(un) = {} /\ OneEach(run) /\ OneEach(un)
  BY <1>1, OneEachConcat
<1> QED
  BY <1>1, <1>2, <1>3

\* Some requests of the running queue leave it.
LEMMA QueuesThose ==
  ASSUME NEW rq, NEW run, NEW un, Queues(rq, run, un), NEW S
  PROVE  Queues(rq, Those(run, S), un)
<1>1. /\ run \in Seq(Req) /\ un \in Seq(Req)
      /\ OneEach(run) /\ OneEach(un) /\ ToSet(run) \cap ToSet(un) = {}
  BY QueuesTyped DEF Queues
<1>2. PICK live : live = Those(run, S)
  OBVIOUS
<1>3. live \in Seq(Req) /\ ToSet(live) = ToSet(run) \cap S /\ OneEach(live)
  BY <1>1, <1>2, ThoseKept, OneEachThose
<1>4. OneEach(live \o un)
  BY <1>1, <1>3, OneEachConcat
<1>5. Queues(rq, live, un)
  BY <1>3, <1>4 DEF Queues
<1> QED
  BY <1>2, <1>5

\* V leaves the running queue for the head of the other, to start again; of
\* the others the format may change.
Again(rq, run, V, rq1) ==
    /\ V \in SUBSET ToSet(run)
    /\ rq1 = [r \in Req |-> rq1[r]]
    /\ \A r \in V : rq1[r] = Recomputed(rq[r])
    /\ \A r \in Req \ V : rq1[r] = rq[r] \/ rq1[r] = Marked(rq[r], TRUE)

\* The queues when V starts again: V goes back to the head of the queue.
LEMMA QueuesAgain ==
  ASSUME NEW rq, NEW run, NEW un, Queues(rq, run, un), NEW V, NEW rq1, Again(rq, run, V, rq1)
  PROVE  /\ Queues(rq1, Those(run, Req \ V), Requeued(run, V, un))
         /\ ToSet(Those(run, Req \ V)) = ToSet(run) \ V
<1>0. /\ V \in SUBSET ToSet(run)
      /\ rq1 = [r \in Req |-> rq1[r]]
      /\ \A r \in V : rq1[r] = Recomputed(rq[r])
      /\ \A r \in Req \ V : rq1[r] = rq[r] \/ rq1[r] = Marked(rq[r], TRUE)
  BY DEF Again
<1>1. /\ run \in Seq(Req) /\ un \in Seq(Req) /\ ToSet(run) \subseteq Req /\ ToSet(un) \subseteq Req
      /\ OneEach(run) /\ OneEach(un) /\ ToSet(run) \cap ToSet(un) = {}
      /\ \A r \in Req : rq[r] \in Record(Req) /\ Inside(rq[r])
      /\ \A r \in ToSet(run) : Started(rq[r])
      /\ \A r \in ToSet(un) : Whole(rq[r])
  BY QueuesTyped DEF Queues
<1>2. PICK run1, out : run1 = Those(run, Req \ V) /\ out = Those(run, V)
  OBVIOUS
<1>3. run1 \in Seq(Req) /\ ToSet(run1) = ToSet(run) \ V /\ OneEach(run1)
  BY <1>1, <1>2, ThoseKept, OneEachThose
<1>4. out \in Seq(Req) /\ ToSet(out) = V /\ OneEach(out)
  <2>1. out \in Seq(Req) /\ ToSet(out) = ToSet(run) \cap V
    BY <1>1, <1>2, ThoseKept
  <2>2. OneEach(out)
    BY <1>1, <1>2, OneEachThose
  <2>3. ToSet(run) \cap V = V
    BY <1>0
  <2> QED
    BY <2>1, <2>2, <2>3
<1>5. out \o un \in Seq(Req) /\ ToSet(out \o un) = V \cup ToSet(un)
  BY <1>1, <1>4, ToSetConcat, ConcatProperties
<1>6. OneEach(out \o un)
  BY <1>0, <1>1, <1>4, OneEachConcat
<1>7. OneEach(run1 \o (out \o un))
  <2>1. ToSet(run1) \cap ToSet(out \o un) = {}
    BY <1>1, <1>3, <1>5
  <2>2. PICK s \in Seq(Req) : s = out \o un
    BY <1>5
  <2> QED
    BY <1>3, <1>6, <2>1, <2>2, OneEachConcat
<1>8. ASSUME NEW r \in V
      PROVE  rq1[r] \in Record(Req) /\ Inside(rq1[r]) /\ Whole(rq1[r])
  <2>1. r \in Req /\ rq[r] \in Record(Req) /\ Inside(rq[r]) /\ Started(rq[r])
    BY <1>0, <1>1
  <2> QED
    BY <1>0, <2>1, RecomputedRecord
<1>9. ASSUME NEW r \in Req \ V
      PROVE  /\ rq1[r] \in Record(Req) /\ Inside(rq1[r])
             /\ r \in ToSet(run) => Started(rq1[r])
             /\ r \in ToSet(un) => Whole(rq1[r])
  <2>1. rq[r] \in Record(Req) /\ Inside(rq[r])
    BY <1>1
  <2>2. /\ Marked(rq[r], TRUE) \in Record(Req) /\ Inside(Marked(rq[r], TRUE))
        /\ Started(rq[r]) => Started(Marked(rq[r], TRUE))
        /\ Whole(rq[r]) => Whole(Marked(rq[r], TRUE))
    BY <2>1, MarkedRecord
  <2>3. rq1[r] = rq[r] \/ rq1[r] = Marked(rq[r], TRUE)
    BY <1>0
  <2> QED
    BY <1>1, <2>1, <2>2, <2>3
<1>10. rq1 \in [Req -> Record(Req)] /\ \A r \in Req : Inside(rq1[r])
  BY <1>0, <1>8, <1>9
<1>11. \A r \in ToSet(run1) : Started(rq1[r])
  BY <1>1, <1>3, <1>9
<1>12. \A r \in ToSet(out \o un) : Whole(rq1[r])
  BY <1>1, <1>5, <1>8, <1>9
<1>13. PICK un1 : un1 = out \o un
  OBVIOUS
<1>14. Queues(rq1, run1, un1)
  BY <1>3, <1>5, <1>7, <1>10, <1>11, <1>12, <1>13 DEF Queues
<1> QED
  BY <1>2, <1>3, <1>13, <1>14 DEF Requeued

-----------------------------------------------------------------------------
(* Chunks.                                                                 *)

LEMMA QueuesChunks ==
  ASSUME NEW rq, NEW run, NEW un, Queues(rq, run, un), Room(TRUE, rq, run), NEW a,
         a = NextChunks(rq, run, Budget).req
  PROVE  /\ Queues(a, run, un) /\ Room(TRUE, a, run)
         /\ \A r \in Req : SameLife(a[r], rq[r])
         /\ \A r \in Req \ ToSet(run) : a[r] = rq[r]
         /\ \A r \in ToSet(run) : Stays(rq[r], a[r])
         /\ TokensOf(rq, run) <= Budget => TokensOf(a, run) <= Budget
<1>1. /\ rq \in [Req -> Record(Req)] /\ run \in Seq(Req) /\ ToSet(run) \subseteq Req
      /\ un \in Seq(Req) /\ OneEach(run \o un) /\ OneEach(run)
      /\ \A r \in Req : rq[r] \in Record(Req) /\ Inside(rq[r])
      /\ \A r \in ToSet(run) : Started(rq[r]) /\ r \notin ToSet(un)
      /\ \A r \in ToSet(un) : Whole(rq[r])
  BY QueuesTyped DEF Queues
<1>2. Budget \in Nat
  BY PrefillAssumption
<1>3. CASE \A r \in ToSet(run) : ~ FollowUp(rq[r])
  <2>1. a = rq
    BY <1>1, <1>3, NoChunks DEF NextChunks
  <2>2. \A r \in Req : SameLife(rq[r], rq[r])
    BY DEF SameLife
  <2>3. \A r \in ToSet(run) : Stays(rq[r], rq[r])
    BY DEF Stays
  <2> QED
    BY <2>1, <2>2, <2>3
<1>4. CASE \E r \in ToSet(run) : FollowUp(rq[r])
  <2>1. TokensOf(rq, run) <= Budget /\ TokensOf(rq, run) \in Nat
    BY <1>1, <1>4, TokensNat DEF Room
  <2>2. PICK start : start = Budget - TokensOf(rq, run)
    OBVIOUS
  <2>3. start \in Nat /\ a = ChunksFrom(start, rq, run).req
    BY <1>2, <2>1, <2>2 DEF NextChunks
  <2>4. Batch(rq, run, Req, Req)
    BY <1>1 DEF Batch
  <2>5. /\ a \in [Req -> Record(Req)]
        /\ \A r \in Req : IF r \in ToSet(run) /\ FollowUp(rq[r])
                          THEN \E extra \in Nat : a[r] = NextChunk(rq[r], extra)
                          ELSE a[r] = rq[r]
    BY <2>3, <2>4, Chunks
  <2>6. \E free \in Nat : TokensOf(a, run) + free = TokensOf(rq, run) + start
    BY <2>3, <2>4, Chunks
  <2>7. TokensOf(a, run) <= Budget
    <3>1. TokensOf(a, run) \in Nat
      BY <1>1, <2>5, TokensNat
    <3> QED
      BY <1>2, <2>1, <2>2, <2>6, <3>1
  <2>8. ASSUME NEW r \in Req
        PROVE  /\ SameLife(a[r], rq[r]) /\ Inside(a[r])
               /\ r \notin ToSet(run) => a[r] = rq[r]
               /\ r \in ToSet(run) => Stays(rq[r], a[r]) /\ Started(a[r])
    <3>1. CASE r \in ToSet(run) /\ FollowUp(rq[r])
      <4>1. PICK extra \in Nat : a[r] = NextChunk(rq[r], extra)
        BY <2>5, <3>1
      <4>2. /\ SameLife(NextChunk(rq[r], extra), rq[r])
            /\ Inside(NextChunk(rq[r], extra)) /\ Started(NextChunk(rq[r], extra))
        BY <1>1, <3>1, NextChunkRecord, NextChunkFits
      <4> QED
        BY <3>1, <4>1, <4>2 DEF Stays
    <3>2. CASE ~ (r \in ToSet(run) /\ FollowUp(rq[r]))
      <4>1. a[r] = rq[r]
        BY <2>5, <3>2
      <4> QED
        BY <1>1, <4>1 DEF Stays, SameLife
    <3> QED
      BY <3>1, <3>2
  <2>9. \A r \in ToSet(un) : Whole(a[r])
    <3>1. \A r \in ToSet(un) : r \in Req /\ r \notin ToSet(run)
      BY <1>1, ToSetRange
    <3> QED
      BY <1>1, <2>8, <3>1
  <2>10. Queues(a, run, un)
    BY <1>1, <2>5, <2>8, <2>9 DEF Queues
  <2>11. Room(TRUE, a, run)
    BY <2>7 DEF Room
  <2> QED
    BY <1>1, <2>7, <2>8, <2>10, <2>11
<1> QED
  BY <1>3, <1>4

-----------------------------------------------------------------------------
(* Admission.                                                              *)

LEMMA EnteredRecord ==
  ASSUME NEW p \in Record(Req), Whole(p), NEW on \in BOOLEAN, NEW fx \in BOOLEAN, NEW q,
         Entered(p, q, on, fx)
  PROVE  /\ q \in Record(Req) /\ Inside(q) /\ Started(q) /\ SameLife(q, p) /\ Entering(q, fx)
         /\ FollowUp(q) => on
<1> DEFINE m == Marked(p, fx)
<1>1. /\ m \in Record(Req) /\ SameLife(m, p) /\ m.fusion_exec = fx /\ m.begin = p.begin
      /\ Context(m) = Context(p) /\ FollowUp(m) = FollowUp(p)
      /\ (Inside(p) => Inside(m)) /\ (Started(p) => Started(m)) /\ (Whole(p) => Whole(m))
  BY MarkedRecord
<1>2. Inside(p) /\ Started(p) /\ ~ FollowUp(p)
  BY WholeFits
<1>3. Context(p) /\ p.cached = {} /\ p.begin = 0
  BY DEF Whole
<1>4. Entering(m, fx)
  BY <1>1, <1>3 DEF Entering, SameLife
<1> HIDE DEF m
<1>5. CASE q = m
  BY <1>1, <1>2, <1>4, <1>5
<1>6. CASE on /\ \E left \in Nat \ {0} : q = SetChunk(m, left)
  <2>1. PICK left \in Nat \ {0} : q = SetChunk(m, left)
    BY <1>6
  <2>2. left \in Nat /\ left > 0
    BY <2>1
  <2>3. Inside(q) /\ Started(q) /\ Context(q)
    BY <1>1, <2>1, <2>2, SetChunkFits
  <2>4. /\ q \in Record(Req) /\ q.begin = m.begin /\ q.fusion_exec = m.fusion_exec
        /\ SameLife(q, m)
    BY <1>1, <2>1, <2>2, SetChunkRecord
  <2>5. SameLife(q, p) /\ Entering(q, fx)
    BY <1>1, <1>3, <2>3, <2>4 DEF SameLife, Entering
  <2> QED
    BY <1>6, <2>3, <2>4, <2>5
<1> QED
  BY <1>5, <1>6 DEF Entered, m

\* What schedule_prefill makes of the requests and the queues.
Filled(on, fx, rq, run, un, rp, ran, left) ==
  /\ Queues(rp, ran, left) /\ Room(on, rp, ran)
  /\ \A r \in Req : SameLife(rp[r], rq[r])
  /\ \A r \in ToSet(ran) : \/ r \in ToSet(run) /\ rp[r] = rq[r]
                           \/ r \in ToSet(un) /\ Entering(rp[r], fx)
  /\ Afforded(on, rq, run) => Afforded(on, rp, ran)

\* a is what schedule_prefill makes of the batch, as much as memory allows.
Given(on, fx, rq, run, un, a) ==
  /\ on \in BOOLEAN /\ fx \in BOOLEAN
  /\ \E room \in 0 .. Len(un) :
       a = Admit(on, fx, rq, run, un, room, MaxBatch, IF on THEN Budget ELSE MaxTokens)

\* The queues after requests have been admitted.
LEMMA QueuesAdmit ==
  ASSUME NEW rq, NEW run, NEW un, Queues(rq, run, un), NEW on, NEW fx, Room(on, rq, run),
         NEW a, Given(on, fx, rq, run, un, a)
  PROVE  Filled(on, fx, rq, run, un, a.req, a.running, a.queue) /\ a.failed \in BOOLEAN
<1>a. on \in BOOLEAN /\ fx \in BOOLEAN
  BY DEF Given
<1>b. PICK room \in 0 .. Len(un) :
        a = Admit(on, fx, rq, run, un, room, MaxBatch, IF on THEN Budget ELSE MaxTokens)
  BY Zenon DEF Given
<1>1. /\ rq \in [Req -> Record(Req)] /\ run \in Seq(Req) /\ ToSet(run) \subseteq Req
      /\ un \in Seq(Req) /\ OneEach(run \o un) /\ ToSet(un) \subseteq Req
      /\ ToSet(run) \cap ToSet(un) = {} /\ DOMAIN rq = Req
      /\ \A r \in Req : rq[r] \in Record(Req) /\ Inside(rq[r])
      /\ \A r \in ToSet(run) : Started(rq[r])
      /\ \A r \in ToSet(un) : Whole(rq[r])
  BY QueuesTyped DEF Queues
<1>2. /\ Budget \in Nat /\ MaxTokens \in Nat /\ MaxBatch \in Int
      /\ (IF on THEN Budget ELSE MaxTokens) \in Nat
  BY PrefillAssumption
<1>3. PICK tokens, counted : /\ tokens \in Nat
                               /\ tokens = (IF on THEN Budget ELSE MaxTokens)
                               /\ counted = Counted(on, rq, run)
  BY <1>2
<1>4. PICK n \in 0 .. Len(un) : /\ Admitted(a, n, on, fx, rq, run, un)
                                /\ Within(a, n, on, rq, run, un, tokens)
  <2>1. a = Admit(on, fx, rq, run, un, room, MaxBatch, tokens)
    BY <1>b, <1>3, Zenon
  <2>2. Ready(rq, run, un, Req, Req) /\ MaxBatch \in Int /\ tokens \in Nat
    BY <1>1, <1>2, <1>3 DEF Ready
  <2> QED
    BY <1>a, <1>b, <2>1, <2>2, Admission, ZenonT(40)
<1>5. /\ a.failed \in BOOLEAN
      /\ a.running = run \o SubSeq(un, 1, n) /\ a.queue = SubSeq(un, n + 1, Len(un))
      /\ DOMAIN a.req = Req /\ a.req = [r \in Req |-> a.req[r]]
      /\ \A r \in Req :
           IF r \notin ToSet(un) THEN a.req[r] = rq[r]
           ELSE IF r \in ToSet(SubSeq(un, 1, n)) THEN Entered(rq[r], a.req[r], on, fx)
           ELSE \E b \in BOOLEAN : a.req[r] = Marked(rq[r], b)
  BY <1>1, <1>4 DEF Admitted
<1>6. /\ SubSeq(un, 1, n) \in Seq(Req) /\ SubSeq(un, n + 1, Len(un)) \in Seq(Req)
      /\ un = SubSeq(un, 1, n) \o SubSeq(un, n + 1, Len(un))
  BY <1>1, HeadSeq, QueueParts
<1>7. PICK pre \in Seq(Req), post \in Seq(Req) :
        pre = SubSeq(un, 1, n) /\ post = SubSeq(un, n + 1, Len(un))
  BY <1>6, Zenon
<1>7a. pre \in Seq(Req) /\ post \in Seq(Req)
  BY <1>7, Zenon
<1>8. un = pre \o post /\ a.running = run \o pre /\ a.queue = post
  BY <1>5, <1>6, <1>7, Zenon
<1>9. ToSet(un) = ToSet(pre) \cup ToSet(post)
  BY <1>7a, <1>8, ToSetConcat
<1>10. \A r \in Req : IF r \notin ToSet(un) THEN a.req[r] = rq[r]
                      ELSE IF r \in ToSet(pre) THEN Entered(rq[r], a.req[r], on, fx)
                      ELSE \E b \in BOOLEAN : a.req[r] = Marked(rq[r], b)
  BY <1>5, <1>7, Zenon
<1>11. /\ (~ a.failed /\ TokensOf(rq, counted) <= tokens)
            \/ (\E r \in ToSet(pre) : FollowUp(a.req[r]))
          => TokensOf(a.req, counted \o pre) <= tokens
       /\ on /\ TokensOf(rq, run) <= tokens => ~ a.failed
  <2>1. pre = SubSeq(un, 1, n) /\ counted = Counted(on, rq, run)
    BY <1>3, <1>7, Zenon
  <2> QED
    BY <1>4, <2>1, Zenon DEF Within
<1>12. ToSet(a.running) = ToSet(run) \cup ToSet(pre) /\ a.running \in Seq(Req)
  <2>1. run \in Seq(Req)
    BY <1>1
  <2>2. ToSet(run \o pre) = ToSet(run) \cup ToSet(pre) /\ run \o pre \in Seq(Req)
    BY <1>7a, <2>1, ToSetConcat, ConcatProperties
  <2> QED
    BY <1>8, <2>2, Zenon
<1>13. ToSet(pre) \cap ToSet(post) = {} /\ ToSet(pre) \subseteq Req /\ ToSet(post) \subseteq Req
  <2>1. OneEach(pre \o post)
    BY <1>1, <1>7a, <1>8, OneEachConcat
  <2> QED
    BY <1>7a, <2>1, OneEachConcat, ToSetRange
<1>14. OneEach(a.running \o a.queue)
  <2>1. (run \o pre) \o post = run \o (pre \o post)
    BY <1>1, <1>7a, ConcatAssociative, SMTT(30)
  <2>2. OneEach(run \o un)
    BY <1>1
  <2> QED
    BY <1>8, <2>1, <2>2, Zenon

<1>15. ASSUME NEW r \in Req
       PROVE  /\ a.req[r] \in Record(Req) /\ Inside(a.req[r]) /\ SameLife(a.req[r], rq[r])
              /\ r \in ToSet(run) => a.req[r] = rq[r]
              /\ r \in ToSet(pre) => /\ Started(a.req[r]) /\ Entering(a.req[r], fx)
                                     /\ FollowUp(a.req[r]) => on
              /\ r \in ToSet(post) => Whole(a.req[r])
  <2>1. rq[r] \in Record(Req) /\ Inside(rq[r])
    BY <1>1
  <2>2. CASE r \notin ToSet(un)
    <3>1. a.req[r] = rq[r] /\ r \notin ToSet(pre) /\ r \notin ToSet(post)
      BY <1>9, <1>10, <2>2
    <3> QED
      BY <2>1, <3>1 DEF SameLife
  <2>3. CASE r \in ToSet(pre)
    <3>1. r \in ToSet(un) /\ r \notin ToSet(post) /\ r \notin ToSet(run) /\ Whole(rq[r])
      BY <1>1, <1>9, <1>13, <2>3
    <3>2. Entered(rq[r], a.req[r], on, fx)
      BY <1>10, <2>3, <3>1
    <3> QED
      BY <1>a, <2>1, <3>1, <3>2, EnteredRecord
  <2>4. CASE r \in ToSet(un) /\ r \notin ToSet(pre)
    <3>1. r \notin ToSet(run) /\ Whole(rq[r])
      BY <1>1, <2>4
    <3>2. PICK b \in BOOLEAN : a.req[r] = Marked(rq[r], b)
      BY <1>10, <2>4
    <3>3. /\ Marked(rq[r], b) \in Record(Req) /\ Inside(Marked(rq[r], b))
          /\ SameLife(Marked(rq[r], b), rq[r]) /\ Whole(Marked(rq[r], b))
      BY <2>1, <3>1, <3>2, MarkedRecord
    <3> QED
      BY <2>4, <3>1, <3>2, <3>3
  <2> QED
    BY <2>2, <2>3, <2>4
<1>16. Queues(a.req, a.running, a.queue)
  <2>1. a.req \in [Req -> Record(Req)]
    <3>1. a.req = [r \in Req |-> a.req[r]]
      BY <1>5
    <3> QED
      BY <1>15, <3>1
  <2>2. \A r \in ToSet(a.running) : Started(a.req[r])
    <3>1. \A r \in ToSet(run) : Started(a.req[r])
      BY <1>1, <1>15
    <3>2. \A r \in ToSet(pre) : Started(a.req[r])
      BY <1>13, <1>15
    <3> QED
      BY <1>12, <3>1, <3>2
  <2>3. \A r \in ToSet(a.queue) : Whole(a.req[r])
    BY <1>8, <1>13, <1>15
  <2>4. \A r \in Req : Inside(a.req[r])
    BY <1>15
  <2>5. a.queue \in Seq(Req)
    BY <1>7a, <1>8
  <2> QED
    BY <1>12, <1>14, <2>1, <2>2, <2>3, <2>4, <2>5 DEF Queues
<1>17. ~ a.failed /\ TokensOf(rq, counted) <= tokens => TokensOf(a.req, counted \o pre) <= tokens
  BY <1>11
<1>18. on => counted = run /\ tokens = Budget
  BY <1>3, Counting DEF Counted
<1>19. Room(on, a.req, a.running)
  <2> SUFFICES ASSUME NEW r \in ToSet(a.running), FollowUp(a.req[r])
               PROVE  on /\ TokensOf(a.req, a.running) <= Budget
    BY DEF Room
  <2>1. CASE r \in ToSet(run)
    <3>1. FollowUp(rq[r])
      BY <1>1, <1>15, <2>1
    <3>2. on /\ TokensOf(rq, run) <= Budget
      BY <2>1, <3>1 DEF Room
    <3>3. TokensOf(a.req, counted \o pre) <= tokens
      BY <1>11, <1>18, <3>2
    <3> QED
      BY <1>8, <1>18, <3>2, <3>3
  <2>2. CASE r \in ToSet(pre)
    <3>1. on /\ TokensOf(a.req, counted \o pre) <= tokens
      BY <1>11, <1>13, <1>15, <2>2
    <3> QED
      BY <1>8, <1>18, <3>1
  <2> QED
    BY <1>12, <2>1, <2>2
<1>20. \A r \in ToSet(a.running) : \/ r \in ToSet(run) /\ a.req[r] = rq[r]
                                   \/ r \in ToSet(un) /\ Entering(a.req[r], fx)
  BY <1>1, <1>9, <1>12, <1>13, <1>15
<1>21. on /\ TokensOf(rq, run) <= Budget => TokensOf(a.req, a.running) <= Budget
  BY <1>8, <1>11, <1>18
<1>22. ~ on /\ TokensOf(rq, Prefills(rq, run)) <= MaxTokens
         => TokensOf(a.req, Prefills(a.req, a.running)) <= MaxTokens
  <2> SUFFICES ASSUME ~ on, TokensOf(rq, Prefills(rq, run)) <= MaxTokens
               PROVE  TokensOf(a.req, Prefills(a.req, a.running)) <= MaxTokens
    OBVIOUS
  <2>1. counted = Prefills(rq, run) /\ tokens = MaxTokens
    BY <1>3 DEF Counted
  <2>2. ~ a.failed
    BY <1>b DEF Admit
  <2>3. TokensOf(a.req, counted \o pre) <= MaxTokens
    BY <1>17, <2>1, <2>2
  <2>4. Prefills(a.req, a.running) = counted \o pre
    <3> DEFINE C == {r \in Req : Context(rq[r])}
               D == {r \in Req : Context(a.req[r])}
    <3>1. Prefills(rq, run) = Those(run, C) /\ Prefills(a.req, run \o pre) = Those(run \o pre, D)
      BY <1>1, <1>5 DEF Prefills
    <3>2. ToSet(run) \cap C = ToSet(run) \cap D
      BY <1>1, <1>15
    <3>3. ToSet(pre) \subseteq D
      BY <1>13, <1>15 DEF Entering
    <3> HIDE DEF C, D
    <3>4. Those(run, C) = Those(run, D)
      BY <1>1, <3>2, ThoseSame
    <3>5. Those(pre, D) = pre
      BY <1>7a, <3>3, ThoseAll
    <3>6. Those(run \o pre, D) = Those(run, D) \o Those(pre, D)
      BY <1>1, <1>7a, ThoseConcat, SMTT(30)
    <3> QED
      BY <1>8, <2>1, <3>1, <3>4, <3>5, <3>6, Zenon
  <2> QED
    BY <2>3, <2>4
<1>23. \A r \in Req : SameLife(a.req[r], rq[r])
  BY <1>15
<1> QED
  BY <1>5, <1>16, <1>19, <1>20, <1>21, <1>22, <1>23 DEF Filled, Afforded

-----------------------------------------------------------------------------
(* The next batch.                                                         *)

\* Of the requests V start again, and the others go on.
Lives(V, rq, rp) == \A r \in Req : After(r \in V, rq[r], rp[r])

\* Whoever is in the running queue stayed or has just entered.
Runs(V, fx, rq, run, rp, ran) ==
  \A r \in ToSet(ran) : \/ r \in ToSet(run) \ V /\ Stays(rq[r], rp[r])
                        \/ Entering(rp[r], fx)

\* The requests that are preempted leave.
Leave(rq, run, un, V, rq1, run1, un1) ==
  LET live == Those(run, {r \in Req : ~ rq[r].is_finished})
  IN  /\ V \in Victims(rq, live)
      /\ rq1 = [r \in Req |-> IF r \in V THEN Recomputed(rq[r]) ELSE rq[r]]
      /\ run1 = Those(live, Req \ V)
      /\ un1 = Requeued(live, V, un)

\* The queues after the finished have left and others were preempted.
LEMMA BatchLeft ==
  ASSUME NEW on \in BOOLEAN, NEW rq, NEW run, NEW un, Queues(rq, run, un), Room(on, rq, run),
         NEW V, NEW rq1, NEW run1, NEW un1, Leave(rq, run, un, V, rq1, run1, un1)
  PROVE  /\ Queues(rq1, run1, un1) /\ Room(on, rq1, run1)
         /\ V \in SUBSET ToSet(run) /\ (\A r \in V : ~ Context(rq[r]))
         /\ ToSet(run1) \subseteq ToSet(run) \ V
         /\ Afforded(on, rq, run) => Afforded(on, rq1, run1)
<1> DEFINE X == {r \in Req : ~ rq[r].is_finished}
<1>1. /\ rq \in [Req -> Record(Req)] /\ run \in Seq(Req) /\ ToSet(run) \subseteq Req
      /\ \A r \in Req : rq[r] \in Record(Req)
  BY QueuesTyped DEF Queues
<1>2. PICK live : live = Those(run, X)
  OBVIOUS
<1>2a. V \in Victims(rq, live)
  BY <1>2, Zenon DEF Leave
<1>2b. rq1 = [r \in Req |-> IF r \in V THEN Recomputed(rq[r]) ELSE rq[r]]
  BY <1>2, Zenon DEF Leave
<1>2c. run1 = Those(live, Req \ V) /\ un1 = Requeued(live, V, un)
  BY <1>2, Zenon DEF Leave
<1> HIDE DEF X
<1>3. live \in Seq(Req) /\ ToSet(live) \subseteq ToSet(run) /\ Queues(rq, live, un)
  BY <1>1, <1>2, ThoseKept, QueuesThose
<1>4. V \in SUBSET ToSet(live) /\ \A r \in V : ~ Context(rq[r])
  BY <1>2a DEF Victims
<1>5. /\ rq1 = [r \in Req |-> rq1[r]] /\ \A r \in V : rq1[r] = Recomputed(rq[r])
      /\ \A r \in Req \ V : rq1[r] = rq[r]
  BY <1>1, <1>2b, <1>3, <1>4
<1>6. Queues(rq1, run1, un1) /\ ToSet(run1) = ToSet(live) \ V
  <2>1. Again(rq, live, V, rq1)
    BY <1>4, <1>5 DEF Again
  <2>2. /\ Queues(rq1, Those(live, Req \ V), Requeued(live, V, un))
        /\ ToSet(Those(live, Req \ V)) = ToSet(live) \ V
    BY <1>3, <2>1, QueuesAgain
  <2> QED
    BY <1>2c, <2>2, Zenon
<1>7. rq1 \in [Req -> Record(Req)] /\ run1 \in Seq(Req)
  BY <1>6 DEF Queues
<1>8. PICK S : S = X \cap (Req \ V)
  OBVIOUS
<1>9. run1 = Those(run, S)
  <2>1. Those(Those(run, X), Req \ V) = Those(run, X \cap (Req \ V))
    BY <1>1, ThoseThose
  <2> QED
    BY <1>2, <1>2c, <1>8, <2>1, Zenon
<1>10. \A r \in ToSet(run) \cap S : rq1[r] = rq[r]
  BY <1>1, <1>5, <1>8
<1>10a. ToSet(run1) = ToSet(run) \cap S
  BY <1>1, <1>9, ThoseKept
<1>11. \A r \in ToSet(run) \cap S : /\ InputTokens(rq1[r]) <= InputTokens(rq[r])
                                    /\ Context(rq1[r]) => Context(rq[r])
  <2>1. ASSUME NEW r \in ToSet(run) \cap S
        PROVE  InputTokens(rq1[r]) <= InputTokens(rq[r]) /\ (Context(rq1[r]) => Context(rq[r]))
    <3>1. rq1[r] = rq[r]
      BY <1>10
    <3>2. InputTokens(rq[r]) \in Nat
      BY <1>1, InputTokensNat
    <3> QED
      BY <3>1, <3>2
  <2> QED
    BY <2>1
<1>12. TokensOf(rq1, run1) <= TokensOf(rq, run)
  <2>1. TokensOf(rq, Those(run, S)) <= TokensOf(rq, run)
    BY <1>1, TokensThose
  <2>2. \A r \in ToSet(run1) : InputTokens(rq1[r]) <= InputTokens(rq[r])
    BY <1>10a, <1>11
  <2>3. TokensOf(rq1, run1) <= TokensOf(rq, run1)
    BY <1>1, <1>7, <2>2, TokensLess
  <2>4. TokensOf(rq1, run1) \in Nat /\ TokensOf(rq, run1) \in Nat /\ TokensOf(rq, run) \in Nat
    BY <1>1, <1>7, TokensNat
  <2>5. TokensOf(rq, run1) <= TokensOf(rq, run)
    BY <1>9, <2>1
  <2> QED
    BY <2>3, <2>4, <2>5
<1>13. TokensOf(rq1, Prefills(rq1, run1)) <= TokensOf(rq, Prefills(rq, run))
  <2>2. TokensOf(rq1, Prefills(rq1, Those(run, S))) <= TokensOf(rq, Prefills(rq, run))
    BY <1>1, <1>7, <1>11, PrefillsLess
  <2> QED
    BY <1>9, <2>2
<1>14. /\ TokensOf(rq1, run1) \in Nat /\ TokensOf(rq, run) \in Nat
       /\ TokensOf(rq1, Prefills(rq1, run1)) \in Nat /\ TokensOf(rq, Prefills(rq, run)) \in Nat
  <2>1. Prefills(rq1, run1) \in Seq(Req) /\ Prefills(rq, run) \in Seq(Req)
    BY <1>1, <1>7, ThoseKept DEF Prefills
  <2> QED
    BY <1>1, <1>7, <2>1, TokensNat
<1>15. Budget \in Nat /\ MaxTokens \in Nat
  BY PrefillAssumption
<1>16. Afforded(on, rq, run) => Afforded(on, rq1, run1)
  BY <1>12, <1>13, <1>14, <1>15 DEF Afforded
<1>17. Room(on, rq1, run1)
  <2> SUFFICES ASSUME NEW r \in ToSet(run1), FollowUp(rq1[r])
               PROVE  on /\ TokensOf(rq1, run1) <= Budget
    BY DEF Room
  <2>1. r \in ToSet(run) /\ FollowUp(rq[r])
    BY <1>10, <1>10a
  <2>2. on /\ TokensOf(rq, run) <= Budget
    BY <2>1 DEF Room
  <2> QED
    BY <1>12, <1>14, <1>15, <2>2
<1> QED
  BY <1>3, <1>4, <1>6, <1>16, <1>17

\* Those who stay get their chunks, and others are admitted.
ChunksAndAdmits(on, fx, rq1, run1, un1, rq2, a) ==
  /\ rq2 = (IF on THEN NextChunks(rq1, run1, Budget).req ELSE rq1)
  /\ Given(on, fx, rq2, run1, un1, a)

\* The queues after chunks were given and requests admitted.
LEMMA BatchFilled ==
  ASSUME NEW on \in BOOLEAN, NEW fx \in BOOLEAN,
         NEW rq1, NEW run1, NEW un1, Queues(rq1, run1, un1), Room(on, rq1, run1),
         NEW rq2, NEW a, ChunksAndAdmits(on, fx, rq1, run1, un1, rq2, a)
  PROVE  /\ Queues(a.req, a.running, a.queue) /\ Room(on, a.req, a.running)
         /\ a.failed \in BOOLEAN
         /\ \A r \in Req : SameLife(a.req[r], rq1[r])
         /\ Runs({}, fx, rq1, run1, a.req, a.running)
         /\ Afforded(on, rq1, run1) => Afforded(on, a.req, a.running)
<1>0. /\ rq2 = (IF on THEN NextChunks(rq1, run1, Budget).req ELSE rq1)
      /\ Given(on, fx, rq2, run1, un1, a)
  BY DEF ChunksAndAdmits
<1>1. /\ Queues(rq2, run1, un1) /\ Room(on, rq2, run1)
      /\ \A r \in Req : SameLife(rq2[r], rq1[r])
      /\ \A r \in ToSet(run1) : Stays(rq1[r], rq2[r])
      /\ Afforded(on, rq1, run1) => Afforded(on, rq2, run1)
  <2>1. CASE on
    <3>1. rq2 = NextChunks(rq1, run1, Budget).req /\ Room(TRUE, rq1, run1)
      BY <1>0, <2>1
    <3>2. /\ Queues(rq2, run1, un1) /\ Room(TRUE, rq2, run1)
          /\ \A r \in Req : SameLife(rq2[r], rq1[r])
          /\ \A r \in ToSet(run1) : Stays(rq1[r], rq2[r])
          /\ TokensOf(rq1, run1) <= Budget => TokensOf(rq2, run1) <= Budget
      BY <3>1, QueuesChunks
    <3> QED
      BY <2>1, <3>2 DEF Afforded
  <2>2. CASE ~ on
    <3>1. rq2 = rq1
      BY <1>0, <2>2
    <3>2. \A r \in Req : SameLife(rq1[r], rq1[r])
      BY DEF SameLife
    <3>3. \A r \in ToSet(run1) : Stays(rq1[r], rq1[r])
      BY DEF Stays
    <3> QED
      BY <3>1, <3>2, <3>3
  <2> QED
    BY <2>1, <2>2
<1>2. Filled(on, fx, rq2, run1, un1, a.req, a.running, a.queue) /\ a.failed \in BOOLEAN
  <2>1. Queues(rq2, run1, un1) /\ Room(on, rq2, run1)
    BY <1>1
  <2> QED
    BY <1>0, <2>1, QueuesAdmit, Zenon
<1>3. Afforded(on, rq2, run1) => Afforded(on, a.req, a.running)
  BY <1>2 DEF Filled
<1>4. \A r \in Req : SameLife(a.req[r], rq1[r])
  BY <1>1, <1>2 DEF SameLife, Filled
<1>5. Runs({}, fx, rq1, run1, a.req, a.running)
  BY <1>1, <1>2 DEF Runs, Filled
<1> QED
  BY <1>1, <1>2, <1>3, <1>4, <1>5 DEF Filled

\* get_next_batch, from the queues before to the queues after.
LEMMA NextBatch ==
  ASSUME NEW on \in BOOLEAN, NEW fx \in BOOLEAN, NEW rq, NEW limit, NEW run, NEW un,
         Queues(rq, run, un), Room(on, rq, run),
         GetNextBatch(on, fx, rq, limit, run, un)
  PROVE  /\ Queues(req', running', unaccepted') /\ Room(on, req', running')
         /\ failed' \in BOOLEAN
         /\ Afforded(on, rq, run) => Afforded(on, req', running')
         /\ \E V \in SUBSET ToSet(run) :
              /\ \A r \in V : ~ Context(rq[r])
              /\ max_tokens' = Charged(limit, rq, V)
              /\ Lives(V, rq, req')
              /\ Runs(V, fx, rq, run, req', running')
<1>1. PICK live : live = Those(run, {r \in Req : ~ rq[r].is_finished})
  OBVIOUS
<1>2. PICK V, rq1, run1, un1 :
        /\ V \in Victims(rq, live)
        /\ rq1 = [r \in Req |-> IF r \in V THEN Recomputed(rq[r]) ELSE rq[r]]
        /\ run1 = Those(live, Req \ V)
        /\ un1 = Requeued(live, V, un)
        /\ max_tokens' = Charged(limit, rq, V)
        /\ \E room \in 0 .. Len(un1),
              rq2 \in {IF on THEN NextChunks(rq1, run1, Budget).req ELSE rq1} :
             SchedulePrefill(on, fx, rq2, run1, un1, room)
  <2>1. PICK V \in Victims(rq, live) :
          LET rq1  == [r \in Req |-> IF r \in V THEN Recomputed(rq[r]) ELSE rq[r]]
              run1 == Those(live, Req \ V)
              un1  == Requeued(live, V, un)
          IN  /\ max_tokens' = Charged(limit, rq, V)
              /\ \E room \in 0 .. Len(un1),
                    rq2 \in {IF on THEN NextChunks(rq1, run1, Budget).req ELSE rq1} :
                   SchedulePrefill(on, fx, rq2, run1, un1, room)
    BY <1>1, Zenon DEF GetNextBatch
  <2>2. V \in Victims(rq, live)
    BY <2>1
  <2> QED
    BY <2>1, <2>2, ZenonT(40)
<1>3. PICK room \in 0 .. Len(un1),
           rq2 \in {IF on THEN NextChunks(rq1, run1, Budget).req ELSE rq1} :
             SchedulePrefill(on, fx, rq2, run1, un1, room)
  BY <1>2, Zenon
<1>4. PICK a : /\ a = Admit(on, fx, rq2, run1, un1, room, MaxBatch,
                            IF on THEN Budget ELSE MaxTokens)
               /\ failed' = a.failed /\ req' = a.req
               /\ running' = a.running /\ unaccepted' = a.queue
  BY <1>3, Zenon DEF SchedulePrefill
<1>5. /\ Queues(rq1, run1, un1) /\ Room(on, rq1, run1)
      /\ V \in SUBSET ToSet(run) /\ (\A r \in V : ~ Context(rq[r]))
      /\ ToSet(run1) \subseteq ToSet(run) \ V
      /\ Afforded(on, rq, run) => Afforded(on, rq1, run1)
  <2>1. Leave(rq, run, un, V, rq1, run1, un1)
    BY <1>1, <1>2, Zenon DEF Leave
  <2> QED
    BY <2>1, BatchLeft, Zenon
<1>6. /\ Queues(a.req, a.running, a.queue) /\ Room(on, a.req, a.running)
      /\ a.failed \in BOOLEAN
      /\ \A r \in Req : SameLife(a.req[r], rq1[r])
      /\ Runs({}, fx, rq1, run1, a.req, a.running)
      /\ Afforded(on, rq1, run1) => Afforded(on, a.req, a.running)
  <2>1. rq2 = (IF on THEN NextChunks(rq1, run1, Budget).req ELSE rq1)
    BY <1>3, Zenon
  <2>2. Given(on, fx, rq2, run1, un1, a)
    BY <1>3, <1>4, Zenon DEF Given
  <2>3. ChunksAndAdmits(on, fx, rq1, run1, un1, rq2, a)
    BY <2>1, <2>2, Zenon DEF ChunksAndAdmits
  <2> QED
    BY <1>5, <2>3, BatchFilled, Zenon
<1>7. \A r \in Req : rq1[r] = IF r \in V THEN Recomputed(rq[r]) ELSE rq[r]
  BY <1>2, Zenon
<1>8. Lives(V, rq, req')
  <2>1. ASSUME NEW r \in Req PROVE After(r \in V, rq[r], req'[r])
    <3>1. SameLife(req'[r], IF r \in V THEN Recomputed(rq[r]) ELSE rq[r])
      BY <1>4, <1>6, <1>7, Zenon
    <3> QED
      BY <3>1, Zenon DEF After
  <2> QED
    BY <2>1, Zenon DEF Lives
<1>9. Runs(V, fx, rq, run, req', running')
  <2>0. ToSet(run) \subseteq Req
    BY QueuesTyped
  <2>1. ASSUME NEW r \in ToSet(running'), ~ Entering(req'[r], fx)
        PROVE  r \in ToSet(run) \ V /\ Stays(rq[r], req'[r])
    <3>1. r \in ToSet(run1) /\ Stays(rq1[r], req'[r])
      <4>1. Runs({}, fx, rq1, run1, req', running')
        BY <1>4, <1>6, Zenon
      <4> QED
        BY <2>1, <4>1, Zenon DEF Runs
    <3>2. r \in ToSet(run) /\ r \notin V /\ r \in Req
      BY <1>5, <2>0, <3>1
    <3>3. rq1[r] = rq[r]
      BY <1>7, <3>2
    <3> QED
      BY <3>1, <3>2, <3>3
  <2> QED
    BY <2>1, Zenon DEF Runs
<1>10. Queues(req', running', unaccepted') /\ Room(on, req', running') /\ failed' \in BOOLEAN
  BY <1>4, <1>6, Zenon
<1>11. Afforded(on, rq, run) => Afforded(on, req', running')
  BY <1>4, <1>5, <1>6, Zenon
<1> QED
  BY <1>2, <1>5, <1>8, <1>9, <1>10, <1>11, Zenon

-----------------------------------------------------------------------------
(* Requests that are submitted.                                            *)

LEMMA SetInOrder ==
  ASSUME NEW R, NEW S \in SUBSET R, IsFiniteSet(S)
  PROVE  /\ SetToSeq(S) \in Seq(R) /\ ToSet(SetToSeq(S)) \subseteq S
         /\ OneEach(SetToSeq(S))
<1> DEFINE n == Cardinality(S)
<1>1. n \in Nat /\ ExistsBijection(1 .. n, S)
  BY FS_CardinalityType
<1>2. PICK g \in Bijection(1 .. n, S) : TRUE
  BY <1>1 DEF ExistsBijection
<1>3. g \in [1 .. n -> S] /\ IsInjective(g)
  BY <1>2 DEF Bijection, Injection
<1>4. SetToSeq(S) = CHOOSE f \in [1 .. n -> S] : IsInjective(f)
  BY Zenon DEF SetToSeq
<1>5. SetToSeq(S) \in [1 .. n -> S] /\ IsInjective(SetToSeq(S))
  BY <1>3, <1>4, Zenon
<1> HIDE DEF n
<1>6. PICK q \in [1 .. n -> S] : q = SetToSeq(S) /\ IsInjective(q)
  BY <1>5, Zenon
<1>7. q \in Seq(S) /\ Len(q) = n
  BY <1>1, LenProperties
<1>8. q \in Seq(R)
  BY <1>1
<1>9. ToSet(q) \subseteq S
  BY <1>7, ToSetRange
<1>10. OneEach(q)
  BY <1>6, <1>7 DEF OneEach, IsInjective
<1> QED
  BY <1>6, <1>8, <1>9, <1>10, Zenon

\* A request as it is submitted.
LEMMA NewRecord ==
  ASSUME NEW P, NEW p \in P, NEW n \in Nat
  PROVE  /\ NewRequest(n, p) \in Record(P) /\ Inside(NewRequest(n, p))
         /\ n > 0 => Whole(NewRequest(n, p))
         /\ NewRequest(n, p).prompt = n /\ NewRequest(n, p).params = p
         /\ NewRequest(n, p).generated = 0 /\ NewRequest(n, p).outputs = 0
         /\ NewRequest(n, p).is_finished = FALSE
  BY DEF NewRequest, Record, Inside, Whole, Context

\* Whoever has no prompt is in no queue.
LEMMA NothingToDo ==
  ASSUME NEW P, NEW q \in Record(P), Inside(q), q.prompt = 0, Context(q)
  PROVE  ~ Started(q) /\ ~ Whole(q)
<1>1. q.begin \in Nat /\ q.end \in Nat /\ q.generated \in Nat /\ q.cached \in SUBSET Nat
  BY DEF Record
<1>2. q.begin = 0 /\ q.end = 0
  BY <1>1 DEF Inside
<1>3. ~ Whole(q)
  BY DEF Whole
<1> QED
  BY <1>1, <1>2, <1>3 DEF Started, Context

\* The requests of S are new: what the table, the queue and the batch become.
Enlisted(rq, un, S, rp, un1) ==
  /\ S \in SUBSET Req
  /\ rp = [r \in Req |-> rp[r]]
  /\ \A r \in S : /\ rq[r].prompt = 0 /\ Context(rq[r])
                  /\ \E n \in Nat \ {0}, p \in S : rp[r] = NewRequest(n, p)
  /\ \A r \in Req \ S : rp[r] = rq[r]
  /\ un1 = un \o SetToSeq(S)

\* The queues after a submission.
LEMMA QueuesNew ==
  ASSUME NEW on, NEW rq, NEW run, NEW un, Queues(rq, run, un), Room(on, rq, run),
         NEW S, NEW rp, NEW un1, Enlisted(rq, un, S, rp, un1)
  PROVE  /\ Queues(rp, run, un1) /\ Room(on, rp, run)
         /\ S \cap ToSet(run) = {}
         /\ Afforded(on, rq, run) => Afforded(on, rp, run)
<1>1. /\ rq \in [Req -> Record(Req)] /\ run \in Seq(Req) /\ ToSet(run) \subseteq Req
      /\ un \in Seq(Req) /\ OneEach(run \o un) /\ ToSet(un) \subseteq Req
      /\ ToSet(run) \cap ToSet(un) = {} /\ OneEach(run) /\ OneEach(un)
      /\ \A r \in Req : rq[r] \in Record(Req) /\ Inside(rq[r])
      /\ \A r \in ToSet(run) : Started(rq[r])
      /\ \A r \in ToSet(un) : Whole(rq[r])
  BY QueuesTyped DEF Queues
<1>2. /\ S \in SUBSET Req /\ rp = [r \in Req |-> rp[r]]
      /\ \A r \in S : /\ rq[r].prompt = 0 /\ Context(rq[r])
                      /\ \E n \in Nat \ {0}, p \in S : rp[r] = NewRequest(n, p)
      /\ \A r \in Req \ S : rp[r] = rq[r]
      /\ un1 = un \o SetToSeq(S)
  BY DEF Enlisted
<1>3. \A r \in S : r \notin ToSet(run) /\ r \notin ToSet(un)
  <2>1. ASSUME NEW r \in S PROVE ~ Started(rq[r]) /\ ~ Whole(rq[r])
    <3>1. rq[r] \in Record(Req) /\ Inside(rq[r]) /\ rq[r].prompt = 0 /\ Context(rq[r])
      BY <1>1, <1>2
    <3> QED
      BY <3>1, NothingToDo
  <2> QED
    BY <1>1, <2>1
<1>4. \A r \in S : rp[r] \in Record(Req) /\ Inside(rp[r]) /\ Whole(rp[r])
  <2>1. ASSUME NEW r \in S PROVE rp[r] \in Record(Req) /\ Inside(rp[r]) /\ Whole(rp[r])
    <3>1. PICK n \in Nat \ {0}, p \in S : rp[r] = NewRequest(n, p)
      BY <1>2
    <3>2. p \in Req /\ n \in Nat /\ n > 0
      BY <1>2, <3>1
    <3> QED
      <4>1. /\ NewRequest(n, p) \in Record(Req) /\ Inside(NewRequest(n, p))
            /\ n > 0 => Whole(NewRequest(n, p))
        BY <3>2, NewRecord
      <4> QED
        BY <3>1, <3>2, <4>1
  <2> QED
    BY <2>1
<1>5. rp \in [Req -> Record(Req)] /\ \A r \in Req : Inside(rp[r])
  BY <1>1, <1>2, <1>4
<1>6. \A r \in ToSet(run) \cup ToSet(un) : rp[r] = rq[r]
  BY <1>1, <1>2, <1>3
<1>7. PICK new \in Seq(Req) : new = SetToSeq(S) /\ ToSet(new) \subseteq S /\ OneEach(new)
  <2>1. IsFiniteSet(S)
    BY <1>2, PrefillAssumption, FS_Subset
  <2> QED
    BY <1>2, <2>1, SetInOrder
<1>8. un1 = un \o new
  BY <1>2, <1>7
<1>9. un \o new \in Seq(Req) /\ ToSet(un \o new) = ToSet(un) \cup ToSet(new)
  BY <1>1, <1>7, ToSetConcat, ConcatProperties
<1>10. OneEach(un \o new)
  BY <1>1, <1>3, <1>7, OneEachConcat
<1>11. OneEach(run \o un1)
  <2>1. ToSet(run) \cap ToSet(un1) = {}
    BY <1>1, <1>3, <1>7, <1>8, <1>9
  <2>2. un1 \in Seq(Req) /\ OneEach(un1)
    BY <1>8, <1>9, <1>10
  <2> QED
    BY <1>1, <2>1, <2>2, OneEachConcat
<1>12. \A r \in ToSet(un1) : Whole(rp[r])
  BY <1>1, <1>4, <1>6, <1>7, <1>8, <1>9
<1>13. Queues(rp, run, un1)
  BY <1>1, <1>5, <1>6, <1>8, <1>9, <1>11, <1>12 DEF Queues
<1>14. \A r \in ToSet(run) : rp[r] = rq[r]
  BY <1>6
<1>15. TokensOf(rp, run) <= TokensOf(rq, run)
  <2>1. \A r \in ToSet(run) : InputTokens(rp[r]) <= InputTokens(rq[r])
    <3>1. ASSUME NEW r \in ToSet(run) PROVE InputTokens(rp[r]) <= InputTokens(rq[r])
      <4>1. rp[r] = rq[r] /\ InputTokens(rq[r]) \in Nat
        BY <1>1, <1>14, InputTokensNat
      <4> QED
        BY <4>1
    <3> QED
      BY <3>1
  <2> QED
    BY <1>1, <1>5, <2>1, TokensLess
<1>16. Prefills(rp, run) = Prefills(rq, run)
  <2>1. Prefills(rp, run) = Those(run, {r \in Req : Context(rp[r])})
    BY <1>5 DEF Prefills
  <2>2. Prefills(rq, run) = Those(run, {r \in Req : Context(rq[r])})
    BY <1>1 DEF Prefills
  <2>3. ToSet(run) \cap {r \in Req : Context(rp[r])} = ToSet(run) \cap {r \in Req : Context(rq[r])}
    BY <1>14
  <2> QED
    BY <1>1, <2>1, <2>2, <2>3, ThoseSame
<1>17. TokensOf(rp, Prefills(rp, run)) <= TokensOf(rq, Prefills(rq, run))
  <2>1. PICK p \in Seq(Req) : p = Prefills(rq, run) /\ ToSet(p) \subseteq ToSet(run)
    <3>1. \A S1 : Those(run, S1) \in Seq(Req) /\ ToSet(Those(run, S1)) \subseteq ToSet(run)
      BY <1>1, ThoseKept
    <3> QED
      BY <3>1 DEF Prefills
  <2>2. \A r \in ToSet(p) : InputTokens(rp[r]) <= InputTokens(rq[r])
    <3>1. ASSUME NEW r \in ToSet(p) PROVE InputTokens(rp[r]) <= InputTokens(rq[r])
      <4>1. rp[r] = rq[r] /\ InputTokens(rq[r]) \in Nat
        BY <1>1, <1>14, <2>1, InputTokensNat
      <4> QED
        BY <4>1
    <3> QED
      BY <3>1
  <2>3. TokensOf(rp, p) <= TokensOf(rq, p)
    BY <1>1, <1>5, <2>1, <2>2, TokensLess
  <2> QED
    BY <1>16, <2>1, <2>3
<1>18. /\ TokensOf(rp, run) \in Nat /\ TokensOf(rq, run) \in Nat
       /\ TokensOf(rp, Prefills(rp, run)) \in Nat /\ TokensOf(rq, Prefills(rq, run)) \in Nat
  <2>1. Prefills(rp, run) \in Seq(Req) /\ Prefills(rq, run) \in Seq(Req)
    BY <1>1, ThoseKept DEF Prefills
  <2> QED
    BY <1>1, <1>5, <2>1, TokensNat
<1>19. Budget \in Nat /\ MaxTokens \in Nat
  BY PrefillAssumption
<1>20. Room(on, rp, run)
  BY <1>14, <1>15, <1>18, <1>19 DEF Room
<1>21. Afforded(on, rq, run) => Afforded(on, rp, run)
  BY <1>15, <1>17, <1>18, <1>19 DEF Afforded
<1> QED
  BY <1>3, <1>13, <1>20, <1>21

\* generate and batch_generate enlist new requests.
LEMMA SubmitEnlists ==
  ASSUME NEW S \in SUBSET Req, Submit(S)
  PROVE  Enlisted(req, unaccepted, S, req', unaccepted')
<1>1. PICK n \in [S -> 1 .. MaxPrompt] :
        req' = [r \in Req |-> IF r \in S THEN NewRequest(n[r], CHOOSE p \in S : TRUE)
                              ELSE req[r]]
  BY Zenon DEF Submit
<1>2. PICK p \in S : p = CHOOSE x \in S : TRUE
  BY DEF Submit
<1>3. \A r \in S : n[r] \in Nat \ {0} /\ req'[r] = NewRequest(n[r], p)
  <2>1. MaxPrompt \in Nat
    BY PrefillAssumption
  <2>2. \A r \in S : n[r] \in 1 .. MaxPrompt
    BY <1>1
  <2> QED
    BY <1>1, <1>2, <2>1, <2>2
<1>4. \A r \in S : req[r].prompt = 0 /\ Context(req[r])
  <2>1. \A r \in S : req[r] = NoRequest
    BY DEF Submit, Out
  <2>2. NoRequest.prompt = 0 /\ NoRequest.generated = 0
    BY DEF NoRequest, NewRequest
  <2> QED
    BY <2>1, <2>2 DEF Context
<1> QED
  BY <1>1, <1>2, <1>3, <1>4 DEF Enlisted, Submit

-----------------------------------------------------------------------------
(* The answers of the workers.                                             *)

\* S has been computed, and home has left the pipeline format.
Answered(rq, limit, S, home, rp) ==
  /\ S \in SUBSET Req
  /\ rp = [r \in Req |-> rp[r]]
  /\ \A r \in S : LET c == Computed(rq[r], limit[rq[r].params])
                  IN  rp[r] = [c EXCEPT !.fusion_exec = @ /\ r \notin home]
  /\ \A r \in Req \ S : rp[r] = rq[r]

\* A request that was computed.
LEMMA AnsweredRecord ==
  ASSUME NEW rq, NEW limit, NEW S, NEW home, NEW rp, Answered(rq, limit, S, home, rp),
         NEW r \in S, rq[r] \in Record(Req), Inside(rq[r]), Started(rq[r])
  PROVE  LET q == rq[r]
             c == rp[r]
         IN  /\ c \in Record(Req) /\ Inside(c) /\ Started(c)
             /\ FollowUp(c) = FollowUp(q) /\ InputTokens(c) <= InputTokens(q)
             /\ c.prompt = q.prompt /\ c.params = q.params
             /\ c.begin = q.begin /\ c.end = q.end
             /\ c.fusion_exec = (q.fusion_exec /\ r \notin home)
             /\ c.cached = q.cached \cup (IF Context(q) THEN q.begin .. q.end - 1 ELSE {})
             /\ c.generated = (IF FollowUp(q) THEN q.generated ELSE q.generated + 1)
             /\ c.outputs = (IF FollowUp(q) THEN q.outputs ELSE q.outputs + 1)
             /\ c.is_finished = (q.is_finished
                                 \/ (~ FollowUp(q) /\ q.generated + 1 >= limit[q.params]))
             /\ Context(c) => FollowUp(q) /\ Context(q)
<1>1. PICK q, m : q \in Record(Req) /\ q = rq[r] /\ m = limit[rq[r].params]
  OBVIOUS
<1>2. PICK d : d = Computed(q, m)
  OBVIOUS
<1>3. /\ d \in Record(Req) /\ Inside(d) /\ Started(d)
      /\ FollowUp(d) = FollowUp(q) /\ InputTokens(d) <= InputTokens(q)
      /\ d.prompt = q.prompt /\ d.fusion_exec = q.fusion_exec /\ d.params = q.params
      /\ d.begin = q.begin /\ d.end = q.end
  BY <1>1, <1>2, ComputedRecord
<1>4. /\ d.cached = q.cached \cup (IF Context(q) THEN q.begin .. q.end - 1 ELSE {})
      /\ d.generated = (IF FollowUp(q) THEN q.generated ELSE q.generated + 1)
      /\ d.outputs = (IF FollowUp(q) THEN q.outputs ELSE q.outputs + 1)
      /\ d.is_finished = (q.is_finished \/ (~ FollowUp(q) /\ q.generated + 1 >= m))
      /\ Context(d) => FollowUp(q) /\ Context(q)
  BY <1>1, <1>2, ComputedTokens
<1>5. PICK b \in BOOLEAN : b = (d.fusion_exec /\ r \notin home)
  OBVIOUS
<1>6. rp[r] = Marked(d, b)
  BY <1>1, <1>2, <1>5 DEF Answered, Marked
<1>7. /\ Marked(d, b) \in Record(Req)
      /\ SameLife(Marked(d, b), d) /\ Marked(d, b).fusion_exec = b
      /\ Marked(d, b).begin = d.begin /\ Marked(d, b).end = d.end
      /\ InputTokens(Marked(d, b)) = InputTokens(d)
      /\ Context(Marked(d, b)) = Context(d) /\ FollowUp(Marked(d, b)) = FollowUp(d)
      /\ Inside(Marked(d, b)) /\ Started(Marked(d, b))
  BY <1>3, MarkedRecord
<1>8. PICK c : c = Marked(d, b)
  OBVIOUS
<1>9. /\ c \in Record(Req) /\ Inside(c) /\ Started(c)
      /\ FollowUp(c) = FollowUp(q) /\ InputTokens(c) <= InputTokens(q)
      /\ c.prompt = q.prompt /\ c.params = q.params
      /\ c.begin = q.begin /\ c.end = q.end
      /\ c.cached = d.cached /\ c.generated = d.generated /\ c.outputs = d.outputs
      /\ c.is_finished = d.is_finished
      /\ Context(c) = Context(d)
  BY <1>3, <1>7, <1>8 DEF SameLife
<1>10. c.fusion_exec = (q.fusion_exec /\ r \notin home)
  BY <1>3, <1>5, <1>7, <1>8
<1> QED
  BY <1>1, <1>4, <1>6, <1>8, <1>9, <1>10

\* The queues after the answer of the workers.
LEMMA QueuesAnswered ==
  ASSUME NEW on, NEW rq, NEW run, NEW un, Queues(rq, run, un), Room(on, rq, run),
         NEW limit, NEW S, NEW home, NEW rp, Answered(rq, limit, S, home, rp), S \subseteq ToSet(run)
  PROVE  /\ Queues(rp, run, un) /\ Room(on, rp, run)
         /\ \A r \in Req : rp[r].prompt = rq[r].prompt
         /\ Afforded(on, rq, run) => Afforded(on, rp, run)
<1>1. /\ rq \in [Req -> Record(Req)] /\ run \in Seq(Req) /\ ToSet(run) \subseteq Req
      /\ un \in Seq(Req) /\ OneEach(run \o un)
      /\ ToSet(run) \cap ToSet(un) = {}
      /\ \A r \in Req : rq[r] \in Record(Req) /\ Inside(rq[r])
      /\ \A r \in ToSet(run) : Started(rq[r])
      /\ \A r \in ToSet(un) : Whole(rq[r])
  BY QueuesTyped DEF Queues
<1>2. ASSUME NEW r \in ToSet(run)
      PROVE  /\ rp[r] \in Record(Req) /\ Inside(rp[r]) /\ Started(rp[r])
             /\ FollowUp(rp[r]) = FollowUp(rq[r]) /\ InputTokens(rp[r]) <= InputTokens(rq[r])
             /\ rp[r].prompt = rq[r].prompt /\ (Context(rp[r]) => Context(rq[r]))
  <2>1. rq[r] \in Record(Req) /\ Inside(rq[r]) /\ Started(rq[r])
    BY <1>1
  <2>2. CASE r \in S
    BY <2>1, <2>2, AnsweredRecord
  <2>3. CASE r \notin S
    <3>1. rp[r] = rq[r]
      BY <1>1, <2>3 DEF Answered
    <3>2. InputTokens(rq[r]) \in Nat
      BY <2>1, InputTokensNat
    <3> QED
      BY <2>1, <3>1, <3>2
  <2> QED
    BY <2>2, <2>3
<1>3. \A r \in Req \ ToSet(run) : rp[r] = rq[r]
  BY DEF Answered
<1>4. rp \in [Req -> Record(Req)]
  <2>1. rp = [r \in Req |-> rp[r]]
    BY DEF Answered
  <2> QED
    BY <1>1, <1>2, <1>3, <2>1
<1>5. \A r \in Req : Inside(rp[r]) /\ rp[r].prompt = rq[r].prompt
  BY <1>1, <1>2, <1>3
<1>6. \A r \in ToSet(un) : Whole(rp[r])
  <2>1. ToSet(un) \subseteq Req
    BY <1>1, ToSetRange
  <2> QED
    BY <1>1, <1>3, <2>1
<1>7. Queues(rp, run, un)
  BY <1>1, <1>2, <1>4, <1>5, <1>6 DEF Queues
<1>8. TokensOf(rp, run) <= TokensOf(rq, run)
  BY <1>1, <1>2, <1>4, TokensLess
<1>9. TokensOf(rp, Prefills(rp, run)) <= TokensOf(rq, Prefills(rq, run))
  <2>1. \A r \in ToSet(run) \cap Req : InputTokens(rp[r]) <= InputTokens(rq[r])
                                       /\ (Context(rp[r]) => Context(rq[r]))
    BY <1>2
  <2>2. TokensOf(rp, Prefills(rp, Those(run, Req))) <= TokensOf(rq, Prefills(rq, run))
    BY <1>1, <1>4, <2>1, PrefillsLess
  <2>3. Those(run, Req) = run
    BY <1>1, ThoseAll
  <2> QED
    BY <2>2, <2>3
<1>10. /\ TokensOf(rp, run) \in Nat /\ TokensOf(rq, run) \in Nat
       /\ TokensOf(rp, Prefills(rp, run)) \in Nat /\ TokensOf(rq, Prefills(rq, run)) \in Nat
  <2>1. Prefills(rp, run) \in Seq(Req) /\ Prefills(rq, run) \in Seq(Req)
    BY <1>1, ThoseKept DEF Prefills
  <2> QED
    BY <1>1, <1>4, <2>1, TokensNat
<1>11. Budget \in Nat /\ MaxTokens \in Nat
  BY PrefillAssumption
<1>12. Room(on, rp, run)
  BY <1>2, <1>8, <1>10, <1>11 DEF Room
<1>13. Afforded(on, rq, run) => Afforded(on, rp, run)
  BY <1>8, <1>9, <1>10, <1>11 DEF Afforded
<1> QED
  BY <1>5, <1>7, <1>12, <1>13

-----------------------------------------------------------------------------
(* The inductive invariant behind the types.                               *)

\* The types of what is neither a queue nor a request.
Typed ==
  /\ phase \in {"initial", "balloon", "restore"}
  /\ chunking \in BOOLEAN /\ stopped \in BOOLEAN /\ failed \in BOOLEAN

\* What is in flight is in the running queue.
InFlight ==
  /\ step.busy \in BOOLEAN /\ step.batch \in Seq(Req)
  /\ ToSet(step.batch) \subseteq ToSet(running)
  /\ ~ step.busy => step.batch = <<>>

\* Whoever waits for an answer, or has it, has submitted a prompt.
Callers ==
  /\ streams \subseteq Req
  /\ \A r \in Req : (r \in streams \/ result[r] # 0) => req[r].prompt > 0
  /\ \A r \in streams : result[r] = 0
  /\ outbox \in Seq(SUBSET Req)
  /\ result = [r \in Req |-> result[r]]

\* The inductive invariant.
TypeInv ==
  /\ Typed /\ InFlight /\ Callers
  /\ Queues(req, running, unaccepted)
  /\ Room(chunking, req, running)

\* It holds at the start.
LEMMA TypeInvInit == Init => TypeInv
<1> SUFFICES ASSUME Init PROVE TypeInv
  OBVIOUS
<1>1. \A r \in Req : NoRequest \in Record(Req) /\ Inside(NoRequest)
  <2>1. ASSUME NEW r \in Req PROVE NoRequest \in Record(Req) /\ Inside(NoRequest)
    <3>1. PICK p \in Req : p = CHOOSE x \in Req : TRUE
      OBVIOUS
    <3>2. NewRequest(0, p) \in Record(Req) /\ Inside(NewRequest(0, p))
      BY NewRecord
    <3> QED
      BY <3>1, <3>2 DEF NoRequest
  <2> QED
    BY <2>1
<1>2. /\ running = <<>> /\ unaccepted = <<>> /\ outbox = <<>> /\ streams = {}
      /\ req = [r \in Req |-> NoRequest] /\ result = [r \in Req |-> 0]
      /\ step = NoStep
  BY DEF Init
<1>3. running \in Seq(Req) /\ unaccepted \in Seq(Req) /\ ToSet(running) = {} /\ ToSet(unaccepted) = {}
  BY <1>2, EmptySeq, ToSetEmpty
<1>4. OneEach(running \o unaccepted)
  <2>1. running \o unaccepted = <<>>
    BY <1>2, ConcatEmptySeq, EmptySeq
  <2>2. OneEach(<<>>)
    BY EmptySeq DEF OneEach
  <2> QED
    BY <2>1, <2>2
<1>5. Queues(req, running, unaccepted)
  BY <1>1, <1>2, <1>3, <1>4 DEF Queues
<1>6. Room(chunking, req, running)
  BY <1>3 DEF Room
<1>7. InFlight
  BY <1>2, <1>3, EmptySeq DEF InFlight, NoStep
<1>8. Callers
  BY <1>2, EmptySeq DEF Callers
<1>9. Typed
  BY PrefillAssumption DEF Init, Typed
<1> QED
  BY <1>5, <1>6, <1>7, <1>8, <1>9 DEF TypeInv

\* An answer adds tokens; then the next batch is made, unless the engine has
\* been stopped.
LEMMA EndStepParts ==
  ASSUME EndStep, InFlight
  PROVE  \/ failed' = TRUE /\ UNCHANGED <<req, max_tokens, unaccepted, running, outbox>>
         \/ \E S, home, rq, A :
              /\ Answered(req, max_tokens, S, home, rq)
              /\ S \subseteq ToSet(step.batch)
              /\ ~ stopped => S = ToSet(step.batch)
              /\ home # {} => phase = "restore"
              /\ A \subseteq {r \in S : Computed(req[r], max_tokens[req[r].params]).is_finished}
              /\ outbox' = outbox \/ outbox' = Append(outbox, A)
              /\ stopped => /\ req' = rq
                            /\ UNCHANGED <<max_tokens, unaccepted, running, failed>>
              /\ ~ stopped => GetNextBatch(chunking, Fused, rq, max_tokens, running, unaccepted)
<1>1. PICK batch \in Executed :
       LET S == ToSet(batch)
           pipe == {r \in S : req[r].fusion_exec}
           answered == {r \in S : LET c == Computed(req[r], max_tokens[req[r].params])
                                  IN  c.generated > 0 /\ c.is_finished}
       IN  IF Raises(S)
           THEN /\ failed' = TRUE
                /\ UNCHANGED <<req, max_tokens, unaccepted, running, outbox,
                               num_preemption>>
           ELSE /\ outbox' = IF answered = {} THEN outbox ELSE Append(outbox, answered)
                /\ \E home \in SUBSET (IF phase = "restore" THEN pipe ELSE {}) :
                     LET rq == [r \in Req |->
                           IF r \in S
                           THEN [Computed(req[r], max_tokens[req[r].params])
                                   EXCEPT !.fusion_exec = @ /\ r \notin home]
                           ELSE req[r]]
                     IN  IF stopped
                         THEN /\ req' = rq
                              /\ UNCHANGED <<max_tokens, unaccepted, running,
                                             num_preemption, failed>>
                         ELSE GetNextBatch(chunking, Fused, rq, max_tokens, running,
                                           unaccepted)
  BY Zenon DEF EndStep
<1>2. PICK S, A : /\ S = ToSet(batch)
                  /\ A = {r \in S : LET c == Computed(req[r], max_tokens[req[r].params])
                                    IN  c.generated > 0 /\ c.is_finished}
  OBVIOUS
<1>3. CASE Raises(S)
  BY <1>1, <1>2, <1>3
<1>4. CASE ~ Raises(S)
  <2>1. outbox' = outbox \/ outbox' = Append(outbox, A)
    BY <1>1, <1>2, <1>4, Zenon
  <2>2. PICK home \in SUBSET (IF phase = "restore" THEN {r \in S : req[r].fusion_exec} ELSE {}) :
          LET rq == [r \in Req |->
                       IF r \in S
                       THEN [Computed(req[r], max_tokens[req[r].params])
                               EXCEPT !.fusion_exec = @ /\ r \notin home]
                       ELSE req[r]]
          IN  IF stopped
              THEN /\ req' = rq
                   /\ UNCHANGED <<max_tokens, unaccepted, running, num_preemption, failed>>
              ELSE GetNextBatch(chunking, Fused, rq, max_tokens, running, unaccepted)
    BY <1>1, <1>2, <1>4, Zenon
  <2>3. PICK rq : rq = [r \in Req |->
                       IF r \in S
                       THEN [Computed(req[r], max_tokens[req[r].params])
                               EXCEPT !.fusion_exec = @ /\ r \notin home]
                       ELSE req[r]]
    OBVIOUS
  <2>4. /\ stopped => /\ req' = rq
                      /\ UNCHANGED <<max_tokens, unaccepted, running, failed>>
        /\ ~ stopped => GetNextBatch(chunking, Fused, rq, max_tokens, running, unaccepted)
    BY <2>2, <2>3, Zenon
  <2>5. /\ batch \in Seq(Req) /\ ToSet(batch) \subseteq ToSet(step.batch)
        /\ ~ stopped => batch = step.batch
    <3>1. \A X : Those(step.batch, X) \in Seq(Req)
                 /\ ToSet(Those(step.batch, X)) \subseteq ToSet(step.batch)
      BY ThoseKept DEF InFlight
    <3> QED
      BY <1>1, <3>1 DEF Executed, InFlight
  <2>6. S \subseteq ToSet(step.batch) /\ (~ stopped => S = ToSet(step.batch)) /\ S \in SUBSET Req
    BY <1>2, <2>5, ToSetRange
  <2>7. Answered(req, max_tokens, S, home, rq)
    BY <2>3, <2>6 DEF Answered
  <2>8. A \subseteq {r \in S : Computed(req[r], max_tokens[req[r].params]).is_finished}
    BY <1>2
  <2>9. home # {} => phase = "restore"
    BY <2>2
  <2> QED
    BY <2>1, <2>4, <2>6, <2>7, <2>8, <2>9, Zenon
<1> QED
  BY <1>3, <1>4

\* Requests in the running queue start again, or go on in the pipeline.
LEMMA BalloonParts ==
  ASSUME Balloon, Queues(req, running, unaccepted)
  PROVE  \E again, rq :
           /\ Again(req, running, again, rq)
           /\ again = IF Mode = "recompute" THEN {r \in ToSet(running) : ~ req[r].fusion_exec} ELSE {}
           /\ \A r \in ToSet(running) \ again : rq[r].fusion_exec
           /\ GetNextBatch(TRUE, TRUE, rq, Charged(max_tokens, req, again),
                           Those(running, Req \ again), Requeued(running, again, unaccepted))
<1>1. PICK stale, again :
        /\ stale = {r \in ToSet(running) : ~ req[r].fusion_exec}
        /\ again = IF Mode = "recompute" THEN stale ELSE {}
  OBVIOUS
<1>2. PICK rq : rq = [r \in Req |-> IF r \in again THEN Recomputed(req[r])
                                    ELSE IF r \in stale THEN [req[r] EXCEPT !.fusion_exec = TRUE]
                                    ELSE req[r]]
  OBVIOUS
<1>3. GetNextBatch(TRUE, TRUE, rq, Charged(max_tokens, req, again),
                   Those(running, Req \ again), Requeued(running, again, unaccepted))
  BY <1>1, <1>2, Zenon DEF Balloon
<1>4. /\ again \in SUBSET ToSet(running) /\ stale \in SUBSET ToSet(running)
      /\ ToSet(running) \subseteq Req
  BY <1>1, QueuesTyped
<1>5. Again(req, running, again, rq)
  BY <1>2, <1>4 DEF Again, Marked
<1>6. ASSUME NEW r \in ToSet(running) \ again PROVE rq[r].fusion_exec
  <2>1. r \in Req /\ req[r] \in Record(Req)
    BY <1>4, QueuesTyped
  <2>2. CASE r \in stale
    <3>1. rq[r] = Marked(req[r], TRUE)
      BY <1>2, <2>1, <2>2 DEF Marked
    <3> QED
      BY <2>1, <3>1, MarkedRecord
  <2>3. CASE r \notin stale
    BY <1>1, <1>2, <2>1, <2>3
  <2> QED
    BY <2>2, <2>3
<1> QED
  BY <1>1, <1>3, <1>5, <1>6, Zenon

\* Prompts grow, if anything.
LEMMA PromptsStay ==
  ASSUME NEW rq, NEW run, NEW un, Queues(rq, run, un), NEW V \in SUBSET ToSet(run), NEW rp,
         Lives(V, rq, rp), NEW r \in Req, rq[r].prompt > 0
  PROVE  rp[r].prompt > 0
<1>1. rq[r] \in Record(Req) /\ Inside(rq[r]) /\ (r \in V => Started(rq[r]))
  BY QueuesTyped DEF Queues
<1>2. rq[r].prompt \in Nat /\ rq[r].generated \in Nat
  BY <1>1 DEF Record
<1>3. r \in V => Recomputed(rq[r]).prompt = rq[r].prompt + rq[r].generated
  BY <1>1, RecomputedRecord
<1>4. rp[r].prompt = IF r \in V THEN Recomputed(rq[r]).prompt ELSE rq[r].prompt
  BY DEF Lives, After, SameLife
<1> QED
  BY <1>2, <1>3, <1>4

\* Where some start again before the batch is made, nobody loses the room.
LEMMA RoomAgain ==
  ASSUME NEW on, NEW rq, NEW run, NEW un, Queues(rq, run, un), Room(on, rq, run),
         NEW V, NEW rq1, Again(rq, run, V, rq1)
  PROVE  /\ Room(TRUE, rq1, Those(run, Req \ V))
         /\ TokensOf(rq1, Those(run, Req \ V)) <= TokensOf(rq, run)
<1>1. /\ rq \in [Req -> Record(Req)] /\ run \in Seq(Req) /\ ToSet(run) \subseteq Req
      /\ \A r \in Req : rq[r] \in Record(Req)
  BY QueuesTyped DEF Queues
<1>2. PICK run1 : run1 = Those(run, Req \ V)
  OBVIOUS
<1>3. run1 \in Seq(Req) /\ ToSet(run1) \subseteq ToSet(run) \ V
  <2>1. ToSet(Those(run, Req \ V)) = ToSet(run) \cap (Req \ V)
    BY <1>1, ThoseKept
  <2>2. Those(run, Req \ V) \in Seq(Req)
    BY <1>1, ThoseKept
  <2> QED
    BY <1>2, <2>1, <2>2
<1>4. rq1 \in [Req -> Record(Req)]
  BY QueuesAgain DEF Queues
<1>5. ASSUME NEW r \in ToSet(run1)
      PROVE  InputTokens(rq1[r]) <= InputTokens(rq[r]) /\ FollowUp(rq1[r]) = FollowUp(rq[r])
  <2>1. r \in Req \ V /\ rq[r] \in Record(Req)
    BY <1>1, <1>3
  <2>2. rq1[r] = rq[r] \/ rq1[r] = Marked(rq[r], TRUE)
    BY <2>1 DEF Again
  <2>3. /\ InputTokens(Marked(rq[r], TRUE)) = InputTokens(rq[r])
        /\ FollowUp(Marked(rq[r], TRUE)) = FollowUp(rq[r])
    BY <2>1, MarkedRecord
  <2>4. InputTokens(rq[r]) \in Nat
    BY <2>1, InputTokensNat
  <2>5. CASE rq1[r] = rq[r]
    BY <2>4, <2>5
  <2>6. CASE rq1[r] = Marked(rq[r], TRUE)
    <3>1. InputTokens(rq1[r]) = InputTokens(rq[r]) /\ FollowUp(rq1[r]) = FollowUp(rq[r])
      BY <2>3, <2>6, Zenon
    <3> QED
      BY <2>4, <3>1
  <2> QED
    BY <2>2, <2>5, <2>6
<1>6. TokensOf(rq1, run1) <= TokensOf(rq, run1)
  BY <1>1, <1>3, <1>4, <1>5, TokensLess
<1>7. TokensOf(rq, run1) <= TokensOf(rq, run)
  BY <1>1, <1>2, TokensThose
<1>8. /\ TokensOf(rq1, run1) \in Nat /\ TokensOf(rq, run1) \in Nat /\ TokensOf(rq, run) \in Nat
      /\ Budget \in Nat
  BY <1>1, <1>3, <1>4, TokensNat, PrefillAssumption
<1>9. TokensOf(rq1, run1) <= TokensOf(rq, run)
  BY <1>6, <1>7, <1>8
<1>10. Room(TRUE, rq1, run1)
  <2> SUFFICES ASSUME NEW r \in ToSet(run1), FollowUp(rq1[r])
               PROVE  TokensOf(rq1, run1) <= Budget
    BY DEF Room
  <2>1. r \in ToSet(run) /\ FollowUp(rq[r])
    BY <1>3, <1>5
  <2>2. TokensOf(rq, run) <= Budget
    BY <2>1 DEF Room
  <2> QED
    BY <1>8, <1>9, <2>2
<1> QED
  BY <1>2, <1>9, <1>10

\* What a batch leaves as it was for those who are called back.
LEMMA CallersStay ==
  ASSUME Callers, streams' = streams, result' = result,
         outbox' \in Seq(SUBSET Req),
         \A r \in Req : req[r].prompt > 0 => req'[r].prompt > 0
  PROVE  Callers'
  BY DEF Callers

\* Every step keeps it.
LEMMA TypeInvNext == TypeInv /\ [Next]_vars => TypeInv'
<1> SUFFICES ASSUME TypeInv, [Next]_vars PROVE TypeInv'
  OBVIOUS
<1>0. /\ Typed /\ InFlight /\ Callers
      /\ Queues(req, running, unaccepted) /\ Room(chunking, req, running)
      /\ running \in Seq(Req) /\ ToSet(running) \subseteq Req /\ unaccepted \in Seq(Req)
      /\ \A r \in Req : req[r] \in Record(Req)
  BY QueuesTyped DEF TypeInv, Queues
<1>1. CASE \E S \in SUBSET Req : Submit(S)
  <2>1. PICK S \in SUBSET Req : Submit(S)
    BY <1>1
  <2>6. Enlisted(req, unaccepted, S, req', unaccepted')
    BY <2>1, SubmitEnlists
  <2>7. /\ Queues(req', running, unaccepted') /\ Room(chunking, req', running)
    BY <1>0, <2>6, QueuesNew
  <2>8. UNCHANGED <<phase, chunking, stopped, failed, step, running, outbox, result>>
    BY <2>1 DEF Submit, outputs
  <2>9. Callers'
    <3>1. ASSUME NEW r \in S PROVE req'[r].prompt > 0 /\ req[r].prompt = 0
      <4>1. PICK n \in Nat \ {0}, p \in S : req'[r] = NewRequest(n, p)
        BY <2>6 DEF Enlisted
      <4>2. NewRequest(n, p).prompt = n
        BY DEF NewRequest
      <4> QED
        BY <2>6, <4>1, <4>2 DEF Enlisted
    <3>2. \A r \in Req : (req[r].prompt > 0 \/ r \in S) => req'[r].prompt > 0
      BY <2>6, <3>1 DEF Enlisted
    <3>3. \A r \in S : result[r] = 0
      BY <1>0, <2>1, <3>1 DEF Callers
    <3>4. streams' = streams \cup S
      BY <2>1 DEF Submit
    <3> QED
      BY <1>0, <2>8, <3>2, <3>3, <3>4 DEF Callers
  <2>10. Typed' /\ InFlight'
    BY <1>0, <2>8 DEF Typed, InFlight
  <2> QED
    BY <2>7, <2>8, <2>9, <2>10 DEF TypeInv
<1>2. CASE StartStep
  <2>1. UNCHANGED <<phase, chunking, stopped, failed, req, running, unaccepted, outbox, streams, result>>
    BY <1>2 DEF StartStep, outputs
  <2>2. step' = [busy |-> TRUE, batch |-> Scheduled]
    BY <1>2 DEF StartStep
  <2>3. Scheduled \in Seq(Req) /\ ToSet(Scheduled) \subseteq ToSet(running)
    <3>1. \A X : Those(running, X) \in Seq(Req) /\ ToSet(Those(running, X)) \subseteq ToSet(running)
      BY <1>0, ThoseKept
    <3>2. PICK t : t = ToRun(req, running)
      OBVIOUS
    <3>3. t \in Seq(Req) /\ ToSet(t) \subseteq ToSet(running)
      BY <1>0, <3>1, <3>2 DEF ToRun, Prefills
    <3>4. \A X : Those(t, X) \in Seq(Req) /\ ToSet(Those(t, X)) \subseteq ToSet(t)
      BY <3>3, ThoseKept
    <3> QED
      BY <3>2, <3>3, <3>4 DEF Scheduled
  <2>4. InFlight'
    BY <2>1, <2>2, <2>3 DEF InFlight
  <2>5. Typed' /\ Callers'
    BY <1>0, <2>1 DEF Typed, Callers
  <2> QED
    BY <1>0, <2>1, <2>4, <2>5 DEF TypeInv
<1>3. CASE EndStep
  <2>1. UNCHANGED <<phase, chunking, stopped, streams, result>> /\ step' = NoStep
    BY <1>3 DEF EndStep, outputs
  <2>2. InFlight'
    BY <2>1, ToSetEmpty, EmptySeq DEF InFlight, NoStep
  <2>3. CASE failed' = TRUE /\ UNCHANGED <<req, max_tokens, unaccepted, running, outbox>>
    <3>1. Typed' /\ Callers'
      BY <1>0, <2>1, <2>3 DEF Typed, Callers
    <3> QED
      BY <1>0, <2>1, <2>2, <2>3, <3>1 DEF TypeInv
  <2>4. ASSUME NEW S, NEW home, NEW rq, NEW A,
               /\ Answered(req, max_tokens, S, home, rq)
               /\ S \subseteq ToSet(step.batch)
               /\ A \subseteq {r \in S : Computed(req[r], max_tokens[req[r].params]).is_finished}
               /\ outbox' = outbox \/ outbox' = Append(outbox, A)
               /\ stopped => /\ req' = rq
                             /\ UNCHANGED <<max_tokens, unaccepted, running, failed>>
               /\ ~ stopped => GetNextBatch(chunking, Fused, rq, max_tokens, running, unaccepted)
        PROVE  TypeInv'
    <3>1. S \subseteq ToSet(running) /\ A \in SUBSET Req
      BY <1>0, <2>4 DEF InFlight
    <3>2. /\ Queues(rq, running, unaccepted) /\ Room(chunking, rq, running)
          /\ \A r \in Req : rq[r].prompt = req[r].prompt
      BY <1>0, <2>4, <3>1, QueuesAnswered
    <3>3. outbox' \in Seq(SUBSET Req)
      <4>1. outbox \in Seq(SUBSET Req)
        BY <1>0 DEF Callers
      <4>2. Append(outbox, A) \in Seq(SUBSET Req)
        BY <3>1, <4>1, AppendProperties
      <4> QED
        BY <2>4, <4>1, <4>2
    <3>4. /\ Queues(req', running', unaccepted') /\ Room(chunking, req', running')
          /\ failed' \in BOOLEAN
          /\ \A r \in Req : req[r].prompt > 0 => req'[r].prompt > 0
      <4>1. CASE stopped
        BY <1>0, <2>4, <3>2, <4>1 DEF Typed
      <4>2. CASE ~ stopped
        <5>1. chunking \in BOOLEAN /\ Fused \in BOOLEAN
          BY <1>0 DEF Typed, Fused
        <5>2. GetNextBatch(chunking, Fused, rq, max_tokens, running, unaccepted)
          BY <2>4, <4>2
        <5>3. /\ Queues(req', running', unaccepted') /\ Room(chunking, req', running')
              /\ failed' \in BOOLEAN
              /\ \E V \in SUBSET ToSet(running) : Lives(V, rq, req')
          BY <3>2, <5>1, <5>2, NextBatch, Zenon
        <5>4. \A r \in Req : rq[r].prompt > 0 => req'[r].prompt > 0
          BY <3>2, <5>3, PromptsStay
        <5> QED
          BY <3>2, <5>3, <5>4
      <4> QED
        BY <1>0, <4>1, <4>2 DEF Typed
    <3>5. Callers'
      BY <1>0, <2>1, <3>3, <3>4, CallersStay
    <3>6. Typed'
      BY <1>0, <2>1, <3>4 DEF Typed
    <3> QED
      BY <2>1, <2>2, <3>4, <3>5, <3>6 DEF TypeInv
  <2> QED
    BY <1>0, <1>3, <2>3, <2>4, EndStepParts
<1>4. CASE Stop
  <2>1. /\ UNCHANGED <<phase, chunking, step, failed, req, running, unaccepted, outbox, streams, result>>
        /\ stopped' = TRUE
    BY <1>4 DEF Stop, outputs
  <2> QED
    BY <1>0, <2>1 DEF TypeInv, Typed, InFlight, Callers
<1>5. CASE Balloon
  <2>1. /\ UNCHANGED <<step, outbox, streams, result>>
        /\ phase' = "balloon" /\ chunking' = TRUE /\ stopped' = FALSE
        /\ ~ step.busy
    BY <1>5 DEF Balloon, Quiet, outputs
  <2>2. PICK again, rq :
           /\ Again(req, running, again, rq)
           /\ GetNextBatch(TRUE, TRUE, rq, Charged(max_tokens, req, again),
                           Those(running, Req \ again), Requeued(running, again, unaccepted))
    BY <1>0, <1>5, BalloonParts, Zenon
  <2>3. PICK run1, un1, limit : /\ run1 = Those(running, Req \ again)
                                /\ un1 = Requeued(running, again, unaccepted)
                                /\ limit = Charged(max_tokens, req, again)
    OBVIOUS
  <2>4. Queues(rq, run1, un1) /\ Room(TRUE, rq, run1)
    BY <1>0, <2>2, <2>3, QueuesAgain, RoomAgain
  <2>5. GetNextBatch(TRUE, TRUE, rq, limit, run1, un1)
    BY <2>2, <2>3, Zenon
  <2>6. /\ Queues(req', running', unaccepted') /\ Room(TRUE, req', running')
        /\ failed' \in BOOLEAN
        /\ \E V \in SUBSET ToSet(run1) : Lives(V, rq, req')
    <3>1. TRUE \in BOOLEAN
      OBVIOUS
    <3> QED
      BY <2>4, <2>5, <3>1, NextBatch, Zenon
  <2>7. \A r \in Req : rq[r].prompt > 0 => req'[r].prompt > 0
    BY <2>4, <2>6, PromptsStay
  <2>8. \A r \in Req : req[r].prompt > 0 => rq[r].prompt > 0
    <3>1. ASSUME NEW r \in Req, req[r].prompt > 0 PROVE rq[r].prompt > 0
      <4>1. CASE r \in again
        <5>1. r \in ToSet(running) /\ Inside(req[r]) /\ Started(req[r])
          BY <1>0, <2>2, <4>1 DEF Again, Queues
        <5>2. rq[r].prompt = req[r].prompt + req[r].generated
          BY <1>0, <2>2, <4>1, <5>1, RecomputedRecord DEF Again
        <5>3. req[r].prompt \in Nat /\ req[r].generated \in Nat
          BY <1>0 DEF Record
        <5> QED
          BY <3>1, <5>2, <5>3
      <4>2. CASE r \notin again
        <5>1. rq[r] = req[r] \/ rq[r] = Marked(req[r], TRUE)
          BY <2>2, <4>2 DEF Again
        <5>2. Marked(req[r], TRUE).prompt = req[r].prompt
          BY <1>0, MarkedRecord DEF SameLife
        <5> QED
          BY <3>1, <5>1, <5>2
      <4> QED
        BY <4>1, <4>2
    <3> QED
      BY <3>1
  <2>9. Callers'
    <3>1. outbox' \in Seq(SUBSET Req)
      BY <1>0, <2>1 DEF Callers
    <3> QED
      BY <1>0, <2>1, <2>7, <2>8, <3>1, CallersStay
  <2>10. InFlight'
    BY <1>0, <2>1, ToSetEmpty DEF InFlight
  <2>11. Typed'
    BY <2>1, <2>6 DEF Typed
  <2> QED
    BY <2>1, <2>6, <2>9, <2>10, <2>11 DEF TypeInv
<1>6. CASE Restore \/ InitAgain
  <2>1. /\ UNCHANGED <<chunking, step, failed, req, running, unaccepted, outbox, streams, result>>
        /\ phase' \in {"restore", "initial"} /\ stopped' = FALSE
    BY <1>6 DEF Restore, InitAgain, Restart, outputs
  <2> QED
    BY <1>0, <2>1 DEF TypeInv, Typed, InFlight, Callers
<1>7. CASE Put
  <2>1. /\ UNCHANGED <<phase, chunking, stopped, step, failed, req, running, unaccepted, streams, result>>
        /\ outbox # <<>> /\ outbox' = Tail(outbox)
    BY <1>7 DEF Put
  <2>2. outbox' \in Seq(SUBSET Req)
    BY <1>0, <2>1, HeadTailProperties DEF Callers
  <2> QED
    BY <1>0, <2>1, <2>2 DEF TypeInv, Typed, InFlight, Callers
<1>8. CASE \E list \in sent : GetOutputs(list)
  <2>1. PICK list \in sent : GetOutputs(list)
    BY <1>8
  <2>2. /\ UNCHANGED <<phase, chunking, stopped, step, failed, req, running, unaccepted, outbox>>
        /\ result' = [r \in Req |-> IF r \in DOMAIN list \cap streams THEN list[r] ELSE result[r]]
        /\ streams' = streams \ DOMAIN list
    BY <2>1 DEF GetOutputs, Finish
  <2>3. Callers'
    BY <1>0, <2>2 DEF Callers
  <2> QED
    BY <1>0, <2>2, <2>3 DEF TypeInv, Typed, InFlight
<1>9. CASE UNCHANGED vars
  BY <1>0, <1>9 DEF vars, outputs, TypeInv, Typed, InFlight, Callers
<1> QED
  BY <1>1, <1>2, <1>3, <1>4, <1>5, <1>6, <1>7, <1>8, <1>9 DEF Next

\* It has the types of TypeOK as a part.
LEMMA TypeInvTypes == TypeInv => TypeOK
<1> SUFFICES ASSUME TypeInv PROVE TypeOK
  OBVIOUS
<1>1. ASSUME NEW r \in Req
      PROVE  /\ req[r].begin \in 0 .. req[r].end
             /\ req[r].end \in 0 .. req[r].prompt
             /\ req[r].cached \subseteq 0 .. req[r].prompt - 1
  <2>1. req[r] \in Record(Req) /\ Inside(req[r])
    BY QueuesTyped DEF TypeInv, Queues
  <2> QED
    BY <2>1 DEF Record, Inside
<1>2. {chunking, stopped, failed} \subseteq BOOLEAN /\ phase \in {"initial", "balloon", "restore"}
  BY DEF TypeInv, Typed
<1>3. step.batch \in Seq(Req) /\ unaccepted \in Seq(Req) /\ running \in Seq(Req)
  BY DEF TypeInv, InFlight, Queues
<1>4. outbox \in Seq(SUBSET Req) /\ streams \subseteq {r \in Req : result[r] = 0}
  BY DEF TypeInv, Callers
<1> QED
  BY <1>1, <1>2, <1>3, <1>4 DEF TypeOK

\* Every variable keeps its type, for every number and length of prompts, every
\* budget and size of a batch and both modes of a change of state: the chunk of a
\* request lies inside its prompt, keys and values are those of the prompt, and no
\* stream is open to a caller that has its answer.  The invariant behind it says
\* more: no request is in two queues or in one of them twice, and whoever runs has
\* tokens to compute, so that set_chunk and allocate_next_chunk (request.py) never
\* make an empty chunk.
THEOREM Types == Spec => []TypeOK
<1>1. Init => TypeInv
  BY TypeInvInit
<1>2. TypeInv /\ [Next]_vars => TypeInv'
  BY TypeInvNext
<1>3. TypeInv => TypeOK
  BY TypeInvTypes
<1> QED
  BY <1>1, <1>2, <1>3, PTL DEF Spec

-----------------------------------------------------------------------------
(* What a step of the engine and a switch to the pipeline make of the      *)
(* requests, in one formula each.                                          *)

\* The next batch was made from these.
Made(on, fx, rq, limit, run) ==
  /\ Afforded(on, rq, run) => Afforded(on, req', running')
  /\ \E V \in SUBSET ToSet(run) :
       /\ \A r \in V : ~ Context(rq[r])
       /\ max_tokens' = Charged(limit, rq, V)
       /\ Lives(V, rq, req')
       /\ Runs(V, fx, rq, run, req', running')

\* A step ends: the scheduler has failed, or the requests of S are answered, those
\* of `home` go back to their home groups, and the next batch is made.
LEMMA EndStepMoves ==
  ASSUME TypeInv, EndStep
  PROVE  \/ failed' = TRUE /\ UNCHANGED <<req, max_tokens, unaccepted, running, outbox>>
         \/ \E S, home, rq, A :
              /\ Answered(req, max_tokens, S, home, rq)
              /\ Queues(rq, running, unaccepted)
              /\ Afforded(chunking, req, running) => Afforded(chunking, rq, running)
              /\ S \subseteq ToSet(step.batch)
              /\ ~ stopped => S = ToSet(step.batch)
              /\ home # {} => phase = "restore"
              /\ A \subseteq {r \in S : Computed(req[r], max_tokens[req[r].params]).is_finished}
              /\ outbox' = outbox \/ outbox' = Append(outbox, A)
              /\ stopped => req' = rq /\ UNCHANGED <<max_tokens, unaccepted, running>>
              /\ ~ stopped => Made(chunking, Fused, rq, max_tokens, running)
<1>0. InFlight /\ Queues(req, running, unaccepted) /\ Room(chunking, req, running)
  BY DEF TypeInv
<1>1. CASE failed' = TRUE /\ UNCHANGED <<req, max_tokens, unaccepted, running, outbox>>
  BY <1>1
<1>2. ASSUME NEW S, NEW home, NEW rq, NEW A,
             Answered(req, max_tokens, S, home, rq),
             S \subseteq ToSet(step.batch),
             ~ stopped => S = ToSet(step.batch),
             home # {} => phase = "restore",
             A \subseteq {r \in S : Computed(req[r], max_tokens[req[r].params]).is_finished},
             outbox' = outbox \/ outbox' = Append(outbox, A),
             stopped => /\ req' = rq
                        /\ UNCHANGED <<max_tokens, unaccepted, running, failed>>,
             ~ stopped => GetNextBatch(chunking, Fused, rq, max_tokens, running, unaccepted)
      PROVE  /\ Queues(rq, running, unaccepted)
             /\ Afforded(chunking, req, running) => Afforded(chunking, rq, running)
             /\ stopped => req' = rq /\ UNCHANGED <<max_tokens, unaccepted, running>>
             /\ ~ stopped => Made(chunking, Fused, rq, max_tokens, running)
  <2>1. S \subseteq ToSet(running)
    BY <1>0, <1>2 DEF InFlight
  <2>2. /\ Queues(rq, running, unaccepted) /\ Room(chunking, rq, running)
        /\ Afforded(chunking, req, running) => Afforded(chunking, rq, running)
    BY <1>0, <1>2, <2>1, QueuesAnswered
  <2>3. ASSUME ~ stopped PROVE Made(chunking, Fused, rq, max_tokens, running)
    <3>1. chunking \in BOOLEAN /\ Fused \in BOOLEAN
      BY DEF TypeInv, Typed, Fused
    <3>2. GetNextBatch(chunking, Fused, rq, max_tokens, running, unaccepted)
      BY <1>2, <2>3
    <3> QED
      BY <2>2, <3>1, <3>2, NextBatch, Zenon DEF Made
  <2> QED
    BY <1>2, <2>2, <2>3
<1>3. CASE \E S, home, rq, A :
              /\ Answered(req, max_tokens, S, home, rq)
              /\ S \subseteq ToSet(step.batch)
              /\ ~ stopped => S = ToSet(step.batch)
              /\ home # {} => phase = "restore"
              /\ A \subseteq {r \in S : Computed(req[r], max_tokens[req[r].params]).is_finished}
              /\ outbox' = outbox \/ outbox' = Append(outbox, A)
              /\ stopped => /\ req' = rq
                            /\ UNCHANGED <<max_tokens, unaccepted, running, failed>>
              /\ ~ stopped => GetNextBatch(chunking, Fused, rq, max_tokens, running, unaccepted)
  <2>1. PICK S, home, rq, A :
              /\ Answered(req, max_tokens, S, home, rq)
              /\ S \subseteq ToSet(step.batch)
              /\ ~ stopped => S = ToSet(step.batch)
              /\ home # {} => phase = "restore"
              /\ A \subseteq {r \in S : Computed(req[r], max_tokens[req[r].params]).is_finished}
              /\ outbox' = outbox \/ outbox' = Append(outbox, A)
              /\ stopped => /\ req' = rq
                            /\ UNCHANGED <<max_tokens, unaccepted, running, failed>>
              /\ ~ stopped => GetNextBatch(chunking, Fused, rq, max_tokens, running, unaccepted)
    BY <1>3
  <2>2. /\ Queues(rq, running, unaccepted)
        /\ Afforded(chunking, req, running) => Afforded(chunking, rq, running)
        /\ stopped => req' = rq /\ UNCHANGED <<max_tokens, unaccepted, running>>
        /\ ~ stopped => Made(chunking, Fused, rq, max_tokens, running)
    BY <1>2, <2>1, Zenon
  <2> QED
    BY <2>1, <2>2, Zenon
<1> QED
  BY <1>0, <1>1, <1>3, EndStepParts, Zenon

\* A switch to the pipeline: who starts again is in `again`, all others have its format.
LEMMA BalloonMoves ==
  ASSUME TypeInv, Balloon
  PROVE  \E again, rq, run :
           /\ Again(req, running, again, rq)
           /\ again = IF Mode = "recompute" THEN {r \in ToSet(running) : ~ req[r].fusion_exec} ELSE {}
           /\ \A r \in ToSet(running) \ again : rq[r].fusion_exec
           /\ run \in Seq(Req) /\ ToSet(run) = ToSet(running) \ again
           /\ rq \in [Req -> Record(Req)]
           /\ TokensOf(rq, run) <= TokensOf(req, running)
           /\ Made(TRUE, TRUE, rq, Charged(max_tokens, req, again), run)
<1>0. Queues(req, running, unaccepted) /\ Room(chunking, req, running)
  BY DEF TypeInv
<1>1. PICK again, rq :
           /\ Again(req, running, again, rq)
           /\ again = IF Mode = "recompute" THEN {r \in ToSet(running) : ~ req[r].fusion_exec} ELSE {}
           /\ \A r \in ToSet(running) \ again : rq[r].fusion_exec
           /\ GetNextBatch(TRUE, TRUE, rq, Charged(max_tokens, req, again),
                           Those(running, Req \ again), Requeued(running, again, unaccepted))
  BY <1>0, BalloonParts, Zenon
<1>2. PICK run, un, limit : /\ run = Those(running, Req \ again)
                            /\ un = Requeued(running, again, unaccepted)
                            /\ limit = Charged(max_tokens, req, again)
  OBVIOUS
<1>3. /\ Queues(rq, run, un) /\ Room(TRUE, rq, run) /\ TokensOf(rq, run) <= TokensOf(req, running)
      /\ ToSet(run) = ToSet(running) \ again
  <2>1. Again(req, running, again, rq)
    BY <1>1
  <2>2. /\ Queues(rq, Those(running, Req \ again), Requeued(running, again, unaccepted))
        /\ ToSet(Those(running, Req \ again)) = ToSet(running) \ again
    BY <1>0, <2>1, QueuesAgain
  <2>3. /\ Room(TRUE, rq, Those(running, Req \ again))
        /\ TokensOf(rq, Those(running, Req \ again)) <= TokensOf(req, running)
    BY <1>0, <2>1, RoomAgain
  <2> QED
    BY <1>2, <2>2, <2>3
<1>4. GetNextBatch(TRUE, TRUE, rq, limit, run, un)
  BY <1>1, <1>2, Zenon
<1>5. Made(TRUE, TRUE, rq, limit, run)
  <2>1. TRUE \in BOOLEAN
    OBVIOUS
  <2> QED
    BY <1>3, <1>4, <2>1, NextBatch, Zenon DEF Made
<1>6. run \in Seq(Req) /\ rq \in [Req -> Record(Req)]
  BY <1>3 DEF Queues
<1>7. Made(TRUE, TRUE, rq, Charged(max_tokens, req, again), run)
  BY <1>2, <1>5, Zenon
<1> QED
  BY <1>1, <1>3, <1>6, <1>7, Zenon

\* A request that stays in the batch keeps its format and its life.
LEMMA StaysKeeps ==
  ASSUME NEW p \in Record(Req), NEW q, Stays(p, q)
  PROVE  /\ SameLife(q, p) /\ q.fusion_exec = p.fusion_exec
         /\ q = p \/ (FollowUp(p) /\ q.begin = p.end)
<1>1. CASE q = p
  BY <1>1 DEF SameLife
<1>2. CASE FollowUp(p) /\ \E extra \in Nat : q = NextChunk(p, extra)
  <2>1. PICK extra \in Nat : q = NextChunk(p, extra)
    BY <1>2
  <2>2. /\ NextChunk(p, extra).begin = p.end
        /\ NextChunk(p, extra).fusion_exec = p.fusion_exec
        /\ SameLife(NextChunk(p, extra), p)
    BY NextChunkRecord
  <2> QED
    BY <1>2, <2>1, <2>2
<1> QED
  BY <1>1, <1>2 DEF Stays

-----------------------------------------------------------------------------
(* The format of whoever is in the running queue is that of the group.     *)

Formats ==
  /\ phase = "initial" \/ (phase = "restore" /\ stopped)
       => \A r \in ToSet(running) : ~ req[r].fusion_exec
  /\ phase = "balloon" => \A r \in ToSet(running) : req[r].fusion_exec
  /\ ~ chunking => phase = "initial"

\* Nobody runs at the start.
LEMMA FormatsInit == Init => Formats
  BY ToSetEmpty DEF Init, Formats

\* Every step keeps the formats.
LEMMA FormatsNext == TypeInv /\ Formats /\ [Next]_vars => Formats'
<1> SUFFICES ASSUME TypeInv, Formats, [Next]_vars PROVE Formats'
  OBVIOUS
<1>0. /\ Typed /\ InFlight /\ Queues(req, running, unaccepted)
      /\ running \in Seq(Req) /\ ToSet(running) \subseteq Req
      /\ \A r \in Req : req[r] \in Record(Req)
      /\ \A r \in ToSet(running) : Inside(req[r]) /\ Started(req[r])
  BY QueuesTyped DEF TypeInv, Queues
<1>1. CASE \E S \in SUBSET Req : Submit(S)
  <2>1. PICK S \in SUBSET Req : Submit(S)
    BY <1>1
  <2>2. UNCHANGED <<phase, chunking, stopped, running>>
    BY <2>1 DEF Submit
  <2>3. \A r \in ToSet(running) : req'[r] = req[r]
    <3>0. Enlisted(req, unaccepted, S, req', unaccepted')
      BY <2>1, SubmitEnlists
    <3>1. \A r \in ToSet(running) : r \notin S
      <4>1. ASSUME NEW r \in ToSet(running), r \in S PROVE FALSE
        <5>1. req[r].prompt = 0 /\ Context(req[r])
          BY <3>0, <4>1 DEF Enlisted
        <5> QED
          BY <1>0, <5>1, NothingToDo
      <4> QED
        BY <4>1
    <3> QED
      BY <1>0, <3>0, <3>1 DEF Enlisted
  <2> QED
    BY <2>2, <2>3 DEF Formats
<1>2. CASE StartStep
  BY <1>2 DEF StartStep, Formats
<1>3. CASE EndStep
  <2>1. UNCHANGED <<phase, chunking, stopped>>
    BY <1>3 DEF EndStep
  <2>2. CASE failed' = TRUE /\ UNCHANGED <<req, max_tokens, unaccepted, running, outbox>>
    BY <2>1, <2>2 DEF Formats
  <2>3. ASSUME NEW S, NEW home, NEW rq,
               Answered(req, max_tokens, S, home, rq),
               Queues(rq, running, unaccepted),
               S \subseteq ToSet(step.batch),
               home # {} => phase = "restore",
               stopped => req' = rq /\ UNCHANGED <<max_tokens, unaccepted, running>>,
               ~ stopped => Made(chunking, Fused, rq, max_tokens, running)
        PROVE  Formats'
    <3>1. \A r \in ToSet(running) : /\ rq[r] \in Record(Req)
                                    /\ rq[r].fusion_exec => req[r].fusion_exec
                                    /\ phase # "restore" => rq[r].fusion_exec = req[r].fusion_exec
      <4>1. ASSUME NEW r \in ToSet(running)
            PROVE  /\ rq[r].fusion_exec => req[r].fusion_exec
                   /\ phase # "restore" => rq[r].fusion_exec = req[r].fusion_exec
        <5>1. CASE r \in S
          <6>1. rq[r].fusion_exec = (req[r].fusion_exec /\ r \notin home)
            BY <1>0, <2>3, <5>1, AnsweredRecord
          <6>2. phase # "restore" => r \notin home
            BY <2>3
          <6>3. req[r].fusion_exec \in BOOLEAN
            BY <1>0 DEF Record
          <6> QED
            BY <6>1, <6>2, <6>3
        <5>2. CASE r \notin S
          BY <1>0, <2>3, <5>2 DEF Answered
        <5> QED
          BY <5>1, <5>2
      <4> QED
        BY <1>0, <2>3, <4>1 DEF Queues
    <3>2. CASE stopped
      <4>1. req' = rq /\ running' = running
        BY <2>3, <3>2
      <4> QED
        BY <2>1, <3>1, <4>1 DEF Formats
    <3>3. CASE ~ stopped
      <4>1. PICK V : Runs(V, Fused, rq, running, req', running')
        BY <2>3, <3>3 DEF Made
      <4>2. ASSUME NEW r \in ToSet(running'), ~ (req'[r].fusion_exec = Fused)
            PROVE  r \in ToSet(running) /\ req'[r].fusion_exec = rq[r].fusion_exec
        <5>1. r \in ToSet(running) /\ Stays(rq[r], req'[r])
          BY <4>1, <4>2 DEF Runs, Entering
        <5> QED
          BY <3>1, <5>1, StaysKeeps
      <4>3. phase = "initial" => \A r \in ToSet(running') : ~ req'[r].fusion_exec
        BY <3>1, <4>2 DEF Formats, Fused
      <4>4. phase = "balloon" => \A r \in ToSet(running') : req'[r].fusion_exec
        <5> SUFFICES ASSUME phase = "balloon", NEW r \in ToSet(running') PROVE req'[r].fusion_exec
          OBVIOUS
        <5>1. CASE req'[r].fusion_exec = Fused
          BY <5>1 DEF Fused
        <5>2. CASE ~ (req'[r].fusion_exec = Fused)
          <6>1. r \in ToSet(running) /\ req'[r].fusion_exec = rq[r].fusion_exec
            BY <4>2, <5>2
          <6>2. rq[r].fusion_exec = req[r].fusion_exec /\ req[r].fusion_exec
            BY <3>1, <6>1 DEF Formats
          <6> QED
            BY <6>1, <6>2
        <5> QED
          BY <5>1, <5>2
      <4> QED
        BY <2>1, <3>3, <4>3, <4>4 DEF Formats
    <3> QED
      BY <3>2, <3>3
  <2> QED
    BY <1>3, <2>2, <2>3, EndStepMoves, Zenon
<1>4. CASE Stop
  <2>1. /\ UNCHANGED <<phase, chunking, req, running>>
        /\ phase = "restore" => \A r \in ToSet(running \o unaccepted) : ~ req[r].fusion_exec
    BY <1>4 DEF Stop
  <2>2. ToSet(running) \subseteq ToSet(running \o unaccepted)
    <3>1. unaccepted \in Seq(Req)
      BY <1>0 DEF Queues
    <3> QED
      BY <1>0, <3>1, ToSetConcat
  <2> QED
    BY <2>1, <2>2 DEF Formats
<1>5. CASE Balloon
  <2>1. phase' = "balloon" /\ chunking' = TRUE
    BY <1>5 DEF Balloon
  <2>2. PICK again, rq, run :
           /\ Again(req, running, again, rq)
           /\ again = IF Mode = "recompute" THEN {r \in ToSet(running) : ~ req[r].fusion_exec} ELSE {}
           /\ \A r \in ToSet(running) \ again : rq[r].fusion_exec
           /\ run \in Seq(Req) /\ ToSet(run) = ToSet(running) \ again
           /\ rq \in [Req -> Record(Req)]
           /\ TokensOf(rq, run) <= TokensOf(req, running)
           /\ Made(TRUE, TRUE, rq, Charged(max_tokens, req, again), run)
    BY <1>5, BalloonMoves, Zenon
  <2>3. PICK V : Runs(V, TRUE, rq, run, req', running')
    BY <2>2 DEF Made
  <2>4. ASSUME NEW r \in ToSet(running') PROVE req'[r].fusion_exec
    <3>1. CASE Entering(req'[r], TRUE)
      BY <3>1 DEF Entering
    <3>2. CASE r \in ToSet(run) /\ Stays(rq[r], req'[r])
      <4>1. rq[r].fusion_exec /\ rq[r] \in Record(Req)
        BY <1>0, <2>2, <3>2
      <4>2. req'[r].fusion_exec = rq[r].fusion_exec
        BY <3>2, <4>1, StaysKeeps
      <4> QED
        BY <4>1, <4>2
    <3> QED
      BY <2>3, <3>1, <3>2 DEF Runs
  <2> QED
    BY <2>1, <2>4 DEF Formats
<1>6. CASE Restore \/ InitAgain
  BY <1>6 DEF Restore, InitAgain, Restart, Quiet, Formats
<1>7. CASE Put
  BY <1>7 DEF Put, Formats
<1>8. CASE \E list \in sent : GetOutputs(list)
  BY <1>8 DEF GetOutputs, Formats
<1>9. CASE UNCHANGED vars
  BY <1>9 DEF vars, Formats
<1> QED
  BY <1>1, <1>2, <1>3, <1>4, <1>5, <1>6, <1>7, <1>8, <1>9 DEF Next

-----------------------------------------------------------------------------
(* The budget.                                                             *)

\* Where chunks are off, the requests that decode fit, each with its token.
BudgetAssumption == EnableChunked \/ (Mode = "recompute" /\ Cardinality(Req) <= MaxTokens)

\* The inductive invariant: the next batch fits, and the one at the workers does.
BudgetInv ==
  /\ EnableChunked => chunking
  /\ Afforded(chunking, req, running)
  /\ BudgetKept

\* Without a request in its prefill, as many tokens as requests.
LEMMA OneTokenEach ==
  ASSUME NEW rq \in [Req -> Record(Req)], NEW q \in Seq(Req), OneEach(q),
         \A r \in ToSet(q) : ~ Context(rq[r])
  PROVE  TokensOf(rq, q) <= Cardinality(Req)
<1>1. PICK w : w = [r \in Req |-> InputTokens(rq[r])]
  OBVIOUS
<1>2. TokensOf(rq, q) = Total(w, q)
  BY <1>1 DEF TokensOf
<1>3. \A r \in ToSet(q) : w[r] = 1
  BY <1>1, ToSetRange DEF InputTokens
<1>4. Total(w, q) = Len(q)
  <2>1. \A r \in Req : w[r] \in Int
    <3>1. \A r \in Req : InputTokens(rq[r]) \in Nat
      BY InputTokensNat
    <3> QED
      BY <1>1, <3>1
  <2> QED
    BY <1>3, <2>1, TotalOnes
<1>5. Len(q) <= Cardinality(Req)
  <2>1. Len(q) \in Nat /\ q \in [1 .. Len(q) -> Req]
    BY LenProperties
  <2>2. IsFiniteSet(1 .. Len(q)) /\ Cardinality(1 .. Len(q)) = Len(q)
    BY <2>1, FS_Interval
  <2>3. q \in Injection(1 .. Len(q), Req)
    BY <2>1 DEF OneEach, Injection, IsInjective
  <2>4. IsFiniteSet(Req)
    BY PrefillAssumption
  <2> QED
    <3>1. Cardinality(1 .. Len(q)) <= Cardinality(Req)
      BY <2>3, <2>4, FS_Injection, Zenon
    <3> QED
      BY <2>2, <3>1
<1> QED
  BY <1>2, <1>4, <1>5

\* It holds at the start.
LEMMA BudgetInvInit == ASSUME Init PROVE BudgetInv
<1>1. running = <<>> /\ step.batch = <<>> /\ chunking = EnableChunked
  BY DEF Init, NoStep
<1>2. Budget \in Nat /\ MaxTokens \in Nat
  BY PrefillAssumption
<1>3. Prefills(req, <<>>) = <<>>
  BY ThoseEmpty DEF Prefills
<1>4. TokensOf(req, <<>>) = 0
  BY TotalEmpty DEF TokensOf
<1> QED
  BY <1>1, <1>2, <1>3, <1>4 DEF BudgetInv, Afforded, BudgetKept

\* Every step keeps it.
LEMMA BudgetInvNext ==
  ASSUME TypeInv, Formats, BudgetAssumption, BudgetInv, [Next]_vars
  PROVE  BudgetInv'
<1>0. /\ Typed /\ InFlight /\ Queues(req, running, unaccepted) /\ Room(chunking, req, running)
      /\ running \in Seq(Req) /\ ToSet(running) \subseteq Req /\ OneEach(running)
      /\ \A r \in Req : req[r] \in Record(Req)
      /\ \A r \in ToSet(running) : Inside(req[r]) /\ Started(req[r])
      /\ req \in [Req -> Record(Req)]
      /\ step.batch \in Seq(Req) /\ ToSet(step.batch) \subseteq ToSet(running)
  BY QueuesTyped DEF TypeInv, Queues, InFlight
<1>a. Budget \in Nat /\ MaxTokens \in Nat
  BY PrefillAssumption
<1>b. TokensOf(req', <<>>) = 0
  BY TotalEmpty DEF TokensOf
<1>1. CASE \E S \in SUBSET Req : Submit(S)
  <2>1. PICK S \in SUBSET Req : Submit(S)
    BY <1>1
  <2>2. UNCHANGED <<chunking, running, step>>
    BY <2>1 DEF Submit
  <2>3. Enlisted(req, unaccepted, S, req', unaccepted')
    BY <2>1, SubmitEnlists
  <2>4. /\ Queues(req', running, unaccepted')
        /\ S \cap ToSet(running) = {}
        /\ Afforded(chunking, req, running) => Afforded(chunking, req', running)
    BY <1>0, <2>3, QueuesNew
  <2>5. req' \in [Req -> Record(Req)]
    BY <2>4 DEF Queues
  <2>6. \A r \in ToSet(step.batch) : InputTokens(req'[r]) <= InputTokens(req[r])
    <3>1. ASSUME NEW r \in ToSet(step.batch) PROVE InputTokens(req'[r]) <= InputTokens(req[r])
      <4>1. req'[r] = req[r]
        BY <1>0, <2>3, <2>4 DEF Enlisted
      <4>2. InputTokens(req[r]) \in Nat
        BY <1>0, InputTokensNat
      <4> QED
        BY <4>1, <4>2
    <3> QED
      BY <3>1
  <2>7. TokensOf(req', step.batch) <= TokensOf(req, step.batch)
    BY <1>0, <2>5, <2>6, TokensLess
  <2>8. TokensOf(req', step.batch) \in Nat /\ TokensOf(req, step.batch) \in Nat
    BY <1>0, <2>5, TokensNat
  <2>9. TokensOf(req', step.batch) <= IF chunking THEN Budget ELSE MaxTokens
    BY <1>a, <2>7, <2>8 DEF BudgetInv, BudgetKept
  <2> QED
    BY <2>2, <2>4, <2>9 DEF BudgetInv, BudgetKept
<1>2. CASE StartStep
  <2>1. UNCHANGED <<chunking, req, running>> /\ step'.batch = Scheduled
    BY <1>2 DEF StartStep
  <2>2. PICK q : q = ToRun(req, running)
    OBVIOUS
  <2>3. q \in Seq(Req) /\ TokensOf(req, q) <= IF chunking THEN Budget ELSE MaxTokens
    <3>0. Prefills(req, running) = Those(running, {r \in Req : Context(req[r])})
      BY <1>0 DEF Prefills
    <3>1. CASE \E r \in ToSet(running) : Context(req[r])
      <4>1. q = Prefills(req, running)
        BY <2>2, <3>1 DEF ToRun
      <4>2. q \in Seq(Req)
        BY <1>0, <3>0, <4>1, ThoseKept
      <4>3. TokensOf(req, q) <= TokensOf(req, running)
        BY <1>0, <3>0, <4>1, TokensThose
      <4>4. TokensOf(req, q) \in Nat /\ TokensOf(req, running) \in Nat
        BY <1>0, <4>2, TokensNat
      <4> QED
        BY <1>a, <4>1, <4>2, <4>3, <4>4 DEF BudgetInv, Afforded
    <3>2. CASE \A r \in ToSet(running) : ~ Context(req[r])
      <4>1. q = running
        BY <2>2, <3>2 DEF ToRun
      <4>2. CASE chunking
        BY <1>0, <4>1, <4>2 DEF BudgetInv, Afforded
      <4>3. CASE ~ chunking
        <5>1. TokensOf(req, running) <= Cardinality(Req)
          BY <1>0, <3>2, OneTokenEach
        <5>2. Cardinality(Req) <= MaxTokens
          BY <4>3 DEF BudgetInv, BudgetAssumption
        <5>3. TokensOf(req, running) \in Nat /\ Cardinality(Req) \in Nat
          BY <1>0, TokensNat, PrefillAssumption, FS_CardinalityType
        <5> QED
          BY <1>a, <1>0, <4>1, <4>3, <5>1, <5>2, <5>3
      <4> QED
        BY <4>2, <4>3
    <3> QED
      BY <3>1, <3>2
  <2>4. TokensOf(req, Scheduled) <= IF chunking THEN Budget ELSE MaxTokens
    <3>1. PICK t \in Seq(Req) : t = Scheduled /\ TokensOf(req, t) <= TokensOf(req, q)
      <4>1. PICK X : X = {r \in Req : Fused => req[r].fusion_exec}
        OBVIOUS
      <4>2. Scheduled = Those(q, X)
        BY <2>2, <4>1 DEF Scheduled
      <4> QED
        BY <1>0, <2>3, <4>2, ThoseKept, TokensThose
    <3>2. TokensOf(req, t) \in Nat /\ TokensOf(req, q) \in Nat
      BY <1>0, <2>3, <3>1, TokensNat
    <3> QED
      BY <1>a, <2>3, <3>1, <3>2
  <2> QED
    BY <2>1, <2>4 DEF BudgetInv, BudgetKept, Afforded
<1>3. CASE EndStep
  <2>1. chunking' = chunking /\ step'.batch = <<>>
    BY <1>3 DEF EndStep, NoStep
  <2>2. BudgetKept'
    BY <1>a, <1>b, <2>1 DEF BudgetKept
  <2>3. CASE UNCHANGED <<req, max_tokens, unaccepted, running, outbox>>
    BY <2>1, <2>2, <2>3 DEF BudgetInv, Afforded
  <2>4. ASSUME NEW rq,
               Afforded(chunking, req, running) => Afforded(chunking, rq, running),
               stopped => req' = rq /\ UNCHANGED <<max_tokens, unaccepted, running>>,
               ~ stopped => Made(chunking, Fused, rq, max_tokens, running)
        PROVE  BudgetInv'
    <3>1. Afforded(chunking, req', running')
      BY <2>4 DEF Made, BudgetInv
    <3> QED
      BY <2>1, <2>2, <3>1 DEF BudgetInv
  <2> QED
    BY <1>3, <2>3, <2>4, EndStepMoves, Zenon
<1>4. CASE Balloon
  <2>1. chunking' = TRUE /\ step' = step /\ ~ step.busy /\ phase = "initial"
    BY <1>4 DEF Balloon, Quiet
  <2>2. step'.batch = <<>>
    BY <1>0, <2>1 DEF InFlight
  <2>3. BudgetKept'
    BY <1>a, <1>b, <2>1, <2>2 DEF BudgetKept
  <2>4. PICK again, rq, run :
           /\ again = IF Mode = "recompute" THEN {r \in ToSet(running) : ~ req[r].fusion_exec} ELSE {}
           /\ run \in Seq(Req) /\ ToSet(run) = ToSet(running) \ again
           /\ rq \in [Req -> Record(Req)]
           /\ TokensOf(rq, run) <= TokensOf(req, running)
           /\ Made(TRUE, TRUE, rq, Charged(max_tokens, req, again), run)
    BY <1>4, BalloonMoves, Zenon
  <2>5. TokensOf(rq, run) <= Budget
    <3>1. CASE chunking
      <4>1. TokensOf(req, running) <= Budget
        BY <3>1 DEF BudgetInv, Afforded
      <4>2. TokensOf(rq, run) \in Nat /\ TokensOf(req, running) \in Nat
        BY <1>0, <2>4, TokensNat
      <4> QED
        BY <1>a, <2>4, <4>1, <4>2
    <3>2. CASE ~ chunking
      <4>1. Mode = "recompute"
        BY <3>2 DEF BudgetInv, BudgetAssumption
      <4>2. ToSet(run) = {}
        BY <2>1, <2>4, <4>1 DEF Formats
      <4>3. run = <<>>
        BY <2>4, <4>2, NobodyThere
      <4>4. TokensOf(rq, <<>>) = 0
        BY TotalEmpty DEF TokensOf
      <4> QED
        BY <1>a, <4>3, <4>4
    <3> QED
      BY <3>1, <3>2
  <2>6. Afforded(TRUE, req', running')
    BY <2>4, <2>5 DEF Made, Afforded
  <2> QED
    BY <2>1, <2>3, <2>6 DEF BudgetInv
<1>5. CASE \/ Stop \/ Restore \/ InitAgain \/ Put \/ UNCHANGED vars
           \/ \E list \in sent : GetOutputs(list)
  <2>1. UNCHANGED <<chunking, req, running, step>>
    BY <1>5 DEF Stop, Restore, InitAgain, Restart, Put, GetOutputs, vars
  <2> QED
    BY <2>1 DEF BudgetInv, Afforded, BudgetKept
<1> QED
  BY <1>1, <1>2, <1>3, <1>4, <1>5 DEF Next

\* schedule_prefill keeps its budget in every batch the workers get
\* (flash_backend.py:1883-2010): with chunked prefill always; without it, when
\* requests are dropped by recomputing them and those that decode, with one token
\* each, fit into the tokens of a batch, which the code never tests.
THEOREM Budgets == ASSUME BudgetAssumption PROVE Spec => []BudgetKept
<1> DEFINE Inv == TypeInv /\ Formats /\ BudgetInv
<1>1. Init => Inv
  BY TypeInvInit, FormatsInit, BudgetInvInit
<1>2. Inv /\ [Next]_vars => Inv'
  BY TypeInvNext, FormatsNext, BudgetInvNext
<1>3. Inv => BudgetKept
  BY DEF BudgetInv
<1> QED
  BY <1>1, <1>2, <1>3, PTL DEF Spec

-----------------------------------------------------------------------------
(* What has been computed.                                                 *)

\* Every prefill of the running queue is in the batch of the step in flight.
AllRun == step.busy => \A r \in ToSet(running) : Context(req[r]) => r \in ToSet(step.batch)

\* Of a prompt that is being computed, all is computed before or with the chunk.
Cached ==
  \A r \in ToSet(running) :
    Context(req[r]) => req[r].cached \in {0 .. req[r].begin - 1, 0 .. req[r].end - 1}

\* The inductive invariant: in the chunks of a request that runs, nothing is left
\* out, and what generates has its prompt behind it.
FinishedInv == AllRun /\ Cached /\ PrefillFinished

\* One chunk more is computed.
LEMMA ChunkComputed ==
  ASSUME NEW b \in Nat, NEW e \in Nat, b <= e, NEW c, c \in {0 .. b - 1, 0 .. e - 1}
  PROVE  c \cup (b .. e - 1) = 0 .. e - 1
  OBVIOUS

\* A batch is made where every prefill has its chunk behind it.
LEMMA MadeFinished ==
  ASSUME NEW on, NEW fx, NEW rq \in [Req -> Record(Req)], NEW limit, NEW run,
         ToSet(run) \subseteq Req, ToSet(running') \subseteq Req,
         Made(on, fx, rq, limit, run),
         \A r \in Req : rq[r].generated > 0 => rq[r].cached = 0 .. rq[r].prompt - 1,
         \A r \in ToSet(run) : Inside(rq[r]) /\ Started(rq[r]),
         \A r \in ToSet(run) : Context(rq[r]) => rq[r].cached = 0 .. rq[r].end - 1
  PROVE  PrefillFinished' /\ Cached'
<1>1. PICK V \in SUBSET ToSet(run) : Lives(V, rq, req') /\ Runs(V, fx, rq, run, req', running')
  BY DEF Made
<1>2. ASSUME NEW r \in Req, req'[r].generated > 0 PROVE req'[r].cached = 0 .. req'[r].prompt - 1
  <2>1. CASE r \in V
    <3>1. Recomputed(rq[r]).generated = 0
      BY <1>1, <2>1, RecomputedRecord
    <3>2. req'[r].generated = Recomputed(rq[r]).generated
      BY <1>1, <2>1 DEF Lives, After, SameLife
    <3> QED
      BY <1>2, <3>1, <3>2
  <2>2. CASE r \notin V
    <3>1. /\ req'[r].generated = rq[r].generated /\ req'[r].cached = rq[r].cached
          /\ req'[r].prompt = rq[r].prompt
      BY <1>1, <2>2 DEF Lives, After, SameLife
    <3> QED
      BY <1>2, <3>1
  <2> QED
    BY <2>1, <2>2
<1>3. ASSUME NEW r \in ToSet(running'), r \in Req, Context(req'[r])
      PROVE  req'[r].cached \in {0 .. req'[r].begin - 1, 0 .. req'[r].end - 1}
  <2>1. CASE Entering(req'[r], fx)
    <3>1. req'[r].cached = {} /\ req'[r].begin = 0
      BY <2>1 DEF Entering
    <3>2. 0 .. 0 - 1 = {}
      OBVIOUS
    <3> QED
      BY <3>1, <3>2
  <2>2. CASE r \in ToSet(run) \ V /\ Stays(rq[r], req'[r])
    <3>1. /\ SameLife(req'[r], rq[r])
          /\ req'[r] = rq[r] \/ (FollowUp(rq[r]) /\ req'[r].begin = rq[r].end)
      BY <1>3, <2>2, StaysKeeps
    <3>2. Context(rq[r]) /\ req'[r].cached = rq[r].cached
      BY <1>3, <3>1 DEF SameLife, Context
    <3>3. rq[r].cached = 0 .. rq[r].end - 1
      BY <2>2, <3>2
    <3> QED
      BY <3>1, <3>2, <3>3
  <2> QED
    BY <1>1, <2>1, <2>2 DEF Runs
<1> QED
  BY <1>2, <1>3 DEF PrefillFinished, Cached

\* It holds at the start.
LEMMA FinishedInvInit == ASSUME Init PROVE FinishedInv
<1>1. running = <<>> /\ step.busy = FALSE /\ \A r \in Req : req[r].generated = 0
  BY DEF Init, NoStep, NoRequest, NewRequest
<1> QED
  BY <1>1, ToSetEmpty DEF FinishedInv, AllRun, Cached, PrefillFinished

\* Every step keeps it where requests are recomputed.
LEMMA FinishedInvNext ==
  ASSUME TypeInv, TypeInv', Formats, Mode = "recompute", FinishedInv, [Next]_vars
  PROVE  FinishedInv'
<1>0. /\ Typed /\ InFlight /\ Queues(req, running, unaccepted)
      /\ running \in Seq(Req) /\ ToSet(running) \subseteq Req
      /\ \A r \in Req : req[r] \in Record(Req) /\ Inside(req[r])
      /\ \A r \in ToSet(running) : Started(req[r])
      /\ AllRun /\ Cached /\ PrefillFinished
      /\ step.batch \in Seq(Req) /\ ToSet(step.batch) \subseteq ToSet(running)
  BY QueuesTyped DEF TypeInv, Queues, InFlight, FinishedInv
<1>a. ToSet(running') \subseteq Req
  BY QueuesTyped DEF TypeInv
<1>1. CASE \E S \in SUBSET Req : Submit(S)
  <2>1. PICK S \in SUBSET Req : Submit(S)
    BY <1>1
  <2>2. UNCHANGED <<running, step>>
    BY <2>1 DEF Submit
  <2>3. Enlisted(req, unaccepted, S, req', unaccepted')
    BY <2>1, SubmitEnlists
  <2>4. \A r \in S : req'[r].generated = 0
    <3>1. ASSUME NEW r \in S PROVE req'[r].generated = 0
      <4>1. PICK n \in Nat \ {0}, p \in S : req'[r] = NewRequest(n, p)
        BY <2>3 DEF Enlisted
      <4> QED
        BY <4>1 DEF NewRequest
    <3> QED
      BY <3>1
  <2>5. \A r \in Req \ S : req'[r] = req[r]
    BY <2>3 DEF Enlisted
  <2>6. \A r \in ToSet(running) : r \notin S
    <3>1. ASSUME NEW r \in ToSet(running), r \in S PROVE FALSE
      <4>1. req[r].prompt = 0 /\ Context(req[r])
        BY <2>3, <3>1 DEF Enlisted
      <4> QED
        BY <1>0, <4>1, NothingToDo
    <3> QED
      BY <3>1
  <2>7. \A r \in ToSet(running) : req'[r] = req[r]
    BY <1>0, <2>5, <2>6
  <2>8. AllRun' /\ Cached'
    BY <1>0, <2>2, <2>7 DEF AllRun, Cached
  <2>9. PrefillFinished'
    <3>1. ASSUME NEW r \in Req, req'[r].generated > 0
          PROVE  req'[r].cached = 0 .. req'[r].prompt - 1
      <4>1. r \notin S
        BY <2>4, <3>1
      <4>2. req'[r] = req[r]
        BY <2>5, <4>1
      <4> QED
        BY <1>0, <3>1, <4>2 DEF PrefillFinished
    <3> QED
      BY <3>1 DEF PrefillFinished
  <2> QED
    BY <2>8, <2>9 DEF FinishedInv
<1>2. CASE StartStep
  <2>1. UNCHANGED <<req, running>> /\ step'.batch = Scheduled
    BY <1>2 DEF StartStep
  <2>2. ASSUME NEW r \in ToSet(running), Context(req[r]) PROVE r \in ToSet(Scheduled)
    <3>1. PICK p \in Seq(Req) : /\ p = Prefills(req, running)
                                /\ ToSet(p) = ToSet(running) \cap {x \in Req : Context(req[x])}
      <4>1. \A X : Those(running, X) \in Seq(Req) /\ ToSet(Those(running, X)) = ToSet(running) \cap X
        BY <1>0, ThoseKept
      <4>2. Prefills(req, running) = Those(running, {x \in Req : Context(req[x])})
        BY <1>0 DEF Prefills, Queues
      <4> QED
        BY <4>1, <4>2
    <3>2. ToRun(req, running) = p
      BY <2>2, <3>1 DEF ToRun
    <3>3. PICK X : X = {x \in Req : Fused => req[x].fusion_exec}
      OBVIOUS
    <3>4. Scheduled = Those(p, X)
      BY <3>2, <3>3 DEF Scheduled
    <3>5. r \in X
      <4>1. Fused => req[r].fusion_exec
        BY DEF Formats, Fused
      <4> QED
        BY <1>0, <3>3, <4>1
    <3>6. ToSet(Scheduled) = ToSet(p) \cap X
      BY <3>1, <3>4, ThoseKept
    <3> QED
      BY <1>0, <2>2, <3>1, <3>5, <3>6
  <2>3. AllRun'
    BY <2>1, <2>2 DEF AllRun
  <2> QED
    BY <1>0, <2>1, <2>3 DEF FinishedInv, Cached, PrefillFinished
<1>3. CASE EndStep
  <2>0. step.busy
    BY <1>3 DEF EndStep
  <2>1. AllRun'
    BY <1>3 DEF EndStep, NoStep, AllRun
  <2>2. CASE UNCHANGED <<req, max_tokens, unaccepted, running, outbox>>
    BY <1>0, <2>1, <2>2 DEF FinishedInv, Cached, PrefillFinished
  <2>3. ASSUME NEW S, NEW home, NEW rq,
               Answered(req, max_tokens, S, home, rq),
               Queues(rq, running, unaccepted),
               S \subseteq ToSet(step.batch),
               ~ stopped => S = ToSet(step.batch),
               stopped => req' = rq /\ UNCHANGED <<max_tokens, unaccepted, running>>,
               ~ stopped => Made(chunking, Fused, rq, max_tokens, running)
        PROVE  FinishedInv'
    <3>1. \A r \in Req \ S : rq[r] = req[r]
      BY <2>3 DEF Answered
    <3>2. ASSUME NEW r \in S
          PROVE  /\ rq[r].generated > 0 => rq[r].cached = 0 .. rq[r].prompt - 1
                 /\ Context(rq[r]) => rq[r].cached = 0 .. rq[r].end - 1
      <4>0. r \in ToSet(running) /\ r \in Req
        BY <1>0, <2>3
      <4>1. /\ rq[r].prompt = req[r].prompt /\ rq[r].end = req[r].end /\ rq[r].begin = req[r].begin
            /\ rq[r].cached = req[r].cached
                              \cup (IF Context(req[r]) THEN req[r].begin .. req[r].end - 1 ELSE {})
            /\ rq[r].generated = (IF FollowUp(req[r]) THEN req[r].generated
                                  ELSE req[r].generated + 1)
            /\ Context(rq[r]) => FollowUp(req[r]) /\ Context(req[r])
        BY <1>0, <2>3, <4>0, AnsweredRecord
      <4>2. /\ req[r].begin \in Nat /\ req[r].end \in Nat /\ req[r].prompt \in Nat
            /\ req[r].generated \in Nat /\ req[r].begin <= req[r].end /\ req[r].end <= req[r].prompt
        BY <1>0, <4>0 DEF Record, Inside
      <4>3. CASE Context(req[r])
        <5>1. req[r].cached \in {0 .. req[r].begin - 1, 0 .. req[r].end - 1}
          BY <1>0, <4>0, <4>3 DEF Cached
        <5>2. rq[r].cached = 0 .. req[r].end - 1
          BY <4>1, <4>2, <4>3, <5>1, ChunkComputed
        <5>3. rq[r].generated > 0 => req[r].end = req[r].prompt
          BY <4>1, <4>2, <4>3 DEF FollowUp, Context
        <5> QED
          BY <4>1, <5>2, <5>3
      <4>4. CASE ~ Context(req[r])
        <5>1. rq[r].cached = req[r].cached /\ ~ Context(rq[r])
          BY <4>1, <4>4
        <5>2. req[r].generated > 0
          BY <4>2, <4>4 DEF Context
        <5>3. req[r].cached = 0 .. req[r].prompt - 1
          BY <1>0, <4>0, <5>2 DEF PrefillFinished
        <5> QED
          BY <4>1, <5>1, <5>3
      <4> QED
        BY <4>3, <4>4
    <3>3. \A r \in Req : rq[r].generated > 0 => rq[r].cached = 0 .. rq[r].prompt - 1
      BY <1>0, <3>1, <3>2 DEF PrefillFinished
    <3>4. CASE stopped
      <4>1. req' = rq /\ running' = running
        BY <2>3, <3>4
      <4>2. \A r \in ToSet(running) :
              Context(rq[r]) => rq[r].cached \in {0 .. rq[r].begin - 1, 0 .. rq[r].end - 1}
        <5>1. ASSUME NEW r \in ToSet(running), Context(rq[r])
              PROVE  rq[r].cached \in {0 .. rq[r].begin - 1, 0 .. rq[r].end - 1}
          <6>1. CASE r \in S
            BY <3>2, <5>1, <6>1
          <6>2. CASE r \notin S
            <7>1. rq[r] = req[r]
              BY <1>0, <3>1, <6>2
            <7> QED
              BY <1>0, <5>1, <7>1 DEF Cached
          <6> QED
            BY <6>1, <6>2
        <5> QED
          BY <5>1
      <4> QED
        BY <2>1, <3>3, <4>1, <4>2 DEF FinishedInv, Cached, PrefillFinished
    <3>5. CASE ~ stopped
      <4>1. \A r \in ToSet(running) : Context(rq[r]) => rq[r].cached = 0 .. rq[r].end - 1
        <5>1. ASSUME NEW r \in ToSet(running), Context(rq[r]), r \notin S PROVE FALSE
          <6>1. rq[r] = req[r]
            BY <1>0, <3>1, <5>1
          <6>2. r \in ToSet(step.batch)
            BY <1>0, <2>0, <5>1, <6>1 DEF AllRun
          <6> QED
            BY <2>3, <3>5, <5>1, <6>2
        <5> QED
          BY <3>2, <5>1
      <4>2. \A r \in ToSet(running) : Inside(rq[r]) /\ Started(rq[r])
        BY <1>0, <2>3 DEF Queues
      <4>3. rq \in [Req -> Record(Req)] /\ Made(chunking, Fused, rq, max_tokens, running)
        BY <2>3, <3>5 DEF Queues
      <4>4. PrefillFinished' /\ Cached'
        BY <1>0, <1>a, <3>3, <4>1, <4>2, <4>3, MadeFinished, Zenon
      <4> QED
        BY <2>1, <4>4 DEF FinishedInv
    <3> QED
      BY <3>4, <3>5
  <2> QED
    BY <1>3, <2>2, <2>3, EndStepMoves, Zenon
<1>4. CASE Balloon
  <2>1. step' = step /\ ~ step.busy /\ phase = "initial"
    BY <1>4 DEF Balloon, Quiet
  <2>2. AllRun'
    BY <2>1 DEF AllRun
  <2>3. PICK again, rq, run :
           /\ Again(req, running, again, rq)
           /\ again = IF Mode = "recompute" THEN {r \in ToSet(running) : ~ req[r].fusion_exec} ELSE {}
           /\ run \in Seq(Req) /\ ToSet(run) = ToSet(running) \ again
           /\ rq \in [Req -> Record(Req)]
           /\ Made(TRUE, TRUE, rq, Charged(max_tokens, req, again), run)
    BY <1>4, BalloonMoves, Zenon
  <2>4. ToSet(run) = {}
    BY <2>1, <2>3 DEF Formats
  <2>5. ASSUME NEW r \in Req, rq[r].generated > 0
        PROVE  rq[r].cached = 0 .. rq[r].prompt - 1
    <3>1. CASE r \in again
      <4>1. r \in ToSet(running) /\ rq[r] = Recomputed(req[r])
        BY <2>3, <3>1 DEF Again
      <4>2. Recomputed(req[r]).generated = 0
        BY <1>0, <4>1, RecomputedRecord
      <4> QED
        BY <2>5, <4>1, <4>2
    <3>2. CASE r \notin again
      <4>1. rq[r] = req[r] \/ rq[r] = Marked(req[r], TRUE)
        BY <2>3, <3>2 DEF Again
      <4>2. /\ Marked(req[r], TRUE).generated = req[r].generated
            /\ Marked(req[r], TRUE).prompt = req[r].prompt
            /\ Marked(req[r], TRUE).cached = req[r].cached
        BY <1>0, MarkedRecord DEF SameLife
      <4>3. /\ rq[r].generated = req[r].generated /\ rq[r].prompt = req[r].prompt
            /\ rq[r].cached = req[r].cached
        BY <4>1, <4>2
      <4> QED
        BY <1>0, <2>5, <4>3 DEF PrefillFinished
    <3> QED
      BY <3>1, <3>2
  <2>6. PICK limit : limit = Charged(max_tokens, req, again)
    OBVIOUS
  <2>7. Made(TRUE, TRUE, rq, limit, run)
    BY <2>3, <2>6, Zenon
  <2>8. /\ ToSet(run) \subseteq Req
        /\ \A r \in ToSet(run) : Inside(rq[r]) /\ Started(rq[r])
        /\ \A r \in ToSet(run) : Context(rq[r]) => rq[r].cached = 0 .. rq[r].end - 1
    BY <2>4
  <2>9. PrefillFinished' /\ Cached'
    BY <1>a, <2>3, <2>5, <2>7, <2>8, MadeFinished, Zenon
  <2> QED
    BY <2>2, <2>9 DEF FinishedInv
<1>5. CASE \/ Stop \/ Restore \/ InitAgain \/ Put \/ UNCHANGED vars
           \/ \E list \in sent : GetOutputs(list)
  <2>1. UNCHANGED <<req, running, step>>
    BY <1>5 DEF Stop, Restore, InitAgain, Restart, Put, GetOutputs, vars
  <2> QED
    BY <2>1 DEF FinishedInv, AllRun, Cached, PrefillFinished
<1> QED
  BY <1>1, <1>2, <1>3, <1>4, <1>5 DEF Next

\* Where requests that change format are recomputed, no chunk of a prompt is ever
\* skipped: whoever has generated a token has had every token of its prompt
\* computed since it last started (set_chunk, allocate_next_chunk and
\* prepare_for_recompute of request.py, across preemptions and switches).  Where
\* their blocks are resharded it is false, as the run PrefillReshard shows.
THEOREM NoChunkSkipped == ASSUME Mode = "recompute" PROVE Spec => []PrefillFinished
<1> DEFINE Inv == TypeInv /\ Formats /\ FinishedInv
<1>1. Init => Inv
  BY TypeInvInit, FormatsInit, FinishedInvInit
<1>2. Inv /\ [Next]_vars => Inv'
  BY TypeInvNext, FormatsNext, FinishedInvNext
<1>3. Inv => PrefillFinished
  BY DEF FinishedInv
<1> QED
  BY <1>1, <1>2, <1>3, PTL DEF Spec

-----------------------------------------------------------------------------
(* Limits, and answers.                                                    *)

\* The sums of Charged, where SamplingParams are not shared.
LEMMA SumOfOne ==
  ASSUME NEW rq, NEW p, rq[p].generated \in Nat
  PROVE  MapThenSumSet(LAMBDA r : rq[r].generated, {p}) = rq[p].generated
<1> DEFINE Sum(iter) == iter = [s \in SUBSET {p} |->
                                  IF s = {} THEN 0
                                  ELSE LET x == CHOOSE y \in s : TRUE
                                       IN  rq[x].generated + iter[s \ {x}]]
<1>1. PICK f : f = [s \in SUBSET {p} |-> IF s = {} THEN 0 ELSE rq[p].generated]
  OBVIOUS
<1>2. (CHOOSE y \in {p} : TRUE) = p /\ {p} \ {p} = {} /\ SUBSET {p} = {{}, {p}}
  OBVIOUS
<1>3. Sum(f)
  <2>1. f[{}] = 0 /\ f[{p}] = rq[p].generated
    BY <1>1
  <2>2. ASSUME NEW s \in SUBSET {p}
        PROVE  f[s] = IF s = {} THEN 0
                      ELSE LET x == CHOOSE y \in s : TRUE
                           IN  rq[x].generated + f[s \ {x}]
    <3>1. CASE s = {}
      BY <2>1, <3>1
    <3>2. CASE s = {p}
      <4>1. (CHOOSE y \in s : TRUE) = p
        BY <3>2
      <4>2. s \ {p} = {} /\ s # {}
        BY <3>2
      <4>3. f[s] = rq[p].generated + f[s \ {p}]
        BY <2>1, <3>2, <4>2
      <4> QED
        BY <4>1, <4>2, <4>3, Zenon
    <3> QED
      BY <1>2, <3>1, <3>2
  <2>3. f = [s \in SUBSET {p} |-> f[s]]
    BY <1>1
  <2> QED
    BY <2>2, <2>3
<1>4. Sum(CHOOSE iter : Sum(iter))
  BY <1>3, Zenon
<1>5. PICK g : g = CHOOSE iter : Sum(iter)
  OBVIOUS
<1>6. g[{}] = 0
  BY <1>4, <1>5
<1>7. g[{p}] = rq[p].generated + g[{}]
  <2>1. Sum(g)
    BY <1>4, <1>5, Zenon
  <2>2. g[{p}] = IF {p} = {} THEN 0
                 ELSE LET x == CHOOSE y \in {p} : TRUE
                      IN  rq[x].generated + g[{p} \ {x}]
    BY <2>1
  <2> QED
    BY <1>2, <2>2
<1>8. MapThenSumSet(LAMBDA r : rq[r].generated, {p}) = g[{p}]
  BY <1>5, Zenon DEF MapThenSumSet, MapThenFoldSet
<1> QED
  BY <1>6, <1>7, <1>8

\* With parameters of its own, a request that starts again is charged its own tokens.
LEMMA ChargedOne ==
  ASSUME NEW limit, NEW rq \in [Req -> Record(Req)], NEW V \in SUBSET Req,
         \A r \in V : rq[r].params = r, NEW p \in Req
  PROVE  Charged(limit, rq, V)[p] = IF p \in V THEN limit[p] - rq[p].generated ELSE limit[p] - 0
<1>1. Charged(limit, rq, V)[p]
        = limit[p] - MapThenSumSet(LAMBDA r : rq[r].generated, {r \in V : rq[r].params = p})
  BY Zenon DEF Charged
<1>2. CASE p \in V
  <2>1. {r \in V : rq[r].params = p} = {p}
    BY <1>2
  <2>2. rq[p].generated \in Nat
    BY DEF Record
  <2>3. MapThenSumSet(LAMBDA r : rq[r].generated, {r \in V : rq[r].params = p}) = rq[p].generated
    BY <2>1, <2>2, SumOfOne, Zenon
  <2> QED
    BY <1>1, <1>2, <2>3, Zenon
<1>3. CASE p \notin V
  <2>1. {r \in V : rq[r].params = p} = {}
    BY <1>3
  <2>2. MapThenSumSet(LAMBDA r : rq[r].generated, {}) = 0
    <3> DEFINE Sum(iter) == iter = [s \in SUBSET {} |->
                                      IF s = {} THEN 0
                                      ELSE LET x == CHOOSE y \in s : TRUE
                                           IN  rq[x].generated + iter[s \ {x}]]
    <3>1. PICK f : f = [s \in SUBSET {} |-> 0]
      OBVIOUS
    <3>2. Sum(f)
      BY <3>1
    <3>3. Sum(CHOOSE iter : Sum(iter))
      BY <3>2, Zenon
    <3>4. (CHOOSE iter : Sum(iter))[{}] = 0
      BY <3>3
    <3>5. MapThenSumSet(LAMBDA r : rq[r].generated, {}) = (CHOOSE iter : Sum(iter))[{}]
      BY Zenon DEF MapThenSumSet, MapThenFoldSet
    <3> QED
      BY <3>4, <3>5
  <2>3. MapThenSumSet(LAMBDA r : rq[r].generated, {r \in V : rq[r].params = p}) = 0
    BY <2>1, <2>2
  <2> QED
    BY <1>1, <1>3, <2>3, Zenon
<1> QED
  BY <1>2, <1>3

\* What is left of the limit of a request, and when it is finished.
Limits(rq, limit) ==
  /\ limit = [r \in Req |-> limit[r]]
  /\ \A r \in Req :
       /\ NumTokens(rq[r]) > 0 => rq[r].params = r
       /\ limit[r] = Limit - (rq[r].outputs - rq[r].generated)
       /\ rq[r].is_finished => rq[r].outputs >= Limit

\* The inductive invariant: limits are those of before, less what was charged, and
\* whoever has been finished has its tokens.
AnswerInv ==
  /\ Limits(req, max_tokens)
  /\ \A A \in ToSet(outbox) : \A r \in A : req[r].is_finished
  /\ \A l \in sent : \A r \in DOMAIN l : l[r] >= Limit
  /\ AnswerComplete

\* Where V starts again, its tokens are charged.
LEMMA LimitsCharged ==
  ASSUME NEW rq \in [Req -> Record(Req)], NEW limit, Limits(rq, limit), NEW V \in SUBSET Req,
         \A r \in V : NumTokens(rq[r]) > 0,
         NEW rp, NEW left, left = Charged(limit, rq, V),
         \A r \in Req : /\ rp[r].params = rq[r].params /\ rp[r].outputs = rq[r].outputs
                        /\ rp[r].is_finished = rq[r].is_finished
                        /\ NumTokens(rp[r]) = NumTokens(rq[r])
                        /\ rp[r].generated = IF r \in V THEN 0 ELSE rq[r].generated
  PROVE  Limits(rp, left)
<1>1. left = [r \in Req |-> left[r]]
  BY DEF Charged
<1>2. \A r \in V : rq[r].params = r
  BY DEF Limits
<1>3. ASSUME NEW r \in Req PROVE left[r] = Limit - (rp[r].outputs - rp[r].generated)
  <2>1. left[r] = IF r \in V THEN limit[r] - rq[r].generated ELSE limit[r] - 0
    BY <1>2, ChargedOne
  <2>2. limit[r] = Limit - (rq[r].outputs - rq[r].generated)
    BY DEF Limits
  <2>3. rq[r].outputs \in Nat /\ rq[r].generated \in Nat /\ Limit \in Nat
    BY PrefillAssumption DEF Record
  <2>4. rp[r].outputs = rq[r].outputs /\ rp[r].generated = IF r \in V THEN 0 ELSE rq[r].generated
    OBVIOUS
  <2> QED
    BY <2>1, <2>2, <2>3, <2>4
<1>4. \A r \in Req : /\ NumTokens(rp[r]) > 0 => rp[r].params = r
                     /\ rp[r].is_finished => rp[r].outputs >= Limit
  BY DEF Limits
<1> QED
  BY <1>1, <1>3, <1>4 DEF Limits

\* Whoever runs has tokens.
LEMMA RunnersHaveTokens ==
  ASSUME NEW P, NEW q \in Record(P), Inside(q), Started(q)
  PROVE  NumTokens(q) > 0
<1>1. q.prompt \in Nat /\ q.generated \in Nat /\ q.begin \in Nat /\ q.end \in Nat
  BY DEF Record
<1> QED
  BY <1>1 DEF Inside, Started, Context, NumTokens

\* A request keeps its limit, its outputs and its end when it starts again.
LEMMA RecomputedTokens ==
  ASSUME NEW P, NEW q \in Record(P), Inside(q), Started(q)
  PROVE  NumTokens(Recomputed(q)) = NumTokens(q)
<1>1. q.prompt \in Nat /\ q.generated \in Nat
  BY DEF Record
<1>2. Recomputed(q).prompt = q.prompt + q.generated /\ Recomputed(q).generated = 0
  BY RecomputedRecord
<1> QED
  BY <1>1, <1>2 DEF NumTokens

\* The limits after the next batch is made.
LEMMA LimitsMade ==
  ASSUME NEW on, NEW fx, NEW rq \in [Req -> Record(Req)], NEW limit, Limits(rq, limit), NEW run,
         ToSet(run) \subseteq Req, \A r \in ToSet(run) : Inside(rq[r]) /\ Started(rq[r]),
         Made(on, fx, rq, limit, run)
  PROVE  /\ Limits(req', max_tokens')
         /\ \A r \in Req : rq[r].is_finished = req'[r].is_finished
<1>1. PICK V \in SUBSET ToSet(run) : Lives(V, rq, req') /\ max_tokens' = Charged(limit, rq, V)
  BY DEF Made
<1>2. ASSUME NEW r \in Req
      PROVE  /\ req'[r].params = rq[r].params /\ req'[r].outputs = rq[r].outputs
             /\ req'[r].is_finished = rq[r].is_finished
             /\ NumTokens(req'[r]) = NumTokens(rq[r])
             /\ req'[r].generated = IF r \in V THEN 0 ELSE rq[r].generated
  <2>1. CASE r \in V
    <3>1. rq[r] \in Record(Req) /\ Inside(rq[r]) /\ Started(rq[r])
      BY <1>1, <2>1
    <3>2. SameLife(req'[r], Recomputed(rq[r]))
      BY <1>1, <2>1 DEF Lives, After
    <3>3. /\ Recomputed(rq[r]).outputs = rq[r].outputs
          /\ Recomputed(rq[r]).is_finished = rq[r].is_finished
          /\ Recomputed(rq[r]).params = rq[r].params /\ Recomputed(rq[r]).generated = 0
          /\ NumTokens(Recomputed(rq[r])) = NumTokens(rq[r])
      BY <3>1, RecomputedRecord, RecomputedTokens
    <3> QED
      BY <2>1, <3>2, <3>3 DEF SameLife, NumTokens
  <2>2. CASE r \notin V
    <3>1. SameLife(req'[r], rq[r])
      BY <1>1, <2>2 DEF Lives, After
    <3> QED
      BY <2>2, <3>1 DEF SameLife, NumTokens
  <2> QED
    BY <2>1, <2>2
<1>3. \A r \in V : NumTokens(rq[r]) > 0
  BY <1>1, RunnersHaveTokens
<1>4. V \in SUBSET Req
  BY <1>1
<1>5. Limits(req', max_tokens')
  BY <1>1, <1>2, <1>3, <1>4, LimitsCharged
<1> QED
  BY <1>2, <1>5

\* The limits after the answer of the workers.
LEMMA LimitsAnswered ==
  ASSUME NEW rq \in [Req -> Record(Req)], NEW limit, Limits(rq, limit), NEW S, NEW home, NEW rp,
         Answered(rq, limit, S, home, rp),
         \A r \in S : Inside(rq[r]) /\ Started(rq[r])
  PROVE  /\ Limits(rp, limit)
         /\ \A r \in Req : rq[r].is_finished => rp[r].is_finished
         /\ \A r \in S : Computed(rq[r], limit[rq[r].params]).is_finished => rp[r].is_finished
<1>0. S \in SUBSET Req /\ \A r \in Req \ S : rp[r] = rq[r]
  BY DEF Answered
<1>1. ASSUME NEW r \in S
      PROVE  /\ NumTokens(rp[r]) > 0 => rp[r].params = r
             /\ limit[r] = Limit - (rp[r].outputs - rp[r].generated)
             /\ rp[r].is_finished => rp[r].outputs >= Limit
             /\ rq[r].is_finished => rp[r].is_finished
             /\ Computed(rq[r], limit[rq[r].params]).is_finished => rp[r].is_finished
  <2>1. r \in Req /\ rq[r] \in Record(Req) /\ Inside(rq[r]) /\ Started(rq[r])
    BY <1>0
  <2>2. NumTokens(rq[r]) > 0
    BY <2>1, RunnersHaveTokens
  <2>3. /\ rq[r].params = r
        /\ limit[r] = Limit - (rq[r].outputs - rq[r].generated)
        /\ rq[r].is_finished => rq[r].outputs >= Limit
    BY <2>1, <2>2 DEF Limits
  <2>4. /\ rp[r].params = rq[r].params
        /\ rp[r].generated = (IF FollowUp(rq[r]) THEN rq[r].generated ELSE rq[r].generated + 1)
        /\ rp[r].outputs = (IF FollowUp(rq[r]) THEN rq[r].outputs ELSE rq[r].outputs + 1)
        /\ rp[r].is_finished = (rq[r].is_finished
                                \/ (~ FollowUp(rq[r]) /\ rq[r].generated + 1 >= limit[rq[r].params]))
    BY <2>1, AnsweredRecord
  <2>5. /\ rq[r].outputs \in Nat /\ rq[r].generated \in Nat /\ Limit \in Nat
        /\ rq[r].is_finished \in BOOLEAN
    BY <2>1, PrefillAssumption DEF Record
  <2>6. rp[r].is_finished => rp[r].outputs >= Limit
    <3>1. CASE FollowUp(rq[r])
      BY <2>3, <2>4, <3>1
    <3>2. CASE ~ FollowUp(rq[r])
      <4>1. CASE rq[r].is_finished
        BY <2>3, <2>4, <2>5, <3>2, <4>1
      <4>2. CASE ~ rq[r].is_finished
        <5> SUFFICES ASSUME rp[r].is_finished PROVE rp[r].outputs >= Limit
          OBVIOUS
        <5>1. rq[r].generated + 1 >= limit[r]
          BY <2>3, <2>4, <4>2
        <5> QED
          BY <2>3, <2>4, <2>5, <3>2, <5>1
      <4> QED
        BY <4>1, <4>2
    <3> QED
      BY <3>1, <3>2
  <2>7. Computed(rq[r], limit[rq[r].params]).is_finished
          = (rq[r].is_finished \/ (~ FollowUp(rq[r]) /\ rq[r].generated + 1 >= limit[rq[r].params]))
    BY <2>1, ComputedTokens
  <2>8. limit[r] = Limit - (rp[r].outputs - rp[r].generated)
    BY <2>3, <2>4, <2>5
  <2> QED
    BY <2>3, <2>4, <2>6, <2>7, <2>8
<1>2. limit = [r \in Req |-> limit[r]]
  BY DEF Limits
<1>3. Limits(rp, limit)
  <2>1. ASSUME NEW r \in Req
        PROVE  /\ NumTokens(rp[r]) > 0 => rp[r].params = r
               /\ limit[r] = Limit - (rp[r].outputs - rp[r].generated)
               /\ rp[r].is_finished => rp[r].outputs >= Limit
    <3>1. CASE r \in S
      BY <1>1, <3>1
    <3>2. CASE r \notin S
      BY <1>0, <3>2 DEF Limits
    <3> QED
      BY <3>1, <3>2
  <2> QED
    BY <1>2, <2>1 DEF Limits
<1> QED
  BY <1>0, <1>1, <1>3

\* It holds at the start.
LEMMA AnswerInvInit == ASSUME Init PROVE AnswerInv
<1>1. /\ max_tokens = [r \in Req |-> Limit] /\ outbox = <<>> /\ sent = {}
      /\ result = [r \in Req |-> 0]
      /\ \A r \in Req : /\ req[r].prompt = 0 /\ req[r].outputs = 0 /\ req[r].generated = 0
                        /\ req[r].is_finished = FALSE
  BY DEF Init, NoRequest, NewRequest
<1>2. Limit \in Nat
  BY PrefillAssumption
<1>3. Limits(req, max_tokens)
  BY <1>1, <1>2 DEF Limits, NumTokens
<1> QED
  BY <1>1, <1>3, ToSetEmpty DEF AnswerInv, AnswerComplete

\* The caller of one request owns its SamplingParams.
LEMMA LimitsNew ==
  ASSUME TypeInv, ~ Batched, Limits(req, max_tokens), NEW S \in SUBSET Req, Submit(S)
  PROVE  /\ Limits(req', max_tokens)
         /\ \A r \in Req : req[r].is_finished => req'[r].is_finished
<1>1. Enlisted(req, unaccepted, S, req', unaccepted')
  BY SubmitEnlists
<1>2. \A r \in Req \ S : req'[r] = req[r]
  BY <1>1 DEF Enlisted
<1>3. \A p, r \in S : p = r
  <2>1. IsFiniteSet(S)
    BY PrefillAssumption, FS_Subset
  <2>2. ~ (Cardinality(S) > 1) /\ S # {}
    BY DEF Submit
  <2>3. Cardinality(S) \in Nat
    BY <2>1, FS_CardinalityType
  <2>4. Cardinality(S) # 0
    BY <2>1, <2>2, FS_EmptySet
  <2>5. Cardinality(S) = 1
    BY <2>2, <2>3, <2>4
  <2>6. \E x : S = {x}
    BY <2>1, <2>5, FS_Singleton
  <2> QED
    BY <2>6
<1>4. ASSUME NEW r \in S
      PROVE  /\ req'[r].params = r /\ req'[r].outputs = 0 /\ req'[r].generated = 0
             /\ req'[r].is_finished = FALSE
  <2>1. PICK n \in Nat \ {0}, p \in S : req'[r] = NewRequest(n, p)
    BY <1>1 DEF Enlisted
  <2>2. p = r
    BY <1>3, <2>1
  <2> QED
    BY <2>1, <2>2 DEF NewRequest
<1>5. \A r \in S : req[r].outputs = 0 /\ req[r].generated = 0 /\ req[r].is_finished = FALSE
  <2>1. \A r \in S : req[r] = NoRequest
    BY DEF Submit, Out
  <2>2. NoRequest.outputs = 0 /\ NoRequest.generated = 0 /\ NoRequest.is_finished = FALSE
    BY DEF NoRequest, NewRequest
  <2> QED
    BY <2>1, <2>2
<1>6. max_tokens = [r \in Req |-> max_tokens[r]]
  BY DEF Limits
<1>7. ASSUME NEW r \in Req
      PROVE  /\ NumTokens(req'[r]) > 0 => req'[r].params = r
             /\ max_tokens[r] = Limit - (req'[r].outputs - req'[r].generated)
             /\ req'[r].is_finished => req'[r].outputs >= Limit
             /\ req[r].is_finished => req'[r].is_finished
  <2>1. CASE r \in S
    <3>1. max_tokens[r] = Limit - (req[r].outputs - req[r].generated)
      BY DEF Limits
    <3> QED
      BY <1>4, <1>5, <2>1, <3>1
  <2>2. CASE r \notin S
    BY <1>2, <2>2 DEF Limits
  <2> QED
    BY <2>1, <2>2
<1> QED
  BY <1>6, <1>7 DEF Limits

\* Limits and queues are what an action leaves of the invariant.
LEMMA AnswersStay ==
  ASSUME TypeInv, AnswerInv, Limits(req', max_tokens'),
         \A r \in Req : req[r].is_finished => req'[r].is_finished,
         sent' = sent, result' = result,
         \/ outbox' = outbox
         \/ \E A \in SUBSET Req : outbox' = Append(outbox, A) /\ \A r \in A : req'[r].is_finished
  PROVE  AnswerInv'
<1>1. outbox \in Seq(SUBSET Req)
  BY DEF TypeInv, Callers
<1>2. ToSet(outbox) \subseteq SUBSET Req
  BY <1>1, ToSetRange
<1>3. \A B \in ToSet(outbox) : \A r \in B : req'[r].is_finished
  BY <1>2 DEF AnswerInv
<1>4. \A B \in ToSet(outbox') : \A r \in B : req'[r].is_finished
  <2>1. CASE outbox' = outbox
    BY <1>3, <2>1
  <2>2. ASSUME NEW A \in SUBSET Req, outbox' = Append(outbox, A), \A r \in A : req'[r].is_finished
        PROVE  \A B \in ToSet(outbox') : \A r \in B : req'[r].is_finished
    <3>1. ToSet(outbox') = ToSet(outbox) \cup {A}
      BY <1>1, <2>2, ToSetAppend
    <3> QED
      BY <1>3, <2>2, <3>1
  <2> QED
    BY <2>1, <2>2
<1> QED
  BY <1>4 DEF AnswerInv, AnswerComplete

\* Every step keeps it where each request has parameters of its own.
LEMMA AnswerInvNext ==
  ASSUME TypeInv, ~ Batched, AnswerInv, [Next]_vars
  PROVE  AnswerInv'
<1>0. /\ InFlight /\ Callers /\ Queues(req, running, unaccepted)
      /\ running \in Seq(Req) /\ ToSet(running) \subseteq Req
      /\ req \in [Req -> Record(Req)]
      /\ \A r \in Req : req[r] \in Record(Req) /\ Inside(req[r])
      /\ \A r \in ToSet(running) : Started(req[r])
      /\ ToSet(step.batch) \subseteq ToSet(running)
  BY QueuesTyped DEF TypeInv, Queues, InFlight
<1>a. Limits(req, max_tokens)
  BY DEF AnswerInv
<1>1. CASE \E S \in SUBSET Req : Submit(S)
  <2>1. PICK S \in SUBSET Req : Submit(S)
    BY <1>1
  <2>2. UNCHANGED <<max_tokens, sent, result, outbox>>
    BY <2>1 DEF Submit, outputs
  <2>3. Limits(req', max_tokens) /\ \A r \in Req : req[r].is_finished => req'[r].is_finished
    BY <1>a, <2>1, LimitsNew
  <2> QED
    BY <2>2, <2>3, AnswersStay
<1>2. CASE EndStep
  <2>1. sent' = sent /\ result' = result
    BY <1>2 DEF EndStep, outputs
  <2>2. CASE UNCHANGED <<req, max_tokens, unaccepted, running, outbox>>
    BY <2>1, <2>2 DEF AnswerInv, AnswerComplete
  <2>3. ASSUME NEW S, NEW home, NEW rq, NEW A,
               Answered(req, max_tokens, S, home, rq),
               Queues(rq, running, unaccepted),
               S \subseteq ToSet(step.batch),
               A \subseteq {r \in S : Computed(req[r], max_tokens[req[r].params]).is_finished},
               outbox' = outbox \/ outbox' = Append(outbox, A),
               stopped => req' = rq /\ UNCHANGED <<max_tokens, unaccepted, running>>,
               ~ stopped => Made(chunking, Fused, rq, max_tokens, running)
        PROVE  AnswerInv'
    <3>1. /\ Limits(rq, max_tokens)
          /\ \A r \in Req : req[r].is_finished => rq[r].is_finished
          /\ \A r \in A : rq[r].is_finished
      <4>1. \A r \in S : Inside(req[r]) /\ Started(req[r])
        BY <1>0, <2>3
      <4>2. /\ Limits(rq, max_tokens)
            /\ \A r \in Req : req[r].is_finished => rq[r].is_finished
            /\ \A r \in S : Computed(req[r], max_tokens[req[r].params]).is_finished
                            => rq[r].is_finished
        BY <1>0, <1>a, <2>3, <4>1, LimitsAnswered
      <4> QED
        BY <2>3, <4>2
    <3>2. /\ Limits(req', max_tokens')
          /\ \A r \in Req : rq[r].is_finished => req'[r].is_finished
      <4>1. CASE stopped
        BY <2>3, <3>1, <4>1
      <4>2. CASE ~ stopped
        <5>1. rq \in [Req -> Record(Req)] /\ \A r \in ToSet(running) : Inside(rq[r]) /\ Started(rq[r])
          BY <1>0, <2>3 DEF Queues
        <5>2. Made(chunking, Fused, rq, max_tokens, running)
          BY <2>3, <4>2
        <5>3. /\ Limits(req', max_tokens')
              /\ \A r \in Req : rq[r].is_finished = req'[r].is_finished
          BY <1>0, <3>1, <5>1, <5>2, LimitsMade, Zenon
        <5> QED
          BY <5>3
      <4> QED
        BY <4>1, <4>2
    <3>3. A \subseteq Req
      BY <1>0, <2>3
    <3>4. \A r \in Req : req[r].is_finished => req'[r].is_finished
      BY <3>1, <3>2
    <3>5. \A r \in A : req'[r].is_finished
      BY <3>1, <3>2, <3>3
    <3> QED
      BY <2>1, <2>3, <3>2, <3>3, <3>4, <3>5, AnswersStay
  <2> QED
    BY <1>2, <2>2, <2>3, EndStepMoves, Zenon
<1>3. CASE Balloon
  <2>1. sent' = sent /\ result' = result /\ outbox' = outbox
    BY <1>3 DEF Balloon, outputs
  <2>2. PICK again, rq, run :
           /\ Again(req, running, again, rq)
           /\ run \in Seq(Req) /\ ToSet(run) = ToSet(running) \ again
           /\ rq \in [Req -> Record(Req)]
           /\ Made(TRUE, TRUE, rq, Charged(max_tokens, req, again), run)
    BY <1>3, BalloonMoves, Zenon
  <2>3. PICK limit : limit = Charged(max_tokens, req, again)
    OBVIOUS
  <2>4. Made(TRUE, TRUE, rq, limit, run)
    BY <2>2, <2>3, Zenon
  <2>5. again \in SUBSET ToSet(running)
    BY <2>2 DEF Again
  <2>6. ASSUME NEW r \in Req
        PROVE  /\ rq[r].params = req[r].params /\ rq[r].outputs = req[r].outputs
               /\ rq[r].is_finished = req[r].is_finished
               /\ NumTokens(rq[r]) = NumTokens(req[r])
               /\ rq[r].generated = IF r \in again THEN 0 ELSE req[r].generated
    <3>1. CASE r \in again
      <4>1. req[r] \in Record(Req) /\ Inside(req[r]) /\ Started(req[r])
        BY <1>0, <2>5, <3>1
      <4>2. rq[r] = Recomputed(req[r])
        BY <2>2, <3>1 DEF Again
      <4> QED
        BY <3>1, <4>1, <4>2, RecomputedRecord, RecomputedTokens
    <3>2. CASE r \notin again
      <4>1. rq[r] = req[r] \/ rq[r] = Marked(req[r], TRUE)
        BY <2>2, <3>2 DEF Again
      <4>2. SameLife(Marked(req[r], TRUE), req[r])
        BY <1>0, MarkedRecord
      <4>3. SameLife(rq[r], req[r])
        BY <4>1, <4>2 DEF SameLife
      <4> QED
        BY <3>2, <4>3 DEF SameLife, NumTokens
    <3> QED
      BY <3>1, <3>2
  <2>7. Limits(rq, limit)
    <3>1. \A r \in again : NumTokens(req[r]) > 0
      BY <1>0, <2>5, RunnersHaveTokens
    <3>2. again \in SUBSET Req
      BY <1>0, <2>5
    <3> QED
      BY <1>0, <1>a, <2>3, <2>6, <3>1, <3>2, LimitsCharged
  <2>8. \A r \in ToSet(run) : Inside(rq[r]) /\ Started(rq[r])
    <3>1. ASSUME NEW r \in ToSet(run) PROVE Inside(rq[r]) /\ Started(rq[r])
      <4>1. r \in Req \ again /\ req[r] \in Record(Req) /\ Inside(req[r]) /\ Started(req[r])
        BY <1>0, <2>2
      <4>2. rq[r] = req[r] \/ rq[r] = Marked(req[r], TRUE)
        BY <2>2, <4>1 DEF Again
      <4>3. Inside(Marked(req[r], TRUE)) /\ Started(Marked(req[r], TRUE))
        BY <4>1, MarkedRecord
      <4> QED
        BY <4>1, <4>2, <4>3
    <3> QED
      BY <3>1
  <2>9. ToSet(run) \subseteq Req
    BY <1>0, <2>2
  <2>10. /\ Limits(req', max_tokens')
         /\ \A r \in Req : rq[r].is_finished = req'[r].is_finished
    BY <2>2, <2>4, <2>7, <2>8, <2>9, LimitsMade, Zenon
  <2>11. \A r \in Req : req[r].is_finished => req'[r].is_finished
    BY <2>6, <2>10
  <2> QED
    BY <2>1, <2>10, <2>11, AnswersStay
<1>4. CASE Put
  <2>1. /\ UNCHANGED <<req, max_tokens, result>>
        /\ outbox # <<>> /\ outbox' = Tail(outbox) /\ sent' = PutToServers(Head(outbox))
    BY <1>4 DEF Put
  <2>2. outbox \in Seq(SUBSET Req)
    BY <1>0 DEF Callers
  <2>3. Head(outbox) \in ToSet(outbox) /\ ToSet(Tail(outbox)) \subseteq ToSet(outbox)
    BY <2>1, <2>2, HeadTailProperties, LenProperties, ElementOfSeq DEF ToSet
  <2>4. \A r \in Head(outbox) : r \in Req /\ req[r].outputs >= Limit
    <3>1. ToSet(outbox) \subseteq SUBSET Req
      BY <2>2, ToSetRange
    <3> QED
      BY <2>3, <3>1 DEF AnswerInv, Limits
  <2>5. \A l \in sent' : \A r \in DOMAIN l : l[r] >= Limit
    <3>1. ASSUME NEW l \in sent', NEW r \in DOMAIN l PROVE l[r] >= Limit
      <4>1. CASE l \in sent
        BY <3>1, <4>1 DEF AnswerInv
      <4>2. CASE l = [x \in Head(outbox) |-> req[x].outputs]
        BY <2>4, <3>1, <4>2
      <4> QED
        BY <2>1, <3>1, <4>1, <4>2 DEF PutToServers
    <3> QED
      BY <3>1
  <2> QED
    BY <2>1, <2>3, <2>5 DEF AnswerInv, AnswerComplete
<1>5. CASE \E list \in sent : GetOutputs(list)
  <2>1. PICK list \in sent : GetOutputs(list)
    BY <1>5
  <2>2. /\ UNCHANGED <<req, max_tokens, outbox>>
        /\ sent' = sent \ {list}
        /\ result' = [r \in Req |-> IF r \in DOMAIN list \cap streams THEN list[r] ELSE result[r]]
    BY <2>1 DEF GetOutputs, Finish
  <2>3. AnswerComplete'
    BY <2>2 DEF AnswerInv, AnswerComplete
  <2> QED
    BY <2>2, <2>3 DEF AnswerInv
<1>6. CASE StartStep \/ Stop \/ Restore \/ InitAgain \/ UNCHANGED vars
  <2>1. UNCHANGED <<req, max_tokens, outbox, sent, result>>
    BY <1>6 DEF StartStep, Stop, Restore, InitAgain, Restart, vars, outputs
  <2> QED
    BY <2>1 DEF AnswerInv, AnswerComplete
<1> QED
  BY <1>1, <1>2, <1>3, <1>4, <1>5, <1>6 DEF Next

\* A caller that has its answer has at least as many tokens as it asked for, in
\* spite of the recomputing that moves tokens generated into the prompt and lowers
\* max_tokens by as many (request.py:306-331), provided that no two requests share
\* their SamplingParams, as the requests of one batched generate call do.
THEOREM AnswersComplete == ASSUME ~ Batched PROVE Spec => []AnswerComplete
<1> DEFINE Inv == TypeInv /\ AnswerInv
<1>1. Init => Inv
  BY TypeInvInit, AnswerInvInit
<1>2. Inv /\ [Next]_vars => Inv'
  BY TypeInvNext, AnswerInvNext
<1>3. Inv => AnswerComplete
  BY DEF AnswerInv
<1> QED
  BY <1>1, <1>2, <1>3, PTL DEF Spec
=============================================================================
