-------------------------- MODULE LookAheadTheorems --------------------------
(***************************************************************************)
(* The properties of LookAhead, for every number of requests and virtual   *)
(* engines: a request is in one queue, only its virtual engine runs it,    *)
(* and after RESTORE it runs where its blocks are.  These hold whatever    *)
(* the chunks, with and without balancing decodes.                         *)
(***************************************************************************)
EXTENDS LookAhead, RequestsTheorems

-----------------------------------------------------------------------------
(* Sorting.                                                                *)

\* The positions of q by key, then by position.
Earlier(q, key, j, i) ==
  key[q[j]] < key[q[i]] \/ (key[q[j]] = key[q[i]] /\ j < i)

\* How many positions come before i.
Standing(q, key, i) == Cardinality({j \in 1 .. Len(q) : Earlier(q, key, j, i)})

\* Positions have different standings.
LEMMA Standings ==
  ASSUME NEW T, NEW q \in Seq(T), NEW key, \A x \in T : key[x] \in Int
  PROVE  /\ \A i \in 1 .. Len(q) : Standing(q, key, i) \in 0 .. Len(q) - 1
         /\ \A i, j \in 1 .. Len(q) : Standing(q, key, i) = Standing(q, key, j) => i = j
<1> DEFINE n == Len(q)
           B(i) == {j \in 1 .. n : Earlier(q, key, j, i)}
<1>1. n \in Nat /\ \A i \in 1 .. n : key[q[i]] \in Int
  BY LenProperties, ElementOfSeq
<1>2. IsFiniteSet(1 .. n) /\ Cardinality(1 .. n) = n
  <2>1. 1 \in Int /\ n \in Int /\ (IF 1 > n THEN 0 ELSE n - 1 + 1) = n
    BY <1>1
  <2> HIDE DEF n
  <2> QED
    BY <2>1, FS_Interval
<1>3. ASSUME NEW i \in 1 .. n
      PROVE  /\ IsFiniteSet(B(i)) /\ Cardinality(B(i)) \in Nat /\ Cardinality(B(i)) <= n
             /\ Cardinality(B(i)) # n
  <2>1. B(i) \in SUBSET (1 .. n) /\ i \notin B(i)
    BY <1>1 DEF Earlier
  <2> HIDE DEF B
  <2>2. IsFiniteSet(B(i)) /\ Cardinality(B(i)) <= n /\ (Cardinality(B(i)) = n => B(i) = 1 .. n)
    BY <1>2, <2>1, FS_Subset
  <2> QED
    BY <2>1, <2>2, FS_CardinalityType
<1>4. ASSUME NEW i \in 1 .. n, NEW j \in 1 .. n, Earlier(q, key, i, j)
      PROVE  Cardinality(B(i)) # Cardinality(B(j))
  <2>1. \A k \in 1 .. n : Earlier(q, key, k, i) => Earlier(q, key, k, j)
    BY <1>1, <1>4 DEF Earlier
  <2>2. B(i) \in SUBSET B(j) /\ i \in B(j) /\ i \notin B(i)
    BY <1>1, <1>4, <2>1 DEF Earlier
  <2> HIDE DEF B
  <2> QED
    BY <1>3, <2>2, FS_Subset
<1>5. ASSUME NEW i \in 1 .. n, NEW j \in 1 .. n, i # j
      PROVE  Earlier(q, key, i, j) \/ Earlier(q, key, j, i)
  BY <1>1, <1>5 DEF Earlier
<1>6. \A i \in 1 .. n : Standing(q, key, i) = Cardinality(B(i))
  BY DEF Standing
<1> HIDE DEF B
<1>7. ASSUME NEW i \in 1 .. n PROVE Standing(q, key, i) \in 0 .. n - 1
  BY <1>1, <1>3, <1>6
<1>8. ASSUME NEW i \in 1 .. n, NEW j \in 1 .. n, Standing(q, key, i) = Standing(q, key, j)
      PROVE  i = j
  BY <1>4, <1>5, <1>6, <1>8
<1> QED
  BY <1>7, <1>8

\* Every place of the order is somebody's.
LEMMA Ranked ==
  ASSUME NEW T, NEW q \in Seq(T), NEW key, \A x \in T : key[x] \in Int
  PROVE  \A k \in 1 .. Len(q) : \E i \in 1 .. Len(q) : Standing(q, key, i) = k - 1
<1> DEFINE n == Len(q)
           f == [i \in 1 .. n |-> Standing(q, key, i) + 1]
<1>1. n \in Nat
  BY LenProperties
<1>2. IsFiniteSet(1 .. n)
  BY <1>1, FS_Interval
<1>3. /\ \A i \in 1 .. n : Standing(q, key, i) \in 0 .. n - 1
      /\ \A i, j \in 1 .. n : Standing(q, key, i) = Standing(q, key, j) => i = j
  BY Standings
<1>4. f \in [1 .. n -> 1 .. n] /\ \A i, j \in 1 .. n : f[i] = f[j] => i = j
  <2>1. \A i \in 1 .. n : f[i] = Standing(q, key, i) + 1 /\ f[i] \in 1 .. n
    BY <1>1, <1>3
  <2>2. ASSUME NEW i \in 1 .. n, NEW j \in 1 .. n, f[i] = f[j] PROVE i = j
    <3>1. Standing(q, key, i) = Standing(q, key, j)
      BY <1>3, <2>1, <2>2
    <3> QED
      BY <1>3, <3>1
  <2> QED
    BY <2>1, <2>2
<1>5. f \in Injection(1 .. n, 1 .. n)
  BY <1>4 DEF Injection, IsInjective
<1>6. f \in Surjection(1 .. n, 1 .. n)
  BY <1>2, <1>5, FS_Injection
<1>7. ASSUME NEW k \in 1 .. n PROVE \E i \in 1 .. n : Standing(q, key, i) = k - 1
  <2>1. PICK i \in 1 .. n : f[i] = k
    BY <1>6 DEF Surjection
  <2>2. Standing(q, key, i) \in 0 .. n - 1 /\ f[i] = Standing(q, key, i) + 1
    BY <1>3
  <2>3. Standing(q, key, i) = k - 1
    BY <2>1, <2>2
  <2> QED
    BY <2>3
<1> QED
  BY <1>7

\* A sorted queue has the items of the queue.
LEMMA Sorted ==
  ASSUME NEW T, NEW q \in Seq(T), NEW key, \A x \in T : key[x] \in Int
  PROVE  /\ SortedBy(q, key) \in Seq(T) /\ Len(SortedBy(q, key)) = Len(q)
         /\ ToSet(SortedBy(q, key)) = ToSet(q)
         /\ OneEach(q) => OneEach(SortedBy(q, key))
<1> DEFINE n == Len(q)
           c(k) == CHOOSE i \in 1 .. n : Standing(q, key, i) = k - 1
           s == SortedBy(q, key)
<1>1. n \in Nat /\ DOMAIN q = 1 .. n /\ \A i \in 1 .. n : q[i] \in T
  BY LenProperties, ElementOfSeq
<1>2. s = [k \in 1 .. n |-> q[c(k)]]
  BY DEF SortedBy, Standing, Earlier
<1>3. \A k \in 1 .. n : c(k) \in 1 .. n /\ Standing(q, key, c(k)) = k - 1
  BY Ranked
<1>4. \A i \in 1 .. n : Standing(q, key, i) \in 0 .. n - 1
  BY Standings
<1>5. ASSUME NEW i \in 1 .. n PROVE \E k \in 1 .. n : c(k) = i
  <2>1. Standing(q, key, i) + 1 \in 1 .. n /\ (Standing(q, key, i) + 1) - 1 = Standing(q, key, i)
    BY <1>1, <1>4
  <2>2. PICK k : k = Standing(q, key, i) + 1
    OBVIOUS
  <2>3. k \in 1 .. n /\ Standing(q, key, i) = k - 1
    BY <2>1, <2>2
  <2>4. c(k) \in 1 .. n /\ Standing(q, key, c(k)) = Standing(q, key, i)
    BY <1>3, <2>3
  <2>5. c(k) = i
    BY <2>4, Standings
  <2> QED
    BY <2>3, <2>5
<1> HIDE DEF c, s
<1>6. \A k \in 1 .. n : s[k] = q[c(k)] /\ c(k) \in 1 .. n
  BY <1>2, <1>3
<1>7. s \in Seq(T) /\ Len(s) = n /\ DOMAIN s = 1 .. n
  <2>1. s \in [1 .. n -> T]
    BY <1>1, <1>2, <1>3
  <2>2. s \in Seq(T)
    BY <1>1, <2>1, SeqDef
  <2> QED
    BY <1>1, <2>1, <2>2, LenProperties
<1>8. ToSet(s) = ToSet(q)
  <2>1. ASSUME NEW x \in ToSet(s) PROVE x \in ToSet(q)
    BY <1>1, <1>6, <1>7 DEF ToSet
  <2>2. ASSUME NEW x \in ToSet(q) PROVE x \in ToSet(s)
    <3>1. PICK i \in 1 .. n : x = q[i]
      BY <1>1 DEF ToSet
    <3>2. PICK k \in 1 .. n : c(k) = i
      BY <1>5
    <3> QED
      BY <1>6, <1>7, <3>1, <3>2 DEF ToSet
  <2> QED
    BY <2>1, <2>2
<1>9. ASSUME OneEach(q) PROVE OneEach(s)
  <2> SUFFICES ASSUME NEW k \in 1 .. n, NEW l \in 1 .. n, s[k] = s[l] PROVE k = l
    BY <1>7 DEF OneEach
  <2>1. c(k) = c(l)
    BY <1>6, <1>9 DEF OneEach
  <2>2. k - 1 = l - 1
    BY <1>3, <2>1
  <2> QED
    BY <1>1, <2>2
<1> QED
  BY <1>7, <1>8, <1>9 DEF s

\* Among the first virtual engines there is one with the fewest.
LEMMA Lowest ==
  ASSUME NEW load, \A v \in Ve : load[v] \in Int, NEW n \in Ve
  PROVE  \E v \in 0 .. n : \A w \in 0 .. n :
           load[v] < load[w] \/ (load[v] = load[w] /\ v <= w)
<1> DEFINE Low(v, k) == \A w \in 0 .. k : load[v] < load[w] \/ (load[v] = load[w] /\ v <= w)
           E == {k \in Nat : k <= n => \E v \in 0 .. k : Low(v, k)}
<1>1. V \in Nat /\ n \in Nat /\ n <= V - 1
  BY LookAheadAssumption DEF Ve
<1>2. 0 \in E
  OBVIOUS
<1>3. ASSUME NEW k \in Nat, k \in E PROVE k + 1 \in E
  <2> SUFFICES ASSUME k + 1 <= n PROVE \E v \in 0 .. k + 1 : Low(v, k + 1)
    OBVIOUS
  <2>1. PICK v \in 0 .. k : Low(v, k)
    BY <1>1, <1>3
  <2>2. \A w \in 0 .. k + 1 : load[w] \in Int
    BY <1>1 DEF Ve
  <2>3. v \in 0 .. k + 1 /\ k + 1 \in 0 .. k + 1
    OBVIOUS
  <2>4. \A w \in 0 .. k + 1 : w \in 0 .. k \/ w = k + 1
    OBVIOUS
  <2>5. CASE load[v] <= load[k + 1]
    <3>1. Low(v, k + 1)
      BY <2>1, <2>2, <2>3, <2>4, <2>5
    <3> QED
      BY <2>3, <3>1
  <2>6. CASE load[k + 1] < load[v]
    <3>1. Low(k + 1, k + 1)
      BY <2>1, <2>2, <2>3, <2>4, <2>6
    <3> QED
      BY <2>3, <3>1
  <2> QED
    BY <2>2, <2>3, <2>5, <2>6
<1>4. Nat \subseteq E
  <2> HIDE DEF E
  <2> QED
    BY <1>2, <1>3, NatSet
<1>5. n \in E
  BY <1>1, <1>4
<1> QED
  BY <1>1, <1>5

\* One is the least busy, and one the busiest.
LEMMA Extremes ==
  ASSUME NEW load, \A v \in Ve : load[v] \in Int
  PROVE  /\ LeastBusy(load) \in Ve /\ \A w \in Ve : load[LeastBusy(load)] <= load[w]
         /\ Busiest(load) \in Ve /\ \A w \in Ve : load[Busiest(load)] >= load[w]
<1>1. V \in Nat /\ V - 1 \in Ve /\ Ve = 0 .. (V - 1)
  BY LookAheadAssumption DEF Ve
<1>2. \E v \in Ve : \A w \in Ve : load[v] < load[w] \/ (load[v] = load[w] /\ v <= w)
  BY <1>1, Lowest
<1>3. \E v \in Ve : \A w \in Ve : load[v] > load[w] \/ (load[v] = load[w] /\ v <= w)
  <2>1. PICK less : less = [v \in Ve |-> - load[v]]
    OBVIOUS
  <2>2. \A v \in Ve : less[v] \in Int /\ less[v] = - load[v]
    BY <2>1
  <2>3. PICK v \in Ve : \A w \in Ve : less[v] < less[w] \/ (less[v] = less[w] /\ v <= w)
    BY <1>1, <2>2, Lowest
  <2>4. \A w \in Ve : load[v] > load[w] \/ (load[v] = load[w] /\ v <= w)
    BY <2>2, <2>3
  <2> QED
    BY <2>4
<1>4. /\ LeastBusy(load) \in Ve
      /\ \A w \in Ve : load[LeastBusy(load)] < load[w]
                         \/ (load[LeastBusy(load)] = load[w] /\ LeastBusy(load) <= w)
  BY <1>2 DEF LeastBusy
<1>5. /\ Busiest(load) \in Ve
      /\ \A w \in Ve : load[Busiest(load)] > load[w]
                         \/ (load[Busiest(load)] = load[w] /\ Busiest(load) <= w)
  BY <1>3 DEF Busiest
<1> QED
  BY <1>4, <1>5

-----------------------------------------------------------------------------
(* The record of a request.  Decodes that arrive from another virtual      *)
(* engine can make the tokens left for the next chunks negative, and with  *)
(* them a chunk: its end may be any number.                                *)

Entry ==
  [prompt : Nat, begin : Int, end : Int, chunk_size : Int, generated : Nat,
   outputs : Nat, is_finished : BOOLEAN, fusion_exec : BOOLEAN, params : Req,
   cached : SUBSET Int]

\* The fields that say where a request belongs.
Alike(p, q) == p.is_finished = q.is_finished /\ p.fusion_exec = q.fusion_exec

\* A request as it arrives.
LEMMA NewEntry ==
  ASSUME NEW n \in Nat, NEW r \in Req
  PROVE  /\ NewRequest(n, r) \in Entry /\ NewRequest(n, r).is_finished = FALSE
         /\ Done(r) \in Entry /\ Done(r).is_finished = TRUE
<1>1. PICK C \in SUBSET Int : C = {}
  OBVIOUS
<1>2. ASSUME NEW k \in Nat, NEW b \in BOOLEAN
      PROVE  LET q == [prompt |-> k, begin |-> 0, end |-> k, chunk_size |-> 0, generated |-> 0,
                       outputs |-> 0, is_finished |-> b, fusion_exec |-> FALSE, params |-> r,
                       cached |-> C]
             IN  q \in Entry /\ q.is_finished = b
  BY DEF Entry
<1>3. NewRequest(n, r) \in Entry /\ NewRequest(n, r).is_finished = FALSE
  BY <1>1, <1>2, Zenon DEF NewRequest
<1>4. \A q \in Entry : LET d == [q EXCEPT !.is_finished = TRUE]
                      IN  d \in Entry /\ d.is_finished = TRUE
  BY DEF Entry
<1>5. NewRequest(0, r) \in Entry
  <2>1. 0 \in Nat
    OBVIOUS
  <2> QED
    BY <1>1, <1>2, <2>1, Zenon DEF NewRequest
<1> QED
  BY <1>3, <1>4, <1>5, Zenon DEF Done

\* Its numbers of tokens.
LEMMA EntryTokens ==
  ASSUME NEW q \in Entry
  PROVE  InputTokens(q) \in Nat /\ NumTokens(q) \in Nat /\ Unfinished(q) \in Int
  BY DEF Entry, InputTokens, NumTokens, Unfinished, Context

LEMMA NextEntry ==
  ASSUME NEW q \in Entry, NEW x \in Int
  PROVE  /\ NextChunk(q, x) \in Entry /\ Alike(NextChunk(q, x), q)
         /\ Unused(NextChunk(q, x)) \in Int
<1>1. Least(q.end + q.chunk_size + x, q.prompt) \in Int
  BY DEF Entry, Least
<1> DEFINE e == Least(q.end + q.chunk_size + x, q.prompt)
           c == q.chunk_size + x
           n == [q EXCEPT !.chunk_size = c, !.begin = q.end, !.end = e]
<1>2. NextChunk(q, x) = n
  BY DEF NextChunk
<1>3. c \in Int /\ q.end \in Int
  BY DEF Entry
<1> HIDE DEF e, c
<1>4. n \in Entry /\ Alike(n, q)
  <2>1. n \in Entry
    BY <1>1, <1>3 DEF Entry, e
  <2>2. Alike(n, q)
    BY DEF Entry, Alike
  <2> QED
    BY <2>1, <2>2
<1>5. Unused(n) \in Int
  <2>1. \A m \in Entry : Unused(m) \in Int
    BY DEF Unused, Entry
  <2> HIDE DEF n
  <2> QED
    BY <1>4, <2>1
<1> QED
  BY <1>2, <1>4, <1>5

LEMMA SetEntry ==
  ASSUME NEW q \in Entry, NEW x \in Int
  PROVE  SetChunk(q, x) \in Entry /\ Alike(SetChunk(q, x), q)
<1>1. Least(q.prompt, q.begin + x) \in Int
  BY DEF Entry, Least
<1> QED
  BY <1>1 DEF SetChunk, Entry, Alike

LEMMA MarkedEntry ==
  ASSUME NEW q \in Entry, NEW b \in BOOLEAN
  PROVE  /\ Marked(q, b) \in Entry
         /\ Marked(q, b).is_finished = q.is_finished /\ Marked(q, b).fusion_exec = b
  BY DEF Marked, Entry

LEMMA RecomputedEntry ==
  ASSUME NEW q \in Entry
  PROVE  /\ Recomputed(q) \in Entry
         /\ Recomputed(q).is_finished = q.is_finished /\ Recomputed(q).fusion_exec = TRUE
<1>1. PICK C \in SUBSET Int : C = {}
  OBVIOUS
<1>2. PICK p \in Nat : p = q.prompt + q.generated
  BY DEF Entry
<1> DEFINE a == [q EXCEPT !.prompt = p, !.generated = 0, !.begin = 0]
           n == [a EXCEPT !.end = p, !.fusion_exec = TRUE, !.cached = C]
<1>3. a \in Entry /\ a.is_finished = q.is_finished
  <2>1. [q EXCEPT !.prompt = p, !.generated = 0] \in Entry
    BY DEF Entry
  <2>2. a = [[q EXCEPT !.prompt = p, !.generated = 0] EXCEPT !.begin = 0]
    BY DEF Entry
  <2>3. \A m \in Entry : [m EXCEPT !.begin = 0] \in Entry
    BY DEF Entry
  <2>4. a.is_finished = q.is_finished
    BY DEF Entry
  <2> QED
    BY <2>1, <2>2, <2>3, <2>4, Zenon
<1>4. Recomputed(q) = n
  BY <1>1, <1>2 DEF Recomputed, Entry
<1> HIDE DEF a
<1>5. n \in Entry
  <2>1. \A m \in Entry : [m EXCEPT !.end = p, !.fusion_exec = TRUE] \in Entry
    <3>1. \A m \in Entry, x \in Nat : [m EXCEPT !.end = x] \in Entry
      BY DEF Entry
    <3>2. \A m \in Entry : [m EXCEPT !.fusion_exec = TRUE] \in Entry
      BY DEF Entry
    <3>3. \A m \in Entry : [m EXCEPT !.end = p, !.fusion_exec = TRUE]
                             = [[m EXCEPT !.end = p] EXCEPT !.fusion_exec = TRUE]
      BY DEF Entry
    <3> QED
      BY <3>1, <3>2, <3>3, Zenon
  <2>2. \A m \in Entry : [m EXCEPT !.end = p, !.fusion_exec = TRUE, !.cached = C]
                           = [[m EXCEPT !.end = p, !.fusion_exec = TRUE] EXCEPT !.cached = C]
    BY DEF Entry
  <2>3. \A m \in Entry : [m EXCEPT !.cached = C] \in Entry
    BY DEF Entry
  <2> QED
    BY <1>3, <2>1, <2>2, <2>3, Zenon
<1>6. n.is_finished = q.is_finished /\ n.fusion_exec = TRUE
  BY <1>3 DEF Entry
<1> QED
  BY <1>4, <1>5, <1>6

LEMMA ComputedEntry ==
  ASSUME NEW q \in Entry, NEW limit
  PROVE  /\ Computed(q, limit) \in Entry
         /\ Computed(q, limit).fusion_exec = q.fusion_exec
         /\ q.is_finished => Computed(q, limit).is_finished
<1>1. (q.begin .. q.end - 1) \in SUBSET Int
  BY DEF Entry
<1>2. PICK C \in SUBSET Int : C = q.cached \cup (IF Context(q) THEN q.begin .. q.end - 1 ELSE {})
  BY <1>1 DEF Entry
<1> DEFINE c == [q EXCEPT !.cached = C]
<1>3. c \in Entry /\ c.is_finished = q.is_finished /\ c.fusion_exec = q.fusion_exec
      /\ c.generated = q.generated /\ c.outputs = q.outputs
  BY DEF Entry
<1>4. q.generated + 1 \in Nat /\ q.outputs + 1 \in Nat
  BY DEF Entry
<1>5. PICK b \in BOOLEAN : b = (q.is_finished \/ q.generated + 1 >= limit)
  OBVIOUS
<1>6. Computed(q, limit) = IF FollowUp(q) THEN c
         ELSE [c EXCEPT !.generated = q.generated + 1, !.outputs = q.outputs + 1,
                        !.is_finished = b]
  BY <1>2, <1>5 DEF Computed, Entry
<1> HIDE DEF c
<1>7. \A g, o \in Nat : [c EXCEPT !.generated = g, !.outputs = o, !.is_finished = b] \in Entry
  BY <1>3 DEF Entry
<1>8. \A g, o \in Nat : LET n == [c EXCEPT !.generated = g, !.outputs = o, !.is_finished = b]
                       IN  n.is_finished = b /\ n.fusion_exec = q.fusion_exec
  BY <1>3 DEF Entry
<1>9. CASE FollowUp(q)
  BY <1>3, <1>6, <1>9, Zenon
<1>10. CASE ~ FollowUp(q)
  <2>1. PICK d : d = [c EXCEPT !.generated = q.generated + 1, !.outputs = q.outputs + 1,
                               !.is_finished = b]
    OBVIOUS
  <2>2. Computed(q, limit) = d
    BY <1>6, <1>10, <2>1, Zenon
  <2>3. d \in Entry /\ d.is_finished = b /\ d.fusion_exec = q.fusion_exec
    BY <1>4, <1>7, <1>8, <2>1, Zenon
  <2>4. q.is_finished => b
    BY <1>5
  <2> QED
    BY <2>2, <2>3, <2>4, Zenon
<1> QED
  BY <1>9, <1>10

\* The tokens that a prefill takes of the budget.
PromptTokens(q) == IF Context(q) THEN InputTokens(q) ELSE 0
PromptWeights(rq) == [r \in Req |-> PromptTokens(rq[r])]

\* A chunk that does not end with the prompt is as long as it may be.
Fit(q)   == q.end < q.prompt => q.chunk_size = q.end - q.begin
Fits(rq) == \A r \in Req : Fit(rq[r])

\* What can be given away.
Spare(x) == IF x > 0 THEN x ELSE 0

LEMMA PromptsNat ==
  ASSUME NEW q \in Entry
  PROVE  PromptTokens(q) \in Nat /\ PromptTokens(q) <= InputTokens(q)
  BY EntryTokens DEF PromptTokens

\* A chunk and what is left of it, after what it was and could get.
LEMMA NextSpends ==
  ASSUME NEW q \in Entry, Fit(q), FollowUp(q), NEW x \in Int
  PROVE  /\ Fit(NextChunk(q, x))
         /\ PromptTokens(NextChunk(q, x)) + Spare(Unused(NextChunk(q, x)))
              <= PromptTokens(q) + Spare(x)
<1> DEFINE c == q.chunk_size + x
           e == Least(q.end + q.chunk_size + x, q.prompt)
           n == NextChunk(q, x)
<1>1. /\ n.prompt = q.prompt /\ n.generated = q.generated /\ n.begin = q.end
      /\ n.chunk_size = c /\ n.end = e
  BY DEF NextChunk, Entry
<1>2. /\ q.prompt \in Nat /\ q.end \in Int /\ q.begin \in Int /\ q.chunk_size \in Int
      /\ q.generated = 0 /\ q.end < q.prompt /\ q.chunk_size = q.end - q.begin
  BY DEF Entry, FollowUp, Context, Fit
<1>3. PICK p \in Nat, b \in Int, d \in Int : p = q.prompt /\ b = q.begin /\ d = q.end
  BY <1>2
<1>4. /\ PromptTokens(q) = IF b < d THEN d - b ELSE 0
      /\ d < p
  BY <1>2, <1>3 DEF PromptTokens, Context, InputTokens
<1>5. c = d - b + x /\ e = Least(d + (d - b) + x, p)
  BY <1>2, <1>3
<1>6. /\ PromptTokens(n) = IF d < e THEN e - d ELSE 0
      /\ Unused(n) = c - (e - d)
      /\ Fit(n) <=> (e < p => c = e - d)
  BY <1>1, <1>2, <1>3 DEF PromptTokens, Context, InputTokens, Unused, Fit
<1> HIDE DEF n, c, e
<1>7. e = (IF d + c < p THEN d + c ELSE p) /\ c \in Int
  BY <1>5 DEF Least
<1>8. Fit(n)
  BY <1>6, <1>7
<1>9. PromptTokens(n) + Spare(Unused(n)) <= PromptTokens(q) + Spare(x)
  <2>1. PICK t \in Int, y \in Int : t = PromptTokens(q) /\ y = Spare(x)
    BY <1>4 DEF Spare
  <2>2. t >= 0 /\ t >= d - b /\ y >= 0 /\ y >= x
    BY <1>4, <2>1 DEF Spare
  <2>3. c <= t + y /\ 0 <= t + y
    BY <1>5, <2>2
  <2>4. CASE d + c < p
    <3>1. e = d + c
      BY <1>7, <2>4
    <3>2. Spare(Unused(n)) = 0
      BY <1>6, <1>7, <3>1 DEF Spare
    <3>3. PromptTokens(n) = IF 0 < c THEN c ELSE 0
      BY <1>6, <1>7, <3>1
    <3> QED
      BY <1>7, <2>1, <2>3, <3>2, <3>3
  <2>5. CASE ~ (d + c < p)
    <3>1. e = p
      BY <1>7, <2>5
    <3>2. PromptTokens(n) = p - d
      BY <1>4, <1>6, <3>1
    <3>3. Spare(Unused(n)) = c - (p - d)
      BY <1>6, <1>7, <2>5, <3>1 DEF Spare
    <3> QED
      BY <1>7, <2>1, <2>3, <3>2, <3>3
  <2> QED
    BY <2>4, <2>5
<1> QED
  BY <1>8, <1>9 DEF n

\* The first chunk.
LEMMA SetSpends ==
  ASSUME NEW q \in Entry, NEW x \in Nat \ {0}
  PROVE  /\ Fit(SetChunk(q, x)) /\ PromptTokens(SetChunk(q, x)) <= x
         /\ (InputTokens(SetChunk(q, x)) <= x)
<1> DEFINE n == SetChunk(q, x)
           e == Least(q.prompt, q.begin + x)
<1>1. /\ n.prompt = q.prompt /\ n.generated = q.generated /\ n.begin = q.begin
      /\ n.chunk_size = x /\ n.end = e
  BY DEF SetChunk, Entry
<1>2. q.prompt \in Nat /\ q.begin \in Int /\ q.generated \in Nat
  BY DEF Entry
<1> HIDE DEF n
<1>3. Fit(n)
  BY <1>1, <1>2 DEF Fit, Least
<1>4. InputTokens(n) <= x
  BY <1>1, <1>2 DEF InputTokens, Context, Least
<1>5. PromptTokens(n) <= x
  BY <1>4 DEF PromptTokens
<1> QED
  BY <1>3, <1>4, <1>5 DEF n

\* Marking a request leaves its tokens and its chunk.
LEMMA MarkedSpends ==
  ASSUME NEW q \in Entry, NEW b \in BOOLEAN
  PROVE  /\ InputTokens(Marked(q, b)) = InputTokens(q)
         /\ PromptTokens(Marked(q, b)) = PromptTokens(q)
         /\ Fit(q) => Fit(Marked(q, b))
<1>1. LET n == Marked(q, b)
      IN  /\ n.prompt = q.prompt /\ n.generated = q.generated /\ n.begin = q.begin
          /\ n.chunk_size = q.chunk_size /\ n.end = q.end
  BY DEF Marked, Entry
<1> QED
  BY <1>1 DEF InputTokens, PromptTokens, Context, Fit

\* What has been computed costs no more than before.
LEMMA ComputedSpends ==
  ASSUME NEW q \in Entry, Fit(q), NEW limit
  PROVE  Fit(Computed(q, limit)) /\ PromptTokens(Computed(q, limit)) <= PromptTokens(q)
<1>1. PICK C : C = q.cached \cup (IF Context(q) THEN q.begin .. q.end - 1 ELSE {})
  OBVIOUS
<1>2. PICK b : b = (q.is_finished \/ q.generated + 1 >= limit)
  OBVIOUS
<1> DEFINE c == [q EXCEPT !.cached = C]
           n == [c EXCEPT !.generated = q.generated + 1, !.outputs = q.outputs + 1,
                          !.is_finished = b]
<1>3. /\ c.prompt = q.prompt /\ c.generated = q.generated /\ c.begin = q.begin
      /\ c.chunk_size = q.chunk_size /\ c.end = q.end
      /\ n.prompt = q.prompt /\ n.generated = q.generated + 1 /\ n.begin = q.begin
      /\ n.chunk_size = q.chunk_size /\ n.end = q.end
  BY DEF Entry
<1>4. Computed(q, limit) = IF FollowUp(q) THEN c ELSE n
  BY <1>1, <1>2 DEF Computed, Entry
<1> HIDE DEF c, n
<1>5. Fit(c) /\ Fit(n)
  BY <1>3 DEF Fit
<1>6. PromptTokens(c) = PromptTokens(q)
  BY <1>3 DEF PromptTokens, Context, InputTokens
<1>7. PromptTokens(n) = 0
  <2>1. q.generated \in Nat
    BY DEF Entry
  <2> QED
    BY <1>3, <2>1 DEF PromptTokens, Context
<1>8. PromptTokens(q) \in Nat
  BY PromptsNat
<1> QED
  BY <1>4, <1>5, <1>6, <1>7, <1>8

\* A request that starts again, or one that arrives, has its whole prompt as its chunk.
LEMMA WholeFit ==
  /\ \A q \in Entry : Fit(Recomputed(q))
  /\ \A n \in Nat, r \in Req : Fit(NewRequest(n, r)) /\ Fit(Done(r))
<1>1. ASSUME NEW q \in Entry PROVE Fit(Recomputed(q))
  <2>1. /\ Recomputed(q).prompt = q.prompt + q.generated
        /\ Recomputed(q).end = q.prompt + q.generated
    BY DEF Recomputed, Entry
  <2>2. q.prompt + q.generated \in Nat
    BY DEF Entry
  <2> QED
    BY <2>1, <2>2 DEF Fit
<1>2. ASSUME NEW n \in Nat, NEW r \in Req PROVE Fit(NewRequest(n, r)) /\ Fit(Done(r))
  <2>1. /\ NewRequest(n, r).prompt = n /\ NewRequest(n, r).end = n
        /\ Done(r).prompt = 0 /\ Done(r).end = 0
    BY DEF NewRequest, Done
  <2> QED
    BY <2>1 DEF Fit
<1> QED
  BY <1>1, <1>2

\* What of `start` is left for the next chunks after each request of the batch.
Hands(free, start, rq, run) ==
    /\ free[0] = start
    /\ \A k \in Nat : k < Len(run) => free[k + 1] = IF FollowUp(rq[run[k + 1]])
                                                   THEN Unused(NextChunk(rq[run[k + 1]], free[k]))
                                                   ELSE free[k]

\* a is what ChunksFrom gives when the tokens left are the numbers of free.
Handed(free, a, rq, run) ==
    /\ a.free = free[Len(run)] /\ DOMAIN a.req = Req
    /\ a.req = [r \in Req |-> a.req[r]]
    /\ \A r \in Req : a.req[r] = IF r \in ToSet(run) /\ FollowUp(rq[r])
                                 THEN NextChunk(rq[r], free[PlaceIn(run, r) - 1])
                                 ELSE rq[r]

\* The tokens left, request by request, are numbers, of either sign.
LEMMA Leftovers ==
  ASSUME NEW rq \in [Req -> Entry], NEW run \in Seq(Req), NEW start \in Int
  PROVE  \E free \in [Nat -> Int] : /\ Hands(free, start, rq, run)
                                   /\ Handed(free, ChunksFrom(start, rq, run), rq, run)
<1> DEFINE n == Len(run)
           G == [k \in Nat |-> [s \in Int |-> IF k \in 1 .. n /\ FollowUp(rq[run[k]])
                                             THEN Unused(NextChunk(rq[run[k]], s))
                                             ELSE s]]
           Fix(f) == f = [k \in 0 .. n |->
                            IF k = 0 THEN start
                            ELSE IF FollowUp(rq[run[k]])
                            THEN Unused(NextChunk(rq[run[k]], f[k - 1]))
                            ELSE f[k - 1]]
<1>1. n \in Nat /\ DOMAIN run = 1 .. n /\ DOMAIN rq = Req /\ \A k \in 1 .. n : run[k] \in Req
  BY LenProperties, ElementOfSeq
<1>2. \A k \in 1 .. n, s \in Int : Unused(NextChunk(rq[run[k]], s)) \in Int
  BY <1>1, NextEntry
<1>3. PICK f \in [Nat -> Int] : Follows(f, start, G)
  <2>1. G \in [Nat -> [Int -> Int]]
    BY <1>2
  <2> HIDE DEF G
  <2> QED
    BY <2>1, Recursion
<1>4. f[0] = start /\ \A k \in Nat : k < n => f[k + 1] = IF FollowUp(rq[run[k + 1]])
                                        THEN Unused(NextChunk(rq[run[k + 1]], f[k]))
                                        ELSE f[k]
  <2>1. f[0] = start /\ \A k \in Nat : f[k + 1] = G[k + 1][f[k]] /\ f[k] \in Int
    BY <1>3 DEF Follows
  <2>2. ASSUME NEW k \in Nat, k < n
        PROVE  f[k + 1] = IF FollowUp(rq[run[k + 1]])
                          THEN Unused(NextChunk(rq[run[k + 1]], f[k]))
                          ELSE f[k]
    <3>1. k + 1 \in Nat /\ k + 1 \in 1 .. n
      BY <1>1, <2>2
    <3> QED
      BY <2>1, <3>1
  <2> QED
    BY <2>1, <2>2
<1> HIDE DEF G
<1>5. Fix([k \in 0 .. n |-> f[k]])
  <2>1. ASSUME NEW k \in 0 .. n, k # 0
        PROVE  f[k] = IF FollowUp(rq[run[k]])
                      THEN Unused(NextChunk(rq[run[k]], f[k - 1]))
                      ELSE f[k - 1]
    <3>1. k - 1 \in Nat /\ k - 1 < n /\ (k - 1) + 1 = k
      BY <1>1, <2>1
    <3> QED
      BY <1>4, <3>1
  <2>2. \A k \in 0 .. n : k # 0 => k - 1 \in 0 .. n
    BY <1>1
  <2> QED
    BY <1>4, <2>1, <2>2
<1> DEFINE free == CHOOSE g : Fix(g)
<1>6. Fix(free)
  <2> HIDE DEF Fix
  <2> QED
    BY <1>5
<1>7. /\ ChunksFrom(start, rq, run).free = free[n]
      /\ ChunksFrom(start, rq, run).req =
           [r \in DOMAIN rq |-> IF r \in ToSet(run) /\ FollowUp(rq[r])
                                THEN NextChunk(rq[r], free[PlaceIn(run, r) - 1])
                                ELSE rq[r]]
  BY DEF ChunksFrom, PlaceIn
<1> HIDE DEF free
<1>8. \A k \in 0 .. n : free[k] = f[k]
  <2> DEFINE E == {k \in Nat : k <= n => free[k] = f[k]}
  <2>1. 0 \in E
    BY <1>1, <1>4, <1>6
  <2>2. ASSUME NEW k \in Nat, k \in E PROVE k + 1 \in E
    <3> SUFFICES ASSUME k + 1 <= n PROVE free[k + 1] = f[k + 1]
      OBVIOUS
    <3>1. k + 1 \in 0 .. n /\ k + 1 # 0 /\ (k + 1) - 1 = k /\ k < n /\ k <= n
      BY <1>1
    <3>2. free[k] = f[k]
      BY <2>2, <3>1
    <3>3. free[k + 1] = IF FollowUp(rq[run[k + 1]])
                        THEN Unused(NextChunk(rq[run[k + 1]], free[k]))
                        ELSE free[k]
      BY <1>6, <3>1
    <3>4. f[k + 1] = IF FollowUp(rq[run[k + 1]])
                     THEN Unused(NextChunk(rq[run[k + 1]], f[k]))
                     ELSE f[k]
      BY <1>4, <3>1
    <3> QED
      BY <3>2, <3>3, <3>4
  <2>3. Nat \subseteq E
    <3> HIDE DEF E
    <3> QED
      BY <2>1, <2>2, NatSet
  <2> QED
    BY <1>1, <2>3
<1>9. \A r \in ToSet(run) : PlaceIn(run, r) \in 1 .. n
  BY <1>1 DEF PlaceIn, ToSet
<1>10. \A r \in ToSet(run) : free[PlaceIn(run, r) - 1] = f[PlaceIn(run, r) - 1]
  <2>1. ASSUME NEW r \in ToSet(run) PROVE PlaceIn(run, r) - 1 \in 0 .. n
    BY <1>1, <1>9
  <2> QED
    BY <1>8, <2>1
<1>11. n \in 0 .. n
  BY <1>1
<1>12. Hands(f, start, rq, run)
  BY <1>4 DEF Hands
<1> HIDE DEF Fix, n
<1>13. Handed(f, ChunksFrom(start, rq, run), rq, run)
  <2>1. n = Len(run)
    BY DEF n
  <2>2. PICK a : a = ChunksFrom(start, rq, run)
    OBVIOUS
  <2>3. a.free = f[Len(run)]
    BY <1>7, <1>8, <1>11, <2>1, <2>2
  <2>4. a.req = [r \in Req |-> IF r \in ToSet(run) /\ FollowUp(rq[r])
                               THEN NextChunk(rq[r], free[PlaceIn(run, r) - 1])
                               ELSE rq[r]]
    BY <1>1, <1>7, <2>2
  <2>5. DOMAIN a.req = Req /\ a.req = [r \in Req |-> a.req[r]]
    BY <2>4
  <2>6. \A r \in Req : a.req[r] = IF r \in ToSet(run) /\ FollowUp(rq[r])
                                 THEN NextChunk(rq[r], f[PlaceIn(run, r) - 1])
                                 ELSE rq[r]
    BY <1>10, <2>4
  <2>7. Handed(f, a, rq, run)
    BY <2>3, <2>5, <2>6 DEF Handed
  <2> QED
    BY <2>2, <2>7
<1> QED
  BY <1>3, <1>12, <1>13

\* The next chunks change no request but in its chunk.
LEMMA NextEntries ==
  ASSUME NEW rq \in [Req -> Entry], NEW run \in Seq(Req), NEW budget \in Int
  PROVE  LET a == NextChunks(rq, run, budget)
         IN  a.req \in [Req -> Entry] /\ a.free \in Int /\ \A r \in Req : Alike(a.req[r], rq[r])
<1>1. TokensOf(rq, run) \in Int
  <2>1. PICK w : w = [r \in Req |-> InputTokens(rq[r])]
    OBVIOUS
  <2>2. \A r \in Req : w[r] \in Int
    BY <2>1, EntryTokens
  <2>3. TokensOf(rq, run) = Total(w, run)
    BY <2>1 DEF TokensOf
  <2> QED
    BY <2>2, <2>3, TotalInt
<1>2. PICK start \in Int : start = budget - TokensOf(rq, run)
  BY <1>1
<1> DEFINE a == ChunksFrom(start, rq, run)
<1>3. PICK free \in [Nat -> Int] : Handed(free, a, rq, run)
  BY Leftovers
<1>8. NextChunks(rq, run, budget) = a
  BY <1>2 DEF NextChunks
<1> HIDE DEF a
<1>4. /\ a.free = free[Len(run)] /\ a.req = [r \in Req |-> a.req[r]]
      /\ \A r \in Req : a.req[r] = IF r \in ToSet(run) /\ FollowUp(rq[r])
                                   THEN NextChunk(rq[r], free[PlaceIn(run, r) - 1])
                                   ELSE rq[r]
  BY <1>3 DEF Handed
<1>5. Len(run) \in Nat /\ DOMAIN run = 1 .. Len(run)
  BY LenProperties
<1>6. ASSUME NEW r \in Req PROVE a.req[r] \in Entry /\ Alike(a.req[r], rq[r])
  <2>1. CASE r \in ToSet(run) /\ FollowUp(rq[r])
    <3>1. PlaceIn(run, r) \in 1 .. Len(run)
      BY <1>5, <2>1 DEF PlaceIn, ToSet
    <3>2. free[PlaceIn(run, r) - 1] \in Int
      <4>1. PlaceIn(run, r) - 1 \in Nat
        BY <1>5, <3>1
      <4> QED
        BY <1>4, <4>1
    <3>3. a.req[r] = NextChunk(rq[r], free[PlaceIn(run, r) - 1])
      BY <1>4, <2>1
    <3> QED
      BY <3>2, <3>3, NextEntry
  <2>2. CASE ~ (r \in ToSet(run) /\ FollowUp(rq[r]))
    BY <1>4, <2>2 DEF Alike
  <2> QED
    BY <2>1, <2>2
<1>7. a.free \in Int /\ a.req \in [Req -> Entry]
  BY <1>4, <1>5, <1>6
<1> QED
  BY <1>6, <1>7, <1>8, Zenon

\* The batch has been made of rq: the requests of C have been looked at.
Checks(rp, rq, C, fx) ==
    /\ rp \in [Req -> Entry]
    /\ \A r \in Req : /\ rp[r].is_finished = rq[r].is_finished
                      /\ rp[r].fusion_exec = IF r \in C THEN fx ELSE rq[r].fusion_exec

LEMMA TokensInt ==
  ASSUME NEW rq \in [Req -> Entry], NEW q \in Seq(Req)
  PROVE  TokensOf(rq, q) \in Int
<1>1. PICK w : w = [r \in Req |-> InputTokens(rq[r])]
  OBVIOUS
<1>2. \A r \in Req : w[r] \in Int
  BY <1>1, EntryTokens
<1>3. TokensOf(rq, q) = Total(w, q)
  BY <1>1 DEF TokensOf
<1> QED
  BY <1>2, <1>3, TotalInt

\* Admission takes requests from the head of the queue, and only whom it looks at.
Grants(a, rq, run, un, fx) ==
  \E n \in 0 .. Len(un) :
    /\ a.running = run \o SubSeq(un, 1, n)
    /\ a.queue = SubSeq(un, n + 1, Len(un))
    /\ ToSet(SubSeq(un, 1, n)) \subseteq a.checked /\ a.checked \subseteq ToSet(un)
    /\ Checks(a.req, rq, a.checked, fx)

LEMMA Admits ==
  ASSUME NEW rq \in [Req -> Entry], NEW run \in Seq(Req), NEW un \in Seq(Req),
         NEW fx \in BOOLEAN, NEW room \in 0 .. Len(un), NEW size \in Int, NEW tokens \in Int
  PROVE  Grants(Admit(TRUE, fx, rq, run, un, room, size, tokens), rq, run, un, fx)
<1> DEFINE slots   == Least(room, size - Len(run))
           K       == {k \in 1 .. slots : FreeTokens(rq, run, un, k, tokens) >= 0}
           whole   == Cardinality(K)
           left    == FreeTokens(rq, run, un, whole, tokens)
           chunked == TRUE /\ whole < slots /\ left # 0
           n       == IF chunked THEN whole + 1 ELSE whole
           m       == Least(whole + 1, Len(un))
           checked == ToSet(SubSeq(un, 1, m))
           marked  == [r \in DOMAIN rq |-> [rq[r] EXCEPT !.fusion_exec =
                                              IF r \in checked THEN fx ELSE @]]
           a       == Admit(TRUE, fx, rq, run, un, room, size, tokens)
<1>1. /\ a.req = IF chunked /\ left > 0
                 THEN [marked EXCEPT ![un[n]] = SetChunk(@, left)]
                 ELSE marked
      /\ a.running = run \o SubSeq(un, 1, n)
      /\ a.queue = SubSeq(un, n + 1, Len(un))
      /\ a.checked = checked
  BY DEF Admit, Counted
<1> HIDE DEF a
<1>2. Len(un) \in Nat /\ Len(run) \in Nat /\ DOMAIN rq = Req /\ DOMAIN un = 1 .. Len(un)
  BY LenProperties
<1>3. slots \in Int /\ slots <= Len(un)
  BY <1>2 DEF Least
<1> HIDE DEF slots
<1>4. whole \in Nat /\ whole <= Len(un)
  <2>1. IsFiniteSet(1 .. Len(un)) /\ Cardinality(1 .. Len(un)) = Len(un)
    <3> DEFINE l == Len(un)
    <3>1. 1 \in Int /\ l \in Int /\ (IF 1 > l THEN 0 ELSE l - 1 + 1) = l
      BY <1>2
    <3> HIDE DEF l
    <3>2. IsFiniteSet(1 .. l) /\ Cardinality(1 .. l) = l
      BY <3>1, FS_Interval
    <3> QED
      BY <3>2 DEF l
  <2>2. K \in SUBSET (1 .. Len(un))
    BY <1>2, <1>3
  <2> HIDE DEF K
  <2>3. IsFiniteSet(K) /\ Cardinality(K) <= Cardinality(1 .. Len(un))
    BY <2>1, <2>2, FS_Subset
  <2>4. Cardinality(K) \in Nat
    BY <2>3, FS_CardinalityType
  <2> QED
    BY <2>1, <2>3, <2>4
<1> HIDE DEF K, whole
<1>5. left \in Int
  <2>1. whole \in 0 .. Len(un)
    BY <1>2, <1>4
  <2>2. run \o SubSeq(un, 1, whole) \in Seq(Req)
    BY <2>1, HeadSeq, ConcatProperties
  <2>3. TokensOf(rq, run \o SubSeq(un, 1, whole)) \in Int
    BY <2>2, TokensInt
  <2>4. left = tokens - TokensOf(rq, run \o SubSeq(un, 1, whole))
    BY DEF FreeTokens
  <2> HIDE DEF left
  <2> QED
    BY <2>3, <2>4
<1> HIDE DEF left
<1>6. n \in 0 .. Len(un) /\ m \in 0 .. Len(un) /\ n <= m /\ (chunked => n \in 1 .. Len(un))
  BY <1>2, <1>3, <1>4 DEF Least
<1> HIDE DEF n, m, chunked
<1>7. /\ ToSet(SubSeq(un, 1, n)) = {un[i] : i \in 1 .. n}
      /\ checked = {un[i] : i \in 1 .. m}
      /\ ToSet(un) = {un[i] : i \in 1 .. Len(un)}
  <2>1. ToSet(SubSeq(un, 1, n)) = {un[i] : i \in 1 .. n}
    BY <1>6, HeadSet
  <2>2. checked = {un[i] : i \in 1 .. m}
    BY <1>6, HeadSet
  <2>3. ToSet(un) = {un[i] : i \in 1 .. Len(un)}
    BY <1>2 DEF ToSet
  <2> QED
    BY <2>1, <2>2, <2>3
<1> HIDE DEF checked
<1>8. ToSet(SubSeq(un, 1, n)) \subseteq checked /\ checked \subseteq ToSet(un)
  <2>1. 1 .. n \subseteq 1 .. m /\ 1 .. m \subseteq 1 .. Len(un)
    BY <1>2, <1>6
  <2> QED
    BY <1>7, <2>1
<1>9. /\ marked = [r \in Req |-> marked[r]]
      /\ \A r \in Req : marked[r] = Marked(rq[r], IF r \in checked THEN fx ELSE rq[r].fusion_exec)
  BY <1>2 DEF Marked
<1> HIDE DEF marked
<1>10. ASSUME NEW r \in Req
       PROVE  /\ marked[r] \in Entry /\ marked[r].is_finished = rq[r].is_finished
              /\ marked[r].fusion_exec = IF r \in checked THEN fx ELSE rq[r].fusion_exec
  <2>1. PICK b : b = IF r \in checked THEN fx ELSE rq[r].fusion_exec
    OBVIOUS
  <2>2. b \in BOOLEAN
    <3>1. rq[r].fusion_exec \in BOOLEAN
      BY DEF Entry
    <3> QED
      BY <2>1, <3>1
  <2>3. marked[r] = Marked(rq[r], b)
    BY <1>9, <2>1
  <2>4. /\ Marked(rq[r], b) \in Entry /\ Marked(rq[r], b).is_finished = rq[r].is_finished
        /\ Marked(rq[r], b).fusion_exec = b
    BY <2>2, MarkedEntry
  <2> QED
    BY <2>1, <2>3, <2>4
<1>11. \A r \in Req : SetChunk(marked[r], left) \in Entry /\ Alike(SetChunk(marked[r], left), marked[r])
  BY <1>5, <1>10, SetEntry
<1>12. CASE chunked /\ left > 0
  <2>1. un[n] \in Req
    BY <1>6, <1>12, ElementOfSeq
  <2>2. /\ a.req = [r \in Req |-> a.req[r]]
        /\ \A r \in Req : a.req[r] = IF r = un[n] THEN SetChunk(marked[r], left) ELSE marked[r]
    <3>1. a.req = [marked EXCEPT ![un[n]] = SetChunk(@, left)]
      BY <1>1, <1>12
    <3> QED
      BY <1>9, <2>1, <3>1
  <2>3. \A r \in Req : a.req[r] \in Entry /\ Alike(a.req[r], marked[r])
    BY <1>10, <1>11, <2>2 DEF Alike
  <2>4. a.req \in [Req -> Entry]
    BY <2>2, <2>3
  <2>5. Checks(a.req, rq, checked, fx)
    BY <1>10, <2>3, <2>4 DEF Checks, Alike
  <2>6. /\ ToSet(SubSeq(un, 1, n)) \subseteq a.checked /\ a.checked \subseteq ToSet(un)
        /\ Checks(a.req, rq, a.checked, fx)
    BY <1>1, <1>8, <2>5
  <2> QED
    BY <1>1, <1>6, <2>6 DEF a, Grants
<1>13. CASE ~ (chunked /\ left > 0)
  <2>1. a.req = marked
    BY <1>1, <1>13
  <2>2. marked \in [Req -> Entry]
    BY <1>9, <1>10
  <2>3. Checks(a.req, rq, checked, fx)
    BY <1>10, <2>1, <2>2 DEF Checks
  <2>6. /\ ToSet(SubSeq(un, 1, n)) \subseteq a.checked /\ a.checked \subseteq ToSet(un)
        /\ Checks(a.req, rq, a.checked, fx)
    BY <1>1, <1>8, <2>3
  <2> QED
    BY <1>1, <1>6, <2>6 DEF a, Grants
<1> QED
  BY <1>12, <1>13 DEF a

-----------------------------------------------------------------------------
(* The queues and batches.  `at` says where every request is.              *)

InGlobal     == <<"global", 0>>
InShort(v)   == <<"short", v>>
InLong(v)    == <<"long", v>>
InRunning(v) == <<"running", v>>
Nowhere      == <<"nowhere", 0>>

Spots == {Nowhere, InGlobal} \cup {InShort(v) : v \in Ve} \cup {InLong(v) : v \in Ve}
           \cup {InRunning(v) : v \in Ve}

Queues == [global : Seq(Req), short : [Ve -> Seq(Req)], long : [Ve -> Seq(Req)],
           running : [Ve -> Seq(Req)]]

\* The queue l has the requests that are at n, each once.
Good(l, at, n) ==
    l \in Seq(Req) /\ OneEach(l) /\ \A r \in Req : r \in ToSet(l) <=> at[r] = n

Lined(q, at) ==
    /\ q \in Queues /\ at \in [Req -> Spots]
    /\ Good(q.global, at, InGlobal)
    /\ \A w \in Ve : /\ Good(q.short[w], at, InShort(w))
                     /\ Good(q.long[w], at, InLong(w))
                     /\ Good(q.running[w], at, InRunning(w))

\* The requests of S go to n.
Moved(at, S, n) == [r \in Req |-> IF r \in S THEN n ELSE at[r]]

\* The queue l at m has become k.
Became(k, l, m, S, n) ==
    /\ k \in Seq(Req) /\ OneEach(k)
    /\ ToSet(k) = IF m = n THEN ToSet(l) \cup S ELSE ToSet(l) \ S

LEMMA NamesApart ==
  \A v, w \in Ve : /\ InGlobal # InShort(v) /\ InGlobal # InLong(v) /\ InGlobal # InRunning(v)
                   /\ InShort(v) # InLong(w) /\ InShort(v) # InRunning(w)
                   /\ InLong(v) # InRunning(w)
                   /\ (InShort(v) = InShort(w) => v = w) /\ (InLong(v) = InLong(w) => v = w)
                   /\ (InRunning(v) = InRunning(w) => v = w)
                   /\ Nowhere # InGlobal /\ Nowhere # InShort(v) /\ Nowhere # InLong(v)
                   /\ Nowhere # InRunning(v)
  BY DEF InGlobal, InShort, InLong, InRunning, Nowhere

LEMMA SpotNames ==
  /\ Nowhere \in Spots /\ InGlobal \in Spots
  /\ \A v \in Ve : InShort(v) \in Spots /\ InLong(v) \in Spots /\ InRunning(v) \in Spots
  /\ \A n \in Spots : \/ n = Nowhere \/ n = InGlobal
                      \/ \E v \in Ve : n = InShort(v) \/ n = InLong(v) \/ n = InRunning(v)
<1>1. \A v \in Ve : InShort(v) \in Spots /\ InLong(v) \in Spots /\ InRunning(v) \in Spots
  BY Zenon DEF Spots
<1>2. ASSUME NEW n \in Spots
      PROVE  \/ n = Nowhere \/ n = InGlobal
             \/ \E v \in Ve : n = InShort(v) \/ n = InLong(v) \/ n = InRunning(v)
  BY <1>2, Zenon DEF Spots
<1>3. Nowhere \in Spots /\ InGlobal \in Spots
  BY Zenon DEF Spots
<1> QED
  BY <1>1, <1>2, <1>3

\* A queue that neither gives nor takes.
LEMMA Unaffected ==
  ASSUME NEW l, NEW at, NEW m, Good(l, at, m), NEW S \in SUBSET Req, NEW n, m # n,
         \A r \in S : at[r] # m
  PROVE  Became(l, l, m, S, n)
<1>1. ToSet(l) \ S = ToSet(l)
  <2>1. \A r \in S : r \notin ToSet(l)
    BY DEF Good
  <2> QED
    BY <2>1
<1> QED
  BY <1>1 DEF Good, Became

LEMMA Regood ==
  ASSUME NEW l, NEW at, NEW m, Good(l, at, m), NEW S \in SUBSET Req, NEW n, NEW k,
         Became(k, l, m, S, n)
  PROVE  Good(k, Moved(at, S, n), m)
<1>1. ASSUME NEW r \in Req PROVE r \in ToSet(k) <=> Moved(at, S, n)[r] = m
  BY DEF Good, Became, Moved
<1> QED
  BY <1>1 DEF Good, Became

\* Everything that has become of the queues.
AllBecame(p, q, S, n) ==
    /\ p \in Queues
    /\ Became(p.global, q.global, InGlobal, S, n)
    /\ \A w \in Ve : /\ Became(p.short[w], q.short[w], InShort(w), S, n)
                     /\ Became(p.long[w], q.long[w], InLong(w), S, n)
                     /\ Became(p.running[w], q.running[w], InRunning(w), S, n)

LEMMA Relined ==
  ASSUME NEW q, NEW at, Lined(q, at), NEW S \in SUBSET Req, NEW n \in Spots, NEW p,
         AllBecame(p, q, S, n)
  PROVE  Lined(p, Moved(at, S, n))
<1>1. Moved(at, S, n) \in [Req -> Spots]
  BY DEF Moved, Lined
<1>2. Good(p.global, Moved(at, S, n), InGlobal)
  <2>1. Good(q.global, at, InGlobal) /\ Became(p.global, q.global, InGlobal, S, n)
    BY DEF Lined, AllBecame
  <2> QED
    BY <2>1, Regood
<1>3. ASSUME NEW w \in Ve
      PROVE  /\ Good(p.short[w], Moved(at, S, n), InShort(w))
             /\ Good(p.long[w], Moved(at, S, n), InLong(w))
             /\ Good(p.running[w], Moved(at, S, n), InRunning(w))
  <2>1. /\ Good(q.short[w], at, InShort(w)) /\ Good(q.long[w], at, InLong(w))
        /\ Good(q.running[w], at, InRunning(w))
    BY DEF Lined
  <2>2. /\ Became(p.short[w], q.short[w], InShort(w), S, n)
        /\ Became(p.long[w], q.long[w], InLong(w), S, n)
        /\ Became(p.running[w], q.running[w], InRunning(w), S, n)
    BY DEF AllBecame
  <2> QED
    BY <2>1, <2>2, Regood
<1> QED
  BY <1>1, <1>2, <1>3 DEF Lined, AllBecame

\* The queues q with those of v, and the global one, replaced.
Put(q, v, g, s, l, u) ==
  [global |-> g, short |-> [q.short EXCEPT ![v] = s], long |-> [q.long EXCEPT ![v] = l],
   running |-> [q.running EXCEPT ![v] = u]]

LEMMA PutQueues ==
  ASSUME NEW q \in Queues, NEW v \in Ve, NEW g \in Seq(Req), NEW s \in Seq(Req),
         NEW l \in Seq(Req), NEW u \in Seq(Req)
  PROVE  /\ Put(q, v, g, s, l, u) \in Queues /\ Put(q, v, g, s, l, u).global = g
         /\ \A w \in Ve :
              /\ Put(q, v, g, s, l, u).short[w] = IF w = v THEN s ELSE q.short[w]
              /\ Put(q, v, g, s, l, u).long[w] = IF w = v THEN l ELSE q.long[w]
              /\ Put(q, v, g, s, l, u).running[w] = IF w = v THEN u ELSE q.running[w]
<1>1. q.short \in [Ve -> Seq(Req)] /\ q.long \in [Ve -> Seq(Req)] /\ q.running \in [Ve -> Seq(Req)]
  BY DEF Queues
<1>2. ASSUME NEW f \in [Ve -> Seq(Req)], NEW k \in Seq(Req)
      PROVE  /\ [f EXCEPT ![v] = k] \in [Ve -> Seq(Req)]
             /\ \A w \in Ve : [f EXCEPT ![v] = k][w] = IF w = v THEN k ELSE f[w]
  OBVIOUS
<1>3. \A a \in Seq(Req), b, c, d \in [Ve -> Seq(Req)] :
        LET p == [global |-> a, short |-> b, long |-> c, running |-> d]
        IN  p \in Queues /\ p.global = a /\ p.short = b /\ p.long = c /\ p.running = d
  BY DEF Queues
<1>4. PICK b, c, d : /\ b = [q.short EXCEPT ![v] = s] /\ c = [q.long EXCEPT ![v] = l]
                     /\ d = [q.running EXCEPT ![v] = u]
  OBVIOUS
<1>5. /\ b \in [Ve -> Seq(Req)] /\ \A w \in Ve : b[w] = IF w = v THEN s ELSE q.short[w]
      /\ c \in [Ve -> Seq(Req)] /\ \A w \in Ve : c[w] = IF w = v THEN l ELSE q.long[w]
      /\ d \in [Ve -> Seq(Req)] /\ \A w \in Ve : d[w] = IF w = v THEN u ELSE q.running[w]
  BY <1>1, <1>2, <1>4, Zenon
<1>6. PICK p : p = Put(q, v, g, s, l, u)
  OBVIOUS
<1>7. p = [global |-> g, short |-> b, long |-> c, running |-> d]
  BY <1>4, <1>6, Zenon DEF Put
<1>8. p \in Queues /\ p.global = g /\ p.short = b /\ p.long = c /\ p.running = d
  BY <1>3, <1>5, <1>7, Zenon
<1> QED
  BY <1>5, <1>6, <1>8, Zenon

\* Moves between the queues of one virtual engine and the global one.
LEMMA PutMoved ==
  ASSUME NEW q, NEW at, Lined(q, at), NEW v \in Ve, NEW S \in SUBSET Req, NEW n,
         n \in {Nowhere, InGlobal, InShort(v), InLong(v), InRunning(v)},
         \A r \in S : at[r] \in {InGlobal, InShort(v), InLong(v), InRunning(v)},
         NEW g, NEW s, NEW l, NEW u,
         Became(g, q.global, InGlobal, S, n), Became(s, q.short[v], InShort(v), S, n),
         Became(l, q.long[v], InLong(v), S, n), Became(u, q.running[v], InRunning(v), S, n)
  PROVE  Lined(Put(q, v, g, s, l, u), Moved(at, S, n))
<1>1. /\ g \in Seq(Req) /\ s \in Seq(Req) /\ l \in Seq(Req) /\ u \in Seq(Req) /\ q \in Queues
  BY DEF Became, Lined
<1> DEFINE p == Put(q, v, g, s, l, u)
<1>3. /\ p \in Queues /\ p.global = g
      /\ \A w \in Ve : /\ p.short[w] = IF w = v THEN s ELSE q.short[w]
                       /\ p.long[w] = IF w = v THEN l ELSE q.long[w]
                       /\ p.running[w] = IF w = v THEN u ELSE q.running[w]
  BY <1>1, PutQueues
<1> HIDE DEF p
<1>4. ASSUME NEW w \in Ve
      PROVE  /\ Became(p.short[w], q.short[w], InShort(w), S, n)
             /\ Became(p.long[w], q.long[w], InLong(w), S, n)
             /\ Became(p.running[w], q.running[w], InRunning(w), S, n)
  <2>1. CASE w = v
    BY <1>3, <2>1, Zenon
  <2>2. CASE w # v
    <3>1. /\ InShort(w) # n /\ InLong(w) # n /\ InRunning(w) # n
          /\ \A r \in S : at[r] # InShort(w) /\ at[r] # InLong(w) /\ at[r] # InRunning(w)
      BY <2>2, NamesApart
    <3>2. /\ Good(q.short[w], at, InShort(w)) /\ Good(q.long[w], at, InLong(w))
          /\ Good(q.running[w], at, InRunning(w))
      BY DEF Lined
    <3>3. /\ Became(q.short[w], q.short[w], InShort(w), S, n)
          /\ Became(q.long[w], q.long[w], InLong(w), S, n)
          /\ Became(q.running[w], q.running[w], InRunning(w), S, n)
      BY <3>1, <3>2, Unaffected
    <3> QED
      BY <1>3, <2>2, <3>3, Zenon
  <2> QED
    BY <2>1, <2>2
<1>5. AllBecame(p, q, S, n)
  BY <1>3, <1>4, Zenon DEF AllBecame
<1>6. n \in Spots
  BY SpotNames
<1> QED
  BY <1>5, <1>6, Relined, Zenon DEF p

\* Moves that a batch of v may make: nobody is lost, and nobody leaves a batch of others.
Shift(v, at, to) ==
  \A r \in Req : /\ (to[r] = Nowhere <=> at[r] = Nowhere)
                 /\ \A w \in Ve : w # v /\ at[r] = InRunning(w) => to[r] = at[r]

\* Who comes into a batch is of C and comes to v, unless batches are balanced.
Comes(v, C, at, to, balanced) ==
  \A r \in Req : \A w \in Ve : to[r] = InRunning(w) =>
    \/ at[r] = InRunning(w)
    \/ w = v /\ r \in C
    \/ balanced /\ \E u \in Ve : at[r] = InRunning(u)

LEMMA PutPut ==
  ASSUME NEW q \in Queues, NEW v \in Ve, NEW a, NEW b, NEW c, NEW d, NEW g, NEW s, NEW l, NEW u
  PROVE  Put(Put(q, v, a, b, c, d), v, g, s, l, u) = Put(q, v, g, s, l, u)
<1>1. \A f \in [Ve -> Seq(Req)] : \A x, y : [[f EXCEPT ![v] = x] EXCEPT ![v] = y] = [f EXCEPT ![v] = y]
  OBVIOUS
<1>2. q.short \in [Ve -> Seq(Req)] /\ q.long \in [Ve -> Seq(Req)] /\ q.running \in [Ve -> Seq(Req)]
  BY DEF Queues
<1>3. PICK p : p = Put(q, v, a, b, c, d)
  OBVIOUS
<1>4. /\ p.short = [q.short EXCEPT ![v] = b] /\ p.long = [q.long EXCEPT ![v] = c]
      /\ p.running = [q.running EXCEPT ![v] = d]
  BY <1>3 DEF Put
<1>5. /\ [p.short EXCEPT ![v] = s] = [q.short EXCEPT ![v] = s]
      /\ [p.long EXCEPT ![v] = l] = [q.long EXCEPT ![v] = l]
      /\ [p.running EXCEPT ![v] = u] = [q.running EXCEPT ![v] = u]
  BY <1>1, <1>2, <1>4, Zenon
<1>6. Put(p, v, g, s, l, u) = Put(q, v, g, s, l, u)
  BY <1>5, Zenon DEF Put
<1> QED
  BY <1>3, <1>6

\* The finished requests leave the batch, and the preempted ones wait again.
Leaving(q, at, v, live, gone, done) ==
    /\ done \in SUBSET Req /\ gone \in SUBSET Req
    /\ Lined(Put(q, v, q.global, Requeued(live, gone, q.short[v]), q.long[v],
                 Those(live, Req \ gone)),
             Moved(Moved(at, done, Nowhere), gone, InShort(v)))

LEMMA Preempted ==
  ASSUME NEW q, NEW at, Lined(q, at), NEW v \in Ve, NEW fin, NEW live, NEW gone, NEW done,
         live = Those(q.running[v], fin),
         done = ToSet(q.running[v]) \ ToSet(live), gone \in SUBSET ToSet(live)
  PROVE  Leaving(q, at, v, live, gone, done)
<1>1. /\ Good(q.global, at, InGlobal) /\ Good(q.short[v], at, InShort(v))
      /\ Good(q.long[v], at, InLong(v)) /\ Good(q.running[v], at, InRunning(v))
      /\ q \in Queues
  BY DEF Lined
<1>2. /\ live \in Seq(Req) /\ OneEach(live) /\ ToSet(live) \subseteq ToSet(q.running[v])
      /\ ToSet(q.running[v]) \subseteq Req
  BY <1>1, ThoseKept, OneEachThose, ToSetRange DEF Good
<1>3. done \in SUBSET Req /\ gone \in SUBSET Req
  BY <1>2
<1> DEFINE to == Moved(at, done, Nowhere)
<1>4. \A r \in done : at[r] = InRunning(v)
  BY <1>1, <1>3 DEF Good
<1>5. /\ \A r \in done : at[r] # InGlobal /\ at[r] # InShort(v) /\ at[r] # InLong(v)
      /\ InGlobal # Nowhere /\ InShort(v) # Nowhere /\ InLong(v) # Nowhere
      /\ InRunning(v) # Nowhere
  BY <1>4, NamesApart
<1> DEFINE p == Put(q, v, q.global, q.short[v], q.long[v], live)
<1>6. Lined(p, to)
  <2>1. /\ Became(q.global, q.global, InGlobal, done, Nowhere)
        /\ Became(q.short[v], q.short[v], InShort(v), done, Nowhere)
        /\ Became(q.long[v], q.long[v], InLong(v), done, Nowhere)
    BY <1>1, <1>3, <1>5, Unaffected
  <2>2. ToSet(live) = ToSet(q.running[v]) \ done
    BY <1>2
  <2>3. Became(live, q.running[v], InRunning(v), done, Nowhere)
    BY <1>2, <1>5, <2>2 DEF Became
  <2>4. \A r \in done : at[r] \in {InGlobal, InShort(v), InLong(v), InRunning(v)}
    BY <1>4
  <2> QED
    BY <1>3, <2>1, <2>3, <2>4, PutMoved
<1>7. /\ p.global = q.global /\ p.short[v] = q.short[v] /\ p.long[v] = q.long[v]
      /\ p.running[v] = live
  <2>1. q.global \in Seq(Req) /\ q.short[v] \in Seq(Req) /\ q.long[v] \in Seq(Req)
    BY <1>1 DEF Good
  <2> QED
    BY <1>1, <1>2, <2>1, PutQueues, SMTT(60)
<1> DEFINE k == Requeued(live, gone, q.short[v])
           u == Those(live, Req \ gone)
<1>8. Put(p, v, q.global, k, q.long[v], u) = Put(q, v, q.global, k, q.long[v], u)
  BY <1>1, PutPut
<1> HIDE DEF p, to
<1>9. /\ Good(q.global, to, InGlobal) /\ Good(q.short[v], to, InShort(v))
      /\ Good(q.long[v], to, InLong(v)) /\ Good(live, to, InRunning(v))
  <2>1. /\ Good(p.global, to, InGlobal) /\ Good(p.short[v], to, InShort(v))
        /\ Good(p.long[v], to, InLong(v)) /\ Good(p.running[v], to, InRunning(v))
    BY <1>6 DEF Lined
  <2> QED
    BY <1>7, <2>1, Zenon
<1>10. /\ \A r \in gone : to[r] = InRunning(v)
       /\ \A r \in gone : to[r] # InGlobal /\ to[r] # InShort(v) /\ to[r] # InLong(v)
       /\ InGlobal # InShort(v) /\ InLong(v) # InShort(v) /\ InRunning(v) # InShort(v)
  <2>1. \A r \in gone : to[r] = InRunning(v)
    BY <1>3, <1>9 DEF Good
  <2> QED
    BY <2>1, NamesApart
<1>11. Lined(Put(p, v, q.global, k, q.long[v], u), Moved(to, gone, InShort(v)))
  <2>1. /\ Became(q.global, p.global, InGlobal, gone, InShort(v))
        /\ Became(q.long[v], p.long[v], InLong(v), gone, InShort(v))
    <3>1. /\ Became(q.global, q.global, InGlobal, gone, InShort(v))
          /\ Became(q.long[v], q.long[v], InLong(v), gone, InShort(v))
      BY <1>3, <1>9, <1>10, Unaffected
    <3> QED
      BY <1>7, <3>1, Zenon
  <2>2. Became(u, live, InRunning(v), gone, InShort(v))
    <3>1. u \in Seq(Req) /\ OneEach(u) /\ ToSet(u) = ToSet(live) \cap (Req \ gone)
      BY <1>2, ThoseKept, OneEachThose
    <3>2. ToSet(live) \cap (Req \ gone) = ToSet(live) \ gone
      BY <1>2
    <3> QED
      BY <1>10, <3>1, <3>2 DEF Became
  <2>3. Became(k, q.short[v], InShort(v), gone, InShort(v))
    <3> DEFINE g == Those(live, gone)
    <3>1. g \in Seq(Req) /\ OneEach(g) /\ ToSet(g) = gone
      <4>1. ToSet(g) = ToSet(live) \cap gone
        BY <1>2, ThoseKept
      <4>2. g \in Seq(Req) /\ OneEach(g)
        BY <1>2, ThoseKept, OneEachThose
      <4>3. ToSet(live) \cap gone = gone
        OBVIOUS
      <4> QED
        BY <4>1, <4>2, <4>3
    <3>2. q.short[v] \in Seq(Req) /\ OneEach(q.short[v]) /\ ToSet(q.short[v]) \cap gone = {}
      <4>1. \A r \in gone : r \notin ToSet(q.short[v])
        BY <1>3, <1>9, <1>10 DEF Good
      <4> QED
        BY <1>9, <4>1 DEF Good
    <3> HIDE DEF g
    <3>3. g \o q.short[v] \in Seq(Req) /\ OneEach(g \o q.short[v])
          /\ ToSet(g \o q.short[v]) = ToSet(q.short[v]) \cup gone
      BY <3>1, <3>2, OneEachConcat, ToSetConcat, ConcatProperties
    <3>4. k = g \o q.short[v]
      BY DEF Requeued, g
    <3> HIDE DEF k
    <3> QED
      BY <3>3, <3>4 DEF Became
  <2>4. \A r \in gone : to[r] \in {InGlobal, InShort(v), InLong(v), InRunning(v)}
    BY <1>10
  <2> HIDE DEF k, u
  <2>5. /\ Became(k, p.short[v], InShort(v), gone, InShort(v))
        /\ Became(u, p.running[v], InRunning(v), gone, InShort(v))
    BY <1>7, <2>2, <2>3, Zenon
  <2> QED
    BY <1>3, <1>6, <2>1, <2>4, <2>5, PutMoved
<1> QED
  BY <1>3, <1>8, <1>11, Zenon DEF to, Leaving

\* A batch is its prefills and its decodes.
LEMMA Kinds ==
  ASSUME NEW rq \in [Req -> Entry], NEW run \in Seq(Req), OneEach(run)
  PROVE  /\ Prefills(rq, run) \in Seq(Req) /\ OneEach(Prefills(rq, run))
         /\ Decodes(rq, run) \in Seq(Req) /\ OneEach(Decodes(rq, run))
         /\ ToSet(Prefills(rq, run)) \cap ToSet(Decodes(rq, run)) = {}
         /\ ToSet(Prefills(rq, run)) \cup ToSet(Decodes(rq, run)) = ToSet(run)
<1> DEFINE C == {r \in DOMAIN rq : Context(rq[r])}
           D == {r \in DOMAIN rq : ~ Context(rq[r])}
<1>1. /\ Those(run, C) \in Seq(Req) /\ OneEach(Those(run, C))
      /\ Those(run, D) \in Seq(Req) /\ OneEach(Those(run, D))
      /\ ToSet(Those(run, C)) = ToSet(run) \cap C /\ ToSet(Those(run, D)) = ToSet(run) \cap D
  BY ThoseKept, OneEachThose
<1>2. C \cap D = {} /\ C \cup D = Req
  OBVIOUS
<1>3. ToSet(run) \subseteq Req
  BY ToSetRange
<1>4. Prefills(rq, run) = Those(run, C) /\ Decodes(rq, run) = Those(run, D)
  BY DEF Prefills, Decodes
<1> HIDE DEF C, D
<1> QED
  BY <1>1, <1>2, <1>3, <1>4

\* Half of a difference.
LEMMA HalfOf ==
  ASSUME NEW a \in Nat, NEW b \in Nat, b <= a
  PROVE  (a - b) \div 2 \in 0 .. a
<1>1. PICK d \in Nat : d = a - b
  OBVIOUS
<1>2. d \div 2 \in Nat /\ d \div 2 <= d
  BY Z3
<1> QED
  BY <1>1, <1>2

\* Decodes are cut in two; the first part goes elsewhere.
LEMMA Halves ==
  ASSUME NEW p \in Seq(Req), OneEach(p), NEW d \in Seq(Req), OneEach(d),
         ToSet(p) \cap ToSet(d) = {}, NEW n \in 0 .. Len(d)
  PROVE  LET head == SubSeq(d, 1, n)
             rest == p \o SubSeq(d, n + 1, Len(d))
         IN  /\ head \in Seq(Req) /\ OneEach(head)
             /\ rest \in Seq(Req) /\ OneEach(rest)
             /\ ToSet(head) \cap ToSet(rest) = {}
             /\ ToSet(head) \cup ToSet(rest) = ToSet(p) \cup ToSet(d)
             /\ ToSet(head) \subseteq ToSet(d)
<1> DEFINE head == SubSeq(d, 1, n)
           tail == SubSeq(d, n + 1, Len(d))
<1>1. head \in Seq(Req) /\ tail \in Seq(Req) /\ d = head \o tail
  BY HeadSeq, QueueParts
<1> HIDE DEF head, tail
<1>2. /\ OneEach(head) /\ OneEach(tail) /\ ToSet(head) \cap ToSet(tail) = {}
      /\ ToSet(d) = ToSet(head) \cup ToSet(tail)
  BY <1>1, OneEachConcat, ToSetConcat
<1>3. /\ p \o tail \in Seq(Req) /\ ToSet(p \o tail) = ToSet(p) \cup ToSet(tail)
  BY <1>1, ToSetConcat, ConcatProperties
<1>4. OneEach(p \o tail)
  <2>1. ToSet(p) \cap ToSet(tail) = {}
    BY <1>2
  <2> QED
    BY <1>1, <1>2, <2>1, OneEachConcat
<1>5. ToSet(head) \cap ToSet(p \o tail) = {}
  BY <1>2, <1>3
<1>6. ToSet(head) \cup ToSet(p \o tail) = ToSet(p) \cup ToSet(d)
  BY <1>2, <1>3
<1>7. ToSet(head) \subseteq ToSet(d)
  BY <1>2
<1> QED
  BY <1>1, <1>2, <1>3, <1>4, <1>5, <1>6, <1>7 DEF head, tail

\* balance_decode moves decodes of v into the batch of another virtual engine.
LEMMA DecodesBalanced ==
  ASSUME NEW q, NEW at, Lined(q, at), NEW v \in Ve, NEW rq \in [Req -> Entry]
  PROVE  \E to : /\ Lined([q EXCEPT !.running = BalanceDecode(v, rq, q.running)], to)
                 /\ Shift(v, at, to) /\ Comes(v, {}, at, to, TRUE)
<1> DEFINE run     == q.running
           decodes == [w \in Ve |-> Decodes(rq, run[w])]
           load    == [w \in Ve |-> Len(decodes[w])]
           least   == LeastBusy(load)
           d       == Decodes(rq, run[v])
           p       == Prefills(rq, run[v])
           n       == (load[v] - load[least]) \div 2
           head    == SubSeq(d, 1, n)
           rest    == p \o SubSeq(d, n + 1, load[v])
           kept    == [run EXCEPT ![v] = rest]
           new     == [kept EXCEPT ![least] = @ \o head]
<1>1. BalanceDecode(v, rq, q.running) = IF Busiest(load) # v THEN run ELSE new
  BY DEF BalanceDecode
<1>2. /\ q \in Queues /\ run \in [Ve -> Seq(Req)]
      /\ \A w \in Ve : run[w] \in Seq(Req) /\ OneEach(run[w])
  BY DEF Lined, Good, Queues
<1>3. [q EXCEPT !.running = run] = q
  BY <1>2 DEF Queues
<1>4. CASE Busiest(load) # v
  <2>1. Lined([q EXCEPT !.running = BalanceDecode(v, rq, q.running)], at)
    BY <1>1, <1>3, <1>4, Zenon
  <2>2. Shift(v, at, at) /\ Comes(v, {}, at, at, TRUE)
    BY DEF Shift, Comes
  <2> QED
    BY <2>1, <2>2
<1>5. CASE Busiest(load) = v
  <2>1. \A w \in Ve : Decodes(rq, run[w]) \in Seq(Req) /\ load[w] = Len(Decodes(rq, run[w]))
    BY <1>2, Kinds
  <2>2. \A w \in Ve : load[w] \in Nat
    BY <2>1, LenProperties
  <2>3. least \in Ve /\ load[least] <= load[v]
    <3> HIDE DEF load
    <3>1. \A w \in Ve : load[w] \in Int
      BY <2>2
    <3>2. LeastBusy(load) \in Ve /\ \A w \in Ve : load[LeastBusy(load)] <= load[w]
      BY <3>1, Extremes
    <3> QED
      BY <3>2
  <2>4. d \in Seq(Req) /\ load[v] = Len(d)
    BY <2>1
  <2> HIDE DEF load, least
  <2>5. n \in 0 .. Len(d)
    BY <2>2, <2>3, <2>4, HalfOf
  <2> HIDE DEF n
  <2>6. /\ p \in Seq(Req) /\ OneEach(p) /\ OneEach(d) /\ ToSet(p) \cap ToSet(d) = {}
        /\ ToSet(p) \cup ToSet(d) = ToSet(run[v])
    BY <1>2, Kinds
  <2> HIDE DEF d, p
  <2>7. rest = p \o SubSeq(d, n + 1, Len(d))
    BY <2>4
  <2>8. /\ head \in Seq(Req) /\ OneEach(head) /\ rest \in Seq(Req) /\ OneEach(rest)
        /\ ToSet(head) \cap ToSet(rest) = {} /\ ToSet(head) \cup ToSet(rest) = ToSet(run[v])
    BY <2>4, <2>5, <2>6, <2>7, Halves
  <2> HIDE DEF head, rest
  <2> DEFINE S  == ToSet(head)
             to == Moved(at, S, InRunning(least))
             q1 == [q EXCEPT !.running = new]
  <2>9. /\ kept \in [Ve -> Seq(Req)]
        /\ \A w \in Ve : kept[w] = IF w = v THEN rest ELSE run[w]
    BY <1>2, <2>8
  <2> HIDE DEF kept
  <2>10. kept[least] \in Seq(Req) /\ kept[least] \o head \in Seq(Req)
    BY <2>3, <2>8, <2>9, ConcatProperties
  <2>11. /\ new \in [Ve -> Seq(Req)]
         /\ \A w \in Ve : new[w] = IF w = least THEN kept[w] \o head ELSE kept[w]
    BY <2>3, <2>9, <2>10
  <2> HIDE DEF new
  <2>12. /\ q1 \in Queues /\ q1.global = q.global /\ q1.short = q.short /\ q1.long = q.long
         /\ q1.running = new
    BY <1>2, <2>11 DEF Queues
  <2>13. /\ Good(q.global, at, InGlobal)
         /\ \A w \in Ve : /\ Good(q.short[w], at, InShort(w)) /\ Good(q.long[w], at, InLong(w))
                          /\ Good(q.running[w], at, InRunning(w))
    BY DEF Lined
  <2>14. S \in SUBSET Req /\ \A r \in S : at[r] = InRunning(v)
    <3>1. S \subseteq ToSet(run[v])
      BY <2>8
    <3>2. ToSet(run[v]) \subseteq Req
      BY <1>2, ToSetRange
    <3>3. \A r \in ToSet(run[v]) : at[r] = InRunning(v)
      BY <2>13, <3>2 DEF Good
    <3> HIDE DEF run, S
    <3> QED
      BY <3>1, <3>2, <3>3
  <2> HIDE DEF S, q1
  <2>15. \A w \in Ve : w # v /\ w # least
            => Became(new[w], run[w], InRunning(w), S, InRunning(least))
    <3> SUFFICES ASSUME NEW w \in Ve, w # v, w # least
                 PROVE  Became(new[w], run[w], InRunning(w), S, InRunning(least))
      OBVIOUS
    <3>1. new[w] = run[w]
      BY <2>9, <2>11
    <3>2. InRunning(w) # InRunning(least) /\ \A r \in S : at[r] # InRunning(w)
      BY <2>3, <2>14, NamesApart
    <3>3. Good(run[w], at, InRunning(w))
      BY <2>13
    <3> QED
      BY <2>14, <3>1, <3>2, <3>3, Unaffected, Zenon
  <2>16. least # v => Became(new[v], run[v], InRunning(v), S, InRunning(least))
    <3> SUFFICES ASSUME least # v
                 PROVE  Became(new[v], run[v], InRunning(v), S, InRunning(least))
      OBVIOUS
    <3>1. new[v] = rest
      BY <2>9, <2>11
    <3>2. InRunning(v) # InRunning(least)
      BY <2>3, NamesApart
    <3>3. ToSet(rest) = ToSet(run[v]) \ S
      BY <2>8 DEF S
    <3> QED
      BY <2>8, <3>1, <3>2, <3>3 DEF Became
  <2>17. Became(new[least], run[least], InRunning(least), S, InRunning(least))
    <3>1. new[least] = kept[least] \o head
      BY <2>3, <2>11
    <3>2. CASE least = v
      <4>1. kept[least] = rest
        BY <2>9, <3>2
      <4>2. OneEach(rest \o head) /\ ToSet(rest \o head) = ToSet(rest) \cup ToSet(head)
        BY <2>8, OneEachConcat, ToSetConcat
      <4>3. ToSet(rest) \cup ToSet(head) = ToSet(run[least]) \cup S
        BY <2>8, <3>2 DEF S
      <4> QED
        BY <2>10, <3>1, <4>1, <4>2, <4>3 DEF Became
    <3>3. CASE least # v
      <4>1. kept[least] = run[least]
        BY <2>3, <2>9, <3>3
      <4>2. OneEach(run[least]) /\ run[least] \in Seq(Req)
        BY <1>2, <2>3
      <4>3. ToSet(run[least]) \cap ToSet(head) = {}
        <5>1. InRunning(v) # InRunning(least)
          BY <2>3, <3>3, NamesApart
        <5>2. \A r \in S : r \notin ToSet(run[least])
          BY <2>3, <2>13, <2>14, <5>1 DEF Good
        <5> QED
          BY <5>2 DEF S
      <4>4. OneEach(run[least] \o head) /\ ToSet(run[least] \o head) = ToSet(run[least]) \cup S
        BY <2>8, <4>2, <4>3, OneEachConcat, ToSetConcat DEF S
      <4> QED
        BY <2>10, <3>1, <4>1, <4>4 DEF Became
    <3> QED
      BY <3>2, <3>3
  <2>18. /\ \A w \in Ve : InShort(w) # InRunning(least) /\ InLong(w) # InRunning(least)
         /\ InGlobal # InRunning(least)
         /\ \A r \in S : at[r] # InGlobal
         /\ \A w \in Ve : \A r \in S : at[r] # InShort(w) /\ at[r] # InLong(w)
    BY <2>3, <2>14, NamesApart
  <2>19. Became(q.global, q.global, InGlobal, S, InRunning(least))
    BY <2>13, <2>14, <2>18, Unaffected
  <2>20. \A w \in Ve : /\ Became(q.short[w], q.short[w], InShort(w), S, InRunning(least))
                       /\ Became(q.long[w], q.long[w], InLong(w), S, InRunning(least))
    BY <2>13, <2>14, <2>18, Unaffected
  <2>21. \A w \in Ve : Became(new[w], run[w], InRunning(w), S, InRunning(least))
    BY <2>3, <2>15, <2>16, <2>17
  <2>22. AllBecame(q1, q, S, InRunning(least))
    BY <2>12, <2>19, <2>20, <2>21, Zenon DEF AllBecame
  <2>23. Lined(q1, to)
    BY <2>3, <2>14, <2>22, SpotNames, Relined
  <2>24. q1 = [q EXCEPT !.running = BalanceDecode(v, rq, q.running)]
    BY <1>1, <1>5 DEF q1
  <2>25. \A r \in Req : to[r] = IF r \in S THEN InRunning(least) ELSE at[r]
    BY DEF Moved
  <2> HIDE DEF to
  <2>26. Shift(v, at, to)
    <3> SUFFICES ASSUME NEW r \in Req
                 PROVE  /\ (to[r] = Nowhere <=> at[r] = Nowhere)
                        /\ \A w \in Ve : w # v /\ at[r] = InRunning(w) => to[r] = at[r]
      BY DEF Shift
    <3>1. CASE r \in S
      <4>1. to[r] = InRunning(least) /\ at[r] = InRunning(v)
        BY <2>14, <2>25, <3>1
      <4> QED
        BY <2>3, <4>1, NamesApart
    <3>2. CASE r \notin S
      BY <2>25, <3>2
    <3> QED
      BY <3>1, <3>2
  <2>27. Comes(v, {}, at, to, TRUE)
    <3> SUFFICES ASSUME NEW r \in Req, NEW w \in Ve, to[r] = InRunning(w), at[r] # InRunning(w)
                 PROVE  \E u \in Ve : at[r] = InRunning(u)
      BY DEF Comes
    <3> QED
      BY <2>14, <2>25
  <2> QED
    BY <2>23, <2>24, <2>26, <2>27
<1> QED
  BY <1>4, <1>5

-----------------------------------------------------------------------------
(* Placing the prompts that wait.                                          *)

\* Nothing starts and nothing stops to run.
Waits(at, to) ==
  \A r \in Req : /\ to[r] = Nowhere <=> at[r] = Nowhere
                 /\ \A w \in Ve : to[r] = InRunning(w) <=> at[r] = InRunning(w)

\* What Place has after some of the prompts.
Placing == [load : [Ve -> Int], short : [Ve -> Seq(Req)], long : [Ve -> Seq(Req)]]

\* ... and with one prompt more.
Added(rq, x, r) ==
  LET v == LeastBusy(x.load)
      n == rq[r].prompt
      loaded == [x EXCEPT !.load[v] = @ + n]
  IN  IF ~ bench.packing THEN [loaded EXCEPT !.short[v] = <<r>> \o @]
      ELSE IF n > LongThreshold THEN [loaded EXCEPT !.long[v] = Append(@, r)]
      ELSE [loaded EXCEPT !.short[v] = Append(@, r)]

\* The queues s and l have r more, at v.
OneMore(s, l, s1, l1, v, r) ==
    \/ s1 = [s EXCEPT ![v] = <<r>> \o @] /\ l1 = l
    \/ s1 = [s EXCEPT ![v] = Append(@, r)] /\ l1 = l
    \/ s1 = s /\ l1 = [l EXCEPT ![v] = Append(@, r)]

\* The prompt comes to one queue.
LEMMA AddedOne ==
  ASSUME NEW rq \in [Req -> Entry], NEW x \in Placing, NEW r \in Req
  PROVE  /\ Added(rq, x, r) \in Placing
         /\ \E v \in Ve : OneMore(x.short, x.long, Added(rq, x, r).short, Added(rq, x, r).long, v, r)
<1> DEFINE v == LeastBusy(x.load)
           n == rq[r].prompt
           loaded == [x EXCEPT !.load[v] = @ + n]
<1>1. /\ x.load \in [Ve -> Int] /\ x.short \in [Ve -> Seq(Req)] /\ x.long \in [Ve -> Seq(Req)]
      /\ n \in Int
  BY DEF Placing, Entry
<1>2. v \in Ve
  <2>1. \A w \in Ve : x.load[w] \in Int
    BY <1>1
  <2> QED
    BY <2>1, Extremes
<1>3. Added(rq, x, r) = IF ~ bench.packing THEN [loaded EXCEPT !.short[v] = <<r>> \o @]
                        ELSE IF n > LongThreshold THEN [loaded EXCEPT !.long[v] = Append(@, r)]
                        ELSE [loaded EXCEPT !.short[v] = Append(@, r)]
  BY Zenon DEF Added
<1> HIDE DEF v, n
<1>4. loaded \in Placing /\ loaded.short = x.short /\ loaded.long = x.long
  <2>1. [x.load EXCEPT ![v] = @ + n] \in [Ve -> Int]
    BY <1>1, <1>2
  <2>2. loaded = [x EXCEPT !.load = [x.load EXCEPT ![v] = @ + n]]
    BY DEF Placing
  <2>3. \A l \in [Ve -> Int] : LET y == [x EXCEPT !.load = l]
                               IN  y \in Placing /\ y.short = x.short /\ y.long = x.long
    BY DEF Placing
  <2> QED
    BY <2>1, <2>2, <2>3, Zenon
<1> HIDE DEF loaded
<1>5. /\ <<r>> \in Seq(Req) /\ x.short[v] \in Seq(Req) /\ x.long[v] \in Seq(Req)
  BY <1>1, <1>2
<1>6. /\ <<r>> \o x.short[v] \in Seq(Req) /\ Append(x.short[v], r) \in Seq(Req)
      /\ Append(x.long[v], r) \in Seq(Req)
  BY <1>5, ConcatProperties, AppendProperties
<1>7. \A k \in Seq(Req) : LET y == [loaded EXCEPT !.short[v] = k]
                          IN  /\ y \in Placing /\ y.short = [x.short EXCEPT ![v] = k]
                              /\ y.long = x.long
  BY <1>1, <1>2, <1>4 DEF Placing
<1>8. \A k \in Seq(Req) : LET y == [loaded EXCEPT !.long[v] = k]
                          IN  /\ y \in Placing /\ y.long = [x.long EXCEPT ![v] = k]
                              /\ y.short = x.short
  BY <1>1, <1>2, <1>4 DEF Placing
<1>9. /\ [loaded EXCEPT !.short[v] = <<r>> \o @] = [loaded EXCEPT !.short[v] = <<r>> \o x.short[v]]
      /\ [loaded EXCEPT !.short[v] = Append(@, r)] = [loaded EXCEPT !.short[v] = Append(x.short[v], r)]
      /\ [loaded EXCEPT !.long[v] = Append(@, r)] = [loaded EXCEPT !.long[v] = Append(x.long[v], r)]
  BY <1>4 DEF Placing
<1>10. /\ [x.short EXCEPT ![v] = <<r>> \o @] = [x.short EXCEPT ![v] = <<r>> \o x.short[v]]
       /\ [x.short EXCEPT ![v] = Append(@, r)] = [x.short EXCEPT ![v] = Append(x.short[v], r)]
       /\ [x.long EXCEPT ![v] = Append(@, r)] = [x.long EXCEPT ![v] = Append(x.long[v], r)]
  BY <1>1
<1> SUFFICES /\ Added(rq, x, r) \in Placing
             /\ OneMore(x.short, x.long, Added(rq, x, r).short, Added(rq, x, r).long, v, r)
  BY <1>2, Zenon
<1>11. CASE ~ bench.packing
  <2>1. Added(rq, x, r) = [loaded EXCEPT !.short[v] = <<r>> \o x.short[v]]
    BY <1>3, <1>9, <1>11, Zenon
  <2> QED
    BY <1>6, <1>7, <1>10, <2>1, Zenon DEF OneMore
<1>12. CASE bench.packing /\ n > LongThreshold
  <2>1. Added(rq, x, r) = [loaded EXCEPT !.long[v] = Append(x.long[v], r)]
    BY <1>3, <1>9, <1>12, Zenon
  <2> QED
    BY <1>6, <1>8, <1>10, <2>1, Zenon DEF OneMore
<1>13. CASE bench.packing /\ ~ (n > LongThreshold)
  <2>1. Added(rq, x, r) = [loaded EXCEPT !.short[v] = Append(x.short[v], r)]
    BY <1>3, <1>9, <1>13, Zenon
  <2> QED
    BY <1>6, <1>7, <1>10, <2>1, Zenon DEF OneMore
<1> QED
  BY <1>11, <1>12, <1>13, Zenon

\* The prompts that wait, longest first.
Prompts(rq, q) == SortedBy(q.global, [r \in Req |-> - rq[r].prompt])

LEMMA PromptsSorted ==
  ASSUME NEW q \in Queues, NEW rq \in [Req -> Entry]
  PROVE  /\ Prompts(rq, q) \in Seq(Req) /\ ToSet(Prompts(rq, q)) = ToSet(q.global)
         /\ OneEach(q.global) => OneEach(Prompts(rq, q))
<1>1. PICK key : key = [r \in Req |-> - rq[r].prompt]
  OBVIOUS
<1>2. \A r \in Req : key[r] \in Int
  BY <1>1 DEF Entry
<1>3. q.global \in Seq(Req)
  BY DEF Queues
<1>4. Prompts(rq, q) = SortedBy(q.global, key)
  BY <1>1 DEF Prompts
<1> QED
  BY <1>2, <1>3, <1>4, Sorted

\* The recursive function of Place exists.
LEMMA PlaceSteps ==
  ASSUME NEW q \in Queues, NEW rq \in [Req -> Entry], pending \in [Ve -> Int]
  PROVE  LET prompts == Prompts(rq, q)
         IN  \E f \in [Nat -> Placing] :
           /\ f[0].short = q.short /\ f[0].long = q.long
           /\ \A k \in Nat : k < Len(prompts) => f[k + 1] = Added(rq, f[k], prompts[k + 1])
           /\ Place(rq, q) = f[Len(prompts)]
<1> DEFINE prompts == Prompts(rq, q)
           n == Len(prompts)
           start == [load |-> [v \in Ve |-> pending[v] + TokensOf(rq, q.running[v])],
                     short |-> q.short, long |-> q.long]
           G == [k \in Nat |-> [x \in Placing |-> IF k \in 1 .. n THEN Added(rq, x, prompts[k])
                                                  ELSE x]]
           Fix(f) == f = [k \in 0 .. n |-> IF k = 0 THEN start
                                           ELSE Added(rq, f[k - 1], prompts[k])]
<1>0. prompts \in Seq(Req)
  BY PromptsSorted
<1>1. n \in Nat /\ \A k \in 1 .. n : prompts[k] \in Req
  <2> HIDE DEF prompts
  <2> QED
    BY <1>0, LenProperties, ElementOfSeq
<1>2. start \in Placing /\ start.short = q.short /\ start.long = q.long
  <2>1. ASSUME NEW v \in Ve PROVE pending[v] + TokensOf(rq, q.running[v]) \in Int
    <3>1. q.running[v] \in Seq(Req)
      BY DEF Queues
    <3> QED
      BY <3>1, TokensInt
  <2>2. [v \in Ve |-> pending[v] + TokensOf(rq, q.running[v])] \in [Ve -> Int]
    BY <2>1
  <2>3. q.short \in [Ve -> Seq(Req)] /\ q.long \in [Ve -> Seq(Req)]
    BY DEF Queues
  <2>4. \A l \in [Ve -> Int] : LET x == [load |-> l, short |-> q.short, long |-> q.long]
                               IN  x \in Placing /\ x.short = q.short /\ x.long = q.long
    BY <2>3 DEF Placing
  <2> QED
    BY <2>2, <2>4, Zenon
<1>3. Place(rq, q) = (CHOOSE f : Fix(f))[n]
  BY DEF Place, Added, Prompts
<1> HIDE DEF start, prompts
<1>4. PICK f \in [Nat -> Placing] : Follows(f, start, G)
  <2>1. G \in [Nat -> [Placing -> Placing]]
    <3>1. ASSUME NEW k \in 1 .. n, NEW x \in Placing PROVE Added(rq, x, prompts[k]) \in Placing
      BY <1>1, AddedOne
    <3> QED
      BY <3>1
  <2> HIDE DEF G
  <2> QED
    BY <1>2, <2>1, Recursion
<1>5. f[0] = start /\ \A k \in Nat : k < n => f[k + 1] = Added(rq, f[k], prompts[k + 1])
  <2>1. f[0] = start /\ \A k \in Nat : f[k + 1] = G[k + 1][f[k]] /\ f[k] \in Placing
    BY <1>4 DEF Follows
  <2>2. ASSUME NEW k \in Nat, k < n PROVE f[k + 1] = Added(rq, f[k], prompts[k + 1])
    <3>1. k + 1 \in Nat /\ k + 1 \in 1 .. n
      BY <1>1, <2>2
    <3> QED
      BY <2>1, <3>1
  <2> QED
    BY <2>1, <2>2
<1> HIDE DEF G
<1>6. Fix([k \in 0 .. n |-> f[k]])
  <2>1. ASSUME NEW k \in 0 .. n, k # 0 PROVE f[k] = Added(rq, f[k - 1], prompts[k])
    <3>1. k - 1 \in Nat /\ k - 1 < n /\ (k - 1) + 1 = k
      BY <1>1, <2>1
    <3> QED
      BY <1>5, <3>1
  <2>2. \A k \in 0 .. n : k # 0 => k - 1 \in 0 .. n
    BY <1>1
  <2> QED
    BY <1>5, <2>1, <2>2
<1> DEFINE g == CHOOSE f1 : Fix(f1)
<1>7. Fix(g)
  <2> HIDE DEF Fix
  <2> QED
    BY <1>6
<1>8. Place(rq, q) = g[n]
  BY <1>3
<1> HIDE DEF g
<1>9. \A k \in 0 .. n : g[k] = f[k]
  <2> DEFINE E == {k \in Nat : k <= n => g[k] = f[k]}
  <2>1. 0 \in E
    BY <1>1, <1>5, <1>7
  <2>2. ASSUME NEW k \in Nat, k \in E PROVE k + 1 \in E
    <3> SUFFICES ASSUME k + 1 <= n PROVE g[k + 1] = f[k + 1]
      OBVIOUS
    <3>1. k + 1 \in 0 .. n /\ k + 1 # 0 /\ (k + 1) - 1 = k /\ k < n /\ k <= n
      BY <1>1
    <3>2. g[k] = f[k]
      BY <2>2, <3>1
    <3>3. g[k + 1] = Added(rq, g[k], prompts[k + 1])
      BY <1>7, <3>1
    <3>4. f[k + 1] = Added(rq, f[k], prompts[k + 1])
      BY <1>5, <3>1
    <3> QED
      BY <3>2, <3>3, <3>4
  <2>3. Nat \subseteq E
    <3> HIDE DEF E
    <3> QED
      BY <2>1, <2>2, NatSet
  <2> QED
    BY <1>1, <2>3
<1>10. n \in 0 .. n
  BY <1>1
<1>11. Place(rq, q) = f[n]
  BY <1>8, <1>9, <1>10
<1>12. f[0].short = q.short /\ f[0].long = q.long
  BY <1>2, <1>5
<1> HIDE DEF Fix
<1> QED
  BY <1>5, <1>11, <1>12 DEF prompts

\* The queues, from their parts.
Lines(g, s, l, u) == [global |-> g, short |-> s, long |-> l, running |-> u]

LEMMA LinesParts ==
  ASSUME NEW g, NEW s, NEW l, NEW u
  PROVE  /\ Lines(g, s, l, u).global = g /\ Lines(g, s, l, u).short = s
         /\ Lines(g, s, l, u).long = l /\ Lines(g, s, l, u).running = u
         /\ Lines(g, s, l, u) \in Queues <=>
              /\ g \in Seq(Req) /\ s \in [Ve -> Seq(Req)] /\ l \in [Ve -> Seq(Req)]
              /\ u \in [Ve -> Seq(Req)]
  BY DEF Lines, Queues

\* Replacing one queue.
PutOne(g, s, l, u, v, h, a) ==
    /\ Put(Lines(g, s, l, u), v, h, a, l[v], u[v]) = Lines(h, [s EXCEPT ![v] = a], l, u)
    /\ Put(Lines(g, s, l, u), v, h, s[v], a, u[v]) = Lines(h, s, [l EXCEPT ![v] = a], u)

LEMMA PutLines ==
  ASSUME NEW g, NEW s \in [Ve -> Seq(Req)], NEW l \in [Ve -> Seq(Req)],
         NEW u \in [Ve -> Seq(Req)], NEW v \in Ve, NEW h, NEW a
  PROVE  PutOne(g, s, l, u, v, h, a)
<1>1. \A f \in [Ve -> Seq(Req)] : [f EXCEPT ![v] = f[v]] = f
  OBVIOUS
<1>2. /\ Lines(g, s, l, u).short = s /\ Lines(g, s, l, u).long = l
      /\ Lines(g, s, l, u).running = u
  BY LinesParts
<1>3. \A x, y, z : Put(Lines(g, s, l, u), v, h, x, y, z)
                   = Lines(h, [s EXCEPT ![v] = x], [l EXCEPT ![v] = y], [u EXCEPT ![v] = z])
  BY <1>2, Zenon DEF Put, Lines
<1>4. [s EXCEPT ![v] = s[v]] = s /\ [l EXCEPT ![v] = l[v]] = l /\ [u EXCEPT ![v] = u[v]] = u
  BY <1>1
<1>5. Put(Lines(g, s, l, u), v, h, a, l[v], u[v]) = Lines(h, [s EXCEPT ![v] = a], l, u)
  <2>1. Put(Lines(g, s, l, u), v, h, a, l[v], u[v])
          = Lines(h, [s EXCEPT ![v] = a], [l EXCEPT ![v] = l[v]], [u EXCEPT ![v] = u[v]])
    BY <1>3
  <2> QED
    BY <1>4, <2>1
<1>6. Put(Lines(g, s, l, u), v, h, s[v], a, u[v]) = Lines(h, s, [l EXCEPT ![v] = a], u)
  <2>1. Put(Lines(g, s, l, u), v, h, s[v], a, u[v])
          = Lines(h, [s EXCEPT ![v] = s[v]], [l EXCEPT ![v] = a], [u EXCEPT ![v] = u[v]])
    BY <1>3
  <2> QED
    BY <1>4, <2>1
<1> QED
  BY <1>5, <1>6 DEF PutOne

\* One prompt leaves the global queue for one of v.
LEMMA PlacedOne ==
  ASSUME NEW g, NEW s, NEW l, NEW u, NEW at, Lined(Lines(g, s, l, u), at),
         NEW r \in ToSet(g), NEW v \in Ve, NEW s1, NEW l1, OneMore(s, l, s1, l1, v, r)
  PROVE  \E to : Lined(Lines(Those(g, Req \ {r}), s1, l1, u), to) /\ Waits(at, to)
<1> DEFINE q == Lines(g, s, l, u)
           h == Those(g, Req \ {r})
<1>1. /\ q.global = g /\ q.short = s /\ q.long = l /\ q.running = u
      /\ g \in Seq(Req) /\ s \in [Ve -> Seq(Req)] /\ l \in [Ve -> Seq(Req)]
      /\ u \in [Ve -> Seq(Req)]
  <2>1. Lines(g, s, l, u) \in Queues
    BY DEF Lined
  <2> QED
    BY <2>1, LinesParts
<1> HIDE DEF q
<1>2. /\ Good(g, at, InGlobal) /\ Good(s[v], at, InShort(v)) /\ Good(l[v], at, InLong(v))
      /\ Good(u[v], at, InRunning(v))
  <2>1. /\ Good(q.global, at, InGlobal) /\ Good(q.short[v], at, InShort(v))
        /\ Good(q.long[v], at, InLong(v)) /\ Good(q.running[v], at, InRunning(v))
    BY DEF Lined, q
  <2> QED
    BY <1>1, <2>1, Zenon
<1>3. r \in Req /\ {r} \in SUBSET Req /\ at[r] = InGlobal
  <2>1. r \in Req
    BY <1>1, ToSetRange
  <2> QED
    BY <1>2, <2>1 DEF Good
<1>4. PICK S \in SUBSET Req : S = {r}
  BY <1>3
<1>5. \A x \in S : at[x] = InGlobal
  BY <1>3, <1>4
<1>6. \A n : n # InGlobal => Became(h, g, InGlobal, S, n)
  <2>1. h \in Seq(Req) /\ OneEach(h) /\ ToSet(h) = ToSet(g) \cap (Req \ {r})
    BY <1>2, ThoseKept, OneEachThose DEF Good
  <2>2. ToSet(g) \cap (Req \ {r}) = ToSet(g) \ S
    <3>1. ToSet(g) \subseteq Req
      BY <1>1, ToSetRange
    <3> QED
      BY <1>4, <3>1
  <2> HIDE DEF h
  <2> QED
    BY <2>1, <2>2 DEF Became
<1>7. /\ \A x \in S : at[x] # InShort(v) /\ at[x] # InLong(v) /\ at[x] # InRunning(v)
      /\ InShort(v) # InGlobal /\ InLong(v) # InGlobal
      /\ InShort(v) # InLong(v) /\ InRunning(v) # InShort(v) /\ InRunning(v) # InLong(v)
  BY <1>5, NamesApart
<1>8. ASSUME NEW n, n = InShort(v) \/ n = InLong(v)
      PROVE  Waits(at, Moved(at, S, n))
  <2> SUFFICES ASSUME NEW x \in Req
               PROVE  /\ Moved(at, S, n)[x] = Nowhere <=> at[x] = Nowhere
                      /\ \A w \in Ve : Moved(at, S, n)[x] = InRunning(w) <=> at[x] = InRunning(w)
    BY DEF Waits
  <2>1. Moved(at, S, n)[x] = IF x \in S THEN n ELSE at[x]
    BY DEF Moved
  <2>2. CASE x \in S
    <3>1. Moved(at, S, n)[x] = n /\ at[x] = InGlobal
      BY <1>5, <2>1, <2>2
    <3>2. n # Nowhere /\ InGlobal # Nowhere
          /\ \A w \in Ve : n # InRunning(w) /\ InGlobal # InRunning(w)
      BY <1>8, NamesApart
    <3> QED
      BY <3>1, <3>2
  <2>3. CASE x \notin S
    BY <2>1, <2>3
  <2> QED
    BY <2>2, <2>3
<1>9. \A x \in S : at[x] \in {InGlobal, InShort(v), InLong(v), InRunning(v)}
  BY <1>5
<1>9a. \A a : /\ Put(q, v, h, a, l[v], u[v]) = Lines(h, [s EXCEPT ![v] = a], l, u)
              /\ Put(q, v, h, s[v], a, u[v]) = Lines(h, s, [l EXCEPT ![v] = a], u)
  <2> HIDE DEF h
  <2>1. /\ s \in [Ve -> Seq(Req)] /\ l \in [Ve -> Seq(Req)] /\ u \in [Ve -> Seq(Req)]
    BY <1>1
  <2>2. ASSUME NEW a PROVE PutOne(g, s, l, u, v, h, a)
    BY <2>1, PutLines, Zenon
  <2> QED
    BY <2>2, Zenon DEF q, PutOne
<1>10. ASSUME NEW a, Became(a, s[v], InShort(v), S, InShort(v)), s1 = [s EXCEPT ![v] = a], l1 = l
       PROVE  \E to : Lined(Lines(h, s1, l1, u), to) /\ Waits(at, to)
  <2>1. /\ Became(l[v], l[v], InLong(v), S, InShort(v))
        /\ Became(u[v], u[v], InRunning(v), S, InShort(v))
    BY <1>2, <1>7, Unaffected
  <2>2. /\ Became(h, q.global, InGlobal, S, InShort(v))
        /\ Became(a, q.short[v], InShort(v), S, InShort(v))
        /\ Became(l[v], q.long[v], InLong(v), S, InShort(v))
        /\ Became(u[v], q.running[v], InRunning(v), S, InShort(v))
    BY <1>1, <1>6, <1>7, <1>10, <2>1, Zenon
  <2>3. InShort(v) \in {Nowhere, InGlobal, InShort(v), InLong(v), InRunning(v)}
    OBVIOUS
  <2> HIDE DEF h
  <2>4. Lined(q, at)
    BY DEF q
  <2>5. Lined(Put(q, v, h, a, l[v], u[v]), Moved(at, S, InShort(v)))
    BY <1>9, <2>2, <2>3, <2>4, PutMoved, Zenon
  <2>6. Put(q, v, h, a, l[v], u[v]) = Lines(h, s1, l1, u)
    <3>1. Put(q, v, h, a, l[v], u[v]) = Lines(h, [s EXCEPT ![v] = a], l, u)
      BY <1>9a
    <3> QED
      BY <1>10, <3>1, Zenon
  <2> QED
    BY <1>8, <2>5, <2>6, Zenon
<1>11. ASSUME NEW a, Became(a, l[v], InLong(v), S, InLong(v)), s1 = s, l1 = [l EXCEPT ![v] = a]
       PROVE  \E to : Lined(Lines(h, s1, l1, u), to) /\ Waits(at, to)
  <2>1. /\ Became(s[v], s[v], InShort(v), S, InLong(v))
        /\ Became(u[v], u[v], InRunning(v), S, InLong(v))
    BY <1>2, <1>7, Unaffected
  <2>2. /\ Became(h, q.global, InGlobal, S, InLong(v))
        /\ Became(s[v], q.short[v], InShort(v), S, InLong(v))
        /\ Became(a, q.long[v], InLong(v), S, InLong(v))
        /\ Became(u[v], q.running[v], InRunning(v), S, InLong(v))
    BY <1>1, <1>6, <1>7, <1>11, <2>1, Zenon
  <2>3. InLong(v) \in {Nowhere, InGlobal, InShort(v), InLong(v), InRunning(v)}
    OBVIOUS
  <2> HIDE DEF h
  <2>4. Lined(q, at)
    BY DEF q
  <2>5. Lined(Put(q, v, h, s[v], a, u[v]), Moved(at, S, InLong(v)))
    BY <1>9, <2>2, <2>3, <2>4, PutMoved, Zenon
  <2>6. Put(q, v, h, s[v], a, u[v]) = Lines(h, s1, l1, u)
    <3>1. Put(q, v, h, s[v], a, u[v]) = Lines(h, s, [l EXCEPT ![v] = a], u)
      BY <1>9a
    <3> QED
      BY <1>11, <3>1, Zenon
  <2> QED
    BY <1>8, <2>5, <2>6, Zenon
<1> HIDE DEF h
<1>12. r \notin ToSet(s[v]) /\ r \notin ToSet(l[v])
  BY <1>2, <1>3, NamesApart DEF Good
<1>13. /\ s[v] \in Seq(Req) /\ OneEach(s[v]) /\ l[v] \in Seq(Req) /\ OneEach(l[v])
  BY <1>2 DEF Good
<1>14. /\ Became(<<r>> \o s[v], s[v], InShort(v), S, InShort(v))
       /\ Became(Append(s[v], r), s[v], InShort(v), S, InShort(v))
       /\ Became(Append(l[v], r), l[v], InLong(v), S, InLong(v))
  <2>1. <<r>> \in Seq(Req) /\ OneEach(<<r>>) /\ ToSet(<<r>>) = {r}
    <3>1. <<r>> \in Seq(Req) /\ Len(<<r>>) = 1 /\ <<r>>[1] = r /\ DOMAIN <<r>> = 1 .. 1
      BY <1>3
    <3> QED
      BY <3>1 DEF OneEach, ToSet
  <2>2. /\ <<r>> \o s[v] \in Seq(Req) /\ OneEach(<<r>> \o s[v])
        /\ ToSet(<<r>> \o s[v]) = {r} \cup ToSet(s[v])
    <3>1. PICK e : e = <<r>>
      OBVIOUS
    <3>2. e \in Seq(Req) /\ OneEach(e) /\ ToSet(e) = {r}
      BY <2>1, <3>1
    <3>3. ToSet(e) \cap ToSet(s[v]) = {}
      BY <1>12, <3>2
    <3>4. /\ e \o s[v] \in Seq(Req) /\ OneEach(e \o s[v])
          /\ ToSet(e \o s[v]) = ToSet(e) \cup ToSet(s[v])
      BY <1>13, <3>2, <3>3, OneEachConcat, ToSetConcat, ConcatProperties
    <3> QED
      BY <3>1, <3>2, <3>4
  <2>3. /\ Append(s[v], r) \in Seq(Req) /\ OneEach(Append(s[v], r))
        /\ ToSet(Append(s[v], r)) = ToSet(s[v]) \cup {r}
    BY <1>3, <1>12, <1>13, OneEachAppend, ToSetAppend, AppendProperties
  <2>4. /\ Append(l[v], r) \in Seq(Req) /\ OneEach(Append(l[v], r))
        /\ ToSet(Append(l[v], r)) = ToSet(l[v]) \cup {r}
    BY <1>3, <1>12, <1>13, OneEachAppend, ToSetAppend, AppendProperties
  <2> QED
    BY <1>4, <2>2, <2>3, <2>4 DEF Became
<1>15. /\ [s EXCEPT ![v] = <<r>> \o @] = [s EXCEPT ![v] = <<r>> \o s[v]]
       /\ [s EXCEPT ![v] = Append(@, r)] = [s EXCEPT ![v] = Append(s[v], r)]
       /\ [l EXCEPT ![v] = Append(@, r)] = [l EXCEPT ![v] = Append(l[v], r)]
  BY <1>1
<1> QED
  BY <1>10, <1>11, <1>14, <1>15, Zenon DEF h, OneMore

LEMMA WaitsTwice ==
  ASSUME NEW at, NEW to, NEW on, Waits(at, to), Waits(to, on)
  PROVE  Waits(at, on)
  BY DEF Waits

\* All prompts leave the global queue.
LEMMA AllPlaced ==
  ASSUME NEW q, NEW at, Lined(q, at), NEW rq \in [Req -> Entry], pending \in [Ve -> Int]
  PROVE  \E to : /\ Lined(Lines(<<>>, Place(rq, q).short, Place(rq, q).long, q.running), to)
                 /\ Waits(at, to)
<1> DEFINE prompts == Prompts(rq, q)
           n == Len(prompts)
           Left(k) == {prompts[i] : i \in (k + 1) .. n}
<1>1. /\ q \in Queues /\ q.global \in Seq(Req) /\ OneEach(q.global)
      /\ q = Lines(q.global, q.short, q.long, q.running)
  BY DEF Lined, Good, Queues, Lines
<1>2. /\ prompts \in Seq(Req) /\ ToSet(prompts) = ToSet(q.global) /\ OneEach(prompts)
  BY <1>1, PromptsSorted
<1>3. PICK f \in [Nat -> Placing] :
        /\ f[0].short = q.short /\ f[0].long = q.long
        /\ \A k \in Nat : k < n => f[k + 1] = Added(rq, f[k], prompts[k + 1])
        /\ Place(rq, q) = f[n]
  BY <1>1, PlaceSteps
<1> HIDE DEF prompts
<1>4. n \in Nat /\ DOMAIN prompts = 1 .. n /\ \A i \in 1 .. n : prompts[i] \in Req
  BY <1>2, LenProperties, ElementOfSeq
<1> DEFINE Then(k, g, to) == /\ ToSet(g) = Left(k)
                             /\ Lined(Lines(g, f[k].short, f[k].long, q.running), to)
                             /\ Waits(at, to)
           E == {k \in Nat : k <= n => \E g, to : Then(k, g, to)}
<1>5. 0 \in E
  <2>1. ToSet(q.global) = Left(0)
    <3>1. (0 + 1) .. n = 1 .. n
      BY <1>4
    <3>2. ToSet(prompts) = {prompts[i] : i \in 1 .. n}
      BY <1>4 DEF ToSet
    <3> HIDE DEF n
    <3> QED
      BY <1>2, <3>1, <3>2
  <2>2. Lined(Lines(q.global, f[0].short, f[0].long, q.running), at)
    BY <1>1, <1>3, Zenon
  <2>3. Waits(at, at)
    BY DEF Waits
  <2>4. Then(0, q.global, at)
    BY <2>1, <2>2, <2>3
  <2> HIDE DEF Then
  <2> QED
    BY <2>4
<1>6. ASSUME NEW k \in Nat, k \in E PROVE k + 1 \in E
  <2> SUFFICES ASSUME k + 1 <= n PROVE \E g, to : Then(k + 1, g, to)
    OBVIOUS
  <2>1. k <= n /\ k < n /\ k + 1 \in 1 .. n /\ k + 1 \in Nat
    BY <1>4
  <2>2. PICK g, to : Then(k, g, to)
    BY <1>6, <2>1
  <2> DEFINE r == prompts[k + 1]
  <2>3. r \in Req /\ r \in ToSet(g)
    <3>1. k + 1 \in (k + 1) .. n
      BY <2>1
    <3>2. r \in Left(k)
      BY <3>1
    <3> HIDE DEF Left
    <3> QED
      BY <1>4, <2>1, <2>2, <3>2
  <2>4. Left(k + 1) = Left(k) \ {r}
    <3>1. \A i \in (k + 1) .. n : i = k + 1 \/ i \in (k + 1) + 1 .. n
      BY <2>1
    <3>2. \A i \in (k + 1) + 1 .. n : i \in (k + 1) .. n /\ i # k + 1 /\ i \in 1 .. n
      BY <2>1
    <3>3. \A i \in (k + 1) + 1 .. n : prompts[i] # r
      BY <1>2, <2>1, <3>2 DEF OneEach
    <3> QED
      BY <3>1, <3>2, <3>3
  <2> DEFINE h == Those(g, Req \ {r})
  <2>5. g \in Seq(Req)
    <3>1. Lines(g, f[k].short, f[k].long, q.running) \in Queues
      BY <2>2 DEF Lined
    <3> QED
      BY <3>1, LinesParts
  <2>6. ToSet(h) = Left(k + 1)
    <3>1. ToSet(h) = ToSet(g) \cap (Req \ {r}) /\ ToSet(g) \subseteq Req
      BY <2>5, ThoseKept, ToSetRange
    <3>2. ToSet(g) = Left(k)
      BY <2>2
    <3> HIDE DEF h, r, Left
    <3> QED
      BY <2>4, <3>1, <3>2
  <2>7. f[k + 1] = Added(rq, f[k], r) /\ f[k] \in Placing
    BY <1>3, <2>1
  <2> HIDE DEF r
  <2>8. PICK v \in Ve : OneMore(f[k].short, f[k].long, f[k + 1].short, f[k + 1].long, v, r)
    <3>1. \E v \in Ve : OneMore(f[k].short, f[k].long, Added(rq, f[k], r).short,
                              Added(rq, f[k], r).long, v, r)
      BY <2>3, <2>7, AddedOne
    <3> QED
      BY <2>7, <3>1, Zenon
  <2>9. Lined(Lines(g, f[k].short, f[k].long, q.running), to) /\ Waits(at, to)
    BY <2>2
  <2> HIDE DEF h
  <2>10. PICK on : Lined(Lines(h, f[k + 1].short, f[k + 1].long, q.running), on) /\ Waits(to, on)
    BY <2>3, <2>8, <2>9, PlacedOne, Zenon DEF h
  <2>11. Waits(at, on)
    BY <2>9, <2>10, WaitsTwice
  <2>12. Then(k + 1, h, on)
    BY <2>6, <2>10, <2>11, Zenon
  <2> HIDE DEF Then
  <2> QED
    BY <2>12
<1>7. n \in E
  <2> HIDE DEF E
  <2> QED
    BY <1>4, <1>5, <1>6, NatSet
<1>8. PICK g, to : Then(n, g, to)
  BY <1>4, <1>7
<1>9. g = <<>>
  <2>1. Left(n) = {}
    BY <1>4
  <2>2. g \in Seq(Req)
    <3>1. Lines(g, f[n].short, f[n].long, q.running) \in Queues
      BY <1>8 DEF Lined
    <3> QED
      BY <3>1, LinesParts
  <2>3. ToSet(g) = {}
    BY <1>8, <2>1
  <2> QED
    BY <2>2, <2>3, NobodyThere
<1>10. Lined(Lines(g, f[n].short, f[n].long, q.running), to) /\ Waits(at, to)
  BY <1>8
<1> HIDE DEF Then, E, n
<1> QED
  BY <1>3, <1>9, <1>10, Zenon

\* The queue of v, sorted or not, has the requests it had.
LEMMA ReorderedSame ==
  ASSUME NEW rq \in [Req -> Entry], NEW wasEmpty, NEW queue \in [Ve -> Seq(Req)]
  PROVE  LET k == Reordered(rq, wasEmpty, queue)
         IN  /\ k \in [Ve -> Seq(Req)]
             /\ \A v \in Ve : /\ ToSet(k[v]) = ToSet(queue[v])
                              /\ OneEach(queue[v]) => OneEach(k[v])
<1> DEFINE Same(k) == /\ k \in [Ve -> Seq(Req)]
                      /\ \A v \in Ve : /\ ToSet(k[v]) = ToSet(queue[v])
                                       /\ OneEach(queue[v]) => OneEach(k[v])
<1>1. ASSUME NEW key, \A r \in Req : key[r] \in Int
      PROVE  Same([v \in Ve |-> SortedBy(queue[v], key)])
  <2>1. ASSUME NEW v \in Ve
        PROVE  /\ SortedBy(queue[v], key) \in Seq(Req)
               /\ ToSet(SortedBy(queue[v], key)) = ToSet(queue[v])
               /\ OneEach(queue[v]) => OneEach(SortedBy(queue[v], key))
    BY <1>1, Sorted
  <2> QED
    BY <2>1
<1>2. Same([v \in Ve |-> SortedBy(queue[v], [r \in Req |-> r])])
  <2>1. PICK key : key = [r \in Req |-> r]
    OBVIOUS
  <2>2. \A r \in Req : key[r] \in Int
    BY <2>1 DEF Req
  <2> HIDE DEF Same
  <2>3. Same([v \in Ve |-> SortedBy(queue[v], key)])
    BY <1>1, <2>2
  <2> QED
    BY <2>1, <2>3
<1>3. Same([v \in Ve |-> SortedBy(queue[v], [r \in Req |-> rq[r].prompt])])
  <2>1. PICK key : key = [r \in Req |-> rq[r].prompt]
    OBVIOUS
  <2>2. \A r \in Req : key[r] \in Int
    BY <2>1 DEF Entry
  <2> HIDE DEF Same
  <2>3. Same([v \in Ve |-> SortedBy(queue[v], key)])
    BY <1>1, <2>2
  <2> QED
    BY <2>1, <2>3
<1>4. Same(queue)
  OBVIOUS
<1>5. Same(Reordered(rq, wasEmpty, queue))
  <2> HIDE DEF Same
  <2> QED
    BY <1>2, <1>3, <1>4, Zenon DEF Reordered
<1> QED
  BY <1>5

\* Queues with the same requests in another order.
LEMMA SameLines ==
  ASSUME NEW g, NEW s, NEW l, NEW u, NEW at, Lined(Lines(g, s, l, u), at),
         NEW k \in [Ve -> Seq(Req)],
         \A v \in Ve : ToSet(k[v]) = ToSet(s[v]) /\ (OneEach(s[v]) => OneEach(k[v]))
  PROVE  Lined(Lines(g, k, l, u), at)
<1> DEFINE p == Lines(g, s, l, u)
           q == Lines(g, k, l, u)
<1>1. /\ p.global = g /\ p.short = s /\ p.long = l /\ p.running = u /\ p \in Queues
  BY LinesParts DEF Lined
<1>2. /\ q.global = g /\ q.short = k /\ q.long = l /\ q.running = u /\ q \in Queues
  <2>1. g \in Seq(Req) /\ l \in [Ve -> Seq(Req)] /\ u \in [Ve -> Seq(Req)]
    <3>1. Lines(g, s, l, u) \in Queues
      BY DEF Lined
    <3> QED
      BY <3>1, LinesParts
  <2>2. Lines(g, k, l, u) \in Queues
    BY <2>1, LinesParts, Zenon
  <2>3. /\ Lines(g, k, l, u).global = g /\ Lines(g, k, l, u).short = k
        /\ Lines(g, k, l, u).long = l /\ Lines(g, k, l, u).running = u
    BY DEF Lines
  <2> QED
    BY <2>2, <2>3
<1>3. Lined(p, at)
  OBVIOUS
<1> HIDE DEF p, q
<1>4. \A v \in Ve : Good(s[v], at, InShort(v))
  BY <1>1, <1>3 DEF Lined
<1>5. ASSUME NEW v \in Ve PROVE Good(k[v], at, InShort(v))
  BY <1>4 DEF Good
<1>6. Lined(q, at)
  <2>1. /\ at \in [Req -> Spots] /\ Good(q.global, at, InGlobal)
        /\ \A w \in Ve : Good(q.long[w], at, InLong(w)) /\ Good(q.running[w], at, InRunning(w))
    BY <1>1, <1>2, <1>3, Zenon DEF Lined
  <2>2. \A w \in Ve : Good(q.short[w], at, InShort(w))
    BY <1>2, <1>5, Zenon
  <2> QED
    BY <1>2, <2>1, <2>2, Zenon DEF Lined
<1> QED
  BY <1>6 DEF q

LEMMA WaitsShift ==
  ASSUME NEW at, NEW mid, NEW to, NEW v \in Ve, Waits(mid, to),
         Shift(v, at, mid), Comes(v, {}, at, mid, TRUE)
  PROVE  Shift(v, at, to) /\ Comes(v, {}, at, to, TRUE)
<1>1. ASSUME NEW r \in Req
      PROVE  /\ (to[r] = Nowhere <=> at[r] = Nowhere)
             /\ \A w \in Ve : w # v /\ at[r] = InRunning(w) => to[r] = at[r]
  BY DEF Waits, Shift
<1>2. Comes(v, {}, at, to, TRUE)
  BY DEF Waits, Comes
<1> QED
  BY <1>1, <1>2 DEF Shift

\* balance_prefill, with balance_decode.
LEMMA PrefillBalanced ==
  ASSUME NEW q, NEW at, Lined(q, at), NEW v \in Ve, NEW rq \in [Req -> Entry],
         pending \in [Ve -> Int]
  PROVE  \E to : /\ Lined(BalancePrefill(v, rq, q), to)
                 /\ Shift(v, at, to) /\ Comes(v, {}, at, to, TRUE)
<1> DEFINE run == IF bench.decode_balance THEN BalanceDecode(v, rq, q.running) ELSE q.running
           q0 == [q EXCEPT !.running = run]
           p == Place(rq, q0)
           none == \A w \in Ve : q.short[w] = <<>>
           k == Reordered(rq, none, p.short)
<1>1. q \in Queues /\ [q EXCEPT !.running = q.running] = q
  BY DEF Lined, Queues
<1>2. PICK mid : Lined(q0, mid) /\ Shift(v, at, mid) /\ Comes(v, {}, at, mid, TRUE)
  <2>1. CASE bench.decode_balance
    <3>1. q0 = [q EXCEPT !.running = BalanceDecode(v, rq, q.running)]
      BY <2>1, Zenon
    <3> HIDE DEF q0
    <3> QED
      BY <3>1, DecodesBalanced, Zenon
  <2>2. CASE ~ bench.decode_balance
    <3>1. q0 = q
      BY <1>1, <2>2, Zenon
    <3> HIDE DEF q0
    <3>2. Shift(v, at, at) /\ Comes(v, {}, at, at, TRUE)
      BY DEF Shift, Comes
    <3> QED
      BY <3>1, <3>2
  <2> QED
    BY <2>1, <2>2
<1>3. BalancePrefill(v, rq, q) = IF q.global = <<>> THEN q0
                                 ELSE Lines(<<>>, k, p.long, run)
  BY Zenon DEF BalancePrefill, Lines
<1>4. q0.running = run
  BY <1>1 DEF Queues
<1> HIDE DEF run, q0
<1>5. CASE q.global = <<>>
  BY <1>2, <1>3, <1>5, Zenon
<1>6. CASE q.global # <<>>
  <2>1. PICK to : Lined(Lines(<<>>, p.short, p.long, q0.running), to) /\ Waits(mid, to)
    BY <1>2, AllPlaced
  <2>2. p.short \in [Ve -> Seq(Req)]
    <3>1. Lines(<<>>, p.short, p.long, q0.running) \in Queues
      BY <2>1 DEF Lined
    <3> QED
      BY <3>1, LinesParts
  <2> HIDE DEF p, none
  <2>3. /\ k \in [Ve -> Seq(Req)]
        /\ \A w \in Ve : ToSet(k[w]) = ToSet(p.short[w]) /\ (OneEach(p.short[w]) => OneEach(k[w]))
    BY <2>2, ReorderedSame
  <2> HIDE DEF k
  <2>4. Lined(Lines(<<>>, k, p.long, q0.running), to)
    BY <2>1, <2>3, SameLines
  <2>5. Shift(v, at, to) /\ Comes(v, {}, at, to, TRUE)
    BY <1>2, <2>1, WaitsShift
  <2> QED
    BY <1>3, <1>4, <1>6, <2>4, <2>5, Zenon
<1> QED
  BY <1>5, <1>6

-----------------------------------------------------------------------------
(* The batch of v is filled.                                               *)

\* The requests of C have been looked at: who runs runs on, and only requests
\* of C start to run, on v.
Took(v, C, at, to) ==
  \A r \in Req : /\ to[r] = Nowhere <=> at[r] = Nowhere
                 /\ \A w \in Ve : /\ at[r] = InRunning(w) => to[r] = InRunning(w) /\ r \notin C
                                  /\ to[r] = InRunning(w) => \/ at[r] = InRunning(w)
                                                             \/ w = v /\ r \in C

LEMMA TookTwice ==
  ASSUME NEW v \in Ve, NEW C, NEW D, NEW at, NEW mid, NEW to, Took(v, C, at, mid), Took(v, D, mid, to)
  PROVE  Took(v, D \cup C, at, to)
<1> SUFFICES ASSUME NEW r \in Req, NEW w \in Ve
             PROVE  /\ to[r] = Nowhere <=> at[r] = Nowhere
                    /\ at[r] = InRunning(w) => to[r] = InRunning(w) /\ r \notin D \cup C
                    /\ to[r] = InRunning(w) => \/ at[r] = InRunning(w)
                                               \/ w = v /\ r \in D \cup C
  <2>1. V - 1 \in Ve
    BY LookAheadAssumption DEF Ve
  <2> QED
    BY <2>1 DEF Took
<1> QED
  BY DEF Took

LEMMA ChecksTwice ==
  ASSUME NEW rq, NEW rp, NEW rr, NEW C, NEW D, NEW fx, Checks(rp, rq, C, fx), Checks(rr, rp, D, fx)
  PROVE  Checks(rr, rq, D \cup C, fx)
  BY DEF Checks

\* One queue of v and its batch.
PutsTwo(q, v, x, y, z) ==
    /\ [q EXCEPT !.running[v] = x, !.long[v] = y] = Put(q, v, q.global, q.short[v], y, x)
    /\ [q EXCEPT !.running[v] = x, !.short[v] = y, !.global = z] = Put(q, v, z, y, q.long[v], x)

LEMMA PutTwo ==
  ASSUME NEW q \in Queues, NEW v \in Ve, NEW x \in Seq(Req), NEW y \in Seq(Req),
         NEW z \in Seq(Req)
  PROVE  PutsTwo(q, v, x, y, z)
<1> DEFINE R(g, s, l, u) == [global |-> g, short |-> s, long |-> l, running |-> u]
           Ru(p, a) == [p EXCEPT !.running = a]
           Lo(p, a) == [p EXCEPT !.long = a]
           Sh(p, a) == [p EXCEPT !.short = a]
           Gl(p, a) == [p EXCEPT !.global = a]
           nr == [q.running EXCEPT ![v] = x]
           nl == [q.long EXCEPT ![v] = y]
           ns == [q.short EXCEPT ![v] = y]
<1>1. \A g, s, l, u, a :
        /\ Ru(R(g, s, l, u), a) = R(g, s, l, a) /\ Lo(R(g, s, l, u), a) = R(g, s, a, u)
        /\ Sh(R(g, s, l, u), a) = R(g, a, l, u) /\ Gl(R(g, s, l, u), a) = R(a, s, l, u)
  OBVIOUS
<1>2. q = R(q.global, q.short, q.long, q.running)
  BY DEF Queues
<1>3. [q EXCEPT !.running[v] = x, !.long[v] = y] = Lo(Ru(q, nr), nl)
  BY DEF Queues
<1>4. [q EXCEPT !.running[v] = x, !.short[v] = y, !.global = z] = Gl(Sh(Ru(q, nr), ns), z)
  BY DEF Queues
<1> HIDE DEF Ru, Lo, Sh, Gl, nr, nl, ns, R
<1>5. Ru(q, nr) = R(q.global, q.short, q.long, nr)
  BY <1>1, <1>2
<1>6. Lo(Ru(q, nr), nl) = R(q.global, q.short, nl, nr)
  BY <1>1, <1>5
<1>7. Gl(Sh(Ru(q, nr), ns), z) = R(z, ns, q.long, nr)
  BY <1>1, <1>5
<1>8. q.short \in [Ve -> Seq(Req)] /\ q.long \in [Ve -> Seq(Req)]
  BY DEF Queues
<1>9. \A f \in [Ve -> Seq(Req)] : [f EXCEPT ![v] = f[v]] = f
  OBVIOUS
<1>10. [q.short EXCEPT ![v] = q.short[v]] = q.short /\ [q.long EXCEPT ![v] = q.long[v]] = q.long
  BY <1>8, <1>9
<1>11. Put(q, v, q.global, q.short[v], y, x) = R(q.global, q.short, nl, nr)
  BY <1>10, Zenon DEF Put, R, nl, nr
<1>12. Put(q, v, z, y, q.long[v], x) = R(z, ns, q.long, nr)
  BY <1>10, Zenon DEF Put, R, ns, nr
<1> QED
  BY <1>3, <1>4, <1>6, <1>7, <1>11, <1>12, Zenon DEF PutsTwo

\* Requests of v, or of everybody's queue, come into its batch.
LEMMA TookMoved ==
  ASSUME NEW at, NEW v \in Ve, NEW C \in SUBSET Req, NEW S \in SUBSET C,
         \A r \in C : at[r] \in {InGlobal, InShort(v), InLong(v)}
  PROVE  Took(v, C, at, Moved(at, S, InRunning(v)))
<1> DEFINE to == Moved(at, S, InRunning(v))
<1>1. \A r \in Req : to[r] = IF r \in S THEN InRunning(v) ELSE at[r]
  BY DEF Moved
<1> HIDE DEF to
<1>2. ASSUME NEW r \in Req, NEW w \in Ve
      PROVE  /\ to[r] = Nowhere <=> at[r] = Nowhere
             /\ at[r] = InRunning(w) => to[r] = InRunning(w) /\ r \notin C
             /\ to[r] = InRunning(w) => at[r] = InRunning(w) \/ (w = v /\ r \in C)
  <2>1. CASE r \in C
    <3>1. at[r] # Nowhere /\ at[r] # InRunning(w)
      <4>1. at[r] = InGlobal \/ at[r] = InShort(v) \/ at[r] = InLong(v)
        BY <2>1
      <4>2. /\ InGlobal # Nowhere /\ InShort(v) # Nowhere /\ InLong(v) # Nowhere
            /\ InGlobal # InRunning(w) /\ InShort(v) # InRunning(w) /\ InLong(v) # InRunning(w)
        BY NamesApart
      <4> QED
        BY <4>1, <4>2
    <3>2. InRunning(v) # Nowhere /\ (InRunning(v) = InRunning(w) => w = v)
      BY NamesApart
    <3> QED
      BY <1>1, <2>1, <3>1, <3>2
  <2>2. CASE r \notin C
    BY <1>1, <2>2
  <2> QED
    BY <2>1, <2>2
<1>3. V - 1 \in Ve
  BY LookAheadAssumption DEF Ve
<1>4. Took(v, C, at, to)
  BY <1>2, <1>3 DEF Took
<1> QED
  BY <1>4 DEF to

LEMMA TookNone ==
  ASSUME NEW at, NEW v \in Ve, NEW C \in SUBSET Req,
         \A r \in C : at[r] \in {InGlobal, InShort(v), InLong(v)}
  PROVE  Took(v, C, at, at)
<1>1. \A r \in C, w \in Ve : at[r] # InRunning(w)
  BY NamesApart
<1> QED
  BY <1>1 DEF Took

\* A queue without its head.
LEMMA HeadGone ==
  ASSUME NEW q \in Seq(Req), OneEach(q), q # <<>>
  PROVE  /\ Head(q) \in ToSet(q) /\ Tail(q) \in Seq(Req) /\ OneEach(Tail(q))
         /\ ToSet(Tail(q)) = ToSet(q) \ {Head(q)}
<1> DEFINE n == Len(q)
           t == Tail(q)
<1>1. /\ n \in Nat \ {0} /\ DOMAIN q = 1 .. n /\ Head(q) = q[1]
  BY LenProperties, EmptySeq
<1>2. /\ t \in Seq(Req) /\ Len(t) = n - 1 /\ \A i \in 1 .. Len(t) : t[i] = q[i + 1]
  BY HeadTailProperties
<1>3. DOMAIN t = 1 .. n - 1
  BY <1>2, LenProperties
<1> HIDE DEF t, n
<1>4. Head(q) \in ToSet(q)
  BY <1>1 DEF ToSet
<1>5. OneEach(t)
  <2> SUFFICES ASSUME NEW i \in 1 .. n - 1, NEW j \in 1 .. n - 1, t[i] = t[j] PROVE i = j
    BY <1>2, <1>3 DEF OneEach
  <2>1. i + 1 \in 1 .. n /\ j + 1 \in 1 .. n /\ q[i + 1] = q[j + 1]
    BY <1>1, <1>2
  <2>2. i + 1 = j + 1
    BY <2>1 DEF OneEach, n
  <2> QED
    BY <1>1, <2>2
<1>6. ASSUME NEW x \in ToSet(t) PROVE x \in ToSet(q) \ {Head(q)}
  <2>1. PICK i \in 1 .. n - 1 : x = t[i]
    BY <1>3 DEF ToSet
  <2>2. i + 1 \in 1 .. n /\ 1 \in 1 .. n /\ i + 1 # 1 /\ x = q[i + 1]
    BY <1>1, <1>2, <2>1
  <2>3. q[i + 1] # q[1]
    BY <2>2 DEF OneEach, n
  <2> QED
    BY <1>1, <2>2, <2>3 DEF ToSet
<1>7. ASSUME NEW x \in ToSet(q) \ {Head(q)} PROVE x \in ToSet(t)
  <2>1. PICK i \in 1 .. n : x = q[i]
    BY <1>1 DEF ToSet
  <2>2. i # 1
    BY <1>1, <1>7, <2>1
  <2>3. i - 1 \in 1 .. n - 1 /\ (i - 1) + 1 = i
    BY <1>1, <2>2
  <2>4. x = t[i - 1]
    BY <1>2, <2>1, <2>3
  <2> QED
    BY <1>3, <2>3, <2>4 DEF ToSet
<1> QED
  BY <1>2, <1>4, <1>5, <1>6, <1>7 DEF t

\* The size of a chunk is a number.
LEMMA MeanInt ==
  ASSUME NEW rq \in [Req -> Entry], NEW q \in Queues, NEW v \in Ve
  PROVE  MeanInputLen(v, rq, q) \in Int
<1> DEFINE S == {r \in Req : InputTokens(rq[r]) <= LongThreshold}
           shorts == Those(Prefills(rq, q.running[v]) \o q.short[v], S)
<1>1. q.running[v] \in Seq(Req) /\ q.short[v] \in Seq(Req)
  BY DEF Queues
<1>2. Prefills(rq, q.running[v]) \in Seq(Req)
  BY <1>1, ThoseKept DEF Prefills
<1>3. Prefills(rq, q.running[v]) \o q.short[v] \in Seq(Req)
  BY <1>1, <1>2, ConcatProperties
<1>4. shorts \in Seq(Req)
  BY <1>3, ThoseKept
<1>5. MeanInputLen(v, rq, q) = IF shorts = <<>> THEN LongThreshold
                               ELSE TokensOf(rq, shorts) \div Len(shorts)
  BY DEF MeanInputLen
<1> HIDE DEF shorts
<1>6. CASE shorts = <<>>
  BY <1>5, <1>6, LookAheadAssumption
<1>7. CASE shorts # <<>>
  <2>1. TokensOf(rq, shorts) \in Int
    BY <1>4, TokensInt
  <2>2. Len(shorts) \in Nat \ {0}
    BY <1>4, <1>7, EmptySeq, LenProperties
  <2>3. \A a \in Int, b \in Nat \ {0} : a \div b \in Int
    OBVIOUS
  <2> QED
    BY <1>5, <1>7, <2>1, <2>2, <2>3
<1> QED
  BY <1>6, <1>7

\* The batch of v, of the requests rq and the queues q, has become a.
Batched(v, rq, q, at, a) ==
    /\ Checks(a.req, rq, a.checked, Fused)
    /\ \E to : Lined(a.q, to) /\ Took(v, a.checked, at, to)

\* Whoever is looked at is marked.
LEMMA OneChecked ==
  ASSUME NEW rq \in [Req -> Entry], NEW r \in Req, NEW n \in Int
  PROVE  LET marked == [rq EXCEPT ![r].fusion_exec = Fused]
         IN  /\ Checks(marked, rq, {r}, Fused)
             /\ Checks([marked EXCEPT ![r] = SetChunk(@, n)], rq, {r}, Fused)
<1> DEFINE marked == [rq EXCEPT ![r].fusion_exec = Fused]
           m == Marked(rq[r], Fused)
           c == SetChunk(m, n)
<1>1. /\ m \in Entry /\ m.is_finished = rq[r].is_finished /\ m.fusion_exec = Fused
  BY MarkedEntry DEF Fused
<1>2. /\ c \in Entry /\ c.is_finished = rq[r].is_finished /\ c.fusion_exec = Fused
  <2>1. c \in Entry /\ Alike(c, m)
    BY <1>1, SetEntry
  <2> QED
    BY <1>1, <2>1 DEF Alike
<1>3. marked = [rq EXCEPT ![r] = m]
  BY DEF Marked
<1> HIDE DEF m
<1>4. [marked EXCEPT ![r] = SetChunk(@, n)] = [rq EXCEPT ![r] = c]
  BY <1>3
<1> HIDE DEF c, marked
<1>5. ASSUME NEW e \in Entry, e.is_finished = rq[r].is_finished, e.fusion_exec = Fused
      PROVE  Checks([rq EXCEPT ![r] = e], rq, {r}, Fused)
  BY <1>5 DEF Checks
<1>6. Checks(marked, rq, {r}, Fused)
  BY <1>1, <1>3, <1>5
<1>7. Checks([marked EXCEPT ![r] = SetChunk(@, n)], rq, {r}, Fused)
  BY <1>2, <1>4, <1>5
<1> QED
  BY <1>6, <1>7 DEF marked

LEMMA CheckedNone ==
  ASSUME NEW rq \in [Req -> Entry], NEW fx PROVE Checks(rq, rq, {}, fx)
  BY DEF Checks

\* A long prompt may join the batch of v.
LEMMA LongPacked ==
  ASSUME NEW q, NEW at, Lined(q, at), NEW v \in Ve, NEW rq \in [Req -> Entry],
         NEW free \in Int, NEW mean \in Int, NEW fits \in BOOLEAN
  PROVE  Batched(v, rq, q, at, PackLong(v, rq, free, mean, q, fits))
<1> DEFINE r == Head(q.long[v])
           n == LongChunk(free, mean)
           marked == [rq EXCEPT ![r].fusion_exec = Fused]
           p == PackLong(v, rq, free, mean, q, fits)
           stays == ~ fits \/ Len(q.running[v]) >= MaxBatch \/ n <= 0
<1>1. /\ q \in Queues /\ Good(q.global, at, InGlobal) /\ Good(q.short[v], at, InShort(v))
      /\ Good(q.long[v], at, InLong(v)) /\ Good(q.running[v], at, InRunning(v))
  BY DEF Lined
<1>2. n \in Int
  BY DEF LongChunk, Least
<1>3. CASE q.long[v] = <<>>
  <2>1. p = [req |-> rq, q |-> q, checked |-> {}]
    BY <1>3 DEF PackLong
  <2>2. PICK C \in SUBSET Req : C = {}
    OBVIOUS
  <2>3. p.req = rq /\ p.q = q /\ p.checked = C
    BY <2>1, <2>2
  <2>4. Took(v, C, at, at)
    BY <2>2, TookNone
  <2>5. Checks(rq, rq, C, Fused)
    BY <2>2, CheckedNone
  <2> HIDE DEF p
  <2> QED
    BY <2>3, <2>4, <2>5 DEF Batched, p
<1>4. CASE q.long[v] # <<>>
  <2> DEFINE l == q.long[v]
             u == q.running[v]
  <2>1. /\ l \in Seq(Req) /\ OneEach(l) /\ u \in Seq(Req) /\ OneEach(u)
    BY <1>1 DEF Good
  <2>2. /\ r \in ToSet(l) /\ Tail(l) \in Seq(Req) /\ OneEach(Tail(l))
        /\ ToSet(Tail(l)) = ToSet(l) \ {r}
    BY <1>4, <2>1, HeadGone
  <2>3. r \in Req
    BY <2>1, <2>2, ToSetRange
  <2>4. at[r] = InLong(v)
    BY <1>1, <2>2, <2>3 DEF Good
  <2>5. PICK C \in SUBSET Req : C = {r}
    BY <2>3
  <2>6. \A x \in C : at[x] = InLong(v)
    BY <2>4, <2>5
  <2>7. /\ Checks(marked, rq, C, Fused)
        /\ Checks([marked EXCEPT ![r] = SetChunk(@, n)], rq, C, Fused)
    BY <1>2, <2>3, <2>5, OneChecked
  <2>8. p = IF stays THEN [req |-> marked, q |-> q, checked |-> {r}]
            ELSE [req |-> [marked EXCEPT ![r] = SetChunk(@, n)], q |-> PopLong(v, q),
                  checked |-> {r}]
    BY <1>4 DEF PackLong
  <2> HIDE DEF n, marked, stays
  <2>9. CASE stays
    <3>1. p.req = marked /\ p.q = q /\ p.checked = C
      BY <2>5, <2>8, <2>9
    <3>2. Took(v, C, at, at)
      BY <2>6, TookNone
    <3> HIDE DEF p
    <3> QED
      BY <2>7, <3>1, <3>2 DEF Batched, p
  <2>10. CASE ~ stays
    <3>1. /\ p.req = [marked EXCEPT ![r] = SetChunk(@, n)] /\ p.q = PopLong(v, q)
          /\ p.checked = C
      BY <2>5, <2>8, <2>10
    <3> HIDE DEF p
    <3>2. Took(v, C, at, Moved(at, C, InRunning(v)))
      BY <2>6, TookMoved
    <3>3. Append(u, r) \in Seq(Req)
      BY <2>1, <2>3, AppendProperties
    <3>4. PopLong(v, q) = Put(q, v, q.global, q.short[v], Tail(l), Append(u, r))
      <4>1. PopLong(v, q) = [q EXCEPT !.running[v] = Append(u, r), !.long[v] = Tail(l)]
        BY <1>1 DEF PopLong, Queues
      <4> HIDE DEF l, u, r
      <4>2. PutsTwo(q, v, Append(u, r), Tail(l), Tail(l))
        BY <1>1, <2>2, <3>3, PutTwo
      <4>3. [q EXCEPT !.running[v] = Append(u, r), !.long[v] = Tail(l)]
              = Put(q, v, q.global, q.short[v], Tail(l), Append(u, r))
        BY <4>2, Zenon DEF PutsTwo
      <4> QED
        BY <4>1, <4>3
    <3>5. /\ InGlobal # InRunning(v) /\ InShort(v) # InRunning(v) /\ InLong(v) # InRunning(v)
          /\ InGlobal # InLong(v) /\ InShort(v) # InLong(v)
      BY NamesApart
    <3>6. /\ Became(q.global, q.global, InGlobal, C, InRunning(v))
          /\ Became(q.short[v], q.short[v], InShort(v), C, InRunning(v))
      <4>1. \A x \in C : at[x] # InGlobal /\ at[x] # InShort(v)
        BY <2>6, <3>5
      <4> QED
        BY <1>1, <3>5, <4>1, Unaffected
    <3> HIDE DEF r
    <3>7. Became(Tail(l), l, InLong(v), C, InRunning(v))
      BY <2>2, <2>5, <3>5 DEF Became
    <3>8. Became(Append(u, r), u, InRunning(v), C, InRunning(v))
      <4>1. r \notin ToSet(u)
        BY <1>1, <2>3, <2>4, <3>5 DEF Good
      <4>2. OneEach(Append(u, r)) /\ ToSet(Append(u, r)) = ToSet(u) \cup {r}
        BY <2>1, <2>3, <4>1, OneEachAppend, ToSetAppend
      <4> QED
        BY <2>5, <3>3, <4>2 DEF Became
    <3>9. /\ InRunning(v) \in {Nowhere, InGlobal, InShort(v), InLong(v), InRunning(v)}
          /\ \A x \in C : at[x] \in {InGlobal, InShort(v), InLong(v), InRunning(v)}
      BY <2>6
    <3>10. Lined(p.q, Moved(at, C, InRunning(v)))
      <4>1. Lined(Put(q, v, q.global, q.short[v], Tail(l), Append(u, r)),
                  Moved(at, C, InRunning(v)))
        BY <3>6, <3>7, <3>8, <3>9, PutMoved
      <4> QED
        BY <3>1, <3>4, <4>1
    <3> QED
      BY <2>7, <3>1, <3>2, <3>10, Zenon DEF Batched, p
  <2> QED
    BY <2>9, <2>10
<1> QED
  BY <1>3, <1>4

\* The queue of v and the global queue, without the first n requests of both.
LEMMA BothQueues ==
  ASSUME NEW s \in Seq(Req), NEW g \in Seq(Req), OneEach(s), OneEach(g),
         ToSet(s) \cap ToSet(g) = {}, NEW n \in 0 .. Len(s \o g)
  PROVE  LET S    == ToSet(SubSeq(s \o g, 1, n))
             rest == SubSeq(s, n + 1, Len(s))
             new  == IF n > Len(s) THEN SubSeq(s \o g, n + 1, Len(s \o g)) ELSE g
         IN  /\ SubSeq(s \o g, 1, n) \in Seq(Req) /\ OneEach(SubSeq(s \o g, 1, n))
             /\ S \subseteq ToSet(s) \cup ToSet(g)
             /\ rest \in Seq(Req) /\ OneEach(rest) /\ ToSet(rest) = ToSet(s) \ S
             /\ new \in Seq(Req) /\ OneEach(new) /\ ToSet(new) = ToSet(g) \ S
<1> DEFINE un   == s \o g
           own  == Len(s)
           head == SubSeq(un, 1, n)
           tail == SubSeq(un, n + 1, Len(un))
           rest == SubSeq(s, n + 1, own)
           S    == ToSet(head)
<1>1. /\ un \in Seq(Req) /\ OneEach(un) /\ ToSet(un) = ToSet(s) \cup ToSet(g)
      /\ Len(un) = own + Len(g) /\ \A i \in 1 .. own : un[i] = s[i]
  BY OneEachConcat, ToSetConcat, ConcatProperties, LenProperties
<1>2. /\ own \in Nat /\ Len(g) \in Nat /\ Len(un) \in Nat /\ n \in Nat /\ n <= Len(un)
      /\ n \in 0 .. Len(un)
  BY <1>1, LenProperties
<1> HIDE DEF un
<1>3. /\ head \in Seq(Req) /\ tail \in Seq(Req) /\ un = head \o tail
      /\ S = {un[i] : i \in 1 .. n}
  BY <1>1, <1>2, HeadSeq, QueueParts, HeadSet
<1> HIDE DEF head, tail, S
<1>4. /\ OneEach(head) /\ OneEach(tail) /\ S \cap ToSet(tail) = {}
      /\ ToSet(un) = S \cup ToSet(tail)
  <2>1. OneEach(head \o tail) /\ ToSet(head \o tail) = ToSet(un)
    BY <1>1, <1>3, Zenon
  <2>2. head \in Seq(Req) /\ tail \in Seq(Req)
    BY <1>3
  <2> QED
    BY <2>1, <2>2, OneEachConcat, ToSetConcat DEF S
<1>5. ToSet(s) = {s[i] : i \in 1 .. own}
  BY LenProperties DEF ToSet
<1>6. CASE n > own
  <2>1. ToSet(s) \subseteq S
    <3>1. \A i \in 1 .. own : i \in 1 .. n /\ un[i] = s[i]
      BY <1>1, <1>2, <1>6
    <3> QED
      BY <1>3, <1>5, <3>1
  <2>2. ToSet(tail) = ToSet(g) \ S
    BY <1>1, <1>4, <2>1
  <2>3. rest = <<>>
    <3>1. own < n + 1 /\ n + 1 \in Int /\ own \in Int
      BY <1>2, <1>6
    <3> HIDE DEF own
    <3> QED
      BY <3>1, SubSeqEmpty
  <2> HIDE DEF rest
  <2>4. rest \in Seq(Req) /\ Len(rest) = 0
    BY <2>3, EmptySeq
  <2>5. OneEach(rest) /\ ToSet(rest) = {}
    <3>1. DOMAIN rest = {}
      BY <2>4, LenProperties
    <3> QED
      BY <2>4, <3>1 DEF OneEach, ToSet
  <2>6. ToSet(rest) = ToSet(s) \ S /\ rest \in Seq(Req) /\ OneEach(rest)
    BY <2>1, <2>4, <2>5
  <2>7. S \subseteq ToSet(s) \cup ToSet(g)
    BY <1>1, <1>4
  <2> HIDE DEF rest, own
  <2> QED
    BY <1>3, <1>4, <1>6, <2>2, <2>6, <2>7 DEF rest, own, un, head, tail, S
<1>7. CASE n <= own
  <2>1. n \in 0 .. Len(s)
    BY <1>2, <1>7
  <2> DEFINE first == SubSeq(s, 1, n)
  <2>2. /\ first \in Seq(Req) /\ rest \in Seq(Req) /\ s = first \o rest
        /\ ToSet(first) = {s[i] : i \in 1 .. n}
    BY <2>1, HeadSeq, QueueParts, HeadSet
  <2> HIDE DEF first, rest
  <2>3. /\ OneEach(rest) /\ ToSet(first) \cap ToSet(rest) = {}
        /\ ToSet(s) = ToSet(first) \cup ToSet(rest)
    <3>1. OneEach(first \o rest) /\ ToSet(first \o rest) = ToSet(s)
      BY <2>2, Zenon
    <3>2. first \in Seq(Req) /\ rest \in Seq(Req)
      BY <2>2
    <3> QED
      BY <3>1, <3>2, OneEachConcat, ToSetConcat
  <2>4. S = ToSet(first)
    <3>1. \A i \in 1 .. n : un[i] = s[i]
      BY <1>1, <1>2, <1>7
    <3> QED
      BY <1>3, <2>2, <3>1
  <2>5. ToSet(rest) = ToSet(s) \ S /\ ToSet(g) = ToSet(g) \ S /\ S \subseteq ToSet(s) \cup ToSet(g)
    BY <2>3, <2>4
  <2>6. ~ (n > own)
    BY <1>2, <1>7
  <2> HIDE DEF own
  <2> QED
    BY <1>3, <1>4, <2>2, <2>3, <2>5, <2>6 DEF rest, own, un, head, S
<1> QED
  BY <1>2, <1>6, <1>7

\* Short prompts join the batch of v, from its queue and the global one.
LEMMA BatchFilled ==
  ASSUME NEW q, NEW at, Lined(q, at), NEW v \in Ve, NEW rq \in [Req -> Entry],
         NEW room \in 0 .. Len(q.short[v] \o q.global)
  PROVE  Batched(v, rq, q, at, FillUp(v, rq, q, room))
<1> DEFINE s == q.short[v]
           g == q.global
           u == q.running[v]
           un == s \o g
           a == Admit(TRUE, Fused, rq, u, un, room, MaxBatch, Budget)
           f == FillUp(v, rq, q, room)
           m == Len(s) + Len(g) - Len(a.queue)
<1>1. /\ q \in Queues /\ Good(g, at, InGlobal) /\ Good(s, at, InShort(v))
      /\ Good(q.long[v], at, InLong(v)) /\ Good(u, at, InRunning(v))
  BY DEF Lined
<1>2. /\ s \in Seq(Req) /\ g \in Seq(Req) /\ u \in Seq(Req) /\ OneEach(s) /\ OneEach(g)
      /\ OneEach(u)
  BY <1>1 DEF Good
<1>3. un \in Seq(Req) /\ Len(un) = Len(s) + Len(g) /\ ToSet(un) = ToSet(s) \cup ToSet(g)
  BY <1>2, ConcatProperties, ToSetConcat
<1>4. ToSet(s) \subseteq Req /\ ToSet(g) \subseteq Req
  BY <1>2, ToSetRange
<1>5. /\ \A r \in ToSet(s) : at[r] = InShort(v)
      /\ \A r \in ToSet(g) : at[r] = InGlobal
  BY <1>1, <1>4 DEF Good
<1>6. /\ InGlobal # InShort(v) /\ InGlobal # InRunning(v) /\ InShort(v) # InRunning(v)
      /\ InLong(v) # InGlobal /\ InLong(v) # InShort(v) /\ InLong(v) # InRunning(v)
  BY NamesApart
<1>7. ToSet(s) \cap ToSet(g) = {}
  BY <1>5, <1>6
<1>8. /\ f.req = a.req /\ f.checked = a.checked
      /\ f.q = [q EXCEPT !.running[v] = a.running, !.short[v] = SubSeq(@, m + 1, Len(s)),
                         !.global = IF m > Len(s) THEN a.queue ELSE @]
  BY DEF FillUp
<1> HIDE DEF f
<1>9. PICK n \in 0 .. Len(un) :
        /\ a.running = u \o SubSeq(un, 1, n) /\ a.queue = SubSeq(un, n + 1, Len(un))
        /\ ToSet(SubSeq(un, 1, n)) \subseteq a.checked /\ a.checked \subseteq ToSet(un)
        /\ Checks(a.req, rq, a.checked, Fused)
  <2>1. Fused \in BOOLEAN /\ room \in 0 .. Len(un)
    BY DEF Fused
  <2>2. MaxBatch \in Int /\ Budget \in Int
    BY LookAheadAssumption
  <2> HIDE DEF un, u
  <2>3. Grants(a, rq, u, un, Fused)
    BY <1>2, <1>3, <2>1, <2>2, Admits
  <2> QED
    BY <2>3 DEF Grants
<1> HIDE DEF a, un
<1>10. m = n
  <2>1. /\ SubSeq(un, 1, n) \in Seq(Req) /\ Len(SubSeq(un, 1, n)) = n
        /\ SubSeq(un, n + 1, Len(un)) \in Seq(Req)
        /\ un = SubSeq(un, 1, n) \o SubSeq(un, n + 1, Len(un))
    BY <1>3, HeadSeq, QueueParts
  <2>2. Len(SubSeq(un, 1, n) \o SubSeq(un, n + 1, Len(un)))
          = Len(SubSeq(un, 1, n)) + Len(SubSeq(un, n + 1, Len(un)))
    BY <2>1, ConcatProperties
  <2>3. Len(un) = n + Len(a.queue)
    BY <1>9, <2>1, <2>2
  <2>4. Len(a.queue) \in Nat /\ Len(s) \in Nat /\ Len(g) \in Nat
    <3>1. a.queue \in Seq(Req)
      BY <1>9, <2>1
    <3> QED
      BY <1>2, <3>1, LenProperties
  <2>5. n \in Nat
    BY <1>3, <2>4
  <2> HIDE DEF s, g
  <2> QED
    BY <1>3, <2>3, <2>4, <2>5
<1> HIDE DEF m
<1> DEFINE head == SubSeq(un, 1, n)
           S == ToSet(head)
           rest == SubSeq(s, n + 1, Len(s))
           new == IF n > Len(s) THEN SubSeq(un, n + 1, Len(un)) ELSE g
<1>11. /\ head \in Seq(Req) /\ OneEach(head) /\ S \subseteq ToSet(s) \cup ToSet(g)
       /\ rest \in Seq(Req) /\ OneEach(rest) /\ ToSet(rest) = ToSet(s) \ S
       /\ new \in Seq(Req) /\ OneEach(new) /\ ToSet(new) = ToSet(g) \ S
  BY <1>2, <1>7, BothQueues DEF un
<1>12. f.q = [q EXCEPT !.running[v] = u \o head, !.short[v] = rest, !.global = new]
  BY <1>1, <1>8, <1>9, <1>10 DEF Queues
<1> HIDE DEF rest, new, head
<1>13. PICK C \in SUBSET Req : C = a.checked
  BY <1>3, <1>4, <1>9
<1>14. S \in SUBSET C /\ S \in SUBSET Req /\ \A r \in C : at[r] = InShort(v) \/ at[r] = InGlobal
  BY <1>3, <1>5, <1>9, <1>13 DEF head
<1> HIDE DEF S
<1>15. u \o head \in Seq(Req) /\ OneEach(u \o head) /\ ToSet(u \o head) = ToSet(u) \cup S
  <2>1. ToSet(u) \cap S = {}
    <3>1. \A r \in S : r \in Req /\ at[r] # InRunning(v)
      BY <1>6, <1>14
    <3> QED
      BY <1>1, <3>1 DEF Good
  <2> QED
    BY <1>2, <1>11, <2>1, OneEachConcat, ToSetConcat, ConcatProperties DEF S
<1>16. Took(v, C, at, Moved(at, S, InRunning(v)))
  <2>1. \A r \in C : at[r] \in {InGlobal, InShort(v), InLong(v)}
    BY <1>14
  <2> QED
    BY <1>14, <2>1, TookMoved
<1>17. Lined(f.q, Moved(at, S, InRunning(v)))
  <2>1. /\ Became(new, g, InGlobal, S, InRunning(v))
        /\ Became(rest, s, InShort(v), S, InRunning(v))
        /\ Became(u \o head, u, InRunning(v), S, InRunning(v))
    BY <1>6, <1>11, <1>15 DEF Became
  <2>2. Became(q.long[v], q.long[v], InLong(v), S, InRunning(v))
    <3>1. \A r \in S : at[r] # InLong(v)
      BY <1>6, <1>14
    <3> QED
      BY <1>1, <1>6, <1>14, <3>1, Unaffected
  <2>3. /\ InRunning(v) \in {Nowhere, InGlobal, InShort(v), InLong(v), InRunning(v)}
        /\ \A r \in S : at[r] \in {InGlobal, InShort(v), InLong(v), InRunning(v)}
    BY <1>14
  <2>4. Lined(Put(q, v, new, rest, q.long[v], u \o head), Moved(at, S, InRunning(v)))
    BY <1>14, <2>1, <2>2, <2>3, PutMoved
  <2>5. PutsTwo(q, v, u \o head, rest, new)
    BY <1>1, <1>11, <1>15, PutTwo
  <2>6. f.q = Put(q, v, new, rest, q.long[v], u \o head)
    BY <1>12, <2>5, Zenon DEF PutsTwo
  <2> QED
    BY <2>4, <2>6, Zenon
<1>18. f.checked = C /\ Checks(f.req, rq, C, Fused)
  BY <1>8, <1>9, <1>13
<1> QED
  BY <1>16, <1>17, <1>18, Zenon DEF Batched, f

\* The outcomes of filling up.
LEMMA FilledUps ==
  ASSUME NEW q, NEW at, NEW v \in Ve, NEW rq, NEW p, Batched(v, rq, q, at, p),
         NEW a \in FilledUp(v, p)
  PROVE  Batched(v, rq, q, at, a)
<1> DEFINE n == Len(p.q.short[v] \o p.q.global)
           low == IF (\A w \in Ve : p.q.running[w] = <<>>) /\ n > 0 THEN 1 ELSE 0
<1>1. PICK room \in low .. n : a = [FillUp(v, p.req, p.q, room) EXCEPT !.checked = @ \cup p.checked]
  BY DEF FilledUp
<1>2. PICK mid : Lined(p.q, mid) /\ Took(v, p.checked, at, mid)
  BY DEF Batched
<1>3. n \in Nat
  <2>1. p.q.short[v] \in Seq(Req) /\ p.q.global \in Seq(Req)
    BY <1>2 DEF Lined, Good
  <2>2. p.q.short[v] \o p.q.global \in Seq(Req)
    BY <2>1, ConcatProperties
  <2> QED
    BY <2>2, LenProperties
<1>4. room \in 0 .. Len(p.q.short[v] \o p.q.global)
  <2>1. low \in {0, 1} /\ room \in low .. n
    BY <1>1
  <2> HIDE DEF low, n
  <2>2. room \in 0 .. n
    BY <1>3, <2>1
  <2> QED
    BY <2>2 DEF n
<1>5. Checks(p.req, rq, p.checked, Fused) /\ p.req \in [Req -> Entry]
  BY DEF Batched, Checks
<1> DEFINE f == FillUp(v, p.req, p.q, room)
<1>6. Batched(v, p.req, p.q, mid, f)
  BY <1>2, <1>4, <1>5, BatchFilled
<1>7. a.req = f.req /\ a.q = f.q /\ a.checked = f.checked \cup p.checked
  BY <1>1 DEF FillUp
<1> HIDE DEF f
<1>8. PICK to : Lined(f.q, to) /\ Took(v, f.checked, mid, to)
  BY <1>6 DEF Batched
<1>9. Took(v, f.checked \cup p.checked, at, to)
  BY <1>2, <1>8, TookTwice
<1>10. Checks(f.req, rq, f.checked \cup p.checked, Fused)
  BY <1>5, <1>6, ChecksTwice DEF Batched
<1> QED
  BY <1>7, <1>8, <1>9, <1>10, Zenon DEF Batched

LEMMA AlikeChecks ==
  ASSUME NEW rq, NEW rn, \A r \in Req : Alike(rn[r], rq[r]), NEW rp, NEW C, NEW fx,
         Checks(rp, rn, C, fx)
  PROVE  Checks(rp, rq, C, fx)
  BY DEF Alike, Checks

LEMMA AlikeBatched ==
  ASSUME NEW rq, NEW rn, \A r \in Req : Alike(rn[r], rq[r]), NEW v, NEW q, NEW at, NEW a,
         Batched(v, rn, q, at, a)
  PROVE  Batched(v, rq, q, at, a)
  BY AlikeChecks DEF Batched

\* schedule_prefill.
LEMMA PrefillScheduled ==
  ASSUME NEW q, NEW at, Lined(q, at), NEW v \in Ve, NEW rq \in [Req -> Entry],
         NEW a \in SchedulePrefill(v, rq, q)
  PROVE  Batched(v, rq, q, at, a)
<1> DEFINE rn == NextChunks(rq, q.running[v], Budget).req
           p == [req |-> rn, q |-> q, checked |-> {}]
<1>1. q.running[v] \in Seq(Req) /\ Budget \in Int
  BY LookAheadAssumption DEF Lined, Good
<1>2. rn \in [Req -> Entry] /\ \A r \in Req : Alike(rn[r], rq[r])
  BY <1>1, NextEntries
<1>3. a \in FilledUp(v, p)
  BY DEF SchedulePrefill
<1> HIDE DEF rn
<1>4. Batched(v, rn, q, at, p)
  <2>1. PICK C \in SUBSET Req : C = {}
    OBVIOUS
  <2>2. p.req = rn /\ p.q = q /\ p.checked = C
    BY <2>1
  <2>3. Checks(rn, rn, C, Fused)
    BY <1>2, <2>1, CheckedNone
  <2>4. Took(v, C, at, at)
    BY <2>1, TookNone
  <2> HIDE DEF p
  <2> QED
    BY <2>2, <2>3, <2>4 DEF Batched
<1>5. Batched(v, rn, q, at, a)
  <2> HIDE DEF p
  <2> QED
    BY <1>3, <1>4, FilledUps
<1> QED
  BY <1>2, <1>5, AlikeBatched

\* schedule_packed_prefill.
LEMMA PackedScheduled ==
  ASSUME NEW q, NEW at, Lined(q, at), NEW v \in Ve, NEW rq \in [Req -> Entry],
         NEW a \in SchedulePackedPrefill(v, rq, q)
  PROVE  Batched(v, rq, q, at, a)
<1> DEFINE next == NextChunks(rq, q.running[v], Budget)
           mean == MeanInputLen(v, rq, q)
<1>1. q \in Queues /\ q.running[v] \in Seq(Req) /\ Budget \in Int
  BY LookAheadAssumption DEF Lined, Good
<1>2. /\ next.req \in [Req -> Entry] /\ next.free \in Int
      /\ \A r \in Req : Alike(next.req[r], rq[r])
  BY <1>1, NextEntries
<1>3. mean \in Int
  BY <1>1, MeanInt
<1>4. PICK fits \in BOOLEAN : a \in FilledUp(v, PackLong(v, next.req, next.free, mean, q, fits))
  BY DEF SchedulePackedPrefill
<1> HIDE DEF next, mean
<1>5. Batched(v, next.req, q, at, PackLong(v, next.req, next.free, mean, q, fits))
  BY <1>2, <1>3, LongPacked
<1>6. Batched(v, next.req, q, at, a)
  BY <1>4, <1>5, FilledUps
<1> QED
  BY <1>2, <1>6, AlikeBatched

-----------------------------------------------------------------------------
(* The next batch of v.                                                    *)

\* What is left to compute is a number.
LEMMA PendingInt ==
  ASSUME NEW rq \in [Req -> Entry], NEW q \in Queues, NEW v \in Ve
  PROVE  PendingTokens(v, rq, q) \in Int
<1>1. q.short[v] \in Seq(Req) /\ q.running[v] \in Seq(Req)
  BY DEF Queues
<1>2. PICK x, y : /\ x = [r \in Req |-> NumTokens(rq[r])]
                  /\ y = [r \in Req |-> Unfinished(rq[r])]
  OBVIOUS
<1>3. \A r \in Req : x[r] \in Int /\ y[r] \in Int
  BY <1>2, EntryTokens
<1>4. Total(x, q.short[v]) \in Int /\ Total(y, q.running[v]) \in Int
  BY <1>1, <1>3, TotalInt
<1>5. PendingTokens(v, rq, q) = Total(x, q.short[v]) + Total(y, q.running[v])
  BY <1>2 DEF PendingTokens
<1> QED
  BY <1>4, <1>5

\* The queues of the engine and of the schedulers.
Now == Lines(unaccepted, short, long, running)

\* A request that runs in v is in the pipeline, or at home in v.
AtHome(at, rq, ranks) ==
  \A r \in Req : \A w \in Ve : at[r] = InRunning(w) =>
    rq[r].fusion_exec \/ (phase = "restore" /\ ranks[r] = w)

\* What GetNextBatch does before it plans: finished requests leave, and preempted
\* ones wait again.
Cleared(rq, gone, done) ==
  [r \in Req |-> CASE r \in gone -> Recomputed(rq[r])
                   [] r \in done -> Done(r)
                   [] OTHER     -> rq[r]]

LEMMA ClearedEntries ==
  ASSUME NEW rq \in [Req -> Entry], NEW gone \in SUBSET Req, NEW done \in SUBSET Req,
         gone \cap done = {}
  PROVE  /\ Cleared(rq, gone, done) \in [Req -> Entry]
         /\ \A r \in Req : LET n == Cleared(rq, gone, done)[r]
                           IN  /\ r \in done => n.is_finished
                               /\ rq[r].is_finished => n.is_finished
                               /\ r \notin gone /\ r \notin done => n = rq[r]
<1> DEFINE c == Cleared(rq, gone, done)
<1>1. /\ c = [r \in Req |-> c[r]]
      /\ \A r \in Req : /\ r \in gone => c[r] = Recomputed(rq[r])
                        /\ r \in done => c[r] = Done(r)
                        /\ r \notin gone /\ r \notin done => c[r] = rq[r]
  BY DEF Cleared
<1> HIDE DEF c
<1>2. ASSUME NEW r \in Req
      PROVE  /\ c[r] \in Entry
             /\ r \in done => c[r].is_finished
             /\ rq[r].is_finished => c[r].is_finished
  <2>1. CASE r \in gone
    <3>1. Recomputed(rq[r]) \in Entry /\ Recomputed(rq[r]).is_finished = rq[r].is_finished
      BY RecomputedEntry
    <3> QED
      BY <1>1, <2>1, <3>1
  <2>2. CASE r \in done
    <3>1. 0 \in Nat
      OBVIOUS
    <3>2. Done(r) \in Entry /\ Done(r).is_finished = TRUE
      BY <3>1, NewEntry
    <3> QED
      BY <1>1, <2>2, <3>2
  <2>3. CASE r \notin gone /\ r \notin done
    BY <1>1, <2>3
  <2> QED
    BY <2>1, <2>2, <2>3
<1>3. c \in [Req -> Entry]
  BY <1>1, <1>2
<1> QED
  BY <1>1, <1>2, <1>3 DEF c

\* balance_prefill and the schedule.
LEMMA BatchPlanned ==
  ASSUME NEW q, NEW at, Lined(q, at), NEW v \in Ve, NEW rq \in [Req -> Entry],
         pending \in [Ve -> Int], NEW q2, q2 = IF Balanced THEN BalancePrefill(v, rq, q) ELSE q,
         NEW a \in IF Balanced /\ bench.packing THEN SchedulePackedPrefill(v, rq, q2)
                   ELSE SchedulePrefill(v, rq, q2)
  PROVE  \E mid, to : /\ Shift(v, at, mid) /\ Comes(v, {}, at, mid, Balanced)
                      /\ Took(v, a.checked, mid, to) /\ Lined(a.q, to)
                      /\ Checks(a.req, rq, a.checked, Fused)
<1>1. PICK mid : Lined(q2, mid) /\ Shift(v, at, mid) /\ Comes(v, {}, at, mid, Balanced)
  <2>1. CASE Balanced
    <3>1. q2 = BalancePrefill(v, rq, q)
      BY <2>1
    <3>2. PICK mid : /\ Lined(BalancePrefill(v, rq, q), mid)
                     /\ Shift(v, at, mid) /\ Comes(v, {}, at, mid, TRUE)
      BY PrefillBalanced
    <3>3. Comes(v, {}, at, mid, Balanced)
      BY <2>1, <3>2 DEF Comes
    <3> QED
      BY <3>1, <3>2, <3>3
  <2>2. CASE ~ Balanced
    <3>1. q2 = q
      BY <2>2
    <3>2. Shift(v, at, at) /\ Comes(v, {}, at, at, Balanced)
      BY DEF Shift, Comes
    <3> QED
      BY <3>1, <3>2
  <2> QED
    BY <2>1, <2>2
<1>2. Batched(v, rq, q2, mid, a)
  <2>1. a \in SchedulePackedPrefill(v, rq, q2) \/ a \in SchedulePrefill(v, rq, q2)
    OBVIOUS
  <2> QED
    BY <1>1, <2>1, PackedScheduled, PrefillScheduled
<1> QED
  BY <1>1, <1>2 DEF Batched

\* Who is not finished in the batch of v, and who is.
Live(v, rq)   == Those(running[v], {r \in Req : ~ rq[r].is_finished})
Leaves(v, rq) == ToSet(running[v]) \ ToSet(Live(v, rq))

\* The queues of v before it plans.
Queued(v, live, gone) ==
  [global |-> unaccepted, long |-> long,
   short |-> [short EXCEPT ![v] = Requeued(live, gone, @)],
   running |-> [running EXCEPT ![v] = Those(live, Req \ gone)]]

\* balance_prefill, if the group is in BALLOON, and what the schedule makes of it.
Replaced(v, rq, q) == IF Balanced THEN BalancePrefill(v, rq, q) ELSE q
Plans(v, rq, q)    == IF Balanced /\ bench.packing THEN SchedulePackedPrefill(v, rq, q)
                      ELSE SchedulePrefill(v, rq, q)

\* What is assigned when the plan is a.
Assigned(v, a, gone, done, ranks) ==
    /\ ~ a.failed
    /\ num_preemption' = num_preemption + Cardinality(gone)
    /\ num_preemption' <= MaxPreempt
    /\ req' = a.req
    /\ kv' = [r \in Req |-> IF r \in a.checked THEN v
                           ELSE IF r \in gone \cup done THEN 0
                           ELSE ranks[r]]
    /\ unaccepted' = a.q.global
    /\ short' = a.q.short /\ long' = a.q.long /\ running' = a.q.running
    /\ pending' = [pending EXCEPT ![v] = PendingTokens(v, a.req, a.q)]

LEMMA BatchParts ==
  ASSUME NEW v, NEW rq, NEW ranks, GetNextBatch(v, rq, ranks)
  PROVE  \E gone \in Victims(rq, Live(v, rq)) :
           LET rq1 == Cleared(rq, gone, Leaves(v, rq))
           IN  \E a \in Plans(v, rq1, Replaced(v, rq1, Queued(v, Live(v, rq), gone))) :
                 Assigned(v, a, gone, Leaves(v, rq), ranks)
<1>1. \E gone \in Victims(rq, Live(v, rq)) :
      \E rq1 \in {Cleared(rq, gone, Leaves(v, rq))} :
      \E q1 \in {Queued(v, Live(v, rq), gone)} :
      \E q2 \in {Replaced(v, rq1, q1)} :
      \E a \in Plans(v, rq1, q2) : Assigned(v, a, gone, Leaves(v, rq), ranks)
  BY Zenon DEF Live, Leaves, GetNextBatch, Cleared, Queued, Replaced, Plans, Assigned
<1>2. PICK gone \in Victims(rq, Live(v, rq)) :
      \E rq1 \in {Cleared(rq, gone, Leaves(v, rq))} :
      \E q1 \in {Queued(v, Live(v, rq), gone)} :
      \E q2 \in {Replaced(v, rq1, q1)} :
      \E a \in Plans(v, rq1, q2) : Assigned(v, a, gone, Leaves(v, rq), ranks)
  BY <1>1
<1>3. \E a \in Plans(v, Cleared(rq, gone, Leaves(v, rq)),
                     Replaced(v, Cleared(rq, gone, Leaves(v, rq)), Queued(v, Live(v, rq), gone))) :
        Assigned(v, a, gone, Leaves(v, rq), ranks)
  BY <1>2
<1> QED
  BY <1>3

\* The queues before v plans.
LEMMA QueuedPut ==
  ASSUME NEW at, Lined(Now, at), NEW v \in Ve, NEW live, NEW gone
  PROVE  Queued(v, live, gone)
           = Put(Now, v, Now.global, Requeued(live, gone, Now.short[v]), Now.long[v],
                 Those(live, Req \ gone))
<1>1. /\ Now.global = unaccepted /\ Now.short = short /\ Now.long = long /\ Now.running = running
      /\ short \in [Ve -> Seq(Req)] /\ long \in [Ve -> Seq(Req)]
  <2>1. Lines(unaccepted, short, long, running) \in Queues
    BY DEF Lined, Now
  <2> QED
    BY <2>1, LinesParts DEF Now
<1>2. \A f \in [Ve -> Seq(Req)] : [f EXCEPT ![v] = f[v]] = f
  OBVIOUS
<1>3. [long EXCEPT ![v] = long[v]] = long
  BY <1>1, <1>2
<1>4. [short EXCEPT ![v] = Requeued(live, gone, @)] = [short EXCEPT ![v] = Requeued(live, gone, short[v])]
  BY <1>1
<1> QED
  BY <1>1, <1>3, <1>4, Zenon DEF Queued, Put

\* Where requests are after the finished and the preempted ones have left.
Left(at, done, gone, v) == Moved(Moved(at, done, Nowhere), gone, InShort(v))

Parted(at, on, done, gone) ==
  \A r \in Req : /\ on[r] = Nowhere <=> at[r] = Nowhere \/ r \in done
                 /\ \A w \in Ve : on[r] = InRunning(w) <=>
                                    at[r] = InRunning(w) /\ r \notin done \cup gone

LEMMA LeftWhere ==
  ASSUME NEW at, NEW v \in Ve, NEW done \in SUBSET Req, NEW gone \in SUBSET Req,
         gone \cap done = {}, \A r \in done \cup gone : at[r] = InRunning(v)
  PROVE  Parted(at, Left(at, done, gone, v), done, gone)
<1>1. \A r \in Req : Left(at, done, gone, v)[r] = IF r \in gone THEN InShort(v)
                                                  ELSE IF r \in done THEN Nowhere
                                                  ELSE at[r]
  BY DEF Left, Moved
<1>2. ASSUME NEW r \in Req, NEW w \in Ve
      PROVE  /\ Left(at, done, gone, v)[r] = Nowhere <=> at[r] = Nowhere \/ r \in done
             /\ Left(at, done, gone, v)[r] = InRunning(w) <=>
                  at[r] = InRunning(w) /\ r \notin done \cup gone
  BY <1>1, NamesApart
<1> QED
  BY <1>2, v \in Ve DEF Parted

\* The queues from which v plans, and what it then does.
Cleans(v, at, rq, ranks, gone, done, live, a) ==
  /\ done \in SUBSET Req /\ gone \in SUBSET Req /\ gone \cap done = {}
  /\ \A r \in done \cup gone : at[r] = InRunning(v)
  /\ \A r \in gone : ~ Context(rq[r])
  /\ Lined(Queued(v, live, gone), Left(at, done, gone, v))
  /\ a \in Plans(v, Cleared(rq, gone, done),
                 Replaced(v, Cleared(rq, gone, done), Queued(v, live, gone)))
  /\ Assigned(v, a, gone, done, ranks)

LEMMA BatchCleaned ==
  ASSUME NEW at, Lined(Now, at), NEW v \in Ve, NEW rq \in [Req -> Entry], NEW ranks,
         GetNextBatch(v, rq, ranks)
  PROVE  \E gone : \E a : Cleans(v, at, rq, ranks, gone, Leaves(v, rq), Live(v, rq), a)
<1> DEFINE live == Live(v, rq)
           done == Leaves(v, rq)
<1>1. PICK gone : /\ gone \in Victims(rq, live)
                  /\ \E a \in Plans(v, Cleared(rq, gone, done),
                                    Replaced(v, Cleared(rq, gone, done), Queued(v, live, gone))) :
                       Assigned(v, a, gone, done, ranks)
  BY BatchParts
<1>2. Now.running = running /\ Now \in Queues
  BY LinesParts DEF Now, Lined
<1>3. gone \in SUBSET ToSet(live) /\ \A r \in gone : ~ Context(rq[r])
  BY <1>1 DEF Victims
<1>4. /\ done \in SUBSET Req /\ gone \in SUBSET Req
      /\ Lined(Put(Now, v, Now.global, Requeued(live, gone, Now.short[v]), Now.long[v],
                   Those(live, Req \ gone)),
               Left(at, done, gone, v))
  <2>1. live = Those(Now.running[v], {r \in Req : ~ rq[r].is_finished})
    BY <1>2 DEF Live
  <2>2. done = ToSet(Now.running[v]) \ ToSet(live)
    BY <1>2 DEF Leaves
  <2>3. PICK fin : fin = {r \in Req : ~ rq[r].is_finished}
    OBVIOUS
  <2>4. live = Those(Now.running[v], fin)
    BY <2>1, <2>3
  <2> HIDE DEF live, done
  <2>5. Leaving(Now, at, v, live, gone, done)
    BY <1>3, <2>2, <2>4, Preempted
  <2> QED
    BY <2>5, Zenon DEF Left, Leaving
<1>5. /\ gone \cap done = {}
      /\ \A r \in done \cup gone : at[r] = InRunning(v)
  <2>1. Good(running[v], at, InRunning(v))
    BY <1>2 DEF Lined
  <2>2. ToSet(live) \subseteq ToSet(running[v])
    BY <2>1, ThoseKept DEF Live, Good
  <2>3. gone \subseteq ToSet(running[v]) /\ done \subseteq ToSet(running[v])
    BY <1>3, <2>2 DEF Leaves
  <2>4. gone \cap done = {}
    BY <1>3 DEF Leaves
  <2> HIDE DEF live, done
  <2> QED
    BY <1>4, <2>1, <2>3, <2>4 DEF Good
<1>6. Lined(Queued(v, live, gone), Left(at, done, gone, v))
  BY <1>4, QueuedPut
<1>7. PICK a : /\ a \in Plans(v, Cleared(rq, gone, done),
                              Replaced(v, Cleared(rq, gone, done), Queued(v, live, gone)))
               /\ Assigned(v, a, gone, done, ranks)
  BY <1>1
<1> HIDE DEF live, done
<1>8. Cleans(v, at, rq, ranks, gone, done, live, a)
  BY <1>3, <1>4, <1>5, <1>6, <1>7 DEF Cleans
<1> QED
  BY <1>8 DEF live, done


\* What a next batch does to the requests and the queues.
LEMMA NextBatch ==
  ASSUME NEW at, Lined(Now, at), NEW v \in Ve, NEW rq \in [Req -> Entry], NEW ranks,
         phase \in {"balloon", "restore"}, pending \in [Ve -> Int], AtHome(at, rq, ranks),
         GetNextBatch(v, rq, ranks)
  PROVE  /\ req' \in [Req -> Entry] /\ pending' \in [Ve -> Int]
         /\ \E to :
              /\ Lined(Lines(unaccepted', short', long', running'), to) /\ AtHome(to, req', kv')
              /\ \A r \in Req : /\ to[r] = Nowhere => at[r] = Nowhere \/ req'[r].is_finished
                                /\ at[r] = Nowhere => to[r] = Nowhere
                                /\ rq[r].is_finished => req'[r].is_finished
                                /\ \A w \in Ve : w # v /\ at[r] = InRunning(w)
                                                   => to[r] = InRunning(w)
<1> DEFINE live == Live(v, rq)
           done == Leaves(v, rq)
<1>1. PICK gone, a : Cleans(v, at, rq, ranks, gone, done, live, a)
  BY BatchCleaned
<1> HIDE DEF live, done
<1> DEFINE rq1 == Cleared(rq, gone, done)
           q1 == Queued(v, live, gone)
           on == Left(at, done, gone, v)
<1>4. /\ done \in SUBSET Req /\ gone \in SUBSET Req /\ gone \cap done = {}
      /\ \A r \in done \cup gone : at[r] = InRunning(v)
      /\ Lined(q1, on) /\ a \in Plans(v, rq1, Replaced(v, rq1, q1))
      /\ Assigned(v, a, gone, done, ranks)
  BY <1>1 DEF Cleans
<1>8. /\ rq1 \in [Req -> Entry]
      /\ \A r \in Req : /\ r \in done => rq1[r].is_finished
                        /\ rq[r].is_finished => rq1[r].is_finished
                        /\ r \notin gone /\ r \notin done => rq1[r] = rq[r]
  <2>1. /\ rq1 \in [Req -> Entry]
        /\ \A r \in Req : LET n == rq1[r]
                          IN  /\ r \in done => n.is_finished
                              /\ rq[r].is_finished => n.is_finished
                              /\ r \notin gone /\ r \notin done => n = rq[r]
    BY <1>4, ClearedEntries
  <2> HIDE DEF rq1
  <2> QED
    BY <2>1
<1>9. \A r \in Req : /\ on[r] = Nowhere <=> at[r] = Nowhere \/ r \in done
                     /\ \A w \in Ve : on[r] = InRunning(w) <=>
                                        at[r] = InRunning(w) /\ r \notin done \cup gone
  <2>1. Parted(at, on, done, gone)
    BY <1>4, LeftWhere
  <2> HIDE DEF on
  <2> QED
    BY <2>1 DEF Parted
<1> HIDE DEF rq1, q1, on
<1>10. PICK mid, to : /\ Shift(v, on, mid) /\ Comes(v, {}, on, mid, Balanced)
                      /\ Took(v, a.checked, mid, to) /\ Lined(a.q, to)
                      /\ Checks(a.req, rq1, a.checked, Fused)
  BY <1>4, <1>8, BatchPlanned DEF Plans, Replaced
<1>11. /\ req' = a.req
       /\ \A r \in Req : kv'[r] = IF r \in a.checked THEN v
                                  ELSE IF r \in gone \cup done THEN 0
                                  ELSE ranks[r]
       /\ unaccepted' = a.q.global /\ short' = a.q.short /\ long' = a.q.long
       /\ running' = a.q.running
       /\ pending' = [pending EXCEPT ![v] = PendingTokens(v, a.req, a.q)]
  <2>1. kv' = [r \in Req |-> IF r \in a.checked THEN v
                           ELSE IF r \in gone \cup done THEN 0
                           ELSE ranks[r]]
    BY <1>4 DEF Assigned
  <2>2. \A r \in Req : kv'[r] = IF r \in a.checked THEN v
                                ELSE IF r \in gone \cup done THEN 0
                                ELSE ranks[r]
    BY <2>1
  <2> QED
    BY <1>4, <2>2, Zenon DEF Assigned
<1>12. a.q \in Queues /\ a.q = Lines(unaccepted', short', long', running')
  BY <1>10, <1>11 DEF Lined, Queues, Lines
<1>13. req' \in [Req -> Entry]
  BY <1>10, <1>11 DEF Checks
<1>14. pending' \in [Ve -> Int]
  <2>1. PendingTokens(v, a.req, a.q) \in Int
    BY <1>11, <1>12, <1>13, PendingInt
  <2> QED
    BY <1>11, <2>1
<1>15. Lined(Lines(unaccepted', short', long', running'), to)
  BY <1>10, <1>12, Zenon
<1>16. \A r \in Req : /\ req'[r].is_finished = rq1[r].is_finished
                      /\ req'[r].fusion_exec = IF r \in a.checked THEN Fused
                                               ELSE rq1[r].fusion_exec
  BY <1>10, <1>11 DEF Checks
<1>17. ASSUME NEW r \in Req
       PROVE  /\ to[r] = Nowhere => at[r] = Nowhere \/ req'[r].is_finished
              /\ at[r] = Nowhere => to[r] = Nowhere
              /\ rq[r].is_finished => req'[r].is_finished
              /\ \A w \in Ve : w # v /\ at[r] = InRunning(w) => to[r] = InRunning(w)
  <2>1. to[r] = Nowhere <=> on[r] = Nowhere
    BY <1>10 DEF Took, Shift
  <2>2. ASSUME NEW w \in Ve, w # v, at[r] = InRunning(w) PROVE to[r] = InRunning(w)
    <3>1. r \notin done \cup gone
      BY <1>4, <2>2, NamesApart
    <3>2. on[r] = InRunning(w)
      BY <1>9, <2>2, <3>1
    <3>3. mid[r] = InRunning(w)
      BY <1>10, <2>2, <3>2 DEF Shift
    <3> QED
      BY <1>10, <3>3 DEF Took
  <2> QED
    BY <1>8, <1>9, <1>16, <2>1, <2>2
<1>18. AtHome(to, req', kv')
  <2> SUFFICES ASSUME NEW r \in Req, NEW w \in Ve, to[r] = InRunning(w)
               PROVE  req'[r].fusion_exec \/ (phase = "restore" /\ kv'[r] = w)
    BY DEF AtHome
  <2>1. CASE mid[r] = InRunning(w)
    <3>1. r \notin a.checked
      BY <1>10, <2>1 DEF Took
    <3>2. \/ on[r] = InRunning(w)
          \/ Balanced /\ \E u \in Ve : on[r] = InRunning(u)
      BY <1>10, <2>1 DEF Comes
    <3>3. PICK u \in Ve : on[r] = InRunning(u) /\ (u = w \/ Balanced)
      BY <3>2
    <3>4. at[r] = InRunning(u) /\ r \notin done /\ r \notin gone
      BY <1>9, <3>3
    <3>5. rq[r].fusion_exec \/ (phase = "restore" /\ ranks[r] = u)
      BY <3>4 DEF AtHome
    <3>6. req'[r].fusion_exec = rq[r].fusion_exec /\ kv'[r] = ranks[r]
      BY <1>8, <1>11, <1>16, <3>1, <3>4
    <3> QED
      BY <3>3, <3>5, <3>6 DEF Balanced
  <2>2. CASE mid[r] # InRunning(w)
    <3>1. w = v /\ r \in a.checked
      BY <1>10, <2>2 DEF Took
    <3>2. kv'[r] = w /\ req'[r].fusion_exec = Fused
      BY <1>11, <1>16, <3>1
    <3> QED
      BY <3>2 DEF Fused
  <2> QED
    BY <2>1, <2>2
<1> QED
  BY <1>13, <1>14, <1>15, <1>17, <1>18

-----------------------------------------------------------------------------
(* The inductive invariant.                                                *)

\* `at` says where every request is: in a queue if it has arrived and is not
\* finished, and in the batch of the virtual engine that has it on the workers.
Where(at) ==
  /\ Lined(Now, at)
  /\ AtHome(at, req, kv)
  /\ \A r \in Req : /\ at[r] # Nowhere => r <= arrived
                    /\ at[r] = Nowhere => r > arrived \/ req[r].is_finished
  /\ \A v \in Ve : \A r \in InFlight(v) : at[r] = InRunning(v)

IInv ==
  /\ phase \in {"balloon", "restore"}
  /\ stopped \in BOOLEAN /\ (stopped => phase = "balloon")
  /\ arrived \in 0 .. N
  /\ req \in [Req -> Entry]
  /\ pending \in [Ve -> Int]
  /\ step \in [Ve -> [busy : BOOLEAN, batch : Seq(Req)]]
  /\ \E at : Where(at)

LEMMA GoodEmpty ==
  ASSUME NEW n, NEW at, \A r \in Req : at[r] # n
  PROVE  Good(<<>>, at, n)
<1>1. PICK e : e = <<>>
  OBVIOUS
<1>2. e \in Seq(Req) /\ Len(e) = 0
  BY <1>1, EmptySeq
<1>3. DOMAIN e = {}
  BY <1>2, LenProperties
<1>4. Good(e, at, n)
  BY <1>2, <1>3 DEF Good, OneEach, ToSet
<1> QED
  BY <1>1, <1>4

LEMMA InitIInv == Init => IInv
<1> SUFFICES ASSUME Init PROVE IInv
  OBVIOUS
<1>1. PICK e \in Seq(Req) : e = <<>>
  BY EmptySeq
<1> DEFINE at == [r \in Req |-> Nowhere]
           q == [v \in Ve |-> e]
<1>2. N \in Nat
  BY LookAheadAssumption
<1>3. /\ phase = "balloon" /\ stopped = FALSE /\ arrived = 0 /\ pending = [v \in Ve |-> 0]
      /\ unaccepted = e /\ short = q /\ long = q /\ running = q
      /\ step = [v \in Ve |-> NoStep] /\ req = [r \in Req |-> NewRequest(0, r)]
  BY <1>1 DEF Init
<1>4. req \in [Req -> Entry]
  <2>1. \A r \in Req : NewRequest(0, r) \in Entry
    <3>1. 0 \in Nat
      OBVIOUS
    <3> QED
      BY <3>1, NewEntry
  <2> QED
    BY <1>3, <2>1
<1>5. step \in [Ve -> [busy : BOOLEAN, batch : Seq(Req)]] /\ \A v \in Ve : InFlight(v) = {}
  <2>1. NoStep = [busy |-> FALSE, batch |-> e]
    BY <1>1 DEF NoStep
  <2>2. ToSet(e) = {}
    BY <1>1, ToSetEmpty
  <2>3. \A v \in Ve : step[v] = [busy |-> FALSE, batch |-> e]
    BY <1>3, <2>1
  <2> QED
    BY <1>3, <2>1, <2>2, <2>3 DEF InFlight
<1>6. Lined(Now, at)
  <2>1. Now = Lines(e, q, q, q)
    BY <1>3 DEF Now
  <2>2. Lines(e, q, q, q) \in Queues
    <3>1. q \in [Ve -> Seq(Req)]
      OBVIOUS
    <3> HIDE DEF q
    <3> QED
      BY <3>1, LinesParts
  <2>3. /\ Now.global = e
        /\ \A w \in Ve : Now.short[w] = e /\ Now.long[w] = e /\ Now.running[w] = e
    <3>1. Now.global = e /\ Now.short = q /\ Now.long = q /\ Now.running = q
      BY <2>1, LinesParts
    <3> QED
      BY <3>1
  <2>4. at \in [Req -> Spots]
    BY SpotNames
  <2>5. \A r \in Req : at[r] = Nowhere
    OBVIOUS
  <2> HIDE DEF at
  <2>6. /\ Good(e, at, InGlobal)
        /\ \A w \in Ve : /\ Good(e, at, InShort(w)) /\ Good(e, at, InLong(w))
                         /\ Good(e, at, InRunning(w))
    <3>1. ASSUME NEW n, n # Nowhere PROVE Good(e, at, n)
      BY <1>1, <2>5, <3>1, GoodEmpty
    <3>2. V - 1 \in Ve
      BY LookAheadAssumption DEF Ve
    <3> QED
      BY <3>1, <3>2, NamesApart
  <2> QED
    BY <2>1, <2>2, <2>3, <2>4, <2>6, Zenon DEF Lined
<1>7. AtHome(at, req, kv)
  BY NamesApart DEF AtHome
<1>8. Where(at)
  BY <1>2, <1>3, <1>5, <1>6, <1>7 DEF Where, Req
<1>9. pending \in [Ve -> Int]
  BY <1>3
<1>10. phase \in {"balloon", "restore"} /\ stopped \in BOOLEAN /\ (stopped => phase = "balloon")
  BY <1>3
<1>11. arrived \in 0 .. N
  BY <1>2, <1>3
<1>12. \E home : Where(home)
  BY <1>8
<1> QED
  BY <1>4, <1>5, <1>9, <1>10, <1>11, <1>12, Zenon DEF IInv

LEMMA ArriveIInv == IInv /\ Arrive => IInv'
<1> SUFFICES ASSUME IInv, Arrive PROVE IInv'
  OBVIOUS
<1>1. PICK at : Where(at)
  BY DEF IInv
<1> DEFINE x == arrived + 1
<1>2. N \in Nat /\ arrived \in 0 .. N
  BY LookAheadAssumption DEF IInv
<1>3. /\ x \in Req /\ arrived' = x /\ x \in 0 .. N /\ unaccepted' = Append(unaccepted, x)
      /\ short' = short /\ long' = long /\ running' = running /\ step' = step /\ kv' = kv
      /\ phase' = phase /\ stopped' = stopped /\ pending' = pending
  BY <1>2 DEF Arrive, Req
<1>4. PICK n \in Nat : req' = [req EXCEPT ![x] = NewRequest(n, x)]
  <2>1. Lengths \subseteq Nat
    BY LookAheadAssumption
  <2> QED
    BY <2>1 DEF Arrive
<1>5. req \in [Req -> Entry]
  BY DEF IInv
<1>6. NewRequest(n, x) \in Entry
  BY <1>3, NewEntry
<1>7. req' \in [Req -> Entry] /\ \A r \in Req : r # x => req'[r] = req[r]
  BY <1>3, <1>4, <1>5, <1>6
<1> HIDE DEF x
<1>8. at[x] = Nowhere
  <2>1. x > arrived
    BY <1>2 DEF x
  <2>2. at[x] # Nowhere => x <= arrived
    BY <1>1, <1>3 DEF Where
  <2>3. x \in Int /\ arrived \in Int
    BY <1>2, <1>3
  <2> QED
    BY <2>1, <2>2, <2>3
<1>9. PICK S \in SUBSET Req : S = {x}
  BY <1>3
<1> DEFINE to == Moved(at, S, InGlobal)
<1>10. Lined(Now, at)
  BY <1>1 DEF Where
<1>11. /\ Now = Lines(unaccepted, short, long, running) /\ Now' = Lines(Append(unaccepted, x), short, long, running)
  BY <1>3 DEF Now
<1>12. /\ unaccepted \in Seq(Req) /\ short \in [Ve -> Seq(Req)] /\ long \in [Ve -> Seq(Req)]
       /\ running \in [Ve -> Seq(Req)] /\ Now \in Queues
       /\ Now.global = unaccepted /\ Now.short = short /\ Now.long = long /\ Now.running = running
  <2>1. Lines(unaccepted, short, long, running) \in Queues
    BY <1>10, <1>11 DEF Lined
  <2> QED
    BY <1>11, <2>1, LinesParts
<1>13. Lined(Now', to)
  <2>1. Append(unaccepted, x) \in Seq(Req)
    BY <1>3, <1>12, AppendProperties
  <2>2. /\ Now' \in Queues /\ Now'.global = Append(unaccepted, x) /\ Now'.short = short
        /\ Now'.long = long /\ Now'.running = running
    <3>1. Lines(Append(unaccepted, x), short, long, running) \in Queues
      BY <1>12, <2>1, LinesParts, Zenon
    <3>2. /\ Lines(Append(unaccepted, x), short, long, running).global = Append(unaccepted, x)
          /\ Lines(Append(unaccepted, x), short, long, running).short = short
          /\ Lines(Append(unaccepted, x), short, long, running).long = long
          /\ Lines(Append(unaccepted, x), short, long, running).running = running
      BY DEF Lines
    <3> QED
      BY <1>11, <3>1, <3>2, Zenon
  <2>3. \A w \in Ve : \A r \in S : at[r] # InShort(w) /\ at[r] # InLong(w) /\ at[r] # InRunning(w)
    BY <1>8, <1>9, NamesApart
  <2>4. \A w \in Ve : InShort(w) # InGlobal /\ InLong(w) # InGlobal /\ InRunning(w) # InGlobal
    BY NamesApart
  <2>5. /\ Good(unaccepted, at, InGlobal)
        /\ \A w \in Ve : /\ Good(short[w], at, InShort(w)) /\ Good(long[w], at, InLong(w))
                         /\ Good(running[w], at, InRunning(w))
    BY <1>10, <1>12, Zenon DEF Lined
  <2>6. \A w \in Ve : /\ Became(short[w], short[w], InShort(w), S, InGlobal)
                      /\ Became(long[w], long[w], InLong(w), S, InGlobal)
                      /\ Became(running[w], running[w], InRunning(w), S, InGlobal)
    BY <2>3, <2>4, <2>5, Unaffected
  <2>7. Became(Append(unaccepted, x), unaccepted, InGlobal, S, InGlobal)
    <3>1. OneEach(unaccepted) /\ x \notin ToSet(unaccepted)
      <4>1. V - 1 \in Ve
        BY LookAheadAssumption DEF Ve
      <4>2. Nowhere # InGlobal
        BY <4>1, NamesApart
      <4> QED
        BY <1>3, <1>8, <2>5, <4>2 DEF Good
    <3>2. OneEach(Append(unaccepted, x)) /\ ToSet(Append(unaccepted, x)) = ToSet(unaccepted) \cup {x}
      BY <1>3, <1>12, <3>1, OneEachAppend, ToSetAppend
    <3> QED
      BY <1>9, <2>1, <3>2 DEF Became
  <2>8. AllBecame(Now', Now, S, InGlobal)
    BY <1>12, <2>2, <2>6, <2>7, Zenon DEF AllBecame
  <2> QED
    BY <1>10, <2>8, Relined, SpotNames
<1>14. \A r \in Req : to[r] = IF r = x THEN InGlobal ELSE at[r]
  BY <1>9 DEF Moved
<1> HIDE DEF to
<1>15. AtHome(to, req, kv)'
  <2>1. AtHome(at, req, kv)
    BY <1>1 DEF Where
  <2> QED
    BY <1>3, <1>7, <1>14, <2>1, NamesApart DEF AtHome
<1>16. \A r \in Req : /\ to[r] # Nowhere => r <= arrived'
                      /\ to[r] = Nowhere => r > arrived' \/ req'[r].is_finished
  <2> SUFFICES ASSUME NEW r \in Req
               PROVE  /\ to[r] # Nowhere => r <= arrived'
                      /\ to[r] = Nowhere => r > arrived' \/ req'[r].is_finished
    OBVIOUS
  <2>1. CASE r = x
    <3>1. V - 1 \in Ve
      BY LookAheadAssumption DEF Ve
    <3>2. to[r] # Nowhere
      BY <1>14, <2>1, <3>1, NamesApart
    <3> QED
      BY <1>2, <1>3, <2>1, <3>2 DEF Req
  <2>2. CASE r # x
    <3>1. to[r] = at[r] /\ req'[r] = req[r]
      BY <1>7, <1>14, <2>2
    <3>2. /\ at[r] # Nowhere => r <= arrived
          /\ at[r] = Nowhere => r > arrived \/ req[r].is_finished
      BY <1>1 DEF Where
    <3>3. r \in Int /\ r # arrived + 1 /\ arrived' = arrived + 1
      BY <1>3, <2>2 DEF Req, x
    <3> QED
      BY <1>2, <3>1, <3>2, <3>3
  <2> QED
    BY <2>1, <2>2
<1>17. \A v \in Ve : \A r \in InFlight(v)' : to[r] = InRunning(v)
  <2> SUFFICES ASSUME NEW v \in Ve, NEW r \in InFlight(v)' PROVE to[r] = InRunning(v)
    OBVIOUS
  <2>1. r \in InFlight(v)
    BY <1>3 DEF InFlight
  <2>2. at[r] = InRunning(v)
    BY <1>1, <2>1 DEF Where
  <2>3. r \in Req
    <3>1. step[v].batch \in Seq(Req)
      BY DEF IInv
    <3> QED
      BY <2>1, <3>1, ToSetRange DEF InFlight
  <2>4. r # x
    BY <1>8, <2>2, NamesApart
  <2> QED
    BY <1>14, <2>2, <2>3, <2>4
<1>18. Where(to)'
  BY <1>13, <1>15, <1>16, <1>17 DEF Where
<1> QED
  BY <1>3, <1>7, <1>18 DEF IInv

\* A step that leaves requests and queues as they are.
LEMMA QuietIInv ==
  ASSUME IInv,
         UNCHANGED <<req, kv, arrived, unaccepted, short, long, running, pending>>,
         phase' \in {"balloon", "restore"}, phase' = phase \/ phase = "balloon",
         stopped' \in BOOLEAN, stopped' => phase' = "balloon",
         step' \in [Ve -> [busy : BOOLEAN, batch : Seq(Req)]],
         \A v \in Ve : InFlight(v)' \subseteq InFlight(v) \cup ToSet(running[v])
  PROVE  IInv'
<1>1. PICK at : Where(at)
  BY DEF IInv
<1>2. /\ Now' = Now /\ req' = req /\ kv' = kv /\ arrived' = arrived /\ pending' = pending
  BY DEF Now
<1>3. Lined(Now, at)'
  BY <1>1, <1>2 DEF Where
<1>4. AtHome(at, req, kv)'
  BY <1>1, <1>2 DEF Where, AtHome
<1>5. \A r \in Req : /\ at[r] # Nowhere => r <= arrived'
                     /\ at[r] = Nowhere => r > arrived' \/ req'[r].is_finished
  BY <1>1, <1>2 DEF Where
<1>6. ASSUME NEW v \in Ve, NEW r \in InFlight(v)' PROVE at[r] = InRunning(v)
  <2>1. CASE r \in InFlight(v)
    BY <1>1, <2>1 DEF Where
  <2>2. CASE r \in ToSet(running[v])
    <3>1. Good(running[v], at, InRunning(v))
      <4>1. Now.running = running
        BY LinesParts DEF Now
      <4>2. Good(Now.running[v], at, InRunning(v))
        BY <1>1 DEF Where, Lined
      <4> QED
        BY <4>1, <4>2
    <3>2. r \in Req
      BY <2>2, <3>1, ToSetRange DEF Good
    <3> QED
      BY <2>2, <3>1, <3>2 DEF Good
  <2> QED
    BY <1>6, <2>1, <2>2
<1>7. Where(at)'
  BY <1>3, <1>4, <1>5, <1>6 DEF Where
<1>8. \E to : Where(to)'
  BY <1>7
<1>9. /\ req' \in [Req -> Entry] /\ pending' \in [Ve -> Int] /\ arrived' \in 0 .. N
  BY <1>2 DEF IInv
<1> QED
  BY <1>8, <1>9, Zenon DEF IInv

LEMMA StartStepIInv ==
  ASSUME IInv, NEW v \in Ve, StartStep(v)
  PROVE  IInv'
<1>1. PICK at : Where(at)
  BY DEF IInv
<1>2. running[v] \in Seq(Req)
  <2>1. Now.running = running
    BY LinesParts DEF Now
  <2>2. Good(Now.running[v], at, InRunning(v))
    BY <1>1 DEF Where, Lined
  <2> QED
    BY <2>1, <2>2 DEF Good
<1> DEFINE b == Scheduled(v)
<1>3. b \in Seq(Req) /\ ToSet(b) \subseteq ToSet(running[v])
  <2>1. ToRun(req, running[v]) \in Seq(Req) /\ ToSet(ToRun(req, running[v])) \subseteq ToSet(running[v])
    <3>1. CASE ToRun(req, running[v]) = running[v]
      BY <1>2, <3>1
    <3>2. CASE ToRun(req, running[v]) = Prefills(req, running[v])
      <4>1. PICK S : Prefills(req, running[v]) = Those(running[v], S)
        BY Zenon DEF Prefills
      <4> QED
        BY <1>2, <3>2, <4>1, ThoseKept
    <3> QED
      BY <3>1, <3>2 DEF ToRun
  <2>2. PICK S : b = Those(ToRun(req, running[v]), S)
    BY Zenon DEF Scheduled
  <2> QED
    BY <2>1, <2>2, ThoseKept
<1> HIDE DEF b
<1>4. step \in [Ve -> [busy : BOOLEAN, batch : Seq(Req)]]
  BY DEF IInv
<1>5. /\ step' = [step EXCEPT ![v] = [busy |-> TRUE, batch |-> b]]
      /\ UNCHANGED <<phase, stopped, req, kv, arrived, unaccepted, short, long, running, pending>>
  BY DEF StartStep, b
<1>6. step' \in [Ve -> [busy : BOOLEAN, batch : Seq(Req)]]
  BY <1>3, <1>4, <1>5
<1>7. ASSUME NEW w \in Ve PROVE InFlight(w)' \subseteq InFlight(w) \cup ToSet(running[w])
  <2>1. CASE w = v
    <3>1. step'[w].batch = b
      BY <1>4, <1>5, <2>1
    <3> QED
      BY <1>3, <2>1, <3>1 DEF InFlight
  <2>2. CASE w # v
    <3>1. step'[w] = step[w]
      BY <1>4, <1>5, <2>2
    <3> QED
      BY <3>1 DEF InFlight
  <2> QED
    BY <2>1, <2>2
<1>8. /\ phase' \in {"balloon", "restore"} /\ (phase' = phase \/ phase = "balloon")
      /\ stopped' \in BOOLEAN /\ (stopped' => phase' = "balloon")
  BY <1>5 DEF IInv
<1> QED
  BY <1>5, <1>6, <1>7, <1>8, QuietIInv

\* What a step has computed, when the requests of `home` go back to their instance.
Ended(v, home) ==
  [r \in Req |-> IF r \in InFlight(v)
                 THEN [Computed(req[r], MaxTokens(req[r]))
                         EXCEPT !.fusion_exec = @ /\ r \notin home]
                 ELSE req[r]]
Homed(v, home) == [r \in Req |-> IF r \in home THEN v ELSE kv[r]]

GoesOn(v, rq, ranks) ==
  IF stopped
  THEN /\ req' = rq /\ kv' = ranks
       /\ UNCHANGED <<unaccepted, short, long, running, pending, num_preemption>>
  ELSE GetNextBatch(v, rq, ranks)

LEMMA EndParts ==
  ASSUME NEW v, step[v].batch \in Seq(Req), EndStep(v)
  PROVE  \E home : /\ home \subseteq InFlight(v) /\ (phase # "restore" => home = {})
                   /\ GoesOn(v, Ended(v, home), Homed(v, home))
<1> DEFINE pipe == Those(step[v].batch, {r \in Req : req[r].fusion_exec})
           far  == IF phase = "restore" THEN Len(pipe) ELSE 0
<1>1. \E k \in 0 .. far : \E home \in {ToSet(SubSeq(pipe, 1, k))} :
      \E rq \in {Ended(v, home)} : GoesOn(v, rq, Homed(v, home))
  BY Zenon DEF EndStep, Ended, Homed, GoesOn, InFlight
<1>2. pipe \in Seq(Req) /\ ToSet(pipe) \subseteq InFlight(v)
  BY ThoseKept DEF InFlight
<1> HIDE DEF pipe
<1>3. PICK k \in 0 .. far : \E home \in {ToSet(SubSeq(pipe, 1, k))} :
      \E rq \in {Ended(v, home)} : GoesOn(v, rq, Homed(v, home))
  BY <1>1
<1> DEFINE home == ToSet(SubSeq(pipe, 1, k))
<1>4. GoesOn(v, Ended(v, home), Homed(v, home))
  BY <1>3
<1>5. k \in 0 .. Len(pipe) /\ (phase # "restore" => k = 0)
  BY <1>2, <1>3, LenProperties
<1>6. home \subseteq ToSet(pipe) /\ (k = 0 => home = {})
  <2>1. Len(SubSeq(pipe, 1, k)) = k /\ \A i \in 1 .. k : SubSeq(pipe, 1, k)[i] = pipe[i]
    BY <1>2, <1>5, SubSeqProperties
  <2>2. DOMAIN SubSeq(pipe, 1, k) = 1 .. k /\ DOMAIN pipe = 1 .. Len(pipe)
    BY <1>2, <1>5, <2>1, SubSeqProperties, LenProperties
  <2> QED
    BY <1>5, <2>1, <2>2 DEF ToSet
<1> HIDE DEF home
<1> QED
  BY <1>2, <1>4, <1>5, <1>6

LEMMA EndedEntries ==
  ASSUME NEW v, NEW home, req \in [Req -> Entry]
  PROVE  /\ Ended(v, home) \in [Req -> Entry]
         /\ \A r \in Req :
              /\ r \notin InFlight(v) => Ended(v, home)[r] = req[r]
              /\ req[r].is_finished => Ended(v, home)[r].is_finished
              /\ r \notin home => Ended(v, home)[r].fusion_exec = req[r].fusion_exec
<1>1. ASSUME NEW r \in Req, r \in InFlight(v)
      PROVE  /\ Ended(v, home)[r] \in Entry
             /\ req[r].is_finished => Ended(v, home)[r].is_finished
             /\ r \notin home => Ended(v, home)[r].fusion_exec = req[r].fusion_exec
  <2> DEFINE c == Computed(req[r], MaxTokens(req[r]))
  <2>1. /\ c \in Entry /\ c.fusion_exec = req[r].fusion_exec
        /\ req[r].is_finished => c.is_finished
    BY ComputedEntry
  <2>2. Ended(v, home)[r] = [c EXCEPT !.fusion_exec = @ /\ r \notin home]
    BY <1>1 DEF Ended
  <2> HIDE DEF c
  <2>3. PICK b \in BOOLEAN : b = (c.fusion_exec /\ r \notin home)
    OBVIOUS
  <2>4. Ended(v, home)[r] = Marked(c, b)
    BY <2>2, <2>3 DEF Marked
  <2>5. Marked(c, b) \in Entry /\ Marked(c, b).is_finished = c.is_finished
        /\ Marked(c, b).fusion_exec = b
    BY <2>1, MarkedEntry
  <2>6. r \notin home => b = c.fusion_exec
    BY <2>1, <2>3 DEF Entry
  <2> QED
    BY <2>1, <2>4, <2>5, <2>6
<1>2. ASSUME NEW r \in Req, r \notin InFlight(v) PROVE Ended(v, home)[r] = req[r]
  BY <1>2 DEF Ended
<1>3. ASSUME NEW r \in Req PROVE Ended(v, home)[r] \in Entry
  BY <1>1, <1>2
<1>4. Ended(v, home) \in [Req -> Entry]
  BY <1>3 DEF Ended
<1> QED
  BY <1>1, <1>2, <1>4

LEMMA EndStepIInv ==
  ASSUME IInv, NEW v \in Ve, EndStep(v)
  PROVE  IInv'
<1>1. PICK at : Where(at)
  BY DEF IInv
<1>2. /\ req \in [Req -> Entry] /\ pending \in [Ve -> Int]
      /\ step \in [Ve -> [busy : BOOLEAN, batch : Seq(Req)]]
      /\ phase \in {"balloon", "restore"} /\ stopped \in BOOLEAN
      /\ (stopped => phase = "balloon") /\ arrived \in 0 .. N
  BY DEF IInv
<1>3. /\ step' = [step EXCEPT ![v] = NoStep] /\ phase' = phase /\ stopped' = stopped
      /\ arrived' = arrived
  BY DEF EndStep
<1>4. PICK home : /\ home \subseteq InFlight(v) /\ (phase # "restore" => home = {})
                  /\ GoesOn(v, Ended(v, home), Homed(v, home))
  BY <1>2, EndParts
<1> DEFINE rq    == Ended(v, home)
           ranks == Homed(v, home)
<1>5. /\ rq \in [Req -> Entry]
      /\ \A r \in Req : /\ r \notin InFlight(v) => rq[r] = req[r]
                        /\ req[r].is_finished => rq[r].is_finished
                        /\ r \notin home => rq[r].fusion_exec = req[r].fusion_exec
  BY <1>2, EndedEntries
<1>6. \A r \in Req : ranks[r] = IF r \in home THEN v ELSE kv[r]
  BY DEF Homed
<1>7. GoesOn(v, rq, ranks)
  BY <1>4
<1> HIDE DEF rq, ranks
<1>8. /\ Lined(Now, at) /\ AtHome(at, req, kv)
      /\ \A r \in Req : /\ at[r] # Nowhere => r <= arrived
                        /\ at[r] = Nowhere => r > arrived \/ req[r].is_finished
      /\ \A w \in Ve : \A r \in InFlight(w) : at[r] = InRunning(w)
  BY <1>1 DEF Where
<1>9. AtHome(at, rq, ranks)
  <2>1. ASSUME NEW r \in Req, NEW w \in Ve, at[r] = InRunning(w)
        PROVE  rq[r].fusion_exec \/ (phase = "restore" /\ ranks[r] = w)
    <3>1. CASE r \in home
      <4>1. at[r] = InRunning(v)
        BY <1>4, <1>8, <3>1
      <4>2. w = v
        BY <2>1, <4>1, NamesApart
      <4> QED
        BY <1>4, <1>6, <3>1, <4>2
    <3>2. CASE r \notin home
      <4>1. req[r].fusion_exec \/ (phase = "restore" /\ kv[r] = w)
        BY <1>8, <2>1 DEF AtHome
      <4> QED
        BY <1>5, <1>6, <3>2, <4>1
    <3> QED
      BY <3>1, <3>2
  <2> QED
    BY <2>1 DEF AtHome
<1>10. step' \in [Ve -> [busy : BOOLEAN, batch : Seq(Req)]] /\ InFlight(v)' = {}
       /\ \A w \in Ve : w # v => InFlight(w)' = InFlight(w)
  <2>1. PICK e \in Seq(Req) : e = <<>>
    BY EmptySeq
  <2>2. NoStep = [busy |-> FALSE, batch |-> e] /\ ToSet(e) = {}
    BY <2>1, ToSetEmpty DEF NoStep
  <2>3. step' = [step EXCEPT ![v] = [busy |-> FALSE, batch |-> e]]
    BY <1>3, <2>2
  <2>4. step' \in [Ve -> [busy : BOOLEAN, batch : Seq(Req)]]
    BY <1>2, <2>3
  <2>5. step'[v].batch = e /\ \A w \in Ve : w # v => step'[w] = step[w]
    BY <1>2, <2>3
  <2> QED
    BY <2>2, <2>4, <2>5 DEF InFlight
<1>11. /\ req' \in [Req -> Entry] /\ pending' \in [Ve -> Int]
       /\ \E to :
            /\ Lined(Now', to) /\ AtHome(to, req', kv')
            /\ \A r \in Req : /\ to[r] = Nowhere => at[r] = Nowhere \/ req'[r].is_finished
                              /\ at[r] = Nowhere => to[r] = Nowhere
                              /\ rq[r].is_finished => req'[r].is_finished
                              /\ \A w \in Ve : w # v /\ at[r] = InRunning(w)
                                                 => to[r] = InRunning(w)
  <2>1. CASE stopped
    <3>1. /\ req' = rq /\ kv' = ranks /\ pending' = pending
          /\ UNCHANGED <<unaccepted, short, long, running>>
      BY <1>7, <2>1 DEF GoesOn
    <3>2. Now' = Now
      BY <3>1 DEF Now
    <3>3. Lined(Now', at) /\ AtHome(at, req', kv')
      BY <1>8, <1>9, <3>1, <3>2
    <3> QED
      BY <1>2, <1>5, <3>1, <3>3
  <2>2. CASE ~ stopped
    <3>1. GetNextBatch(v, rq, ranks)
      BY <1>7, <2>2 DEF GoesOn
    <3>2. Now' = Lines(unaccepted', short', long', running')
      BY DEF Now
    <3>3. Lined(Now, at) /\ rq \in [Req -> Entry] /\ phase \in {"balloon", "restore"}
          /\ pending \in [Ve -> Int]
      BY <1>2, <1>5, <1>8
    <3>4. /\ req' \in [Req -> Entry] /\ pending' \in [Ve -> Int]
          /\ \E to :
               /\ Lined(Lines(unaccepted', short', long', running'), to)
               /\ AtHome(to, req', kv')
               /\ \A r \in Req : /\ to[r] = Nowhere => at[r] = Nowhere \/ req'[r].is_finished
                                 /\ at[r] = Nowhere => to[r] = Nowhere
                                 /\ rq[r].is_finished => req'[r].is_finished
                                 /\ \A w \in Ve : w # v /\ at[r] = InRunning(w)
                                                    => to[r] = InRunning(w)
      BY <1>9, <3>1, <3>3, NextBatch
    <3> QED
      BY <3>2, <3>4
  <2> QED
    BY <1>2, <2>1, <2>2
<1>12. PICK to : /\ Lined(Now', to) /\ AtHome(to, req', kv')
                 /\ \A r \in Req : /\ to[r] = Nowhere => at[r] = Nowhere \/ req'[r].is_finished
                                   /\ at[r] = Nowhere => to[r] = Nowhere
                                   /\ rq[r].is_finished => req'[r].is_finished
                                   /\ \A w \in Ve : w # v /\ at[r] = InRunning(w)
                                                      => to[r] = InRunning(w)
  BY <1>11
<1>13. AtHome(to, req, kv)'
  BY <1>3, <1>12 DEF AtHome
<1>14. \A r \in Req : /\ to[r] # Nowhere => r <= arrived'
                      /\ to[r] = Nowhere => r > arrived' \/ req'[r].is_finished
  BY <1>3, <1>5, <1>8, <1>12
<1>15. ASSUME NEW w \in Ve, NEW r \in InFlight(w)' PROVE to[r] = InRunning(w)
  <2>1. w # v /\ r \in InFlight(w)
    BY <1>10, <1>15
  <2>2. r \in Req
    <3>1. step[w].batch \in Seq(Req)
      BY <1>2
    <3> QED
      BY <2>1, <3>1, ToSetRange DEF InFlight
  <2> QED
    BY <1>8, <1>12, <2>1, <2>2
<1>16. Where(to)'
  BY <1>12, <1>13, <1>14, <1>15 DEF Where
<1>17. \E on : Where(on)'
  BY <1>16
<1>18. /\ phase' \in {"balloon", "restore"} /\ stopped' \in BOOLEAN
       /\ (stopped' => phase' = "balloon") /\ arrived' \in 0 .. N
  BY <1>2, <1>3
<1> QED
  BY <1>10, <1>11, <1>17, <1>18, Zenon DEF IInv

\* The invariant.
THEOREM Invariance == Spec => []IInv
<1>1. Init => IInv
  BY InitIInv
<1>2. IInv /\ [Next]_vars => IInv'
  <2> SUFFICES ASSUME IInv, [Next]_vars PROVE IInv'
    OBVIOUS
  <2>1. CASE Arrive
    BY <2>1, ArriveIInv
  <2>2. ASSUME NEW v \in Ve, StartStep(v) PROVE IInv'
    BY <2>2, StartStepIInv
  <2>3. ASSUME NEW v \in Ve, EndStep(v) PROVE IInv'
    BY <2>3, EndStepIInv
  <2>0. /\ phase \in {"balloon", "restore"} /\ stopped \in BOOLEAN
        /\ (stopped => phase = "balloon")
        /\ step \in [Ve -> [busy : BOOLEAN, batch : Seq(Req)]]
    BY DEF IInv
  <2>4. CASE Stop
    BY <2>0, <2>4, QuietIInv DEF Stop, InFlight
  <2>5. CASE Restore
    BY <2>0, <2>5, QuietIInv DEF Restore, InFlight
  <2>6. CASE UNCHANGED vars
    BY <2>0, <2>6, QuietIInv DEF vars, InFlight
  <2> QED
    BY <2>1, <2>2, <2>3, <2>4, <2>5, <2>6 DEF Next
<1> QED
  BY <1>1, <1>2, PTL DEF Spec

-----------------------------------------------------------------------------
(* What follows from it.                                                   *)

\* The places of r in the queue l.
Spotted(name, l, r) == {<<name, i>> : i \in {j \in 1 .. Len(l) : l[j] = r}}

Alone(X, name) == \E i : X = {<<name, i>>}

LEMMA SpottedGood ==
  ASSUME NEW l, NEW at, NEW n, Good(l, at, n), NEW r \in Req, NEW name
  PROVE  /\ at[r] = n => Alone(Spotted(name, l, r), name)
         /\ at[r] # n => Spotted(name, l, r) = {}
<1>1. l \in Seq(Req) /\ DOMAIN l = 1 .. Len(l)
  BY LenProperties DEF Good
<1>2. ASSUME at[r] = n PROVE Alone(Spotted(name, l, r), name)
  <2>1. r \in ToSet(l)
    BY <1>2 DEF Good
  <2>2. PICK i \in 1 .. Len(l) : l[i] = r
    BY <1>1, <2>1 DEF ToSet
  <2>3. \A j \in 1 .. Len(l) : l[j] = r => j = i
    BY <1>1, <2>2 DEF Good, OneEach
  <2>4. {j \in 1 .. Len(l) : l[j] = r} = {i}
    BY <2>2, <2>3
  <2> QED
    BY <2>4 DEF Spotted, Alone
<1>3. ASSUME at[r] # n PROVE Spotted(name, l, r) = {}
  <2>1. r \notin ToSet(l)
    BY <1>3 DEF Good
  <2>2. {j \in 1 .. Len(l) : l[j] = r} = {}
    BY <1>1, <2>1 DEF ToSet
  <2> QED
    BY <2>2 DEF Spotted
<1> QED
  BY <1>2, <1>3

LEMMA PlacesParts ==
  ASSUME NEW r
  PROVE  Places(r) = Spotted("global", unaccepted, r)
                       \cup UNION {Spotted(InShort(v), short[v], r) \cup Spotted(InLong(v), long[v], r)
                                     \cup Spotted(InRunning(v), running[v], r) : v \in Ve}
  BY Zenon DEF Places, Spotted, InShort, InLong, InRunning

LEMMA OnePlaceInv == IInv => OnePlace
<1> SUFFICES ASSUME IInv, NEW r \in Req, Here(r) PROVE Cardinality(Places(r)) = 1
  BY DEF OnePlace
<1>1. PICK at : Where(at)
  BY DEF IInv
<1>2. at[r] # Nowhere /\ at[r] \in Spots
  <2>1. r \in Int /\ arrived \in Int
    BY LookAheadAssumption DEF Req, IInv
  <2>2. at[r] = Nowhere => r > arrived \/ req[r].is_finished
    BY <1>1 DEF Where
  <2>3. at \in [Req -> Spots]
    BY <1>1 DEF Where, Lined
  <2> QED
    BY <2>1, <2>2, <2>3 DEF Here
<1>3. /\ Good(unaccepted, at, InGlobal)
      /\ \A w \in Ve : /\ Good(short[w], at, InShort(w)) /\ Good(long[w], at, InLong(w))
                       /\ Good(running[w], at, InRunning(w))
  <2>1. /\ Now.global = unaccepted /\ Now.short = short /\ Now.long = long
        /\ Now.running = running
    BY LinesParts DEF Now
  <2>2. Lined(Now, at)
    BY <1>1 DEF Where
  <2> QED
    BY <2>1, <2>2, Zenon DEF Lined
<1> DEFINE G    == Spotted("global", unaccepted, r)
           S(v) == Spotted(InShort(v), short[v], r)
           L(v) == Spotted(InLong(v), long[v], r)
           R(v) == Spotted(InRunning(v), running[v], r)
<1>4. /\ at[r] = InGlobal => Alone(G, "global")
      /\ at[r] # InGlobal => G = {}
  BY <1>3, SpottedGood
<1>5. ASSUME NEW w \in Ve
      PROVE  /\ at[r] = InShort(w) => Alone(S(w), InShort(w))
             /\ at[r] # InShort(w) => S(w) = {}
             /\ at[r] = InLong(w) => Alone(L(w), InLong(w))
             /\ at[r] # InLong(w) => L(w) = {}
             /\ at[r] = InRunning(w) => Alone(R(w), InRunning(w))
             /\ at[r] # InRunning(w) => R(w) = {}
  <2>1. /\ Good(short[w], at, InShort(w)) /\ Good(long[w], at, InLong(w))
        /\ Good(running[w], at, InRunning(w))
    BY <1>3
  <2> QED
    BY <2>1, SpottedGood
<1>6. Places(r) = G \cup UNION {S(v) \cup L(v) \cup R(v) : v \in Ve}
  BY PlacesParts
<1> HIDE DEF G, S, L, R
<1>7. \A y : y \in Places(r) <=> y \in G \/ \E v \in Ve : y \in S(v) \/ y \in L(v) \/ y \in R(v)
  BY <1>6
<1>8. \A x : Places(r) = {x} => Cardinality(Places(r)) = 1
  BY FS_Singleton
<1>9. \/ at[r] = InGlobal
      \/ \E v \in Ve : at[r] = InShort(v) \/ at[r] = InLong(v) \/ at[r] = InRunning(v)
  BY <1>2, SpotNames
<1>10. CASE at[r] = InGlobal
  <2>1. PICK i : G = {<<"global", i>>}
    BY <1>4, <1>10 DEF Alone
  <2>2. \A v \in Ve : S(v) = {} /\ L(v) = {} /\ R(v) = {}
    BY <1>5, <1>10, NamesApart
  <2>3. \A y : y \in Places(r) <=> y = <<"global", i>>
    BY <1>7, <2>1, <2>2
  <2>4. Places(r) = {<<"global", i>>}
    BY <2>3
  <2> QED
    BY <1>8, <2>4
<1>11. ASSUME NEW v \in Ve, at[r] = InShort(v) PROVE Cardinality(Places(r)) = 1
  <2>1. PICK i : S(v) = {<<InShort(v), i>>}
    BY <1>5, <1>11 DEF Alone
  <2>2. G = {} /\ (\A w \in Ve : L(w) = {} /\ R(w) = {}) /\ \A w \in Ve : w # v => S(w) = {}
    BY <1>4, <1>5, <1>11, NamesApart
  <2>3. \A y : y \in Places(r) <=> y = <<InShort(v), i>>
    BY <1>7, <2>1, <2>2
  <2>4. Places(r) = {<<InShort(v), i>>}
    BY <2>3
  <2> QED
    BY <1>8, <2>4
<1>12. ASSUME NEW v \in Ve, at[r] = InLong(v) PROVE Cardinality(Places(r)) = 1
  <2>1. PICK i : L(v) = {<<InLong(v), i>>}
    BY <1>5, <1>12 DEF Alone
  <2>2. G = {} /\ (\A w \in Ve : S(w) = {} /\ R(w) = {}) /\ \A w \in Ve : w # v => L(w) = {}
    BY <1>4, <1>5, <1>12, NamesApart
  <2>3. \A y : y \in Places(r) <=> y = <<InLong(v), i>>
    BY <1>7, <2>1, <2>2
  <2>4. Places(r) = {<<InLong(v), i>>}
    BY <2>3
  <2> QED
    BY <1>8, <2>4
<1>13. ASSUME NEW v \in Ve, at[r] = InRunning(v) PROVE Cardinality(Places(r)) = 1
  <2>1. PICK i : R(v) = {<<InRunning(v), i>>}
    BY <1>5, <1>13 DEF Alone
  <2>2. G = {} /\ (\A w \in Ve : S(w) = {} /\ L(w) = {}) /\ \A w \in Ve : w # v => R(w) = {}
    BY <1>4, <1>5, <1>13, NamesApart
  <2>3. \A y : y \in Places(r) <=> y = <<InRunning(v), i>>
    BY <1>7, <2>1, <2>2
  <2>4. Places(r) = {<<InRunning(v), i>>}
    BY <2>3
  <2> QED
    BY <1>8, <2>4
<1> QED
  BY <1>9, <1>10, <1>11, <1>12, <1>13

LEMMA RunningInv ==
  ASSUME IInv, NEW at, Where(at), NEW v \in Ve, NEW r \in Req
  PROVE  r \in ToSet(running[v]) <=> at[r] = InRunning(v)
<1>1. Now.running = running
  BY LinesParts DEF Now
<1>2. Good(Now.running[v], at, InRunning(v))
  BY DEF Where, Lined
<1> QED
  BY <1>1, <1>2 DEF Good

\* A request that is not finished is in exactly one queue.
THEOREM OnePlaceHolds == Spec => []OnePlace
  BY Invariance, OnePlaceInv, PTL

\* What a virtual engine has on the workers stays in its own queue.
THEOREM RunsOnceHolds == Spec => []RunsOnce
<1>1. IInv => RunsOnce
  <2> SUFFICES ASSUME IInv, NEW v \in Ve, NEW r \in InFlight(v) PROVE r \in ToSet(running[v])
    BY DEF RunsOnce
  <2>1. PICK at : Where(at)
    BY DEF IInv
  <2>2. step[v].batch \in Seq(Req)
    BY DEF IInv
  <2>3. r \in Req
    BY <2>2, ToSetRange DEF InFlight
  <2> QED
    BY <2>1, <2>3, RunningInv DEF Where
<1> QED
  BY <1>1, Invariance, PTL

\* In RESTORE, what runs on one instance has its blocks there.
THEOREM KvLocalHolds == Spec => []KvLocal
<1>1. IInv => KvLocal
  <2> SUFFICES ASSUME IInv, NEW v \in Ve, NEW r \in ToSet(running[v])
               PROVE  req[r].fusion_exec \/ kv[r] = v
    BY DEF KvLocal
  <2>1. PICK at : Where(at)
    BY DEF IInv
  <2>2. running[v] \in Seq(Req)
    <3>1. Good(Now.running[v], at, InRunning(v))
      BY <2>1 DEF Where, Lined
    <3>2. Now.running = running
      BY LinesParts DEF Now
    <3> QED
      BY <3>1, <3>2 DEF Good
  <2>3. r \in Req
    BY <2>2, ToSetRange
  <2>4. at[r] = InRunning(v)
    BY <2>1, <2>3, RunningInv
  <2> QED
    BY <2>1, <2>3, <2>4 DEF Where, AtHome
<1> QED
  BY <1>1, Invariance, PTL

-----------------------------------------------------------------------------
(* The tokens of a batch.                                                 *)

\* The weights of a batch are natural numbers.
LEMMA PromptWeightsNat ==
  ASSUME NEW rq \in [Req -> Entry]
  PROVE  /\ \A r \in Req : PromptWeights(rq)[r] = PromptTokens(rq[r])
         /\ \A r \in Req : PromptWeights(rq)[r] \in Nat
  BY PromptsNat DEF PromptWeights

\* The chunks that follow take no more than the batch had and could get.
LEMMA ChunksSpend ==
  ASSUME NEW rq \in [Req -> Entry], Fits(rq), NEW run \in Seq(Req), OneEach(run), NEW start \in Int,
         NEW a, a = ChunksFrom(start, rq, run), a.req \in [Req -> Entry]
  PROVE  /\ Fits(a.req) /\ a.free \in Int
         /\ \A r \in Req \ ToSet(run) : a.req[r] = rq[r]
         /\ Total(PromptWeights(a.req), run) + Spare(a.free)
              <= Total(PromptWeights(rq), run) + Spare(start)
<1>0. PICK free \in [Nat -> Int] : /\ Hands(free, start, rq, run)
                                   /\ Handed(free, ChunksFrom(start, rq, run), rq, run)
  BY Leftovers
<1>1. /\ Hands(free, start, rq, run) /\ a.free = free[Len(run)]
      /\ \A r \in Req : a.req[r] = IF r \in ToSet(run) /\ FollowUp(rq[r])
                                   THEN NextChunk(rq[r], free[PlaceIn(run, r) - 1])
                                   ELSE rq[r]
  BY <1>0 DEF Handed
<1>2. PICK n \in Nat : n = Len(run) /\ DOMAIN run = 1 .. n /\ \A k \in 1 .. n : run[k] \in Req
  BY LenProperties, ElementOfSeq
<1>3. ASSUME NEW k \in Nat, k < n
      PROVE  /\ run[k + 1] \in Req /\ free[k] \in Int
             /\ a.req[run[k + 1]] = IF FollowUp(rq[run[k + 1]])
                                    THEN NextChunk(rq[run[k + 1]], free[k])
                                    ELSE rq[run[k + 1]]
  <2>1. k + 1 \in 1 .. n /\ (k + 1) - 1 = k
    BY <1>2, <1>3
  <2>2. run[k + 1] \in Req /\ run[k + 1] \in ToSet(run)
    BY <1>2, <2>1 DEF ToSet
  <2>3. PlaceIn(run, run[k + 1]) = k + 1
    <3>1. PlaceIn(run, run[k + 1]) \in 1 .. n /\ run[PlaceIn(run, run[k + 1])] = run[k + 1]
      BY <1>2, <2>1 DEF PlaceIn
    <3> QED
      BY <1>2, <2>1, <3>1 DEF OneEach
  <2> QED
    BY <1>1, <2>1, <2>2, <2>3
<1>4. ASSUME NEW r \in Req PROVE Fit(a.req[r])
  <2>1. Fit(rq[r]) /\ rq[r] \in Entry
    BY DEF Fits
  <2>2. CASE r \in ToSet(run) /\ FollowUp(rq[r])
    <3>1. PICK k \in 1 .. n : r = run[k]
      BY <1>2, <2>2 DEF ToSet
    <3>2. k - 1 \in Nat /\ k - 1 < n /\ (k - 1) + 1 = k
      BY <1>2, <3>1
    <3>3. free[k - 1] \in Int /\ a.req[r] = NextChunk(rq[r], free[k - 1])
      BY <1>3, <2>2, <3>1, <3>2
    <3> QED
      BY <2>1, <2>2, <3>3, NextSpends
  <2>3. CASE ~ (r \in ToSet(run) /\ FollowUp(rq[r]))
    BY <1>1, <2>1, <2>3
  <2> QED
    BY <2>2, <2>3
<1> DEFINE v == PromptWeights(a.req)
           w == PromptWeights(rq)
           head(k) == SubSeq(run, 1, k)
           E == {k \in Nat : k <= n => Total(v, head(k)) + Spare(free[k])
                                         <= Total(w, head(k)) + Spare(start)}
<1>5. \A r \in Req : /\ v[r] = PromptTokens(a.req[r]) /\ v[r] \in Nat /\ v[r] \in Int
                     /\ w[r] = PromptTokens(rq[r]) /\ w[r] \in Nat /\ w[r] \in Int
  BY PromptWeightsNat
<1> HIDE DEF v, w
<1>6. 0 \in E
  <2>1. head(0) = <<>>
    BY SubSeqEmpty
  <2>2. Total(v, head(0)) = 0 /\ Total(w, head(0)) = 0
    BY <2>1, TotalEmpty
  <2>3. free[0] = start /\ Spare(start) \in Int
    BY <1>1 DEF Hands, Spare
  <2> HIDE DEF head
  <2> QED
    BY <2>2, <2>3
<1>7. ASSUME NEW k \in Nat, k \in E PROVE k + 1 \in E
  <2> SUFFICES ASSUME k + 1 <= n
               PROVE  Total(v, head(k + 1)) + Spare(free[k + 1]) <= Total(w, head(k + 1)) + Spare(start)
    OBVIOUS
  <2>1. k < n /\ k <= n
    OBVIOUS
  <2>2. PICK x \in Req : x = run[k + 1]
    BY <1>3, <2>1
  <2>3. head(k) \in Seq(Req) /\ head(k + 1) = Append(head(k), x)
    BY <1>2, <2>1, <2>2, PrefixAppend
  <2>4. Total(v, head(k)) + Spare(free[k]) <= Total(w, head(k)) + Spare(start)
    BY <1>7, <2>1
  <2> HIDE DEF head
  <2>a. Total(v, head(k + 1)) = Total(v, head(k)) + v[x] /\ Total(v, head(k)) \in Int
    <3>1. \A r \in Req : v[r] \in Int
      BY <1>5
    <3>2. PICK p \in Seq(Req) : p = head(k)
      BY <2>3
    <3>3. Total(v, Append(p, x)) = Total(v, p) + v[x] /\ Total(v, p) \in Int
      BY <3>1, TotalAppend
    <3> QED
      BY <2>3, <3>2, <3>3, Zenon
  <2>b. Total(w, head(k + 1)) = Total(w, head(k)) + w[x] /\ Total(w, head(k)) \in Int
    <3>1. \A r \in Req : w[r] \in Int
      BY <1>5
    <3>2. PICK p \in Seq(Req) : p = head(k)
      BY <2>3
    <3>3. Total(w, Append(p, x)) = Total(w, p) + w[x] /\ Total(w, p) \in Int
      BY <3>1, TotalAppend
    <3> QED
      BY <2>3, <3>2, <3>3, Zenon
  <2>6. v[x] + Spare(free[k + 1]) <= w[x] + Spare(free[k])
    <3>1. free[k] \in Int /\ rq[x] \in Entry /\ Fit(rq[x])
      BY <1>3, <2>1 DEF Fits
    <3>2. CASE FollowUp(rq[x])
      <4>1. a.req[x] = NextChunk(rq[x], free[k]) /\ free[k + 1] = Unused(NextChunk(rq[x], free[k]))
        BY <1>1, <1>2, <1>3, <2>1, <2>2, <3>2 DEF Hands
      <4>2. PromptTokens(NextChunk(rq[x], free[k])) + Spare(Unused(NextChunk(rq[x], free[k])))
              <= PromptTokens(rq[x]) + Spare(free[k])
        BY <3>1, <3>2, NextSpends
      <4> QED
        BY <1>5, <4>1, <4>2
    <3>3. CASE ~ FollowUp(rq[x])
      <4>1. a.req[x] = rq[x] /\ free[k + 1] = free[k]
        BY <1>1, <1>2, <1>3, <2>1, <2>2, <3>3 DEF Hands
      <4>2. v[x] = w[x] /\ w[x] \in Int /\ Spare(free[k]) \in Int
        BY <1>5, <3>1, <4>1 DEF Spare
      <4> QED
        BY <4>1, <4>2
    <3> QED
      BY <3>2, <3>3
  <2>7. Spare(free[k]) \in Int /\ Spare(free[k + 1]) \in Int /\ Spare(start) \in Int
    <3>1. \A i \in Int : Spare(i) \in Int
      BY DEF Spare
    <3>2. free[k] \in Int /\ free[k + 1] \in Int
      OBVIOUS
    <3> QED
      BY <3>1, <3>2
  <2>8. v[x] \in Int /\ w[x] \in Int
    BY <1>5
  <2>9. PICK t \in Int, u \in Int, s \in Int, z \in Int, c \in Int, g \in Int, h \in Int :
          /\ t = Total(v, head(k)) /\ u = Total(w, head(k)) /\ s = Spare(free[k])
          /\ z = Spare(free[k + 1]) /\ c = Spare(start) /\ g = v[x] /\ h = w[x]
    BY <2>a, <2>b, <2>7, <2>8
  <2>10. t + s <= u + c /\ g + z <= h + s
    BY <2>4, <2>6, <2>9
  <2>11. (t + g) + z <= (u + h) + c
    BY <2>10
  <2> QED
    BY <2>a, <2>b, <2>9, <2>11
<1>8. n \in E
  <2>1. Nat \subseteq E
    <3> HIDE DEF E
    <3> QED
      BY <1>6, <1>7, NatSet
  <2> QED
    BY <2>1
<1>9. head(n) = run
  BY <1>2, SubSeqFull
<1>10. Total(v, run) + Spare(a.free) <= Total(w, run) + Spare(start)
  <2>1. n <= n
    BY <1>2
  <2>2. n <= n => Total(v, head(n)) + Spare(free[n]) <= Total(w, head(n)) + Spare(start)
    <3> HIDE DEF head
    <3> QED
      BY <1>8
  <2> HIDE DEF head, E
  <2> QED
    BY <1>1, <1>2, <1>9, <2>1, <2>2
<1>11. \A r \in Req \ ToSet(run) : a.req[r] = rq[r]
  BY <1>1
<1>12. a.free \in Int
  BY <1>1, <1>2
<1> QED
  BY <1>4, <1>10, <1>11, <1>12 DEF Fits, v, w

\* allocate_next_chunk for the batch of v, which then has no more than the budget.
LEMMA NextWithin ==
  ASSUME NEW rq \in [Req -> Entry], Fits(rq), NEW run \in Seq(Req), OneEach(run),
         NEW budget \in Int, Total(PromptWeights(rq), run) <= budget
  PROVE  LET a == NextChunks(rq, run, budget)
         IN  /\ a.req \in [Req -> Entry] /\ Fits(a.req) /\ a.free \in Int
             /\ \A r \in Req \ ToSet(run) : a.req[r] = rq[r]
             /\ Total(PromptWeights(a.req), run) + Spare(a.free) <= budget
<1> DEFINE a == NextChunks(rq, run, budget)
<1>1. PICK w, u : w = PromptWeights(rq) /\ u = [r \in Req |-> InputTokens(rq[r])]
  OBVIOUS
<1>2. \A r \in Req : w[r] \in Int /\ u[r] \in Int /\ w[r] <= u[r]
  <2> TAKE r \in Req
  <2>1. rq[r] \in Entry
    OBVIOUS
  <2>2. PromptTokens(rq[r]) \in Nat /\ PromptTokens(rq[r]) <= InputTokens(rq[r])
    BY <2>1, PromptsNat
  <2>3. InputTokens(rq[r]) \in Nat
    BY <2>1, EntryTokens
  <2>4. w[r] = PromptTokens(rq[r])
    BY <1>1, PromptWeightsNat
  <2>5. u[r] = InputTokens(rq[r])
    BY <1>1
  <2> QED
    BY <2>2, <2>3, <2>4, <2>5
<1>3. Total(w, run) <= Total(u, run)
  <2>1. \A r \in ToSet(run) : w[r] <= u[r]
    BY <1>2, ToSetRange
  <2> QED
    BY <1>2, <2>1, TotalLess
<1>4. Total(w, run) \in Int /\ Total(u, run) \in Int
  BY <1>2, TotalInt
<1>5. TokensOf(rq, run) = Total(u, run)
  BY <1>1 DEF TokensOf
<1>6. PICK start \in Int : start = budget - Total(u, run)
  BY <1>4
<1>7. a = ChunksFrom(start, rq, run)
  BY <1>5, <1>6 DEF NextChunks
<1>8. a.req \in [Req -> Entry]
  BY NextEntries
<1> HIDE DEF a
<1>9. /\ Fits(a.req) /\ a.free \in Int
      /\ \A r \in Req \ ToSet(run) : a.req[r] = rq[r]
      /\ Total(PromptWeights(a.req), run) + Spare(a.free)
              <= Total(PromptWeights(rq), run) + Spare(start)
  BY <1>7, <1>8, ChunksSpend
<1>10. Total(w, run) + Spare(start) <= budget
  <2>1. Total(w, run) <= budget
    BY <1>1
  <2> QED
    BY <1>3, <1>4, <1>6, <2>1 DEF Spare
<1>11. Total(PromptWeights(a.req), run) + Spare(a.free) <= budget
  <2>1. Total(PromptWeights(a.req), run) \in Int
    <3>1. \A r \in Req : PromptWeights(a.req)[r] \in Int
      BY <1>8, PromptWeightsNat
    <3> QED
      BY <3>1, TotalInt
  <2>2. Spare(a.free) \in Int /\ Spare(start) \in Int
    BY <1>6, <1>9 DEF Spare
  <2> QED
    BY <1>1, <1>4, <1>9, <1>10, <2>1, <2>2
<1> QED
  BY <1>8, <1>9, <1>11 DEF a

\* What admission does to the records and to the tokens of the batch.
Affords(a, rq, run, un, tokens) ==
  /\ \A r \in Req \ a.checked : a.req[r] = rq[r]
  /\ Fits(rq) => Fits(a.req)
  /\ OneEach(run \o un) => \/ a.failed
                           \/ a.running = run
                           \/ Total(PromptWeights(a.req), a.running) <= tokens

\* The input tokens of every request.
LEMMA InputsWeigh ==
  ASSUME NEW rq \in [Req -> Entry]
  PROVE  \E u : /\ Weighs(u, rq, Req)
                /\ \A r \in Req : u[r] = InputTokens(rq[r])
<1>1. PICK u : u = [r \in Req |-> InputTokens(rq[r])]
  OBVIOUS
<1>2. DOMAIN rq = Req
  OBVIOUS
<1>3. \A q : TokensOf(rq, q) = Total(u, q)
  BY <1>1, <1>2 DEF TokensOf
<1>4. \A r \in Req : u[r] = InputTokens(rq[r]) /\ u[r] \in Nat
  BY <1>1, EntryTokens
<1> QED
  BY <1>3, <1>4 DEF Weighs

\* A request that is only marked keeps its record, if it is marked as it was.
LEMMA MarkedSame ==
  ASSUME NEW q \in Entry
  PROVE  Marked(q, q.fusion_exec) = q
  BY DEF Marked, Entry

LEMMA AdmitsWithin ==
  ASSUME NEW rq \in [Req -> Entry], NEW run \in Seq(Req), NEW un \in Seq(Req),
         NEW fx \in BOOLEAN, NEW room \in 0 .. Len(un), NEW size \in Int, NEW tokens \in Int
  PROVE  Affords(Admit(TRUE, fx, rq, run, un, room, size, tokens), rq, run, un, tokens)
<1> DEFINE slots   == Least(room, size - Len(run))
           K       == {k \in 1 .. slots : FreeTokens(rq, run, un, k, tokens) >= 0}
           whole   == Cardinality(K)
           left    == FreeTokens(rq, run, un, whole, tokens)
           chunked == TRUE /\ whole < slots /\ left # 0
           n       == IF chunked THEN whole + 1 ELSE whole
           m       == Least(whole + 1, Len(un))
           checked == ToSet(SubSeq(un, 1, m))
           marked  == [r \in DOMAIN rq |-> [rq[r] EXCEPT !.fusion_exec =
                                              IF r \in checked THEN fx ELSE @]]
           a       == Admit(TRUE, fx, rq, run, un, room, size, tokens)
<1>1. /\ a.req = IF chunked /\ left > 0
                 THEN [marked EXCEPT ![un[n]] = SetChunk(@, left)]
                 ELSE marked
      /\ a.running = run \o SubSeq(un, 1, n)
      /\ a.failed = (chunked /\ left < 0)
      /\ a.checked = checked
  BY DEF Admit, Counted
<1> HIDE DEF a
<1>2. Len(un) \in Nat /\ Len(run) \in Nat /\ DOMAIN rq = Req /\ DOMAIN un = 1 .. Len(un)
  BY LenProperties
<1>3. slots \in Int /\ slots <= Len(un)
  BY <1>2 DEF Least
<1> HIDE DEF slots
<1>4. PICK u : Weighs(u, rq, Req) /\ \A r \in Req : u[r] = InputTokens(rq[r])
  BY InputsWeigh
<1>5. /\ whole \in 0 .. Len(un) /\ (whole > 0 => whole <= slots)
      /\ FreeTokens(rq, run, un, whole, tokens) \in Int
      /\ whole > 0 => FreeTokens(rq, run, un, whole, tokens) >= 0
  BY <1>3, <1>4, ReachOf
<1> HIDE DEF K, whole
<1>6. /\ left \in Int /\ (whole > 0 => left >= 0)
      /\ left = tokens - Total(u, run \o SubSeq(un, 1, whole))
  BY <1>4, <1>5 DEF FreeTokens, Weighs
<1> HIDE DEF left
<1>7. m \in 0 .. Len(un) /\ (chunked => whole < Len(un) /\ n = whole + 1) /\ (~ chunked => n = whole)
  BY <1>2, <1>3, <1>5 DEF Least
<1>8. chunked => n <= m /\ n \in 1 .. Len(un)
  BY <1>2, <1>3, <1>5 DEF Least
<1>c. chunked => left # 0
  OBVIOUS
<1> HIDE DEF n, m, chunked
<1>9. checked = {un[i] : i \in 1 .. m}
  BY <1>7, HeadSet
<1> HIDE DEF checked
<1>10. /\ marked = [r \in Req |-> marked[r]]
       /\ \A r \in Req : marked[r] = Marked(rq[r], IF r \in checked THEN fx ELSE rq[r].fusion_exec)
  BY <1>2 DEF Marked
<1> HIDE DEF marked
<1>11. ASSUME NEW r \in Req
       PROVE  /\ marked[r] \in Entry /\ (r \notin checked => marked[r] = rq[r])
              /\ PromptTokens(marked[r]) \in Nat /\ PromptTokens(marked[r]) <= u[r] /\ u[r] \in Nat
              /\ Fit(rq[r]) => Fit(marked[r])
  <2>1. PICK b : b = IF r \in checked THEN fx ELSE rq[r].fusion_exec
    OBVIOUS
  <2>2. b \in BOOLEAN
    <3>1. rq[r].fusion_exec \in BOOLEAN
      BY DEF Entry
    <3> QED
      BY <2>1, <3>1
  <2>3. marked[r] = Marked(rq[r], b)
    BY <1>10, <2>1
  <2>4. /\ Marked(rq[r], b) \in Entry /\ Fit(rq[r]) => Fit(Marked(rq[r], b))
        /\ PromptTokens(Marked(rq[r], b)) = PromptTokens(rq[r])
    BY <2>2, MarkedEntry, MarkedSpends
  <2>5. PromptTokens(rq[r]) \in Nat /\ PromptTokens(rq[r]) <= InputTokens(rq[r])
    BY PromptsNat
  <2>6. u[r] = InputTokens(rq[r]) /\ InputTokens(rq[r]) \in Nat
    BY <1>4, EntryTokens
  <2>7. r \notin checked => marked[r] = rq[r]
    BY <2>1, <2>3, MarkedSame
  <2>8. Marked(rq[r], b) \in Entry
    BY <2>2, MarkedEntry
  <2> QED
    BY <2>3, <2>4, <2>5, <2>6, <2>7, <2>8
<1>12. CASE chunked /\ left > 0
  <2>1. n \in 1 .. Len(un) /\ un[n] \in Req /\ un[n] \in checked
    <3>1. n \in 1 .. m
      BY <1>2, <1>7, <1>8, <1>12
    <3> QED
      BY <1>8, <1>9, <1>12, <3>1, ElementOfSeq
  <2>2. PICK x \in Req : x = un[n]
    BY <2>1
  <2>3. \A r \in Req : a.req[r] = IF r = x THEN SetChunk(marked[r], left) ELSE marked[r]
    <3>1. a.req = [marked EXCEPT ![un[n]] = SetChunk(@, left)]
      BY <1>1, <1>12
    <3> QED
      BY <1>10, <2>2, <3>1
  <2>4. left \in Nat \ {0}
    BY <1>6, <1>12
  <2>5. \A r \in Req : Fit(SetChunk(marked[r], left)) /\ PromptTokens(SetChunk(marked[r], left)) <= left
                       /\ SetChunk(marked[r], left) \in Entry
    BY <1>6, <1>11, <2>4, SetSpends, SetEntry
  <2>6. \A r \in Req \ a.checked : a.req[r] = rq[r]
    <3>1. \A r \in Req \ checked : r # x /\ marked[r] = rq[r]
      BY <1>11, <2>1, <2>2
    <3> QED
      BY <1>1, <2>3, <3>1
  <2>7. Fits(rq) => Fits(a.req)
    BY <1>11, <2>3, <2>5 DEF Fits
  <2>8. ASSUME OneEach(run \o un) PROVE Total(PromptWeights(a.req), a.running) <= tokens
    <3>1. a.req \in [Req -> Entry]
      <4>1. a.req = [marked EXCEPT ![un[n]] = SetChunk(@, left)]
        BY <1>1, <1>12
      <4>2. a.req = [r \in Req |-> a.req[r]]
        BY <1>10, <4>1
      <4>3. \A r \in Req : a.req[r] \in Entry
        BY <1>11, <2>3, <2>5
      <4> QED
        BY <4>2, <4>3
    <3>2. PICK w : w = PromptWeights(a.req)
      OBVIOUS
    <3>3. \A r \in Req : w[r] = PromptTokens(a.req[r]) /\ w[r] \in Nat
      BY <3>1, <3>2, PromptWeightsNat
    <3>4. w[x] <= left
      BY <2>3, <2>5, <3>3
    <3>5. \A r \in Req \ {x} : w[r] <= u[r]
      BY <1>11, <2>3, <3>3
    <3>6. whole \in Nat /\ whole < Len(un) /\ n = whole + 1
      BY <1>5, <1>7, <1>12
    <3>7. PICK h : h = run \o SubSeq(un, 1, whole)
      OBVIOUS
    <3>8. h \in Seq(Req) /\ ToSet(h) \subseteq Req
      <4>1. SubSeq(un, 1, whole) \in Seq(Req)
        BY <1>5, HeadSeq
      <4>2. h \in Seq(Req)
        BY <3>7, <4>1, ConcatProperties
      <4> QED
        BY <4>2, ToSetRange
    <3>9. x \notin ToSet(h)
      <4>1. OneEach(run) /\ OneEach(un) /\ ToSet(run) \cap ToSet(un) = {}
        BY <2>8, OneEachConcat
      <4>2. x \in ToSet(un) /\ n \in 1 .. Len(un)
        BY <1>2, <2>1, <2>2 DEF ToSet
      <4>3. ToSet(SubSeq(un, 1, whole)) = {un[i] : i \in 1 .. whole}
        BY <1>5, HeadSet
      <4>4. x \notin ToSet(SubSeq(un, 1, whole))
        <5>1. \A i \in 1 .. whole : i \in 1 .. Len(un) /\ i # n
          BY <1>2, <3>6
        <5>2. \A i \in 1 .. whole : un[i] # un[n]
          BY <2>1, <4>1, <5>1 DEF OneEach
        <5> QED
          BY <2>2, <4>3, <5>2
      <4>5. ToSet(h) = ToSet(run) \cup ToSet(SubSeq(un, 1, whole))
        <5>1. PICK s : s = SubSeq(un, 1, whole)
          OBVIOUS
        <5>2. s \in Seq(Req)
          BY <1>5, <5>1, HeadSeq
        <5>3. ToSet(run \o s) = ToSet(run) \cup ToSet(s)
          BY <5>2, ToSetConcat
        <5> QED
          BY <3>7, <5>1, <5>3, Zenon
      <4> QED
        BY <4>1, <4>2, <4>4, <4>5
    <3>10. Total(w, h) <= Total(u, h)
      <4>1. \A r \in ToSet(h) : w[r] <= u[r]
        BY <3>5, <3>8, <3>9
      <4>2. \A r \in Req : w[r] \in Int /\ u[r] \in Int
        BY <1>11, <3>3
      <4> QED
        BY <3>8, <4>1, <4>2, TotalLess
    <3>11. Total(w, run \o SubSeq(un, 1, whole + 1)) = Total(w, run \o SubSeq(un, 1, whole)) + w[un[whole + 1]]
      <4>1. \A r \in Req : w[r] \in Nat
        BY <3>3
      <4> QED
        BY <3>6, <4>1, PrefixNext
    <3>12. Total(w, a.running) = Total(w, h) + w[x]
      BY <1>1, <2>2, <3>6, <3>7, <3>11
    <3>13. Total(w, h) \in Int /\ Total(u, h) \in Int
      <4>1. \A r \in Req : w[r] \in Int
        BY <3>3
      <4>2. \A r \in Req : u[r] \in Int
        BY <1>11
      <4> QED
        BY <3>8, <4>1, <4>2, TotalInt
    <3>14. left = tokens - Total(u, h)
      BY <1>6, <3>7
    <3>15. PICK i \in Int, j \in Int, k \in Int, l \in Int : i = Total(w, h) /\ j = Total(u, h) /\ k = w[x] /\ l = left
      BY <1>6, <3>3, <3>13
    <3>16. i + k <= tokens
      <4>1. i <= j /\ k <= l /\ l = tokens - j
        BY <3>4, <3>10, <3>14, <3>15
      <4> QED
        BY <4>1
    <3> QED
      BY <3>2, <3>12, <3>15, <3>16
  <2> QED
    BY <2>6, <2>7, <2>8 DEF Affords, a
<1>13. CASE ~ (chunked /\ left > 0)
  <2>1. a.req = marked /\ marked \in [Req -> Entry]
    BY <1>1, <1>10, <1>11, <1>13
  <2>2. \A r \in Req \ a.checked : a.req[r] = rq[r]
    BY <1>1, <1>11, <2>1
  <2>3. Fits(rq) => Fits(a.req)
    BY <1>11, <2>1 DEF Fits
  <2>4. a.failed \/ a.running = run \/ Total(PromptWeights(a.req), a.running) <= tokens
    <3>1. CASE chunked
      <4>1. left # 0 /\ ~ (left > 0)
        BY <1>c, <1>13, <3>1, Zenon
      <4>2. left < 0
        BY <1>6, <4>1
      <4>3. a.failed = (chunked /\ left < 0)
        BY <1>1
      <4> QED
        BY <3>1, <4>2, <4>3, Zenon
    <3>2. CASE ~ chunked /\ whole = 0
      <4>1. SubSeq(un, 1, 0) = <<>>
        BY SubSeqEmpty
      <4>2. run \o <<>> = run
        BY ConcatEmptySeq
      <4> QED
        BY <1>1, <1>7, <3>2, <4>1, <4>2
    <3>3. CASE ~ chunked /\ whole > 0
      <4>1. PICK w : w = PromptWeights(a.req)
        OBVIOUS
      <4>2. \A r \in Req : w[r] = PromptTokens(marked[r]) /\ w[r] \in Nat
        BY <2>1, <4>1, PromptWeightsNat
      <4>3. PICK h : h = run \o SubSeq(un, 1, whole)
        OBVIOUS
      <4>4. h \in Seq(Req) /\ ToSet(h) \subseteq Req
        <5>1. SubSeq(un, 1, whole) \in Seq(Req)
          BY <1>5, HeadSeq
        <5>2. h \in Seq(Req)
          BY <4>3, <5>1, ConcatProperties
        <5> QED
          BY <5>2, ToSetRange
      <4>5. Total(w, h) <= Total(u, h)
        <5>1. \A r \in ToSet(h) : w[r] <= u[r]
          BY <1>11, <4>2, <4>4
        <5>2. \A r \in Req : w[r] \in Int /\ u[r] \in Int
          BY <1>11, <4>2
        <5> QED
          BY <4>4, <5>1, <5>2, TotalLess
      <4>6. left = tokens - Total(u, h) /\ left >= 0
        BY <1>6, <3>3, <4>3
      <4>7. Total(w, h) \in Int /\ Total(u, h) \in Int
        <5>1. \A r \in Req : w[r] \in Int
          BY <4>2
        <5>2. \A r \in Req : u[r] \in Int
          BY <1>11
        <5> QED
          BY <4>4, <5>1, <5>2, TotalInt
      <4>8. Total(w, h) <= tokens
        <5>1. PICK i \in Int, j \in Int : i = Total(w, h) /\ j = Total(u, h)
          BY <4>7
        <5>2. i <= j /\ left = tokens - j
          BY <4>5, <4>6, <5>1
        <5>3. i <= tokens
          BY <1>6, <4>6, <5>2
        <5> QED
          BY <5>1, <5>3
      <4> QED
        BY <1>1, <1>7, <3>3, <4>1, <4>3, <4>8
    <3> QED
      BY <1>5, <3>1, <3>2, <3>3
  <2> QED
    BY <2>2, <2>3, <2>4 DEF Affords, a
<1> QED
  BY <1>12, <1>13

\* The prompts of the batch of v are within the budget.
InBudget(rq, q, v) == Total(PromptWeights(rq), q.running[v]) <= Budget

\* A batch made of another stays within the budget; who is not looked at stays
\* as it is, and so do the batches of others.
Careful(v, rq, q, a) ==
  /\ \A r \in Req \ a.checked : a.req[r] = rq[r]
  /\ Fits(rq) => Fits(a.req)
  /\ InBudget(rq, q, v) => InBudget(a.req, a.q, v)
  /\ \A w \in Ve \ {v} : a.q.running[w] = q.running[w]

\* Requests that stay as they are weigh as much.
LEMMA WeighSame ==
  ASSUME NEW rq \in [Req -> Entry], NEW rp \in [Req -> Entry], NEW l \in Seq(Req),
         \A r \in ToSet(l) : rp[r] = rq[r]
  PROVE  Total(PromptWeights(rp), l) = Total(PromptWeights(rq), l)
<1>1. PICK v, w : v = PromptWeights(rp) /\ w = PromptWeights(rq)
  OBVIOUS
<1>2. \A r \in Req : /\ v[r] = PromptTokens(rp[r]) /\ v[r] \in Nat
                     /\ w[r] = PromptTokens(rq[r]) /\ w[r] \in Nat
  BY <1>1, PromptWeightsNat
<1>3. \A r \in Req : v[r] \in Int /\ w[r] \in Int
  BY <1>2
<1>4. \A r \in ToSet(l) : v[r] = w[r]
  BY <1>2, ToSetRange
<1>5. Total(v, l) = Total(w, l)
  BY <1>3, <1>4, TotalSame
<1> QED
  BY <1>1, <1>5

LEMMA FillSpends ==
  ASSUME NEW q, NEW at, Lined(q, at), NEW v \in Ve, NEW rq \in [Req -> Entry],
         NEW room \in 0 .. Len(q.short[v] \o q.global)
  PROVE  FillUp(v, rq, q, room).failed \/ Careful(v, rq, q, FillUp(v, rq, q, room))
<1> DEFINE s == q.short[v]
           g == q.global
           u == q.running[v]
           un == s \o g
           a == Admit(TRUE, Fused, rq, u, un, room, MaxBatch, Budget)
           f == FillUp(v, rq, q, room)
           m == Len(s) + Len(g) - Len(a.queue)
<1>1. /\ q \in Queues /\ Good(g, at, InGlobal) /\ Good(s, at, InShort(v))
      /\ Good(u, at, InRunning(v))
  BY DEF Lined
<1>2. /\ s \in Seq(Req) /\ g \in Seq(Req) /\ u \in Seq(Req) /\ OneEach(s) /\ OneEach(g)
      /\ OneEach(u)
  BY <1>1 DEF Good
<1>3. un \in Seq(Req) /\ ToSet(un) = ToSet(s) \cup ToSet(g)
  BY <1>2, ConcatProperties, ToSetConcat
<1>4. ToSet(s) \subseteq Req /\ ToSet(g) \subseteq Req /\ ToSet(u) \subseteq Req
  BY <1>2, ToSetRange
<1>5. /\ \A r \in ToSet(s) : at[r] = InShort(v)
      /\ \A r \in ToSet(g) : at[r] = InGlobal
      /\ \A r \in ToSet(u) : at[r] = InRunning(v)
  BY <1>1, <1>4 DEF Good
<1>6. InGlobal # InShort(v) /\ InGlobal # InRunning(v) /\ InShort(v) # InRunning(v)
  BY NamesApart
<1>7. ToSet(s) \cap ToSet(g) = {} /\ ToSet(u) \cap ToSet(un) = {}
  BY <1>3, <1>5, <1>6
<1>8. OneEach(u \o un)
  <2>1. OneEach(un)
    BY <1>2, <1>7, OneEachConcat
  <2> QED
    BY <1>2, <1>3, <1>7, <2>1, OneEachConcat
<1>9. /\ f.req = a.req /\ f.checked = a.checked /\ f.failed = a.failed
      /\ f.q = [q EXCEPT !.running[v] = a.running, !.short[v] = SubSeq(@, m + 1, Len(s)),
                         !.global = IF m > Len(s) THEN a.queue ELSE @]
  BY DEF FillUp
<1> HIDE DEF f
<1>10. /\ a.checked \subseteq ToSet(un) /\ a.req \in [Req -> Entry] /\ a.running \in Seq(Req)
       /\ Affords(a, rq, u, un, Budget)
  <2>1. Fused \in BOOLEAN /\ room \in 0 .. Len(un)
    BY DEF Fused
  <2>2. MaxBatch \in Int /\ Budget \in Int
    BY LookAheadAssumption
  <2> HIDE DEF un, u
  <2>3. Grants(a, rq, u, un, Fused)
    BY <1>2, <1>3, <2>1, <2>2, Admits
  <2>4. Affords(a, rq, u, un, Budget)
    BY <1>2, <1>3, <2>1, <2>2, AdmitsWithin
  <2> HIDE DEF a
  <2>5. PICK n \in 0 .. Len(un) : /\ a.running = u \o SubSeq(un, 1, n)
                                  /\ a.checked \subseteq ToSet(un)
                                  /\ Checks(a.req, rq, a.checked, Fused)
    BY <2>3 DEF Grants
  <2>6. SubSeq(un, 1, n) \in Seq(Req)
    BY <1>3, HeadSeq
  <2>7. a.running \in Seq(Req)
    BY <1>2, <2>5, <2>6, ConcatProperties
  <2> QED
    BY <2>4, <2>5, <2>7 DEF Checks
<1> HIDE DEF a, un, m
<1>11. f.q.running = [q.running EXCEPT ![v] = a.running]
  <2>1. q.running \in [Ve -> Seq(Req)] /\ q.short \in [Ve -> Seq(Req)]
    BY <1>1 DEF Queues
  <2>2. DOMAIN q = {"global", "short", "long", "running"}
    BY <1>1 DEF Queues
  <2> QED
    BY <1>1, <1>9 DEF Queues
<1>12. /\ f.q.running[v] = a.running
       /\ \A w \in Ve \ {v} : f.q.running[w] = q.running[w]
  <2>1. q.running \in [Ve -> Seq(Req)]
    BY <1>1 DEF Queues
  <2> QED
    BY <1>11, <2>1
<1>13. \A r \in Req \ f.checked : f.req[r] = rq[r]
  BY <1>9, <1>10 DEF Affords
<1>14. Fits(rq) => Fits(f.req)
  BY <1>9, <1>10 DEF Affords
<1>15. ASSUME InBudget(rq, q, v) PROVE f.failed \/ InBudget(f.req, f.q, v)
  <2>1. a.failed \/ a.running = u \/ Total(PromptWeights(a.req), a.running) <= Budget
    BY <1>8, <1>10 DEF Affords
  <2>2. CASE a.failed
    BY <1>9, <2>2
  <2>3. CASE a.running = u
    <3>1. \A r \in ToSet(u) : r \in Req \ a.checked
      BY <1>4, <1>7, <1>10
    <3>2. \A r \in ToSet(u) : a.req[r] = rq[r]
      BY <1>10, <3>1 DEF Affords
    <3>3. Total(PromptWeights(a.req), u) = Total(PromptWeights(rq), u)
      BY <1>2, <1>10, <3>2, WeighSame
    <3> QED
      BY <1>9, <1>12, <1>15, <2>3, <3>3 DEF InBudget
  <2>4. CASE Total(PromptWeights(a.req), a.running) <= Budget
    BY <1>9, <1>12, <2>4 DEF InBudget
  <2> QED
    BY <2>1, <2>2, <2>3, <2>4
<1> QED
  BY <1>12, <1>13, <1>14, <1>15, Zenon DEF Careful, f

\* One long prompt takes no more than what the chunks have left.
LEMMA PackSpends ==
  ASSUME NEW q, NEW at, Lined(q, at), NEW v \in Ve, NEW rq \in [Req -> Entry], Fits(rq),
         NEW free \in Int, NEW mean \in Int, NEW fits \in BOOLEAN,
         Total(PromptWeights(rq), q.running[v]) + Spare(free) <= Budget,
         NEW p, p = PackLong(v, rq, free, mean, q, fits), p.req \in [Req -> Entry]
  PROVE  /\ \A r \in Req \ p.checked : p.req[r] = rq[r]
         /\ Fits(p.req) /\ InBudget(p.req, p.q, v)
         /\ \A w \in Ve \ {v} : p.q.running[w] = q.running[w]
<1> DEFINE r == Head(q.long[v])
           n == LongChunk(free, mean)
           marked == [rq EXCEPT ![r].fusion_exec = Fused]
           m == Marked(rq[r], Fused)
           u == q.running[v]
           stays == ~ fits \/ Len(q.running[v]) >= MaxBatch \/ n <= 0
<1>1. /\ q \in Queues /\ Good(q.long[v], at, InLong(v)) /\ Good(u, at, InRunning(v))
  BY DEF Lined
<1>2. u \in Seq(Req) /\ q.long[v] \in Seq(Req) /\ q.running \in [Ve -> Seq(Req)]
  BY <1>1 DEF Good, Queues
<1>w. PICK w : w = PromptWeights(rq)
  OBVIOUS
<1>3. /\ \A x \in Req : w[x] = PromptTokens(rq[x]) /\ w[x] \in Nat
      /\ \A x \in Req : w[x] \in Int
  BY <1>w, PromptWeightsNat
<1>4. Total(w, u) \in Int /\ Spare(free) \in Nat /\ Budget \in Int
  BY <1>2, <1>3, TotalInt, LookAheadAssumption DEF Spare
<1>5. Total(w, u) + Spare(free) <= Budget /\ Total(w, u) <= Budget
  <2>1. Total(w, u) + Spare(free) <= Budget
    BY <1>w
  <2> HIDE DEF u
  <2> QED
    BY <1>4, <2>1
<1>6. CASE q.long[v] = <<>>
  <2>1. p.req = rq /\ p.q = q
    BY <1>6 DEF PackLong
  <2> QED
    BY <1>w, <1>5, <2>1 DEF InBudget
<1>7. CASE q.long[v] # <<>>
  <2>1. r \in Req /\ r \in ToSet(q.long[v])
    BY <1>2, <1>7, EmptySeq, HeadTailProperties, LenProperties DEF ToSet
  <2>2. /\ p.checked = {r}
        /\ stays => p.req = marked /\ p.q = q
        /\ ~ stays => p.req = [marked EXCEPT ![r] = SetChunk(@, n)] /\ p.q = PopLong(v, q)
    BY <1>7, Zenon DEF PackLong
  <2>3. PICK x \in Req : x = r
    BY <2>1
  <2>4. Fused \in BOOLEAN
    BY DEF Fused
  <2>5. marked = [rq EXCEPT ![r] = m]
    BY DEF Marked
  <2>6. m \in Entry /\ PromptTokens(m) = PromptTokens(rq[r]) /\ (Fit(rq[r]) => Fit(m))
    <3>1. rq[r] \in Entry
      BY <2>1
    <3> HIDE DEF r
    <3> QED
      BY <2>4, <3>1, MarkedEntry, MarkedSpends
  <2>7. n \in Int /\ n <= free
    BY DEF LongChunk, Least
  <2> HIDE DEF r, n, m, marked, stays
  <2>8. x \notin ToSet(u)
    <3>1. at[x] = InLong(v)
      BY <1>1, <2>1, <2>3 DEF Good
    <3> QED
      BY <1>1, <2>3, <3>1, NamesApart DEF Good
  <2>9. CASE stays
    <3>1. p.req = [rq EXCEPT ![x] = m] /\ p.q = q
      BY <2>2, <2>3, <2>5, <2>9
    <3>2. \A y \in Req : p.req[y] = IF y = x THEN m ELSE rq[y]
      BY <3>1
    <3>3. \A y \in ToSet(u) : p.req[y] = rq[y]
      BY <1>2, <2>8, <3>2, ToSetRange
    <3>4. Total(PromptWeights(p.req), u) = Total(PromptWeights(rq), u)
      BY <1>2, <3>3, WeighSame
    <3>5. InBudget(p.req, p.q, v)
      BY <1>w, <1>5, <3>1, <3>4 DEF InBudget
    <3>6. Fits(p.req)
      BY <2>3, <2>6, <3>2 DEF Fits
    <3>7. \A y \in Req \ p.checked : p.req[y] = rq[y]
      BY <2>2, <2>3, <3>2
    <3> QED
      BY <3>1, <3>5, <3>6, <3>7
  <2>10. CASE ~ stays
    <3>1. n \in Nat \ {0}
      BY <2>7, <2>10 DEF stays
    <3>2. PICK c : c = SetChunk(m, n)
      OBVIOUS
    <3>3. Fit(c) /\ PromptTokens(c) <= n
      BY <2>6, <3>1, <3>2, SetSpends
    <3>4. p.req = [rq EXCEPT ![x] = c]
      <4>1. p.req = [marked EXCEPT ![x] = SetChunk(@, n)] /\ marked = [rq EXCEPT ![x] = m]
        BY <2>2, <2>3, <2>5, <2>10
      <4>2. marked[x] = m
        BY <4>1
      <4>3. [marked EXCEPT ![x] = SetChunk(@, n)] = [marked EXCEPT ![x] = c]
        BY <3>2, <4>2
      <4>4. [marked EXCEPT ![x] = c] = [rq EXCEPT ![x] = c]
        BY <4>1
      <4> QED
        BY <4>1, <4>3, <4>4
    <3>5. \A y \in Req : p.req[y] = IF y = x THEN c ELSE rq[y]
      BY <3>4
    <3>6. /\ p.q.running[v] = Append(u, x)
          /\ \A y \in Ve \ {v} : p.q.running[y] = q.running[y]
      <4>1. p.q = [q EXCEPT !.running[v] = Append(@, x), !.long[v] = Tail(@)]
        BY <2>2, <2>3, <2>10 DEF PopLong, r
      <4>2. p.q.running = [q.running EXCEPT ![v] = Append(u, x)]
        BY <1>1, <4>1 DEF Queues
      <4> QED
        BY <1>2, <4>2
    <3>7. PICK z : z = PromptWeights(p.req)
      OBVIOUS
    <3>8. \A y \in Req : z[y] = PromptTokens(p.req[y]) /\ z[y] \in Nat
      BY <3>7, PromptWeightsNat
    <3>9. \A y \in Req : z[y] \in Int
      BY <3>8
    <3>10. Total(z, u) = Total(w, u)
      <4>1. \A y \in ToSet(u) : p.req[y] = rq[y]
        BY <1>2, <2>8, <3>5, ToSetRange
      <4> QED
        BY <1>2, <1>w, <3>7, <4>1, WeighSame
    <3>11. Total(z, Append(u, x)) = Total(z, u) + z[x]
      BY <1>2, <3>9, TotalAppend
    <3>12. z[x] <= Spare(free)
      <4>1. z[x] <= n
        BY <3>3, <3>5, <3>8
      <4>2. n <= Spare(free)
        BY <2>7, <3>1 DEF Spare
      <4> QED
        BY <1>4, <2>7, <3>9, <4>1, <4>2
    <3>13. Total(z, Append(u, x)) <= Budget
      <4>1. PICK i \in Int, j \in Int, k \in Int : i = Total(w, u) /\ j = z[x] /\ k = Spare(free)
        BY <1>4, <3>9
      <4>2. i + j <= Budget
        <5>1. i + k <= Budget /\ j <= k
          BY <1>5, <3>12, <4>1
        <5> QED
          BY <1>4, <5>1
      <4> QED
        BY <3>10, <3>11, <4>1, <4>2
    <3>14. InBudget(p.req, p.q, v)
      BY <3>6, <3>7, <3>13 DEF InBudget
    <3>15. Fits(p.req)
      BY <3>3, <3>5 DEF Fits
    <3>16. \A y \in Req \ p.checked : p.req[y] = rq[y]
      BY <2>2, <2>3, <3>5
    <3> QED
      BY <3>6, <3>14, <3>15, <3>16
  <2> QED
    BY <2>9, <2>10
<1> QED
  BY <1>6, <1>7

\* Filling up after p.
LEMMA FilledSpends ==
  ASSUME NEW q, NEW at, NEW v \in Ve, NEW rq, NEW p, Batched(v, rq, q, at, p),
         NEW a \in FilledUp(v, p)
  PROVE  a.failed \/ (Careful(v, p.req, p.q, a) /\ p.checked \subseteq a.checked)
<1> DEFINE n == Len(p.q.short[v] \o p.q.global)
           low == IF (\A w \in Ve : p.q.running[w] = <<>>) /\ n > 0 THEN 1 ELSE 0
<1>1. PICK room \in low .. n : a = [FillUp(v, p.req, p.q, room) EXCEPT !.checked = @ \cup p.checked]
  BY DEF FilledUp
<1>2. PICK mid : Lined(p.q, mid)
  BY DEF Batched
<1>3. n \in Nat
  <2>1. p.q.short[v] \in Seq(Req) /\ p.q.global \in Seq(Req)
    BY <1>2 DEF Lined, Good
  <2>2. p.q.short[v] \o p.q.global \in Seq(Req)
    BY <2>1, ConcatProperties
  <2> QED
    BY <2>2, LenProperties
<1>4. room \in 0 .. Len(p.q.short[v] \o p.q.global)
  <2>1. low \in {0, 1} /\ room \in low .. n
    BY <1>1
  <2> HIDE DEF low, n
  <2>2. room \in 0 .. n
    BY <1>3, <2>1
  <2> QED
    BY <2>2 DEF n
<1>5. p.req \in [Req -> Entry]
  BY DEF Batched, Checks
<1> DEFINE f == FillUp(v, p.req, p.q, room)
<1>6. f.failed \/ Careful(v, p.req, p.q, f)
  BY <1>2, <1>4, <1>5, FillSpends
<1>7. a.req = f.req /\ a.q = f.q /\ a.failed = f.failed /\ a.checked = f.checked \cup p.checked
  BY <1>1 DEF FillUp
<1> HIDE DEF f
<1>8. ASSUME Careful(v, p.req, p.q, f) PROVE Careful(v, p.req, p.q, a)
  BY <1>7, <1>8 DEF Careful, InBudget
<1> QED
  BY <1>6, <1>7, <1>8

\* What a plan for v does to the records and to the tokens of its batch.
Thrifty(v, rq, q, a) ==
  /\ Fits(a.req) /\ InBudget(a.req, a.q, v)
  /\ \A r \in Req \ a.checked : r \notin ToSet(q.running[v]) => a.req[r] = rq[r]
  /\ \A w \in Ve \ {v} : a.q.running[w] = q.running[w]

\* schedule_prefill.
LEMMA PrefillSpends ==
  ASSUME NEW q, NEW at, Lined(q, at), NEW v \in Ve, NEW rq \in [Req -> Entry],
         Fits(rq), InBudget(rq, q, v), NEW a \in SchedulePrefill(v, rq, q), ~ a.failed
  PROVE  Thrifty(v, rq, q, a)
<1> DEFINE next == NextChunks(rq, q.running[v], Budget)
           p == [req |-> next.req, q |-> q, checked |-> {}]
<1>1. q.running[v] \in Seq(Req) /\ OneEach(q.running[v]) /\ Budget \in Int
  BY LookAheadAssumption DEF Lined, Good
<1>2. Total(PromptWeights(rq), q.running[v]) <= Budget
  BY DEF InBudget
<1>3. /\ next.req \in [Req -> Entry] /\ Fits(next.req) /\ next.free \in Int
      /\ \A r \in Req \ ToSet(q.running[v]) : next.req[r] = rq[r]
      /\ Total(PromptWeights(next.req), q.running[v]) + Spare(next.free) <= Budget
  BY <1>1, <1>2, NextWithin
<1>4. a \in FilledUp(v, p)
  BY DEF SchedulePrefill
<1> HIDE DEF next
<1>5. InBudget(next.req, q, v)
  <2>1. \A r \in Req : PromptWeights(next.req)[r] \in Int
    BY <1>3, PromptWeightsNat
  <2>2. Total(PromptWeights(next.req), q.running[v]) \in Int
    BY <1>1, <2>1, TotalInt
  <2>3. Spare(next.free) \in Nat
    BY <1>3 DEF Spare
  <2> QED
    BY <1>1, <1>3, <2>2, <2>3 DEF InBudget
<1>6. PICK C \in SUBSET Req : C = {}
  OBVIOUS
<1>7. p.req = next.req /\ p.q = q /\ p.checked = C
  BY <1>6
<1> HIDE DEF p
<1>8. Batched(v, next.req, q, at, p)
  <2>1. Checks(next.req, next.req, C, Fused)
    BY <1>3, <1>6, CheckedNone
  <2>2. Took(v, C, at, at)
    BY <1>6, TookNone
  <2> QED
    BY <1>7, <2>1, <2>2 DEF Batched
<1>9. Careful(v, next.req, q, a)
  BY <1>4, <1>7, <1>8, FilledSpends
<1> QED
  BY <1>3, <1>5, <1>9 DEF Careful, Thrifty

\* schedule_packed_prefill.
LEMMA PackedSpends ==
  ASSUME NEW q, NEW at, Lined(q, at), NEW v \in Ve, NEW rq \in [Req -> Entry],
         Fits(rq), InBudget(rq, q, v), NEW a \in SchedulePackedPrefill(v, rq, q), ~ a.failed
  PROVE  Thrifty(v, rq, q, a)
<1> DEFINE next == NextChunks(rq, q.running[v], Budget)
           mean == MeanInputLen(v, rq, q)
<1>1. q \in Queues /\ q.running[v] \in Seq(Req) /\ OneEach(q.running[v]) /\ Budget \in Int
  BY LookAheadAssumption DEF Lined, Good
<1>2. Total(PromptWeights(rq), q.running[v]) <= Budget
  BY DEF InBudget
<1>3. /\ next.req \in [Req -> Entry] /\ Fits(next.req) /\ next.free \in Int
      /\ \A r \in Req \ ToSet(q.running[v]) : next.req[r] = rq[r]
      /\ Total(PromptWeights(next.req), q.running[v]) + Spare(next.free) <= Budget
  BY <1>1, <1>2, NextWithin
<1>4. mean \in Int
  BY <1>1, MeanInt
<1>5. PICK fits \in BOOLEAN : a \in FilledUp(v, PackLong(v, next.req, next.free, mean, q, fits))
  BY DEF SchedulePackedPrefill
<1> HIDE DEF next, mean
<1>6. PICK p : p = PackLong(v, next.req, next.free, mean, q, fits)
  OBVIOUS
<1>7. Batched(v, next.req, q, at, p) /\ a \in FilledUp(v, p)
  BY <1>3, <1>4, <1>5, <1>6, LongPacked
<1>8. p.req \in [Req -> Entry]
  BY <1>7 DEF Batched, Checks
<1>9. /\ \A r \in Req \ p.checked : p.req[r] = next.req[r]
      /\ Fits(p.req) /\ InBudget(p.req, p.q, v)
      /\ \A w \in Ve \ {v} : p.q.running[w] = q.running[w]
  BY <1>3, <1>4, <1>6, <1>8, PackSpends
<1>10. Careful(v, p.req, p.q, a) /\ p.checked \subseteq a.checked
  BY <1>7, FilledSpends
<1> QED
  BY <1>3, <1>9, <1>10 DEF Careful, Thrifty

\* The plan of v.
LEMMA PlanSpends ==
  ASSUME NEW q, NEW at, Lined(q, at), NEW v \in Ve, NEW rq \in [Req -> Entry],
         Fits(rq), InBudget(rq, q, v), NEW a \in Plans(v, rq, q), ~ a.failed
  PROVE  Thrifty(v, rq, q, a)
<1>1. a \in SchedulePackedPrefill(v, rq, q) \/ a \in SchedulePrefill(v, rq, q)
  BY DEF Plans
<1> QED
  BY <1>1, PackedSpends, PrefillSpends

\* Only decodes come to a batch when decodes are balanced.
LEMMA DecodesArrive ==
  ASSUME NEW run \in [Ve -> Seq(Req)], \A w \in Ve : OneEach(run[w]),
         NEW v \in Ve, NEW rq \in [Req -> Entry],
         NEW w \in Ve, NEW r \in ToSet(BalanceDecode(v, rq, run)[w])
  PROVE  r \in ToSet(run[w]) \/ ~ Context(rq[r])
<1> DEFINE decodes == [x \in Ve |-> Decodes(rq, run[x])]
           load    == [x \in Ve |-> Len(decodes[x])]
           least   == LeastBusy(load)
           d       == Decodes(rq, run[v])
           p       == Prefills(rq, run[v])
           n       == (load[v] - load[least]) \div 2
           head    == SubSeq(d, 1, n)
           rest    == p \o SubSeq(d, n + 1, load[v])
           kept    == [run EXCEPT ![v] = rest]
           new     == [kept EXCEPT ![least] = @ \o head]
<1>1. BalanceDecode(v, rq, run) = IF Busiest(load) # v THEN run ELSE new
  BY DEF BalanceDecode
<1>2. CASE Busiest(load) # v
  BY <1>1, <1>2
<1>3. CASE Busiest(load) = v
  <2>1. \A x \in Ve : Decodes(rq, run[x]) \in Seq(Req) /\ load[x] = Len(Decodes(rq, run[x]))
    BY Kinds
  <2>2. \A x \in Ve : load[x] \in Nat
    BY <2>1, LenProperties
  <2>3. least \in Ve /\ load[least] <= load[v]
    <3> HIDE DEF load
    <3>1. \A x \in Ve : load[x] \in Int
      BY <2>2
    <3>2. LeastBusy(load) \in Ve /\ \A x \in Ve : load[LeastBusy(load)] <= load[x]
      BY <3>1, Extremes
    <3> QED
      BY <3>2
  <2>4. d \in Seq(Req) /\ load[v] = Len(d)
    BY <2>1
  <2>5. r \in ToSet(new[w])
    BY <1>1, <1>3
  <2> HIDE DEF load, least
  <2>6. n \in 0 .. Len(d)
    BY <2>2, <2>3, <2>4, HalfOf
  <2> HIDE DEF n
  <2>7. /\ p \in Seq(Req) /\ OneEach(p) /\ OneEach(d) /\ ToSet(p) \cap ToSet(d) = {}
        /\ ToSet(p) \cup ToSet(d) = ToSet(run[v])
    BY Kinds
  <2>8. \A x \in ToSet(d) : ~ Context(rq[x])
    <3>1. ToSet(Those(run[v], {x \in Req : ~ Context(rq[x])}))
            = ToSet(run[v]) \cap {x \in Req : ~ Context(rq[x])}
      BY ThoseKept
    <3>2. d = Those(run[v], {x \in Req : ~ Context(rq[x])})
      BY DEF Decodes
    <3> QED
      BY <3>1, <3>2
  <2> HIDE DEF d, p
  <2>9. rest = p \o SubSeq(d, n + 1, Len(d))
    BY <2>4
  <2>10. /\ head \in Seq(Req) /\ rest \in Seq(Req) /\ ToSet(head) \subseteq ToSet(d)
         /\ ToSet(rest) \subseteq ToSet(run[v])
    BY <2>4, <2>6, <2>7, <2>9, Halves
  <2> HIDE DEF head, rest
  <2>11. \A x \in Ve : kept[x] = IF x = v THEN rest ELSE run[x]
    BY <2>10
  <2>12. kept[w] \in Seq(Req) /\ ToSet(kept[w]) \subseteq ToSet(run[w]) /\ DOMAIN kept = Ve
    BY <2>10, <2>11
  <2> HIDE DEF kept
  <2>13. new[w] = IF w = least THEN kept[w] \o head ELSE kept[w]
    BY <2>12
  <2> HIDE DEF new
  <2>14. ToSet(new[w]) \subseteq ToSet(kept[w]) \cup ToSet(head)
    <3>1. ToSet(kept[w] \o head) = ToSet(kept[w]) \cup ToSet(head)
      BY <2>10, <2>12, ToSetConcat
    <3> QED
      BY <2>13, <3>1
  <2> QED
    BY <2>5, <2>8, <2>10, <2>12, <2>14
<1> QED
  BY <1>2, <1>3

\* The batches have no more tokens of prompts after balance_prefill.
LEMMA BalanceSpends ==
  ASSUME NEW q, NEW at, Lined(q, at), NEW v \in Ve, NEW rq \in [Req -> Entry],
         NEW w \in Ve, InBudget(rq, q, w), NEW mid, Lined(BalancePrefill(v, rq, q), mid)
  PROVE  InBudget(rq, BalancePrefill(v, rq, q), w)
<1> DEFINE b == BalancePrefill(v, rq, q)
<1>1. q \in Queues /\ q.running \in [Ve -> Seq(Req)] /\ \A x \in Ve : OneEach(q.running[x])
  BY DEF Lined, Good, Queues
<1>2. b.running = IF bench.decode_balance THEN BalanceDecode(v, rq, q.running) ELSE q.running
  <2> DEFINE run == IF bench.decode_balance THEN BalanceDecode(v, rq, q.running) ELSE q.running
             q0 == [q EXCEPT !.running = run]
             p  == Place(rq, q0)
             k  == Reordered(rq, \A x \in Ve : q.short[x] = <<>>, p.short)
  <2>1. b = IF q.global = <<>> THEN q0 ELSE Lines(<<>>, k, p.long, run)
    BY Zenon DEF BalancePrefill, Lines
  <2> HIDE DEF b, run, k
  <2>2. q0.running = run
    BY <1>1 DEF Queues
  <2> HIDE DEF q0
  <2>3. Lines(<<>>, k, p.long, run).running = run
    BY DEF Lines
  <2>4. b.running = run
    BY <2>1, <2>2, <2>3, Zenon
  <2> QED
    BY <2>4 DEF run
<1>3. b.running[w] \in Seq(Req) /\ OneEach(b.running[w])
  BY DEF Lined, Good
<1> HIDE DEF b
<1>4. \A r \in ToSet(b.running[w]) : r \in ToSet(q.running[w]) \/ ~ Context(rq[r])
  BY <1>1, <1>2, DecodesArrive
<1>5. PICK z : z = PromptWeights(rq)
  OBVIOUS
<1>6. \A r \in Req : z[r] = PromptTokens(rq[r]) /\ z[r] \in Nat
  BY <1>5, PromptWeightsNat
<1>7. \A r \in ToSet(b.running[w]) : z[r] = 0 \/ (r \in ToSet(q.running[w]) /\ z[r] <= z[r])
  <2>1. ToSet(b.running[w]) \subseteq Req
    BY <1>3, ToSetRange
  <2> QED
    BY <1>4, <1>6, <2>1 DEF PromptTokens
<1>8. Total(z, b.running[w]) <= Total(z, q.running[w])
  <2>1. q.running[w] \in Seq(Req)
    BY <1>1
  <2>2. \A r \in Req : z[r] \in Nat /\ z[r] \in Nat
    BY <1>6
  <2> QED
    BY <1>3, <1>7, <2>1, <2>2, TotalWithin
<1>9. Total(z, b.running[w]) \in Int /\ Total(z, q.running[w]) \in Int
  <2>1. \A r \in Req : z[r] \in Int
    BY <1>6
  <2>2. q.running[w] \in Seq(Req)
    BY <1>1
  <2> QED
    BY <1>3, <2>1, <2>2, TotalInt
<1>10. Total(z, q.running[w]) <= Budget
  BY <1>5 DEF InBudget
<1>11. Total(z, b.running[w]) <= Budget
  BY <1>8, <1>9, <1>10, LookAheadAssumption
<1> QED
  BY <1>5, <1>11 DEF InBudget, b

\* What a plan does after balance_prefill.
LEMMA PlannedSpends ==
  ASSUME NEW q, NEW at, Lined(q, at), NEW v \in Ve, NEW rq \in [Req -> Entry],
         pending \in [Ve -> Int], Fits(rq), \A w \in Ve : InBudget(rq, q, w),
         NEW a \in Plans(v, rq, Replaced(v, rq, q)), ~ a.failed
  PROVE  /\ Fits(a.req) /\ \A w \in Ve : InBudget(a.req, a.q, w)
         /\ \A r \in Req : \A w \in Ve : w # v /\ at[r] = InRunning(w) => a.req[r] = rq[r]
<1>1. PICK q2 : q2 = Replaced(v, rq, q)
  OBVIOUS
<1>2. PICK mid : Lined(q2, mid) /\ Shift(v, at, mid)
  <2>1. CASE Balanced
    <3>1. q2 = BalancePrefill(v, rq, q)
      BY <1>1, <2>1 DEF Replaced
    <3> QED
      BY <3>1, PrefillBalanced
  <2>2. CASE ~ Balanced
    <3>1. q2 = q
      BY <1>1, <2>2 DEF Replaced
    <3>2. Shift(v, at, at)
      BY DEF Shift
    <3> QED
      BY <3>1, <3>2
  <2> QED
    BY <2>1, <2>2
<1>3. \A w \in Ve : InBudget(rq, q2, w)
  <2>1. CASE Balanced
    <3>1. q2 = BalancePrefill(v, rq, q)
      BY <1>1, <2>1 DEF Replaced
    <3> QED
      BY <1>2, <3>1, BalanceSpends
  <2>2. CASE ~ Balanced
    BY <1>1, <2>2 DEF Replaced
  <2> QED
    BY <2>1, <2>2
<1>4. Thrifty(v, rq, q2, a)
  BY <1>1, <1>2, <1>3, PlanSpends
<1>5. Batched(v, rq, q2, mid, a)
  <2>1. a \in SchedulePackedPrefill(v, rq, q2) \/ a \in SchedulePrefill(v, rq, q2)
    BY <1>1 DEF Plans
  <2> QED
    BY <1>2, <2>1, PackedScheduled, PrefillScheduled
<1>6. PICK to : Took(v, a.checked, mid, to)
  BY <1>5 DEF Batched
<1>7. a.req \in [Req -> Entry]
  BY <1>5 DEF Batched, Checks
<1>8. ASSUME NEW r \in Req, NEW w \in Ve, w # v, mid[r] = InRunning(w) PROVE a.req[r] = rq[r]
  <2>1. r \notin a.checked
    BY <1>6, <1>8 DEF Took
  <2>2. r \notin ToSet(q2.running[v])
    <3>1. Good(q2.running[v], mid, InRunning(v))
      BY <1>2 DEF Lined
    <3>2. mid[r] # InRunning(v)
      BY <1>8, NamesApart
    <3> QED
      BY <3>1, <3>2 DEF Good
  <2> QED
    BY <1>4, <2>1, <2>2 DEF Thrifty
<1>9. \A r \in Req : \A w \in Ve : w # v /\ at[r] = InRunning(w) => a.req[r] = rq[r]
  BY <1>2, <1>8 DEF Shift
<1>10. ASSUME NEW w \in Ve PROVE InBudget(a.req, a.q, w)
  <2>1. CASE w = v
    BY <1>4, <2>1 DEF Thrifty
  <2>2. CASE w # v
    <3>1. a.q.running[w] = q2.running[w]
      BY <1>4, <2>2 DEF Thrifty
    <3>2. Good(q2.running[w], mid, InRunning(w))
      BY <1>2 DEF Lined
    <3>3. q2.running[w] \in Seq(Req) /\ \A r \in ToSet(q2.running[w]) : r \in Req
      BY <3>2, ToSetRange DEF Good
    <3>4. \A r \in ToSet(q2.running[w]) : a.req[r] = rq[r]
      BY <1>8, <2>2, <3>2, <3>3 DEF Good
    <3>5. Total(PromptWeights(a.req), q2.running[w]) = Total(PromptWeights(rq), q2.running[w])
      BY <1>7, <3>3, <3>4, WeighSame
    <3> QED
      BY <1>3, <3>1, <3>5 DEF InBudget
  <2> QED
    BY <2>1, <2>2
<1> QED
  BY <1>4, <1>9, <1>10 DEF Thrifty

\* The records that are left fit, and weigh what they did.
LEMMA ClearedFit ==
  ASSUME NEW rq \in [Req -> Entry], Fits(rq), NEW gone \in SUBSET Req, NEW done \in SUBSET Req,
         gone \cap done = {}
  PROVE  Fits(Cleared(rq, gone, done))
<1> DEFINE c == Cleared(rq, gone, done)
<1>1. \A r \in Req : /\ r \in gone => c[r] = Recomputed(rq[r])
                     /\ r \in done => c[r] = Done(r)
                     /\ r \notin gone /\ r \notin done => c[r] = rq[r]
  BY DEF Cleared
<1> HIDE DEF c
<1>2. ASSUME NEW r \in Req PROVE Fit(c[r])
  <2>1. Fit(Recomputed(rq[r]))
    BY WholeFit
  <2>2. Fit(Done(r))
    <3>1. 0 \in Nat
      OBVIOUS
    <3> QED
      BY <3>1, WholeFit
  <2>3. Fit(rq[r])
    BY DEF Fits
  <2> QED
    BY <1>1, <2>1, <2>2, <2>3
<1> QED
  BY <1>2 DEF Fits, c

\* Batches within the budget before the next batch of v are within it afterwards.
LEMMA BatchSpends ==
  ASSUME NEW at, Lined(Now, at), NEW v \in Ve, NEW rq \in [Req -> Entry], NEW ranks,
         pending \in [Ve -> Int], Fits(rq), \A w \in Ve : InBudget(rq, Now, w),
         GetNextBatch(v, rq, ranks)
  PROVE  /\ Fits(req') /\ \A w \in Ve : Total(PromptWeights(req'), running'[w]) <= Budget
         /\ \A r \in Req : \A w \in Ve : w # v /\ at[r] = InRunning(w) => req'[r] = rq[r]
<1> DEFINE done == Leaves(v, rq)
           live == Live(v, rq)
<1>1. PICK gone, a : Cleans(v, at, rq, ranks, gone, done, live, a)
  BY BatchCleaned
<1> HIDE DEF done, live
<1> DEFINE q1 == Queued(v, live, gone)
           on == Left(at, done, gone, v)
           rq1 == Cleared(rq, gone, done)
<1>2. /\ done \in SUBSET Req /\ gone \in SUBSET Req /\ gone \cap done = {}
      /\ \A r \in done \cup gone : at[r] = InRunning(v)
      /\ Lined(q1, on) /\ a \in Plans(v, rq1, Replaced(v, rq1, q1))
      /\ Assigned(v, a, gone, done, ranks)
  BY <1>1 DEF Cleans
<1>3. Parted(at, on, done, gone)
  BY <1>2, LeftWhere
<1>4. /\ rq1 \in [Req -> Entry]
      /\ \A r \in Req : r \notin gone /\ r \notin done => rq1[r] = rq[r]
  <2>1. done \in SUBSET Req /\ gone \in SUBSET Req /\ gone \cap done = {}
    BY <1>2, Zenon
  <2>2. /\ rq1 \in [Req -> Entry]
        /\ \A r \in Req : LET n == rq1[r]
                          IN  /\ r \in done => n.is_finished
                              /\ rq[r].is_finished => n.is_finished
                              /\ r \notin gone /\ r \notin done => n = rq[r]
    BY <2>1, ClearedEntries
  <2> HIDE DEF rq1
  <2>3. ASSUME NEW r \in Req, r \notin gone, r \notin done PROVE rq1[r] = rq[r]
    BY <2>2, <2>3, Zenon
  <2>4. rq1 \in [Req -> Entry]
    BY <2>2, Zenon
  <2> QED
    BY <2>3, <2>4
<1>5. Fits(rq1)
  BY <1>2, ClearedFit
<1> HIDE DEF q1, on, rq1
<1>6. ASSUME NEW w \in Ve PROVE InBudget(rq1, q1, w)
  <2>1. /\ Good(q1.running[w], on, InRunning(w)) /\ Good(Now.running[w], at, InRunning(w))
    BY <1>2 DEF Lined
  <2>2. /\ q1.running[w] \in Seq(Req) /\ OneEach(q1.running[w]) /\ Now.running[w] \in Seq(Req)
        /\ ToSet(q1.running[w]) \subseteq Req
    BY <2>1, ToSetRange DEF Good
  <2>3. \A r \in ToSet(q1.running[w]) : r \in ToSet(Now.running[w]) /\ rq1[r] = rq[r]
    <3> SUFFICES ASSUME NEW r \in ToSet(q1.running[w])
                 PROVE  r \in ToSet(Now.running[w]) /\ rq1[r] = rq[r]
      OBVIOUS
    <3>1. r \in Req /\ on[r] = InRunning(w)
      BY <2>1, <2>2 DEF Good
    <3>2. at[r] = InRunning(w) /\ r \notin done /\ r \notin gone
      BY <1>3, <3>1 DEF Parted
    <3> QED
      BY <1>4, <2>1, <3>1, <3>2 DEF Good
  <2>4. PICK y, z : y = PromptWeights(rq1) /\ z = PromptWeights(rq)
    OBVIOUS
  <2>5. \A r \in Req : /\ y[r] = PromptTokens(rq1[r]) /\ y[r] \in Nat
                       /\ z[r] = PromptTokens(rq[r]) /\ z[r] \in Nat
    BY <1>4, <2>4, PromptWeightsNat
  <2>6. \A r \in ToSet(q1.running[w]) : y[r] = 0 \/ (r \in ToSet(Now.running[w]) /\ y[r] <= z[r])
    BY <2>2, <2>3, <2>5
  <2>7. Total(y, q1.running[w]) <= Total(z, Now.running[w])
    <3>1. \A r \in Req : y[r] \in Nat /\ z[r] \in Nat
      BY <2>5
    <3> QED
      BY <2>2, <2>6, <3>1, TotalWithin
  <2>8. Total(y, q1.running[w]) \in Int /\ Total(z, Now.running[w]) \in Int
    <3>1. \A r \in Req : y[r] \in Int
      BY <2>5
    <3>2. \A r \in Req : z[r] \in Int
      BY <2>5
    <3> QED
      BY <2>2, <3>1, <3>2, TotalInt
  <2>9. Total(z, Now.running[w]) <= Budget
    BY <2>4 DEF InBudget
  <2>10. Total(y, q1.running[w]) <= Budget
    BY <2>7, <2>8, <2>9, LookAheadAssumption
  <2> QED
    BY <2>4, <2>10 DEF InBudget
<1>7. /\ ~ a.failed /\ req' = a.req /\ running' = a.q.running
  BY <1>2 DEF Assigned
<1>8. /\ Fits(a.req) /\ \A w \in Ve : InBudget(a.req, a.q, w)
      /\ \A r \in Req : \A w \in Ve : w # v /\ on[r] = InRunning(w) => a.req[r] = rq1[r]
  BY <1>2, <1>4, <1>5, <1>6, <1>7, PlannedSpends
<1>9. ASSUME NEW r \in Req, NEW w \in Ve, w # v, at[r] = InRunning(w) PROVE req'[r] = rq[r]
  <2>1. r \notin done \cup gone
    BY <1>2, <1>9, NamesApart
  <2>2. on[r] = InRunning(w)
    BY <1>3, <1>9, <2>1 DEF Parted
  <2> QED
    BY <1>4, <1>7, <1>8, <1>9, <2>1, <2>2
<1>10. \A w \in Ve : Total(PromptWeights(req'), running'[w]) <= Budget
  BY <1>7, <1>8 DEF InBudget
<1> QED
  BY <1>7, <1>8, <1>9, <1>10

\* The tokens of requests that stay as they are.
LEMMA TokensSame ==
  ASSUME NEW rq \in [Req -> Entry], NEW rp \in [Req -> Entry], NEW l \in Seq(Req),
         \A r \in ToSet(l) : rp[r] = rq[r]
  PROVE  TokensOf(rp, l) = TokensOf(rq, l)
<1>1. PICK y : Weighs(y, rp, Req) /\ \A r \in Req : y[r] = InputTokens(rp[r])
  BY InputsWeigh
<1>2. PICK z : Weighs(z, rq, Req) /\ \A r \in Req : z[r] = InputTokens(rq[r])
  BY InputsWeigh
<1>3. \A r \in Req : y[r] \in Int /\ z[r] \in Int
  BY <1>1, <1>2, EntryTokens
<1>4. \A r \in ToSet(l) : y[r] = z[r]
  BY <1>1, <1>2, ToSetRange
<1>5. Total(y, l) = Total(z, l)
  BY <1>3, <1>4, TotalSame
<1> QED
  BY <1>1, <1>2, <1>5 DEF Weighs

\* A batch has every request at most once.
LEMMA BatchSize ==
  ASSUME NEW q \in Seq(Req), OneEach(q)
  PROVE  Len(q) <= N
<1>1. N \in Nat
  BY LookAheadAssumption
<1>2. PICK n : n = N
  OBVIOUS
<1>3. 1 \in Int /\ n \in Int /\ (IF 1 > n THEN 0 ELSE n - 1 + 1) = n
  BY <1>1, <1>2
<1>4. IsFiniteSet(1 .. n) /\ Cardinality(1 .. n) = n
  BY <1>3, FS_Interval
<1>5. PICK l \in Nat : l = Len(q)
  BY LenProperties
<1>6. 1 \in Int /\ l \in Int /\ (IF 1 > l THEN 0 ELSE l - 1 + 1) = l
  BY <1>5
<1>7. IsFiniteSet(1 .. l) /\ Cardinality(1 .. l) = l
  BY <1>6, FS_Interval
<1>8. q \in [1 .. l -> Req]
  BY <1>5, LenProperties
<1>9. q \in Injection(1 .. l, Req)
  BY <1>5, <1>8 DEF OneEach, Injection, IsInjective
<1>10. Req = 1 .. n
  BY <1>2 DEF Req
<1>11. Cardinality(1 .. l) <= Cardinality(Req)
  BY <1>4, <1>9, <1>10, FS_Injection, Zenon
<1> QED
  BY <1>2, <1>4, <1>5, <1>7, <1>10, <1>11

\* A batch that is scheduled is made of prompts, or of decodes.
LEMMA ScheduledWithin ==
  ASSUME N <= Budget, req \in [Req -> Entry], NEW v \in Ve,
         running[v] \in Seq(Req), OneEach(running[v]),
         Total(PromptWeights(req), running[v]) <= Budget
  PROVE  TokensOf(req, Scheduled(v)) <= Budget
<1> DEFINE b == Scheduled(v)
           some == \E r \in ToSet(running[v]) : Context(req[r])
<1>1. PICK z : Weighs(z, req, Req) /\ \A r \in Req : z[r] = InputTokens(req[r])
  BY InputsWeigh
<1>2. TokensOf(req, b) = Total(z, b) /\ \A r \in Req : z[r] \in Nat /\ z[r] \in Int
  BY <1>1, EntryTokens DEF Weighs
<1>3. PICK C, S : /\ C = {r \in Req : Context(req[r])}
                  /\ b = Those(IF some THEN Those(running[v], C) ELSE running[v], S)
  BY Zenon DEF Scheduled, ToRun, Prefills
<1> HIDE DEF b
<1>4. CASE some
  <2>1. PICK l : l = Those(running[v], C)
    OBVIOUS
  <2>2. l \in Seq(Req) /\ OneEach(l) /\ ToSet(l) = ToSet(running[v]) \cap C
    BY <2>1, ThoseKept, OneEachThose
  <2>3. b = Those(l, S)
    BY <1>3, <1>4, <2>1
  <2>4. b \in Seq(Req) /\ OneEach(b) /\ ToSet(b) \subseteq ToSet(l)
    BY <2>2, <2>3, ThoseKept, OneEachThose
  <2>5. PICK y : y = PromptWeights(req)
    OBVIOUS
  <2>6. \A r \in Req : y[r] = PromptTokens(req[r]) /\ y[r] \in Nat
    BY <2>5, PromptWeightsNat
  <2>7. \A r \in ToSet(b) : z[r] = 0 \/ (r \in ToSet(running[v]) /\ z[r] <= y[r])
    <3> SUFFICES ASSUME NEW r \in ToSet(b) PROVE r \in ToSet(running[v]) /\ z[r] <= y[r]
      OBVIOUS
    <3>1. r \in ToSet(running[v]) /\ r \in Req /\ Context(req[r])
      BY <1>3, <2>2, <2>4
    <3>2. z[r] = y[r]
      BY <1>1, <2>6, <3>1 DEF PromptTokens
    <3> QED
      BY <1>2, <3>1, <3>2
  <2>8. Total(z, b) <= Total(y, running[v])
    <3>1. \A r \in Req : z[r] \in Nat /\ y[r] \in Nat
      BY <1>2, <2>6
    <3> QED
      BY <2>4, <2>7, <3>1, TotalWithin
  <2>9. Total(z, b) \in Int /\ Total(y, running[v]) \in Int
    <3>1. \A r \in Req : z[r] \in Int
      BY <1>2
    <3>2. \A r \in Req : y[r] \in Int
      BY <2>6
    <3> QED
      BY <2>4, <3>1, <3>2, TotalInt
  <2>10. Total(y, running[v]) <= Budget
    BY <2>5
  <2>11. Total(z, b) <= Budget
    BY <2>8, <2>9, <2>10, LookAheadAssumption
  <2> QED
    BY <1>2, <2>11 DEF b
<1>5. CASE ~ some
  <2>1. b = Those(running[v], S)
    BY <1>3, <1>5
  <2>2. b \in Seq(Req) /\ OneEach(b) /\ ToSet(b) \subseteq ToSet(running[v])
    BY <2>1, ThoseKept, OneEachThose
  <2>3. \A r \in ToSet(b) : z[r] = 1
    <3> SUFFICES ASSUME NEW r \in ToSet(b) PROVE z[r] = 1
      OBVIOUS
    <3>1. r \in Req /\ ~ Context(req[r])
      BY <1>5, <2>2, ToSetRange
    <3> QED
      BY <1>1, <3>1 DEF InputTokens
  <2>4. Total(z, b) = Len(b)
    <3>1. \A r \in Req : z[r] \in Int
      BY <1>2
    <3> QED
      BY <2>2, <2>3, <3>1, TotalOnes
  <2>5. Len(b) <= N
    BY <2>2, BatchSize
  <2>6. Len(b) \in Int /\ N \in Int /\ Budget \in Int
    BY <2>2, LenProperties, LookAheadAssumption
  <2>7. Total(z, b) <= Budget
    BY <2>4, <2>5, <2>6
  <2> QED
    BY <1>2, <2>7 DEF b
<1> QED
  BY <1>4, <1>5

\* What a step has computed costs no more than before.
LEMMA EndedSpends ==
  ASSUME NEW v, NEW home, req \in [Req -> Entry], Fits(req)
  PROVE  /\ Fits(Ended(v, home))
         /\ \A r \in Req : PromptTokens(Ended(v, home)[r]) <= PromptTokens(req[r])
<1>1. ASSUME NEW r \in Req, r \in InFlight(v)
      PROVE  Fit(Ended(v, home)[r]) /\ PromptTokens(Ended(v, home)[r]) <= PromptTokens(req[r])
  <2> DEFINE c == Computed(req[r], MaxTokens(req[r]))
  <2>1. c \in Entry /\ Fit(c) /\ PromptTokens(c) <= PromptTokens(req[r])
    BY ComputedEntry, ComputedSpends DEF Fits
  <2>2. Ended(v, home)[r] = [c EXCEPT !.fusion_exec = @ /\ r \notin home]
    BY <1>1 DEF Ended
  <2> HIDE DEF c
  <2>3. PICK b \in BOOLEAN : b = (c.fusion_exec /\ r \notin home)
    OBVIOUS
  <2>4. Ended(v, home)[r] = Marked(c, b)
    BY <2>2, <2>3 DEF Marked
  <2>5. PromptTokens(Marked(c, b)) = PromptTokens(c) /\ (Fit(c) => Fit(Marked(c, b)))
    BY <2>1, MarkedSpends
  <2> QED
    BY <2>1, <2>4, <2>5
<1>2. ASSUME NEW r \in Req, r \notin InFlight(v)
      PROVE  Fit(Ended(v, home)[r]) /\ PromptTokens(Ended(v, home)[r]) <= PromptTokens(req[r])
  <2>1. Ended(v, home)[r] = req[r]
    BY <1>2 DEF Ended
  <2>2. PromptTokens(req[r]) \in Nat
    BY PromptsNat
  <2> QED
    BY <2>1, <2>2 DEF Fits
<1> QED
  BY <1>1, <1>2 DEF Fits

\* The inductive invariant: the prompts of every batch are within the budget, so
\* that what is next scheduled is, and so is what is at the workers.
BudgetInv ==
  /\ Fits(req)
  /\ \A v \in Ve : Total(PromptWeights(req), running[v]) <= Budget
  /\ BudgetKept

\* The batches and their requests.
LEMMA NowRunning ==
  ASSUME NEW at, Where(at)
  PROVE  /\ Now.running = running
         /\ \A v \in Ve : /\ running[v] \in Seq(Req) /\ OneEach(running[v])
                          /\ ToSet(running[v]) \subseteq Req
                          /\ \A r \in ToSet(running[v]) : at[r] = InRunning(v)
<1>1. Now.running = running
  BY LinesParts DEF Now
<1>2. ASSUME NEW v \in Ve
      PROVE  /\ running[v] \in Seq(Req) /\ OneEach(running[v])
             /\ ToSet(running[v]) \subseteq Req
             /\ \A r \in ToSet(running[v]) : at[r] = InRunning(v)
  <2>1. Good(running[v], at, InRunning(v))
    <3>1. Good(Now.running[v], at, InRunning(v))
      BY DEF Where, Lined
    <3> QED
      BY <1>1, <3>1
  <2>2. ToSet(running[v]) \subseteq Req
    BY <2>1, ToSetRange DEF Good
  <2> QED
    BY <2>1, <2>2 DEF Good
<1> QED
  BY <1>1, <1>2

\* Nothing runs at the start.
LEMMA InitBudget == ASSUME Init PROVE BudgetInv
<1>1. Budget \in Nat
  BY LookAheadAssumption
<1>2. \A v \in Ve : running[v] = <<>> /\ step[v].batch = <<>>
  BY DEF Init, NoStep
<1>3. Fits(req)
  <2>1. 0 \in Nat
    OBVIOUS
  <2>2. \A r \in Req : req[r] = NewRequest(0, r)
    BY DEF Init
  <2> QED
    BY <2>1, <2>2, WholeFit DEF Fits
<1>4. \A v \in Ve : Total(PromptWeights(req), running[v]) <= Budget
  BY <1>1, <1>2, TotalEmpty
<1>5. BudgetKept
  <2> SUFFICES ASSUME NEW v \in Ve PROVE TokensOf(req, step[v].batch) <= Budget
    BY DEF BudgetKept
  <2>1. TokensOf(req, <<>>) = 0
    BY TotalEmpty DEF TokensOf
  <2> QED
    BY <1>1, <1>2, <2>1
<1> QED
  BY <1>3, <1>4, <1>5 DEF BudgetInv

\* Batches and requests that stay as they are.
LEMMA QuietBudget ==
  ASSUME BudgetInv, UNCHANGED <<req, running>>, \A v \in Ve : step'[v].batch = step[v].batch
  PROVE  BudgetInv'
<1>1. \A v \in Ve : TokensOf(req', step'[v].batch) <= Budget
  BY DEF BudgetInv, BudgetKept
<1>2. Fits(req') /\ \A v \in Ve : Total(PromptWeights(req'), running'[v]) <= Budget
  BY DEF BudgetInv
<1> QED
  BY <1>1, <1>2 DEF BudgetInv, BudgetKept

\* A new request is in no batch.
LEMMA ArriveBudget ==
  ASSUME IInv, IInv', BudgetInv, Arrive
  PROVE  BudgetInv'
<1>1. PICK at : Where(at)
  BY DEF IInv
<1>2. /\ req \in [Req -> Entry] /\ req' \in [Req -> Entry]
      /\ step \in [Ve -> [busy : BOOLEAN, batch : Seq(Req)]] /\ arrived \in 0 .. N
  BY DEF IInv
<1>3. PICK x, n : /\ x = arrived + 1 /\ n \in Nat /\ req' = [req EXCEPT ![x] = NewRequest(n, x)]
                  /\ running' = running /\ step' = step /\ x \in Req
  <2>1. N \in Nat /\ Lengths \subseteq Nat
    BY LookAheadAssumption
  <2>2. arrived + 1 \in Req /\ arrived' = arrived + 1
    BY <1>2, <2>1 DEF Arrive, Req
  <2> QED
    BY <2>1, <2>2 DEF Arrive
<1>4. \A r \in Req : r # x => req'[r] = req[r]
  BY <1>2, <1>3
<1>5. at[x] = Nowhere
  <2>1. at[x] # Nowhere => x <= arrived
    BY <1>1, <1>3 DEF Where
  <2> QED
    BY <1>2, <1>3, <2>1
<1>6. \A v \in Ve : /\ running[v] \in Seq(Req) /\ ToSet(running[v]) \subseteq Req
                    /\ \A r \in ToSet(running[v]) : r # x
                    /\ step[v].batch \in Seq(Req) /\ ToSet(step[v].batch) \subseteq Req
                    /\ \A r \in ToSet(step[v].batch) : r # x
  <2> SUFFICES ASSUME NEW v \in Ve
               PROVE  /\ running[v] \in Seq(Req) /\ ToSet(running[v]) \subseteq Req
                      /\ \A r \in ToSet(running[v]) : r # x
                      /\ step[v].batch \in Seq(Req) /\ ToSet(step[v].batch) \subseteq Req
                      /\ \A r \in ToSet(step[v].batch) : r # x
    OBVIOUS
  <2>1. at[x] # InRunning(v)
    BY <1>5, NamesApart
  <2>2. /\ running[v] \in Seq(Req) /\ ToSet(running[v]) \subseteq Req
        /\ \A r \in ToSet(running[v]) : at[r] = InRunning(v)
    BY <1>1, NowRunning
  <2>3. step[v].batch \in Seq(Req)
    BY <1>2
  <2>4. \A r \in ToSet(step[v].batch) : at[r] = InRunning(v)
    BY <1>1 DEF Where, InFlight
  <2> QED
    BY <2>1, <2>2, <2>3, <2>4, ToSetRange
<1>7. Fits(req')
  <2>1. Fit(NewRequest(n, x))
    BY <1>3, WholeFit
  <2>2. req'[x] = NewRequest(n, x)
    BY <1>2, <1>3
  <2>3. \A r \in Req : Fit(req[r])
    BY DEF BudgetInv, Fits
  <2> QED
    BY <1>4, <2>1, <2>2, <2>3 DEF Fits
<1>8. ASSUME NEW v \in Ve PROVE Total(PromptWeights(req'), running'[v]) <= Budget
  <2>1. \A r \in ToSet(running[v]) : req'[r] = req[r]
    BY <1>4, <1>6
  <2>2. Total(PromptWeights(req'), running[v]) = Total(PromptWeights(req), running[v])
    BY <1>2, <1>6, <2>1, WeighSame
  <2>3. Total(PromptWeights(req), running[v]) <= Budget
    BY DEF BudgetInv
  <2> QED
    BY <1>3, <2>2, <2>3
<1>9. ASSUME NEW v \in Ve PROVE TokensOf(req', step'[v].batch) <= Budget
  <2>1. \A r \in ToSet(step[v].batch) : req'[r] = req[r]
    BY <1>4, <1>6
  <2>2. TokensOf(req', step[v].batch) = TokensOf(req, step[v].batch)
    BY <1>2, <1>6, <2>1, TokensSame
  <2>3. TokensOf(req, step[v].batch) <= Budget
    BY DEF BudgetInv, BudgetKept
  <2> QED
    BY <1>3, <2>2, <2>3
<1> QED
  BY <1>7, <1>8, <1>9 DEF BudgetInv, BudgetKept

\* What is scheduled is within the budget.
LEMMA StartStepBudget ==
  ASSUME N <= Budget, IInv, BudgetInv, NEW v \in Ve, StartStep(v)
  PROVE  BudgetInv'
<1>1. PICK at : Where(at)
  BY DEF IInv
<1>2. /\ req \in [Req -> Entry] /\ step \in [Ve -> [busy : BOOLEAN, batch : Seq(Req)]]
  BY DEF IInv
<1>3. running[v] \in Seq(Req) /\ OneEach(running[v])
  BY <1>1, NowRunning
<1>4. PICK b : b = Scheduled(v)
  OBVIOUS
<1>5. /\ step' = [step EXCEPT ![v] = [busy |-> TRUE, batch |-> b]]
      /\ req' = req /\ running' = running
  BY <1>4 DEF StartStep
<1>6. TokensOf(req, b) <= Budget
  BY <1>2, <1>3, <1>4, ScheduledWithin DEF BudgetInv
<1>7. ASSUME NEW w \in Ve PROVE TokensOf(req', step'[w].batch) <= Budget
  <2>1. CASE w = v
    <3>1. step'[w].batch = b
      BY <1>2, <1>5, <2>1
    <3> QED
      BY <1>5, <1>6, <3>1
  <2>2. CASE w # v
    <3>1. step'[w] = step[w]
      BY <1>2, <1>5, <2>2
    <3>2. TokensOf(req, step[w].batch) <= Budget
      BY DEF BudgetInv, BudgetKept
    <3> QED
      BY <1>5, <3>1, <3>2
  <2> QED
    BY <2>1, <2>2
<1>8. Fits(req') /\ \A w \in Ve : Total(PromptWeights(req'), running'[w]) <= Budget
  BY <1>5 DEF BudgetInv
<1> QED
  BY <1>7, <1>8 DEF BudgetInv, BudgetKept

\* The next batch is within the budget, and others' batches are as they were.
LEMMA EndStepBudget ==
  ASSUME IInv, IInv', BudgetInv, NEW v \in Ve, EndStep(v)
  PROVE  BudgetInv'
<1>1. PICK at : Where(at)
  BY DEF IInv
<1>2. /\ req \in [Req -> Entry] /\ req' \in [Req -> Entry] /\ pending \in [Ve -> Int]
      /\ step \in [Ve -> [busy : BOOLEAN, batch : Seq(Req)]]
  BY DEF IInv
<1>3. step' = [step EXCEPT ![v] = NoStep]
  BY DEF EndStep
<1>4. PICK home : GoesOn(v, Ended(v, home), Homed(v, home))
  BY <1>2, EndParts
<1> DEFINE rq    == Ended(v, home)
           ranks == Homed(v, home)
<1>5. /\ rq \in [Req -> Entry]
      /\ \A r \in Req : r \notin InFlight(v) => rq[r] = req[r]
  BY <1>2, EndedEntries
<1>6. Fits(rq) /\ \A r \in Req : PromptTokens(rq[r]) <= PromptTokens(req[r])
  BY <1>2, EndedSpends DEF BudgetInv
<1>7. GoesOn(v, rq, ranks)
  BY <1>4
<1> HIDE DEF rq, ranks
<1>8. ASSUME NEW w \in Ve PROVE Total(PromptWeights(rq), running[w]) <= Budget
  <2>1. PICK y, z : y = PromptWeights(rq) /\ z = PromptWeights(req)
    OBVIOUS
  <2>2. \A r \in Req : /\ y[r] = PromptTokens(rq[r]) /\ y[r] \in Nat
                       /\ z[r] = PromptTokens(req[r]) /\ z[r] \in Nat
    BY <1>2, <1>5, <2>1, PromptWeightsNat
  <2>3. \A r \in Req : y[r] \in Int /\ z[r] \in Int
    BY <2>2
  <2>4. running[w] \in Seq(Req) /\ ToSet(running[w]) \subseteq Req
    BY <1>1, NowRunning
  <2>5. \A r \in ToSet(running[w]) : y[r] <= z[r]
    BY <1>6, <2>2, <2>4
  <2>6. Total(y, running[w]) <= Total(z, running[w])
    BY <2>3, <2>4, <2>5, TotalLess
  <2>7. Total(y, running[w]) \in Int /\ Total(z, running[w]) \in Int
    <3>1. \A r \in Req : y[r] \in Int
      BY <2>3
    <3>2. \A r \in Req : z[r] \in Int
      BY <2>3
    <3> QED
      BY <2>4, <3>1, <3>2, TotalInt
  <2>8. Total(z, running[w]) <= Budget
    BY <2>1 DEF BudgetInv
  <2>9. Total(y, running[w]) <= Budget
    BY <2>6, <2>7, <2>8, LookAheadAssumption
  <2> QED
    BY <2>1, <2>9
<1>9. /\ Fits(req') /\ \A w \in Ve : Total(PromptWeights(req'), running'[w]) <= Budget
      /\ \A r \in Req : \A w \in Ve : w # v /\ at[r] = InRunning(w) => req'[r] = rq[r]
  <2>1. CASE stopped
    <3>1. req' = rq /\ running' = running
      BY <1>7, <2>1 DEF GoesOn
    <3> QED
      BY <1>6, <1>8, <3>1
  <2>2. CASE ~ stopped
    <3>1. GetNextBatch(v, rq, ranks)
      BY <1>7, <2>2 DEF GoesOn
    <3>2. Lined(Now, at) /\ Now.running = running
      BY <1>1, NowRunning DEF Where
    <3>3. \A w \in Ve : InBudget(rq, Now, w)
      BY <1>8, <3>2 DEF InBudget
    <3> QED
      BY <1>2, <1>5, <1>6, <3>1, <3>2, <3>3, BatchSpends
  <2> QED
    BY <2>1, <2>2
<1>10. ASSUME NEW w \in Ve PROVE TokensOf(req', step'[w].batch) <= Budget
  <2>1. CASE w = v
    <3>1. step'[w] = NoStep
      BY <1>2, <1>3, <2>1
    <3>2. step'[w].batch = <<>>
      BY <3>1 DEF NoStep
    <3>3. TokensOf(req', <<>>) = 0
      BY TotalEmpty DEF TokensOf
    <3>4. 0 <= Budget
      BY LookAheadAssumption
    <3> QED
      BY <3>2, <3>3, <3>4
  <2>2. CASE w # v
    <3>1. step'[w] = step[w]
      BY <1>2, <1>3, <2>2
    <3>2. step[w].batch \in Seq(Req) /\ ToSet(step[w].batch) \subseteq Req
      BY <1>2, ToSetRange
    <3>3. \A r \in ToSet(step[w].batch) : req'[r] = req[r]
      <4> SUFFICES ASSUME NEW r \in ToSet(step[w].batch) PROVE req'[r] = req[r]
        OBVIOUS
      <4>1. r \in Req /\ at[r] = InRunning(w)
        BY <1>1, <3>2 DEF Where, InFlight
      <4>2. r \notin InFlight(v)
        <5>1. \A s \in InFlight(v) : at[s] = InRunning(v)
          BY <1>1 DEF Where
        <5>2. InRunning(w) # InRunning(v)
          BY <2>2, NamesApart
        <5> QED
          BY <4>1, <5>1, <5>2
      <4> QED
        BY <1>5, <1>9, <2>2, <4>1, <4>2
    <3>4. TokensOf(req', step[w].batch) = TokensOf(req, step[w].batch)
      BY <1>2, <3>2, <3>3, TokensSame
    <3>5. TokensOf(req, step[w].batch) <= Budget
      BY DEF BudgetInv, BudgetKept
    <3> QED
      BY <3>1, <3>4, <3>5
  <2> QED
    BY <2>1, <2>2
<1> QED
  BY <1>9, <1>10 DEF BudgetInv, BudgetKept

\* A batch at the workers has at most chunked_prefill_budget tokens
\* (schedule_prefill and schedule_packed_prefill, flash_backend.py:1883-2010), if
\* all requests fit as decodes, which the code never tests.
THEOREM BudgetHolds == ASSUME N <= Budget PROVE Spec => []BudgetKept
<1>1. Init => BudgetInv
  BY InitBudget
<1>2. IInv /\ IInv' /\ BudgetInv /\ [Next]_vars => BudgetInv'
  <2> SUFFICES ASSUME IInv, IInv', BudgetInv, [Next]_vars PROVE BudgetInv'
    OBVIOUS
  <2>1. CASE Arrive
    BY <2>1, ArriveBudget
  <2>2. ASSUME NEW v \in Ve, StartStep(v) PROVE BudgetInv'
    BY <2>2, StartStepBudget
  <2>3. ASSUME NEW v \in Ve, EndStep(v) PROVE BudgetInv'
    BY <2>3, EndStepBudget
  <2>4. CASE Stop
    BY <2>4, QuietBudget DEF Stop
  <2>5. CASE Restore
    BY <2>5, QuietBudget DEF Restore
  <2>6. CASE UNCHANGED vars
    BY <2>6, QuietBudget DEF vars
  <2> QED
    BY <2>1, <2>2, <2>3, <2>4, <2>5, <2>6 DEF Next
<1>3. BudgetInv => BudgetKept
  BY DEF BudgetInv
<1> QED
  BY <1>1, <1>2, <1>3, Invariance, PTL DEF Spec

-----------------------------------------------------------------------------
(* The order of arrival.                                                   *)

\* Later positions have later arrivals.
Ascending(l) == \A i, j \in 1 .. Len(l) : i < j => l[i] < l[j]

\* ... behind requests that have not generated anything.
InOrder(rq, l) == \A i, j \in 1 .. Len(l) : i < j /\ rq[l[i]].outputs = 0 => l[i] < l[j]

\* Sorted by arrival.
LEMMA SortedRises ==
  ASSUME NEW l \in Seq(Req), OneEach(l)
  PROVE  Ascending(SortedBy(l, [r \in Req |-> r]))
<1> DEFINE n == Len(l)
           key == [r \in Req |-> r]
           c(k) == CHOOSE i \in 1 .. n : Standing(l, key, i) = k - 1
           s == SortedBy(l, key)
<1>1. n \in Nat /\ DOMAIN l = 1 .. n /\ \A i \in 1 .. n : l[i] \in Req
  BY LenProperties, ElementOfSeq
<1>2. s = [k \in 1 .. n |-> l[c(k)]]
  BY DEF SortedBy, Standing, Earlier
<1>3. \A r \in Req : key[r] = r /\ key[r] \in Int
  BY DEF Req
<1> HIDE DEF key
<1>4. \A k \in 1 .. n : c(k) \in 1 .. n /\ Standing(l, key, c(k)) = k - 1
  BY <1>3, Ranked
<1>5. Len(s) = n
  BY <1>3, Sorted
<1> HIDE DEF c, s
<1> SUFFICES ASSUME NEW a \in 1 .. n, NEW b \in 1 .. n, a < b PROVE s[a] < s[b]
  BY <1>5 DEF Ascending, s, key
<1>6. PICK i \in 1 .. n, j \in 1 .. n : i = c(a) /\ j = c(b)
  BY <1>4
<1>7. s[a] = l[i] /\ s[b] = l[j] /\ Standing(l, key, i) = a - 1 /\ Standing(l, key, j) = b - 1
  BY <1>2, <1>4, <1>6
<1>8. i # j
  <2>1. a - 1 # b - 1
    BY <1>1
  <2> QED
    BY <1>7, <2>1
<1>9. l[i] # l[j] /\ l[i] \in Int /\ l[j] \in Int
  <2>1. l[i] # l[j]
    BY <1>8 DEF OneEach
  <2> QED
    BY <1>1, <2>1 DEF Req
<1>10. ASSUME ~ (l[i] < l[j]) PROVE FALSE
  <2> DEFINE X(k) == {m \in 1 .. n : Earlier(l, key, m, k)}
  <2>1. l[j] < l[i]
    BY <1>9, <1>10
  <2>2. ASSUME NEW m \in X(j) PROVE m \in X(i)
    <3>1. m \in 1 .. n /\ (l[m] < l[j] \/ l[m] = l[j]) /\ l[m] \in Int
      BY <1>1, <1>3, <2>2 DEF Earlier, Req
    <3>2. l[m] < l[i]
      BY <1>9, <2>1, <3>1
    <3> QED
      BY <1>1, <1>3, <3>1, <3>2 DEF Earlier
  <2>3. IsFiniteSet(1 .. n)
    BY <1>1, FS_Interval
  <2>4. X(j) \subseteq X(i) /\ X(i) \subseteq 1 .. n
    BY <2>2
  <2> HIDE DEF X
  <2>5. IsFiniteSet(X(i)) /\ IsFiniteSet(X(j))
    BY <2>3, <2>4, FS_Subset
  <2>6. Cardinality(X(j)) <= Cardinality(X(i))
    BY <2>4, <2>5, FS_Subset
  <2>7. Cardinality(X(i)) = a - 1 /\ Cardinality(X(j)) = b - 1
    BY <1>7 DEF X, Standing
  <2> QED
    BY <1>1, <2>6, <2>7
<1> QED
  BY <1>7, <1>10

\* Only a long prompt is put with the long ones.
LEMMA AddedLong ==
  ASSUME NEW rq \in [Req -> Entry], NEW x \in Placing, NEW r \in Req, NEW w \in Ve,
         NEW s \in ToSet(Added(rq, x, r).long[w])
  PROVE  s \in ToSet(x.long[w]) \/ (s = r /\ bench.packing /\ rq[r].prompt > LongThreshold)
<1>1. CASE bench.packing /\ rq[r].prompt > LongThreshold
  <2>1. PICK v \in Ve : OneMore(x.short, x.long, Added(rq, x, r).short, Added(rq, x, r).long, v, r)
    BY AddedOne
  <2>2. x.long \in [Ve -> Seq(Req)]
    BY DEF Placing
  <2>3. \/ Added(rq, x, r).long = x.long
        \/ Added(rq, x, r).long = [x.long EXCEPT ![v] = Append(@, r)]
    BY <2>1, Zenon DEF OneMore
  <2>4. CASE Added(rq, x, r).long = [x.long EXCEPT ![v] = Append(@, r)]
    <3>1. Added(rq, x, r).long[w] = IF w = v THEN Append(x.long[w], r) ELSE x.long[w]
      BY <2>2, <2>4
    <3>2. ToSet(Append(x.long[w], r)) = ToSet(x.long[w]) \cup {r}
      BY <2>2, ToSetAppend
    <3> QED
      BY <1>1, <3>1, <3>2
  <2> QED
    BY <2>3, <2>4
<1>2. CASE ~ (bench.packing /\ rq[r].prompt > LongThreshold)
  <2> DEFINE v == LeastBusy(x.load)
             loaded == [x EXCEPT !.load[v] = @ + rq[r].prompt]
  <2>1. \/ Added(rq, x, r) = [loaded EXCEPT !.short[v] = <<r>> \o @]
        \/ Added(rq, x, r) = [loaded EXCEPT !.short[v] = Append(@, r)]
    BY <1>2, Zenon DEF Added
  <2>2. loaded.long = x.long /\ DOMAIN loaded = {"load", "short", "long"}
    BY DEF Placing
  <2> HIDE DEF v, loaded
  <2>3. Added(rq, x, r).long = loaded.long
    BY <2>1, <2>2
  <2> QED
    BY <2>2, <2>3
<1> QED
  BY <1>1, <1>2

LEMMA PlacedLong ==
  ASSUME NEW q \in Queues, NEW rq \in [Req -> Entry], pending \in [Ve -> Int], NEW w \in Ve,
         NEW s \in ToSet(Place(rq, q).long[w])
  PROVE  s \in ToSet(q.long[w]) \/ (bench.packing /\ rq[s].prompt > LongThreshold)
<1> DEFINE prompts == Prompts(rq, q)
           n == Len(prompts)
           Big(r) == bench.packing /\ rq[r].prompt > LongThreshold
<1>1. PICK f \in [Nat -> Placing] :
        /\ f[0].short = q.short /\ f[0].long = q.long
        /\ \A k \in Nat : k < n => f[k + 1] = Added(rq, f[k], prompts[k + 1])
        /\ Place(rq, q) = f[n]
  BY PlaceSteps
<1>2. prompts \in Seq(Req)
  BY PromptsSorted
<1> HIDE DEF prompts
<1>3. n \in Nat /\ \A i \in 1 .. n : prompts[i] \in Req
  BY <1>2, LenProperties, ElementOfSeq
<1> DEFINE E == {k \in Nat : k <= n => \A r \in ToSet(f[k].long[w]) : r \in ToSet(q.long[w]) \/ Big(r)}
<1>4. 0 \in E
  BY <1>1
<1>5. ASSUME NEW k \in Nat, k \in E PROVE k + 1 \in E
  <2> SUFFICES ASSUME k + 1 <= n, NEW r \in ToSet(f[k + 1].long[w])
               PROVE  r \in ToSet(q.long[w]) \/ Big(r)
    OBVIOUS
  <2>1. k <= n /\ k < n /\ k + 1 \in 1 .. n
    BY <1>3
  <2>2. PICK p \in Req : p = prompts[k + 1]
    BY <1>3, <2>1
  <2>3. f[k + 1] = Added(rq, f[k], p) /\ f[k] \in Placing
    BY <1>1, <2>1, <2>2
  <2>4. r \in ToSet(Added(rq, f[k], p).long[w])
    BY <2>3
  <2>5. r \in ToSet(f[k].long[w]) \/ Big(r)
    <3>1. r \in ToSet(f[k].long[w]) \/ (r = p /\ bench.packing /\ rq[p].prompt > LongThreshold)
      BY <2>3, <2>4, AddedLong
    <3> QED
      BY <3>1
  <2> QED
    BY <1>5, <2>1, <2>5
<1>6. n \in E
  <2> HIDE DEF E
  <2> QED
    BY <1>3, <1>4, <1>5, NatSet
<1> QED
  BY <1>1, <1>3, <1>6

\* balance_prefill sorts what waits for a virtual engine, or leaves it as it was.
LEMMA BalancedOrder ==
  ASSUME NEW q, NEW at, Lined(q, at), NEW v \in Ve, NEW rq \in [Req -> Entry],
         pending \in [Ve -> Int], ~ bench.reorder, NEW p, p = BalancePrefill(v, rq, q)
  PROVE  /\ p.global = <<>>
         /\ p.short = q.short \/ \A w \in Ve : Ascending(p.short[w])
         /\ \A w \in Ve : \A s \in ToSet(p.long[w]) :
              s \in ToSet(q.long[w]) \/ (bench.packing /\ rq[s].prompt > LongThreshold)
<1> DEFINE run == IF bench.decode_balance THEN BalanceDecode(v, rq, q.running) ELSE q.running
           q0 == [q EXCEPT !.running = run]
           x == Place(rq, q0)
           none == \A w \in Ve : q.short[w] = <<>>
           k == Reordered(rq, none, x.short)
<1>1. q \in Queues
  BY DEF Lined
<1>2. /\ q0.global = q.global /\ q0.short = q.short /\ q0.long = q.long
      /\ p = IF q.global = <<>> THEN q0 ELSE Lines(<<>>, k, x.long, run)
  <2>1. q0.global = q.global /\ q0.short = q.short /\ q0.long = q.long
    BY <1>1 DEF Queues
  <2>2. p = IF q.global = <<>> THEN q0 ELSE Lines(<<>>, k, x.long, run)
    BY Zenon DEF BalancePrefill, Lines
  <2> QED
    BY <2>1, <2>2
<1>3. \E mid : Lined(q0, mid)
  <2>1. CASE bench.decode_balance
    <3>1. q0 = [q EXCEPT !.running = BalanceDecode(v, rq, q.running)]
      BY <2>1, Zenon
    <3> HIDE DEF q0
    <3> QED
      BY <3>1, DecodesBalanced, Zenon
  <2>2. CASE ~ bench.decode_balance
    <3>1. [q EXCEPT !.running = q.running] = q
      BY <1>1 DEF Queues
    <3>2. q0 = q
      BY <2>2, <3>1, Zenon
    <3> HIDE DEF q0
    <3> QED
      BY <3>2
  <2> QED
    BY <2>1, <2>2
<1>4. PICK mid : Lined(q0, mid)
  BY <1>3
<1> HIDE DEF run, q0, none
<1>5. CASE q.global = <<>>
  BY <1>2, <1>5
<1>6. CASE q.global # <<>>
  <2>1. PICK to : Lined(Lines(<<>>, x.short, x.long, q0.running), to)
    BY <1>4, AllPlaced
  <2>2. /\ x.short \in [Ve -> Seq(Req)]
        /\ \A w \in Ve : OneEach(x.short[w])
    <3>1. Lines(<<>>, x.short, x.long, q0.running) \in Queues
      BY <2>1 DEF Lined
    <3>2. x.short \in [Ve -> Seq(Req)] /\ Lines(<<>>, x.short, x.long, q0.running).short = x.short
      BY <3>1, LinesParts
    <3>3. \A w \in Ve : OneEach(Lines(<<>>, x.short, x.long, q0.running).short[w])
      BY <2>1 DEF Lined, Good
    <3> QED
      BY <3>2, <3>3
  <2>3. p.global = <<>> /\ p.short = k /\ p.long = x.long
    BY <1>2, <1>6, LinesParts
  <2>4. ASSUME NEW w \in Ve PROVE Ascending(k[w])
    <3>1. k[w] = SortedBy(x.short[w], [r \in Req |-> r])
      BY DEF Reordered
    <3>2. x.short[w] \in Seq(Req) /\ OneEach(x.short[w])
      BY <2>2
    <3> HIDE DEF k, x
    <3> QED
      BY <3>1, <3>2, SortedRises
  <2>5. ASSUME NEW w \in Ve, NEW s \in ToSet(p.long[w])
        PROVE  s \in ToSet(q.long[w]) \/ (bench.packing /\ rq[s].prompt > LongThreshold)
    <3>1. q0 \in Queues
      BY <1>4 DEF Lined
    <3>2. s \in ToSet(Place(rq, q0).long[w])
      BY <2>3, <2>5
    <3>3. s \in ToSet(q0.long[w]) \/ (bench.packing /\ rq[s].prompt > LongThreshold)
      BY <3>1, <3>2, PlacedLong
    <3> QED
      BY <1>2, <3>3
  <2> HIDE DEF k, x
  <2> QED
    BY <2>3, <2>4, <2>5
<1> QED
  BY <1>5, <1>6

-----------------------------------------------------------------------------
(* What a plan takes from the head of the queue of v.                      *)

\* Nobody's output grows.
Quiet(rp, rq) ==
  \A r \in Req : rp[r].outputs = rq[r].outputs /\ rp[r].generated = rq[r].generated

\* v gets its first requests from the head of its queue, the rest stays in order.
Serves(v, rq, q, a) ==
  /\ Quiet(a.req, rq)
  /\ \A w \in Ve \ {v} : a.q.short[w] = q.short[w] /\ a.q.running[w] = q.running[w]
  /\ \E n \in 0 .. Len(q.short[v]) :
       /\ a.q.short[v] = SubSeq(q.short[v], n + 1, Len(q.short[v]))
       /\ ToSet(a.q.running[v]) \subseteq ToSet(q.running[v]) \cup ToSet(q.long[v])
                                            \cup ToSet(SubSeq(q.short[v], 1, n))

LEMMA QuietTwice ==
  ASSUME NEW a, NEW b, NEW c, Quiet(a, b), Quiet(b, c)
  PROVE  Quiet(a, c)
  BY DEF Quiet

LEMMA SetQuiet ==
  ASSUME NEW q \in Entry, NEW x
  PROVE  /\ SetChunk(q, x).outputs = q.outputs /\ SetChunk(q, x).generated = q.generated
         /\ NextChunk(q, x).outputs = q.outputs /\ NextChunk(q, x).generated = q.generated
         /\ Marked(q, x).outputs = q.outputs /\ Marked(q, x).generated = q.generated
<1>1. SetChunk(q, x).outputs = q.outputs /\ SetChunk(q, x).generated = q.generated
  BY DEF SetChunk, Entry
<1>2. NextChunk(q, x).outputs = q.outputs /\ NextChunk(q, x).generated = q.generated
  BY DEF NextChunk, Entry
<1>3. Marked(q, x).outputs = q.outputs /\ Marked(q, x).generated = q.generated
  BY DEF Marked, Entry
<1> QED
  BY <1>1, <1>2, <1>3

\* Admission writes formats and chunks only.
LEMMA AdmitQuiet ==
  ASSUME NEW rq \in [Req -> Entry], NEW fx \in BOOLEAN, NEW run, NEW un, NEW room, NEW size,
         NEW tokens
  PROVE  Quiet(Admit(TRUE, fx, rq, run, un, room, size, tokens).req, rq)
<1> DEFINE a == Admit(TRUE, fx, rq, run, un, room, size, tokens)
           F(m, C) == m = [r \in DOMAIN rq |-> [rq[r] EXCEPT !.fusion_exec =
                                                  IF r \in C THEN fx ELSE @]]
<1>1. \E m, C, y, l : F(m, C) /\ (a.req = m \/ a.req = [m EXCEPT ![y] = SetChunk(@, l)])
  BY Zenon DEF Admit
<1> HIDE DEF a, F
<1>2. PICK m, C, y, l : F(m, C) /\ (a.req = m \/ a.req = [m EXCEPT ![y] = SetChunk(@, l)])
  BY <1>1
<1>3. m = [r \in DOMAIN rq |-> [rq[r] EXCEPT !.fusion_exec = IF r \in C THEN fx ELSE @]]
  BY <1>2, Zenon DEF F
<1>4. /\ DOMAIN m = Req
      /\ \A r \in Req : /\ m[r] \in Entry /\ m[r].outputs = rq[r].outputs
                        /\ m[r].generated = rq[r].generated
  <2>1. DOMAIN rq = Req
    OBVIOUS
  <2>2. DOMAIN m = Req
    BY <1>3, <2>1
  <2>3. ASSUME NEW r \in Req
        PROVE  m[r] \in Entry /\ m[r].outputs = rq[r].outputs /\ m[r].generated = rq[r].generated
    <3>1. PICK b : b = IF r \in C THEN fx ELSE rq[r].fusion_exec
      OBVIOUS
    <3>2. rq[r] \in Entry /\ b \in BOOLEAN
      BY <3>1 DEF Entry
    <3>3. m[r] = [rq[r] EXCEPT !.fusion_exec = IF r \in C THEN fx ELSE @]
      BY <1>3, <2>1
    <3>4. m[r] = Marked(rq[r], b)
      BY <3>1, <3>2, <3>3 DEF Marked, Entry
    <3> QED
      BY <3>2, <3>4, MarkedEntry, SetQuiet
  <2> QED
    BY <2>2, <2>3
<1>5. ASSUME NEW r \in Req
      PROVE  a.req[r].outputs = m[r].outputs /\ a.req[r].generated = m[r].generated
  <2>1. a.req[r] = m[r] \/ a.req[r] = SetChunk(m[r], l)
    BY <1>2, <1>4
  <2> QED
    BY <1>4, <2>1, SetQuiet
<1> QED
  BY <1>4, <1>5 DEF Quiet, a

\* So do the chunks that follow.
LEMMA NextQuiet ==
  ASSUME NEW rq \in [Req -> Entry], NEW run \in Seq(Req), NEW budget \in Int
  PROVE  Quiet(NextChunks(rq, run, budget).req, rq)
<1>1. TokensOf(rq, run) \in Int
  BY TokensInt
<1>2. PICK start \in Int : start = budget - TokensOf(rq, run)
  BY <1>1
<1>3. PICK a : a = ChunksFrom(start, rq, run)
  OBVIOUS
<1>4. PICK free \in [Nat -> Int] : Handed(free, a, rq, run)
  BY <1>3, Leftovers
<1>5. ASSUME NEW r \in Req
      PROVE  a.req[r].outputs = rq[r].outputs /\ a.req[r].generated = rq[r].generated
  <2>1. a.req[r] = NextChunk(rq[r], free[PlaceIn(run, r) - 1]) \/ a.req[r] = rq[r]
    BY <1>4 DEF Handed
  <2> QED
    BY <2>1, SetQuiet
<1> QED
  BY <1>2, <1>3, <1>5 DEF Quiet, NextChunks

\* The queues for short prompts are not touched.
Spares(v, rq, q, p) ==
  /\ Quiet(p.req, rq) /\ p.q.short = q.short /\ p.q.global = q.global
  /\ \A w \in Ve \ {v} : p.q.running[w] = q.running[w]
  /\ ToSet(p.q.running[v]) \cup ToSet(p.q.long[v])
       \subseteq ToSet(q.running[v]) \cup ToSet(q.long[v])

\* A long prompt may be popped.
LEMMA PackServes ==
  ASSUME NEW q, NEW at, Lined(q, at), NEW v \in Ve, NEW rq \in [Req -> Entry],
         NEW free, NEW mean, NEW fits, NEW p, p = PackLong(v, rq, free, mean, q, fits)
  PROVE  Spares(v, rq, q, p)
<1> DEFINE r == Head(q.long[v])
           n == LongChunk(free, mean)
           marked == [rq EXCEPT ![r].fusion_exec = Fused]
           stays == ~ fits \/ Len(q.running[v]) >= MaxBatch \/ n <= 0
<1>1. /\ q \in Queues /\ q.long[v] \in Seq(Req) /\ q.running[v] \in Seq(Req) /\ OneEach(q.long[v])
  BY DEF Lined, Good
<1>2. Quiet(rq, rq)
  BY DEF Quiet
<1>3. CASE q.long[v] = <<>>
  <2>1. p.req = rq /\ p.q = q
    BY <1>3 DEF PackLong
  <2> QED
    BY <1>2, <2>1 DEF Spares
<1>4. CASE q.long[v] # <<>>
  <2>1. /\ r \in ToSet(q.long[v]) /\ ToSet(Tail(q.long[v])) = ToSet(q.long[v]) \ {r}
    BY <1>1, <1>4, HeadGone
  <2>2. r \in Req
    BY <1>1, <2>1, ToSetRange
  <2>3. /\ stays => p.req = marked /\ p.q = q
        /\ ~ stays => p.req = [marked EXCEPT ![r] = SetChunk(@, n)] /\ p.q = PopLong(v, q)
    BY <1>4, Zenon DEF PackLong
  <2>4. PICK x \in Req : x = r
    BY <2>2
  <2>5. Quiet(marked, rq) /\ marked \in [Req -> Entry]
    <3>1. marked = [rq EXCEPT ![x] = Marked(rq[x], Fused)]
      BY <2>4 DEF Marked
    <3>2. Fused \in BOOLEAN
      BY DEF Fused
    <3>3. Marked(rq[x], Fused) \in Entry
      BY <3>2, MarkedEntry
    <3>4. \A y \in Req : marked[y] = IF y = x THEN Marked(rq[x], Fused) ELSE rq[y]
      BY <3>1
    <3>5. /\ Marked(rq[x], Fused).outputs = rq[x].outputs
          /\ Marked(rq[x], Fused).generated = rq[x].generated
      BY SetQuiet
    <3> QED
      BY <3>1, <3>3, <3>4, <3>5 DEF Quiet
  <2>6. Quiet([marked EXCEPT ![x] = SetChunk(@, n)], rq)
    <3> HIDE DEF marked, n
    <3>1. \A y \in Req : [marked EXCEPT ![x] = SetChunk(@, n)][y]
                            = IF y = x THEN SetChunk(marked[x], n) ELSE marked[y]
      BY <2>5
    <3>2. marked[x] \in Entry
      BY <2>5
    <3>3. /\ SetChunk(marked[x], n).outputs = marked[x].outputs
          /\ SetChunk(marked[x], n).generated = marked[x].generated
      BY <3>2, SetQuiet
    <3>4. Quiet([marked EXCEPT ![x] = SetChunk(@, n)], marked)
      BY <3>1, <3>3 DEF Quiet
    <3> QED
      BY <2>5, <3>4, QuietTwice
  <2> HIDE DEF r, n, marked, stays
  <2>7. CASE stays
    BY <2>3, <2>5, <2>7 DEF Spares
  <2>8. CASE ~ stays
    <3>1. p.q = [q EXCEPT !.running[v] = Append(@, x), !.long[v] = Tail(@)]
      BY <2>3, <2>4, <2>8 DEF PopLong, r
    <3>2. /\ p.q.short = q.short /\ p.q.global = q.global
          /\ p.q.running = [q.running EXCEPT ![v] = Append(@, x)]
          /\ p.q.long = [q.long EXCEPT ![v] = Tail(@)]
      BY <1>1, <3>1 DEF Queues
    <3>3. q.running \in [Ve -> Seq(Req)] /\ q.long \in [Ve -> Seq(Req)]
      BY <1>1 DEF Queues
    <3>4. /\ p.q.running[v] = Append(q.running[v], x) /\ p.q.long[v] = Tail(q.long[v])
          /\ \A w \in Ve \ {v} : p.q.running[w] = q.running[w]
      BY <3>2, <3>3
    <3>5. ToSet(p.q.running[v]) = ToSet(q.running[v]) \cup {x}
      BY <1>1, <3>4, ToSetAppend
    <3>6. Quiet(p.req, rq)
      BY <2>3, <2>4, <2>6, <2>8
    <3> QED
      BY <2>1, <2>4, <3>2, <3>4, <3>5, <3>6 DEF Spares
  <2> QED
    BY <2>7, <2>8
<1> QED
  BY <1>3, <1>4

\* The loop takes from the head of the queue of v, when no prompt is to be placed.
LEMMA FillServes ==
  ASSUME NEW q, NEW at, Lined(q, at), NEW v \in Ve, NEW rq \in [Req -> Entry], q.global = <<>>,
         NEW room \in 0 .. Len(q.short[v] \o q.global)
  PROVE  Serves(v, rq, q, FillUp(v, rq, q, room))
<1> DEFINE s == q.short[v]
           u == q.running[v]
           f == FillUp(v, rq, q, room)
           a == Admit(TRUE, Fused, rq, u, s \o q.global, room, MaxBatch, Budget)
           m == Len(s) + Len(q.global) - Len(a.queue)
<1>1. /\ q \in Queues /\ s \in Seq(Req) /\ u \in Seq(Req)
  BY DEF Lined, Good
<1>2. s \o q.global = s /\ Len(q.global) = 0 /\ Len(s) \in Nat
  BY <1>1, ConcatEmptySeq, EmptySeq, LenProperties
<1>3. /\ f.req = a.req
      /\ f.q = [q EXCEPT !.running[v] = a.running, !.short[v] = SubSeq(@, m + 1, Len(s)),
                         !.global = IF m > Len(s) THEN a.queue ELSE @]
  BY DEF FillUp
<1> HIDE DEF f
<1>4. Quiet(f.req, rq)
  <2>1. Fused \in BOOLEAN
    BY DEF Fused
  <2>2. Quiet(a.req, rq)
    BY <2>1, AdmitQuiet
  <2> HIDE DEF a
  <2> QED
    BY <1>3, <2>2
<1>5. PICK n \in 0 .. Len(s) : a.running = u \o SubSeq(s, 1, n) /\ a.queue = SubSeq(s, n + 1, Len(s))
  <2>1. Fused \in BOOLEAN /\ MaxBatch \in Int /\ Budget \in Int
    BY LookAheadAssumption DEF Fused
  <2>2. PICK un : un = s \o q.global
    OBVIOUS
  <2>3. un \in Seq(Req) /\ room \in 0 .. Len(un)
    BY <1>1, <1>2, <2>2
  <2>4. Grants(Admit(TRUE, Fused, rq, u, un, room, MaxBatch, Budget), rq, u, un, Fused)
    BY <1>1, <2>1, <2>3, Admits
  <2>5. Grants(a, rq, u, s, Fused)
    BY <1>2, <2>2, <2>4
  <2> HIDE DEF a, u, s
  <2> QED
    BY <2>5 DEF Grants
<1> HIDE DEF a
<1>6. m = n
  <2>1. /\ SubSeq(s, 1, n) \in Seq(Req) /\ Len(SubSeq(s, 1, n)) = n
        /\ SubSeq(s, n + 1, Len(s)) \in Seq(Req)
        /\ s = SubSeq(s, 1, n) \o SubSeq(s, n + 1, Len(s))
    BY <1>1, HeadSeq, QueueParts
  <2>2. Len(SubSeq(s, 1, n) \o SubSeq(s, n + 1, Len(s)))
          = Len(SubSeq(s, 1, n)) + Len(SubSeq(s, n + 1, Len(s)))
    BY <2>1, ConcatProperties
  <2>3. Len(s) = n + Len(a.queue)
    BY <1>5, <2>1, <2>2
  <2>4. Len(a.queue) \in Nat
    <3>1. a.queue \in Seq(Req)
      BY <1>5, <2>1
    <3> QED
      BY <3>1, LenProperties
  <2> HIDE DEF s
  <2> QED
    BY <1>2, <2>3, <2>4
<1> HIDE DEF m
<1>7. /\ f.q.short = [q.short EXCEPT ![v] = SubSeq(s, n + 1, Len(s))]
      /\ f.q.running = [q.running EXCEPT ![v] = u \o SubSeq(s, 1, n)]
  <2>1. f.q = [q EXCEPT !.running[v] = a.running, !.short[v] = SubSeq(@, n + 1, Len(s)),
                        !.global = IF n > Len(s) THEN a.queue ELSE @]
    BY <1>3, <1>6
  <2> QED
    BY <1>1, <1>5, <2>1 DEF Queues
<1>8. q.short \in [Ve -> Seq(Req)] /\ q.running \in [Ve -> Seq(Req)]
  BY <1>1 DEF Queues
<1>9. /\ \A w \in Ve \ {v} : f.q.short[w] = q.short[w] /\ f.q.running[w] = q.running[w]
      /\ f.q.short[v] = SubSeq(s, n + 1, Len(s)) /\ f.q.running[v] = u \o SubSeq(s, 1, n)
  BY <1>7, <1>8
<1>10. ToSet(f.q.running[v]) = ToSet(u) \cup ToSet(SubSeq(s, 1, n))
  <2>1. PICK h : h = SubSeq(s, 1, n)
    OBVIOUS
  <2>2. h \in Seq(Req)
    BY <1>1, <2>1, HeadSeq
  <2>3. ToSet(u \o h) = ToSet(u) \cup ToSet(h)
    BY <1>1, <2>2, ToSetConcat
  <2> QED
    BY <1>9, <2>1, <2>3, Zenon
<1> QED
  BY <1>4, <1>5, <1>9, <1>10 DEF Serves, f

\* ... also after the long prompt.
LEMMA FilledServes ==
  ASSUME NEW v \in Ve, NEW p, NEW mid, Lined(p.q, mid), p.req \in [Req -> Entry], p.q.global = <<>>,
         NEW a \in FilledUp(v, p)
  PROVE  Serves(v, p.req, p.q, a)
<1> DEFINE n == Len(p.q.short[v] \o p.q.global)
           low == IF (\A w \in Ve : p.q.running[w] = <<>>) /\ n > 0 THEN 1 ELSE 0
<1>1. PICK room \in low .. n : a = [FillUp(v, p.req, p.q, room) EXCEPT !.checked = @ \cup p.checked]
  BY DEF FilledUp
<1>2. n \in Nat
  <2>1. p.q.short[v] \in Seq(Req) /\ p.q.global \in Seq(Req)
    BY DEF Lined, Good
  <2>2. p.q.short[v] \o p.q.global \in Seq(Req)
    BY <2>1, ConcatProperties
  <2> QED
    BY <2>2, LenProperties
<1>3. room \in 0 .. Len(p.q.short[v] \o p.q.global)
  <2>1. low \in {0, 1} /\ room \in low .. n
    BY <1>1
  <2> HIDE DEF low, n
  <2>2. room \in 0 .. n
    BY <1>2, <2>1
  <2> QED
    BY <2>2 DEF n
<1> DEFINE f == FillUp(v, p.req, p.q, room)
<1>4. Serves(v, p.req, p.q, f)
  BY <1>3, FillServes
<1>5. a.req = f.req /\ a.q = f.q
  BY <1>1 DEF FillUp
<1> HIDE DEF f
<1> QED
  BY <1>4, <1>5 DEF Serves

\* What v gets when it plans without prompts to be placed.
LEMMA PlanServes ==
  ASSUME NEW q, NEW at, Lined(q, at), NEW v \in Ve, NEW rq \in [Req -> Entry], q.global = <<>>,
         NEW a \in Plans(v, rq, q)
  PROVE  Serves(v, rq, q, a)
<1> DEFINE next == NextChunks(rq, q.running[v], Budget)
           mean == MeanInputLen(v, rq, q)
           P(p) == p.req \in [Req -> Entry] /\ Spares(v, rq, q, p) /\ \E mid : Lined(p.q, mid)
<1>1. q \in Queues /\ q.running[v] \in Seq(Req) /\ Budget \in Int
  BY LookAheadAssumption DEF Lined, Good
<1>2. /\ next.req \in [Req -> Entry] /\ next.free \in Int /\ Quiet(next.req, rq)
  BY <1>1, NextEntries, NextQuiet
<1>3. mean \in Int
  BY <1>1, MeanInt
<1>4. \E p : P(p) /\ a \in FilledUp(v, p)
  <2>1. CASE a \in SchedulePrefill(v, rq, q)
    <3> DEFINE p == [req |-> next.req, q |-> q, checked |-> {}]
    <3>1. a \in FilledUp(v, p)
      BY <2>1 DEF SchedulePrefill
    <3>2. p.req = next.req /\ p.q = q
      OBVIOUS
    <3> HIDE DEF p, next
    <3>3. P(p)
      BY <1>2, <3>2 DEF Spares
    <3> HIDE DEF P
    <3> QED
      BY <3>1, <3>3
  <2>2. CASE a \in SchedulePackedPrefill(v, rq, q)
    <3>1. PICK fits \in BOOLEAN : a \in FilledUp(v, PackLong(v, next.req, next.free, mean, q, fits))
      BY <2>2 DEF SchedulePackedPrefill
    <3> HIDE DEF next, mean
    <3>2. PICK p : p = PackLong(v, next.req, next.free, mean, q, fits)
      OBVIOUS
    <3>3. Batched(v, next.req, q, at, p)
      BY <1>2, <1>3, <3>2, LongPacked
    <3>4. p.req \in [Req -> Entry] /\ \E mid : Lined(p.q, mid)
      BY <3>3 DEF Batched, Checks
    <3>5. Spares(v, next.req, q, p)
      BY <1>2, <3>2, PackServes
    <3>6. Spares(v, rq, q, p)
      BY <1>2, <3>5, QuietTwice DEF Spares
    <3>7. P(p)
      BY <3>4, <3>6
    <3> HIDE DEF P
    <3> QED
      BY <3>1, <3>2, <3>7
  <2> QED
    BY <2>1, <2>2 DEF Plans
<1>5. PICK p : P(p) /\ a \in FilledUp(v, p)
  BY <1>4
<1>6. PICK mid : Lined(p.q, mid)
  BY <1>5
<1>7. Serves(v, p.req, p.q, a)
  <2>1. p.q.global = <<>>
    BY <1>5 DEF Spares
  <2>2. p.req \in [Req -> Entry] /\ a \in FilledUp(v, p)
    BY <1>5
  <2> QED
    BY <1>6, <2>1, <2>2, FilledServes
<1> HIDE DEF next, mean
<1>8. Quiet(a.req, rq)
  BY <1>5, <1>7, QuietTwice DEF Serves, Spares
<1>9. \A w \in Ve \ {v} : a.q.short[w] = q.short[w] /\ a.q.running[w] = q.running[w]
  BY <1>5, <1>7 DEF Serves, Spares
<1>10. PICK n \in 0 .. Len(p.q.short[v]) :
         /\ a.q.short[v] = SubSeq(p.q.short[v], n + 1, Len(p.q.short[v]))
         /\ ToSet(a.q.running[v]) \subseteq ToSet(p.q.running[v]) \cup ToSet(p.q.long[v])
                                              \cup ToSet(SubSeq(p.q.short[v], 1, n))
  BY <1>7 DEF Serves
<1>11. /\ n \in 0 .. Len(q.short[v])
       /\ a.q.short[v] = SubSeq(q.short[v], n + 1, Len(q.short[v]))
       /\ ToSet(a.q.running[v]) \subseteq ToSet(q.running[v]) \cup ToSet(q.long[v])
                                            \cup ToSet(SubSeq(q.short[v], 1, n))
  BY <1>5, <1>10 DEF Spares
<1> QED
  BY <1>8, <1>9, <1>11 DEF Serves

-----------------------------------------------------------------------------
(* Whoever waits in the order of arrival is served in that order.          *)

\* Who waits in order does so whatever else changes.
LEMMA OrderSame ==
  ASSUME NEW l \in Seq(Req), NEW rp, NEW rq, InOrder(rq, l),
         \A r \in ToSet(l) : rp[r].outputs = rq[r].outputs
  PROVE  InOrder(rp, l)
<1>1. DOMAIN l = 1 .. Len(l)
  BY LenProperties
<1>2. \A i \in 1 .. Len(l) : l[i] \in ToSet(l)
  BY <1>1 DEF ToSet
<1> QED
  BY <1>2 DEF InOrder

\* In front may be requests that have generated something.
LEMMA OrderBehind ==
  ASSUME NEW h \in Seq(Req), NEW l \in Seq(Req), NEW rq, InOrder(rq, l),
         \A r \in ToSet(h) : rq[r].outputs # 0
  PROVE  InOrder(rq, h \o l)
<1>1. /\ Len(h) \in Nat /\ Len(l) \in Nat /\ DOMAIN h = 1 .. Len(h)
      /\ Len(h \o l) = Len(h) + Len(l)
      /\ \A i \in 1 .. Len(h) + Len(l) : (h \o l)[i] = IF i <= Len(h) THEN h[i] ELSE l[i - Len(h)]
  BY ConcatProperties, LenProperties
<1>2. \A i \in 1 .. Len(h) : rq[h[i]].outputs # 0
  BY <1>1 DEF ToSet
<1>3. PICK c : c = h \o l
  OBVIOUS
<1>4. ASSUME NEW i \in 1 .. Len(c), NEW j \in 1 .. Len(c), i < j, rq[c[i]].outputs = 0
      PROVE  c[i] < c[j]
  <2>1. ~ (i <= Len(h))
    BY <1>1, <1>2, <1>3, <1>4
  <2>2. PICK x, y : x = i - Len(h) /\ y = j - Len(h)
    OBVIOUS
  <2>3. x \in 1 .. Len(l) /\ y \in 1 .. Len(l) /\ x < y
    BY <1>1, <1>3, <1>4, <2>1, <2>2
  <2>4. c[i] = l[x] /\ c[j] = l[y]
    BY <1>1, <1>3, <1>4, <2>1, <2>2
  <2> QED
    BY <1>4, <2>3, <2>4 DEF InOrder
<1> QED
  BY <1>3, <1>4 DEF InOrder

\* Whoever is taken from the head has arrived before those left behind.
LEMMA OrderTaken ==
  ASSUME NEW l \in Seq(Req), NEW rq, InOrder(rq, l), NEW n \in 0 .. Len(l)
  PROVE  /\ InOrder(rq, SubSeq(l, n + 1, Len(l)))
         /\ \A r \in ToSet(SubSeq(l, 1, n)) : \A s \in ToSet(SubSeq(l, n + 1, Len(l))) :
              rq[r].outputs = 0 => r < s
<1> DEFINE t == SubSeq(l, n + 1, Len(l))
<1>1. Len(l) \in Nat /\ n \in Nat /\ n <= Len(l) /\ \A i \in 1 .. Len(l) : l[i] \in Req
  BY LenProperties, ElementOfSeq
<1>2. t \in Seq(Req) /\ Len(t) = Len(l) - n /\ \A i \in 1 .. Len(l) - n : t[i] = l[n + i]
  <2>1. n + 1 \in Int /\ Len(l) \in Int /\ \A i \in n + 1 .. Len(l) : l[i] \in Req
    BY <1>1
  <2>2. /\ t \in Seq(Req) /\ Len(t) = IF n + 1 <= Len(l) THEN Len(l) - (n + 1) + 1 ELSE 0
        /\ \A i \in 1 .. Len(l) - (n + 1) + 1 : t[i] = l[(n + 1) + i - 1]
    BY <2>1, SubSeqProperties
  <2> HIDE DEF t
  <2>3. ASSUME NEW i \in 1 .. Len(l) - n PROVE t[i] = l[n + i]
    <3>1. i \in 1 .. Len(l) - (n + 1) + 1 /\ (n + 1) + i - 1 = n + i
      BY <1>1
    <3> QED
      BY <2>2, <3>1
  <2> QED
    BY <1>1, <2>2, <2>3
<1>3. DOMAIN t = 1 .. Len(l) - n
  BY <1>2, LenProperties
<1>4. ToSet(SubSeq(l, 1, n)) = {l[i] : i \in 1 .. n}
  BY HeadSet
<1> HIDE DEF t
<1>5. InOrder(rq, t)
  <2> SUFFICES ASSUME NEW i \in 1 .. Len(t), NEW j \in 1 .. Len(t), i < j, rq[t[i]].outputs = 0
               PROVE  t[i] < t[j]
    BY DEF InOrder
  <2>1. n + i \in 1 .. Len(l) /\ n + j \in 1 .. Len(l) /\ n + i < n + j
    BY <1>1, <1>2
  <2>2. t[i] = l[n + i] /\ t[j] = l[n + j]
    BY <1>2
  <2> QED
    BY <2>1, <2>2 DEF InOrder
<1>6. ASSUME NEW r \in ToSet(SubSeq(l, 1, n)), NEW s \in ToSet(t), rq[r].outputs = 0
      PROVE  r < s
  <2>1. PICK i \in 1 .. n : r = l[i]
    BY <1>4
  <2>2. PICK j \in 1 .. Len(l) - n : s = l[n + j]
    BY <1>2, <1>3 DEF ToSet
  <2>3. i \in 1 .. Len(l) /\ n + j \in 1 .. Len(l) /\ i < n + j
    BY <1>1
  <2> QED
    BY <1>6, <2>1, <2>2, <2>3 DEF InOrder
<1> QED
  BY <1>5, <1>6 DEF t

\* What has been generated since the last preemption has been put out.
Earned(rq) == \A r \in Req : rq[r].generated > 0 => rq[r].outputs > 0

LEMMA OutputsOf ==
  /\ \A n, r : /\ NewRequest(n, r).outputs = 0 /\ NewRequest(n, r).generated = 0
               /\ Done(r).outputs = 0 /\ Done(r).generated = 0
  /\ \A q \in Entry : Recomputed(q).outputs = q.outputs /\ Recomputed(q).generated = 0
<1>1. ASSUME NEW n, NEW r
      PROVE  NewRequest(n, r).outputs = 0 /\ NewRequest(n, r).generated = 0
  BY DEF NewRequest
<1>2. ASSUME NEW r PROVE Done(r).outputs = 0 /\ Done(r).generated = 0
  BY DEF NewRequest, Done
<1>3. ASSUME NEW q \in Entry
      PROVE  Recomputed(q).outputs = q.outputs /\ Recomputed(q).generated = 0
  BY DEF Entry, Recomputed
<1> QED
  BY <1>1, <1>2, <1>3

\* Finished requests leave and preempted ones keep what they have put out.
LEMMA ClearedEarned ==
  ASSUME NEW rq \in [Req -> Entry], Earned(rq), NEW gone \in SUBSET Req,
         NEW done \in SUBSET Req, gone \cap done = {}, \A r \in gone : ~ Context(rq[r])
  PROVE  /\ Earned(Cleared(rq, gone, done))
         /\ \A r \in gone : Cleared(rq, gone, done)[r].outputs # 0
<1> DEFINE c == Cleared(rq, gone, done)
<1>1. \A r \in Req : /\ r \in gone => c[r] = Recomputed(rq[r])
                     /\ r \in done => c[r] = Done(r)
                     /\ r \notin gone /\ r \notin done => c[r] = rq[r]
  BY DEF Cleared
<1> HIDE DEF c
<1>2. ASSUME NEW r \in gone PROVE c[r].outputs # 0 /\ c[r].generated = 0
  <2>1. rq[r].generated \in Nat /\ rq[r].generated # 0
    BY DEF Entry, Context
  <2>2. rq[r].outputs # 0
    BY <2>1 DEF Earned
  <2>3. c[r].outputs = rq[r].outputs /\ c[r].generated = 0
    BY <1>1, OutputsOf
  <2> QED
    BY <2>2, <2>3
<1>3. ASSUME NEW r \in Req, r \notin gone PROVE c[r].generated > 0 => c[r].outputs > 0
  <2>1. CASE r \in done
    BY <1>1, <1>3, <2>1, OutputsOf
  <2>2. CASE r \notin done
    BY <1>1, <1>3, <2>2 DEF Earned
  <2> QED
    BY <2>1, <2>2
<1>4. \A r \in gone : c[r].generated > 0 => c[r].outputs > 0
  BY <1>2
<1> QED
  BY <1>2, <1>3, <1>4 DEF Earned, c

\* Nobody overtakes when v plans from q and makes a of it.
Fairly(rq, q, at, a) ==
  /\ Quiet(a.req, rq)
  /\ \A w \in Ve : InOrder(rq, a.q.short[w])
  /\ \A w \in Ve : \A r \in ToSet(a.q.running[w]) : \A u \in Ve :
       at[r] \in {InGlobal, InShort(u)} /\ rq[r].outputs = 0
         /\ ~ (bench.packing /\ rq[r].prompt > LongThreshold)
       => \A s \in ToSet(a.q.short[w]) : r < s

LEMMA PlannedFairly ==
  ASSUME NEW q, NEW at, Lined(q, at), NEW v \in Ve, NEW rq \in [Req -> Entry],
         pending \in [Ve -> Int], ~ bench.reorder, \A w \in Ve : InOrder(rq, q.short[w]),
         NEW a \in Plans(v, rq, BalancePrefill(v, rq, q))
  PROVE  Fairly(rq, q, at, a)
<1>1. PICK p : p = BalancePrefill(v, rq, q)
  OBVIOUS
<1>2. PICK mid : Lined(p, mid) /\ Comes(v, {}, at, mid, TRUE)
  BY <1>1, PrefillBalanced
<1>3. /\ p.global = <<>>
      /\ p.short = q.short \/ \A w \in Ve : Ascending(p.short[w])
      /\ \A w \in Ve : \A s \in ToSet(p.long[w]) :
           s \in ToSet(q.long[w]) \/ (bench.packing /\ rq[s].prompt > LongThreshold)
  BY <1>1, BalancedOrder
<1>4. Serves(v, rq, p, a)
  <2>1. a \in Plans(v, rq, p)
    BY <1>1
  <2> QED
    BY <1>2, <1>3, <2>1, PlanServes
<1>5. \A w \in Ve : /\ p.short[w] \in Seq(Req) /\ p.long[w] \in Seq(Req)
                    /\ p.running[w] \in Seq(Req) /\ q.long[w] \in Seq(Req)
  BY <1>2 DEF Lined, Good
<1>6. ASSUME NEW w \in Ve PROVE InOrder(rq, p.short[w])
  <2>1. CASE p.short = q.short
    BY <2>1
  <2>2. CASE Ascending(p.short[w])
    BY <2>2 DEF Ascending, InOrder
  <2> QED
    BY <1>3, <2>1, <2>2
<1>7. ASSUME NEW w \in Ve, NEW r \in ToSet(p.running[w]), NEW u \in Ve
      PROVE  at[r] # InGlobal /\ at[r] # InShort(u)
  <2>1. r \in Req /\ mid[r] = InRunning(w)
    <3>1. Good(p.running[w], mid, InRunning(w))
      BY <1>2 DEF Lined
    <3>2. r \in Req
      BY <1>5, ToSetRange
    <3> QED
      BY <1>7, <3>1, <3>2 DEF Good
  <2>2. \E x \in Ve : at[r] = InRunning(x)
    BY <1>2, <2>1 DEF Comes
  <2> QED
    BY <2>2, NamesApart
<1>8. ASSUME NEW w \in Ve, NEW r \in ToSet(p.long[w]), NEW u \in Ve,
             at[r] \in {InGlobal, InShort(u)}
      PROVE  bench.packing /\ rq[r].prompt > LongThreshold
  <2>1. r \notin ToSet(q.long[w])
    <3>1. Good(q.long[w], at, InLong(w)) /\ r \in Req
      BY <1>5, <1>8, ToSetRange DEF Lined
    <3>2. at[r] # InLong(w)
      BY <1>8, NamesApart
    <3> QED
      BY <3>1, <3>2 DEF Good
  <2> QED
    BY <1>3, <1>8, <2>1
<1>9. /\ Quiet(a.req, rq)
      /\ \A w \in Ve \ {v} : a.q.short[w] = p.short[w] /\ a.q.running[w] = p.running[w]
  BY <1>4 DEF Serves
<1>10. PICK n \in 0 .. Len(p.short[v]) :
       /\ a.q.short[v] = SubSeq(p.short[v], n + 1, Len(p.short[v]))
       /\ ToSet(a.q.running[v]) \subseteq ToSet(p.running[v]) \cup ToSet(p.long[v])
                                            \cup ToSet(SubSeq(p.short[v], 1, n))
  BY <1>4 DEF Serves
<1>11. /\ InOrder(rq, a.q.short[v])
       /\ \A r \in ToSet(SubSeq(p.short[v], 1, n)) : \A s \in ToSet(a.q.short[v]) :
            rq[r].outputs = 0 => r < s
  BY <1>5, <1>6, <1>10, OrderTaken
<1>12. ASSUME NEW w \in Ve PROVE InOrder(rq, a.q.short[w])
  BY <1>6, <1>9, <1>11
<1>13. ASSUME NEW w \in Ve, NEW r \in ToSet(a.q.running[w]), NEW u \in Ve,
              at[r] \in {InGlobal, InShort(u)}, rq[r].outputs = 0,
              ~ (bench.packing /\ rq[r].prompt > LongThreshold),
              NEW s \in ToSet(a.q.short[w])
       PROVE  r < s
  <2>1. r \notin ToSet(p.running[w]) /\ r \notin ToSet(p.long[w])
    BY <1>7, <1>8, <1>13
  <2>2. w = v
    BY <1>9, <1>13, <2>1
  <2>3. r \in ToSet(SubSeq(p.short[v], 1, n))
    BY <1>10, <1>13, <2>1, <2>2
  <2> QED
    BY <1>11, <1>13, <2>2, <2>3
<1> QED
  BY <1>9, <1>12, <1>13 DEF Fairly

\* The requests that leave the batch of v, and those among them that will wait.
Leavers(at, v, rq, rq1, gone, done) ==
  /\ gone \in SUBSET Req /\ done \in SUBSET Req
  /\ \A r \in done \cup gone : at[r] = InRunning(v)
  /\ \A r \in Req : r \notin gone /\ r \notin done => rq1[r] = rq[r]
  /\ \A r \in gone : rq1[r].outputs # 0

\* v's queue, with those that were preempted in front.
LEMMA QueuedOrder ==
  ASSUME NEW at, Lined(Now, at), NEW v \in Ve, NEW rq, \A w \in Ve : InOrder(rq, short[w]),
         NEW rq1, NEW gone, NEW done, Leavers(at, v, rq, rq1, gone, done),
         NEW live \in Seq(Req), NEW w \in Ve
  PROVE  InOrder(rq1, Queued(v, live, gone).short[w])
<1>0. /\ \A r \in done \cup gone : at[r] = InRunning(v)
      /\ \A r \in Req : r \notin gone /\ r \notin done => rq1[r] = rq[r]
      /\ \A r \in gone : rq1[r].outputs # 0
  BY Zenon DEF Leavers
<1>1. short \in [Ve -> Seq(Req)] /\ Now.short = short
  <2>1. Lines(unaccepted, short, long, running) \in Queues
    BY DEF Lined, Now
  <2> QED
    BY <2>1, LinesParts DEF Now
<1>2. short[w] \in Seq(Req) /\ Good(short[w], at, InShort(w))
  BY <1>1 DEF Lined
<1>3. InOrder(rq1, short[w])
  <2>1. ASSUME NEW r \in ToSet(short[w]) PROVE rq1[r].outputs = rq[r].outputs
    <3>1. r \in Req
      BY <1>2, ToSetRange
    <3>2. at[r] = InShort(w)
      BY <1>2, <3>1 DEF Good
    <3>3. r \notin done \cup gone
      BY <1>0, <3>2, NamesApart
    <3> QED
      BY <1>0, <3>1, <3>3
  <2> QED
    BY <1>2, <2>1, OrderSame
<1>4. CASE w = v
  <2>1. Queued(v, live, gone).short[v] = Those(live, gone) \o short[v]
    BY <1>1 DEF Queued, Requeued
  <2>2. Those(live, gone) \in Seq(Req) /\ \A r \in ToSet(Those(live, gone)) : rq1[r].outputs # 0
    BY <1>0, ThoseKept
  <2> QED
    BY <1>2, <1>3, <1>4, <2>1, <2>2, OrderBehind
<1>5. CASE w # v
  <2>1. Queued(v, live, gone).short[w] = short[w]
    BY <1>1, <1>5 DEF Queued
  <2> QED
    BY <1>3, <2>1
<1> QED
  BY <1>4, <1>5

\* Nobody overtakes when the next batch of v is made.
InTurn(at, rq) ==
  \A w \in Ve : \A r \in ToSet(running'[w]) \cap Req : \A u \in Ve :
    at[r] \in {InGlobal, InShort(u)} /\ rq[r].outputs = 0
      /\ ~ (bench.packing /\ rq[r].prompt > LongThreshold)
    => \A s \in ToSet(short'[w]) : r < s

LEMMA BatchFairly ==
  ASSUME NEW at, Lined(Now, at), NEW v \in Ve, NEW rq \in [Req -> Entry], NEW ranks,
         pending \in [Ve -> Int], phase = "balloon", ~ bench.reorder, Earned(rq),
         \A w \in Ve : InOrder(rq, short[w]), GetNextBatch(v, rq, ranks)
  PROVE  /\ Earned(req') /\ \A w \in Ve : InOrder(req', short'[w])
         /\ InTurn(at, rq)
<1> DEFINE done == Leaves(v, rq)
           live == Live(v, rq)
<1>1. PICK gone, a : Cleans(v, at, rq, ranks, gone, done, live, a)
  BY BatchCleaned
<1>0. live \in Seq(Req)
  <2>1. running[v] \in Seq(Req)
    <3>1. Lines(unaccepted, short, long, running) \in Queues
      BY DEF Lined, Now
    <3> QED
      BY <3>1, LinesParts
  <2> QED
    BY <2>1, ThoseKept DEF Live
<1> HIDE DEF done, live
<1> DEFINE q1 == Queued(v, live, gone)
           on == Left(at, done, gone, v)
           rq1 == Cleared(rq, gone, done)
<1>2. /\ done \in SUBSET Req /\ gone \in SUBSET Req /\ gone \cap done = {}
      /\ \A r \in done \cup gone : at[r] = InRunning(v)
      /\ \A r \in gone : ~ Context(rq[r])
      /\ Lined(q1, on) /\ a \in Plans(v, rq1, Replaced(v, rq1, q1))
      /\ Assigned(v, a, gone, done, ranks)
  BY <1>1 DEF Cleans
<1>3. /\ rq1 \in [Req -> Entry]
      /\ \A r \in Req : r \notin gone /\ r \notin done => rq1[r] = rq[r]
  <2>1. done \in SUBSET Req /\ gone \in SUBSET Req /\ gone \cap done = {}
    BY <1>2, Zenon
  <2>2. /\ rq1 \in [Req -> Entry]
        /\ \A r \in Req : LET n == rq1[r]
                          IN  /\ r \in done => n.is_finished
                              /\ rq[r].is_finished => n.is_finished
                              /\ r \notin gone /\ r \notin done => n = rq[r]
    BY <2>1, ClearedEntries
  <2> HIDE DEF rq1
  <2>3. ASSUME NEW r \in Req, r \notin gone, r \notin done PROVE rq1[r] = rq[r]
    BY <2>2, <2>3, Zenon
  <2>4. rq1 \in [Req -> Entry]
    BY <2>2, Zenon
  <2> QED
    BY <2>3, <2>4
<1>4. Earned(rq1) /\ \A r \in gone : rq1[r].outputs # 0
  <2>1. done \in SUBSET Req /\ gone \in SUBSET Req /\ gone \cap done = {}
        /\ \A r \in gone : ~ Context(rq[r])
    BY <1>2, Zenon
  <2> QED
    BY <2>1, ClearedEarned
<1> HIDE DEF on, rq1
<1>5. ASSUME NEW w \in Ve PROVE InOrder(rq1, q1.short[w])
  <2>0. Lined(Now, at) /\ \A x \in Ve : InOrder(rq, short[x])
    OBVIOUS
  <2>1. done \in SUBSET Req /\ gone \in SUBSET Req
        /\ \A r \in done \cup gone : at[r] = InRunning(v)
    BY <1>2, Zenon
  <2>2. Leavers(at, v, rq, rq1, gone, done)
    BY <1>3, <1>4, <2>1, Zenon DEF Leavers
  <2> QED
    BY <1>0, <2>0, <2>2, QueuedOrder
<1> HIDE DEF q1
<1>6. Fairly(rq1, q1, on, a)
  <2>1. Balanced
    BY DEF Balanced
  <2>2. a \in Plans(v, rq1, BalancePrefill(v, rq1, q1)) /\ Lined(q1, on)
    BY <1>2, <2>1, Zenon DEF Replaced
  <2> QED
    BY <1>3, <1>5, <2>2, PlannedFairly
<1>7. req' = a.req /\ running' = a.q.running /\ short' = a.q.short
  BY <1>2 DEF Assigned
<1>8. Quiet(req', rq1) /\ \A w \in Ve : InOrder(rq1, short'[w])
  BY <1>6, <1>7 DEF Fairly
<1>9. Earned(req')
  BY <1>4, <1>8 DEF Earned, Quiet
<1>10. ASSUME NEW w \in Ve PROVE InOrder(req', short'[w])
  <2>1. PICK mid, to : Lined(a.q, to)
    <3>1. a \in IF Balanced /\ bench.packing
                THEN SchedulePackedPrefill(v, rq1, Replaced(v, rq1, q1))
                ELSE SchedulePrefill(v, rq1, Replaced(v, rq1, q1))
      BY <1>2, Zenon DEF Plans
    <3>2. Lined(q1, on)
      BY <1>2
    <3>3. PICK q2 : q2 = Replaced(v, rq1, q1)
      OBVIOUS
    <3>4. q2 = IF Balanced THEN BalancePrefill(v, rq1, q1) ELSE q1
      BY <3>3 DEF Replaced
    <3>5. a \in IF Balanced /\ bench.packing THEN SchedulePackedPrefill(v, rq1, q2)
                ELSE SchedulePrefill(v, rq1, q2)
      BY <3>1, <3>3
    <3> QED
      BY <1>3, <3>2, <3>4, <3>5, BatchPlanned
  <2>2. short'[w] \in Seq(Req)
    BY <1>7, <2>1 DEF Lined, Good
  <2>3. \A r \in ToSet(short'[w]) : req'[r].outputs = rq1[r].outputs
    BY <1>8, <2>2, ToSetRange DEF Quiet
  <2> QED
    BY <1>8, <2>2, <2>3, OrderSame
<1>11. ASSUME NEW w \in Ve, NEW r \in ToSet(running'[w]), NEW u \in Ve, r \in Req,
              at[r] \in {InGlobal, InShort(u)}, rq[r].outputs = 0,
              ~ (bench.packing /\ rq[r].prompt > LongThreshold),
              NEW s \in ToSet(short'[w])
       PROVE  r < s
  <2>1. r \notin done /\ r \notin gone
    BY <1>2, <1>11, NamesApart
  <2>2. on[r] = at[r]
    BY <1>11, <2>1 DEF on, Left, Moved
  <2>3. rq1[r] = rq[r]
    BY <1>3, <1>11, <2>1
  <2>4. r \in ToSet(a.q.running[w]) /\ s \in ToSet(a.q.short[w])
    BY <1>7, <1>11
  <2>5. /\ on[r] \in {InGlobal, InShort(u)} /\ rq1[r].outputs = 0
        /\ ~ (bench.packing /\ rq1[r].prompt > LongThreshold)
    BY <1>11, <2>2, <2>3
  <2> QED
    BY <1>6, <2>4, <2>5 DEF Fairly
<1> QED
  BY <1>9, <1>10, <1>11 DEF InTurn

-----------------------------------------------------------------------------
(* The invariant of the order, and the steps.                              *)

\* While the group is ballooned and nobody prefers short prompts, requests that
\* have not generated anything wait in the order of arrival.
OrderInv ==
  phase = "balloon" /\ ~ bench.reorder =>
    Earned(req) /\ \A v \in Ve : InOrder(req, short[v])

\* The queues and their requests.
LEMMA NowWaiting ==
  ASSUME NEW at, Where(at)
  PROVE  /\ Lined(Now, at)
         /\ \A v \in Ve : /\ short[v] \in Seq(Req) /\ ToSet(short[v]) \subseteq Req
                          /\ \A r \in ToSet(short[v]) : at[r] = InShort(v)
         /\ ToSet(unaccepted) \subseteq Req
         /\ \A r \in ToSet(unaccepted) : at[r] = InGlobal
<1>1. Lined(Now, at)
  BY DEF Where
<1>2. Now.short = short /\ Now.global = unaccepted
  BY LinesParts DEF Now
<1>3. ASSUME NEW v \in Ve
      PROVE  /\ short[v] \in Seq(Req) /\ ToSet(short[v]) \subseteq Req
             /\ \A r \in ToSet(short[v]) : at[r] = InShort(v)
  <2>1. Good(short[v], at, InShort(v))
    <3>1. Good(Now.short[v], at, InShort(v))
      BY <1>1 DEF Lined
    <3> QED
      BY <1>2, <3>1
  <2>2. ToSet(short[v]) \subseteq Req
    BY <2>1, ToSetRange DEF Good
  <2> QED
    BY <2>1, <2>2 DEF Good
<1>4. ToSet(unaccepted) \subseteq Req /\ \A r \in ToSet(unaccepted) : at[r] = InGlobal
  <2>1. Good(unaccepted, at, InGlobal)
    <3>1. Good(Now.global, at, InGlobal)
      BY <1>1 DEF Lined
    <3> QED
      BY <1>2, <3>1
  <2>2. ToSet(unaccepted) \subseteq Req
    BY <2>1, ToSetRange DEF Good
  <2> QED
    BY <2>1, <2>2 DEF Good
<1> QED
  BY <1>1, <1>3, <1>4

LEMMA InitOrder == ASSUME Init PROVE OrderInv
<1>1. Earned(req)
  <2>1. \A r \in Req : req[r] = NewRequest(0, r)
    BY DEF Init
  <2> QED
    BY <2>1, OutputsOf DEF Earned
<1>2. ASSUME NEW v \in Ve PROVE InOrder(req, short[v])
  <2>1. PICK e \in Seq(Req) : e = <<>>
    BY EmptySeq
  <2>2. Len(e) = 0 /\ short[v] = e
    BY <2>1, EmptySeq DEF Init
  <2>3. InOrder(req, e)
    BY <2>2 DEF InOrder
  <2> QED
    BY <2>2, <2>3
<1> QED
  BY <1>1, <1>2 DEF OrderInv

\* A new request waits in no queue for short prompts.
LEMMA ArriveOrder ==
  ASSUME IInv, OrderInv, Arrive
  PROVE  OrderInv'
<1>1. PICK at : Where(at)
  BY DEF IInv
<1>2. req \in [Req -> Entry] /\ arrived \in 0 .. N
  BY DEF IInv
<1>3. PICK x, n : /\ x = arrived + 1 /\ req' = [req EXCEPT ![x] = NewRequest(n, x)]
                  /\ short' = short /\ phase' = phase /\ bench' = bench /\ x \in Req
  <2>1. N \in Nat
    BY LookAheadAssumption
  <2>2. arrived + 1 \in Req /\ arrived' = arrived + 1
    BY <1>2, <2>1 DEF Arrive, Req
  <2> QED
    BY <2>2 DEF Arrive
<1>4. at[x] = Nowhere
  <2>1. at[x] # Nowhere => x <= arrived
    BY <1>1, <1>3 DEF Where
  <2> QED
    BY <1>2, <1>3, <2>1
<1>5. /\ \A r \in Req : r # x => req'[r] = req[r]
      /\ req'[x].generated = 0
  BY <1>2, <1>3, OutputsOf
<1> SUFFICES ASSUME phase = "balloon", ~ bench.reorder
             PROVE  Earned(req') /\ \A v \in Ve : InOrder(req', short'[v])
  BY <1>3 DEF OrderInv
<1>6. Earned(req) /\ \A v \in Ve : InOrder(req, short[v])
  BY DEF OrderInv
<1>7. Earned(req')
  BY <1>5, <1>6 DEF Earned
<1>8. ASSUME NEW v \in Ve PROVE InOrder(req', short'[v])
  <2>1. /\ short[v] \in Seq(Req) /\ ToSet(short[v]) \subseteq Req
        /\ \A r \in ToSet(short[v]) : at[r] = InShort(v)
    BY <1>1, NowWaiting
  <2>2. \A r \in ToSet(short[v]) : req'[r].outputs = req[r].outputs
    BY <1>4, <1>5, <2>1, NamesApart
  <2> QED
    BY <1>3, <1>6, <2>1, <2>2, OrderSame
<1> QED
  BY <1>7, <1>8

LEMMA ComputedPutsOut ==
  ASSUME NEW q \in Entry, NEW limit
  PROVE  LET c == Computed(q, limit)
         IN  \/ c.generated = q.generated /\ c.outputs = q.outputs
             \/ c.outputs = q.outputs + 1
<1>1. PICK C : C = q.cached \cup (IF Context(q) THEN q.begin .. q.end - 1 ELSE {})
  OBVIOUS
<1> DEFINE d == [q EXCEPT !.cached = C]
           e == [d EXCEPT !.generated = @ + 1, !.outputs = @ + 1,
                          !.is_finished = @ \/ q.generated + 1 >= limit]
<1>2. Computed(q, limit) = IF FollowUp(q) THEN d ELSE e
  BY <1>1, Zenon DEF Computed
<1>3. d.generated = q.generated /\ d.outputs = q.outputs
  BY DEF Entry
<1>4. e.outputs = q.outputs + 1
  BY DEF Entry
<1> HIDE DEF d, e
<1> QED
  BY <1>2, <1>3, <1>4

\* What a step generates it puts out.
LEMMA EndedEarned ==
  ASSUME NEW v, NEW home, req \in [Req -> Entry], Earned(req)
  PROVE  Earned(Ended(v, home))
<1> SUFFICES ASSUME NEW r \in Req
             PROVE  Ended(v, home)[r].generated > 0 => Ended(v, home)[r].outputs > 0
  BY DEF Earned
<1>1. req[r] \in Entry /\ (req[r].generated > 0 => req[r].outputs > 0)
  BY DEF Earned
<1>2. CASE r \in InFlight(v)
  <2> DEFINE c == Computed(req[r], MaxTokens(req[r]))
  <2>1. Ended(v, home)[r] = [c EXCEPT !.fusion_exec = @ /\ r \notin home]
    BY <1>2 DEF Ended
  <2>2. c \in Entry
    BY <1>1, ComputedEntry
  <2>3. \/ c.generated = req[r].generated /\ c.outputs = req[r].outputs
        \/ c.outputs = req[r].outputs + 1
    BY <1>1, ComputedPutsOut
  <2> HIDE DEF c
  <2>4. \A b : [c EXCEPT !.fusion_exec = b].generated = c.generated
               /\ [c EXCEPT !.fusion_exec = b].outputs = c.outputs
    BY <2>2 DEF Entry
  <2>5. Ended(v, home)[r].generated = c.generated /\ Ended(v, home)[r].outputs = c.outputs
    BY <2>1, <2>4
  <2>6. c.outputs \in Nat /\ req[r].outputs \in Nat
    BY <1>1, <2>2 DEF Entry
  <2> QED
    BY <1>1, <2>3, <2>5, <2>6
<1>3. CASE r \notin InFlight(v)
  <2>1. Ended(v, home)[r] = req[r]
    BY <1>3 DEF Ended
  <2> QED
    BY <1>1, <2>1
<1> QED
  BY <1>2, <1>3
\* Nobody overtakes when a step ends.
LEMMA EndStepOrder ==
  ASSUME IInv, OrderInv, NEW v \in Ve, EndStep(v), NEW at, Where(at),
         phase = "balloon", ~ bench.reorder
  PROVE  /\ Earned(req') /\ \A w \in Ve : InOrder(req', short'[w])
         /\ InTurn(at, req)
<1>1. /\ req \in [Req -> Entry] /\ pending \in [Ve -> Int]
      /\ step \in [Ve -> [busy : BOOLEAN, batch : Seq(Req)]]
  BY DEF IInv
<1>2. PICK home : GoesOn(v, Ended(v, home), Homed(v, home))
  BY <1>1, EndParts
<1>3. Earned(req) /\ \A w \in Ve : InOrder(req, short[w])
  BY DEF OrderInv
<1> DEFINE rq    == Ended(v, home)
           ranks == Homed(v, home)
<1>4. /\ rq \in [Req -> Entry]
      /\ \A r \in Req : r \notin InFlight(v) => rq[r] = req[r]
  BY <1>1, EndedEntries
<1>5. Earned(rq)
  BY <1>1, <1>3, EndedEarned
<1>6. GoesOn(v, rq, ranks)
  BY <1>2
<1> HIDE DEF rq, ranks
<1>7. ASSUME NEW r \in Req, NEW u \in Ve, at[r] \in {InGlobal, InShort(u)}
      PROVE  rq[r] = req[r]
  <2>1. at[r] # InRunning(v)
    BY <1>7, NamesApart
  <2>2. r \notin InFlight(v)
    BY <2>1 DEF Where
  <2> QED
    BY <1>4, <2>2
<1>8. ASSUME NEW w \in Ve PROVE InOrder(rq, short[w])
  <2>1. /\ short[w] \in Seq(Req) /\ ToSet(short[w]) \subseteq Req
        /\ \A r \in ToSet(short[w]) : at[r] = InShort(w)
    BY NowWaiting
  <2>2. \A r \in ToSet(short[w]) : rq[r].outputs = req[r].outputs
    BY <1>7, <2>1
  <2> QED
    BY <1>3, <2>1, <2>2, OrderSame
<1>9. CASE stopped
  <2>1. req' = rq /\ short' = short /\ running' = running
    BY <1>6, <1>9 DEF GoesOn
  <2>2. ASSUME NEW w \in Ve, NEW r \in ToSet(running'[w]) \cap Req, NEW u \in Ve
        PROVE  at[r] \notin {InGlobal, InShort(u)}
    <3>1. at[r] = InRunning(w)
      BY <2>1, <2>2, NowRunning
    <3> QED
      BY <3>1, NamesApart
  <2>3. InTurn(at, req)
    BY <2>2 DEF InTurn
  <2> QED
    BY <1>5, <1>8, <2>1, <2>3
<1>10. CASE ~ stopped
  <2>1. GetNextBatch(v, rq, ranks)
    BY <1>6, <1>10 DEF GoesOn
  <2>2. Lined(Now, at)
    BY DEF Where
  <2>3. /\ Earned(req') /\ \A w \in Ve : InOrder(req', short'[w])
        /\ InTurn(at, rq)
    BY <1>1, <1>4, <1>5, <1>8, <2>1, <2>2, BatchFairly
  <2>4. InTurn(at, req)
    BY <1>7, <2>3 DEF InTurn
  <2> QED
    BY <2>3, <2>4
<1> QED
  BY <1>9, <1>10

\* Nothing moves, and nobody is computed.
LEMMA QuietOrder ==
  ASSUME OrderInv, UNCHANGED <<bench, req, short>>, phase' = phase \/ phase' # "balloon"
  PROVE  OrderInv'
<1>1. CASE phase' # "balloon"
  BY <1>1 DEF OrderInv
<1>2. CASE phase' = phase
  BY <1>2 DEF OrderInv
<1> QED
  BY <1>1, <1>2

LEMMA OrderKept ==
  ASSUME IInv, OrderInv, [Next]_vars
  PROVE  OrderInv'
<1>1. CASE Arrive
  BY <1>1, ArriveOrder
<1>2. ASSUME NEW v \in Ve, StartStep(v) PROVE OrderInv'
  BY <1>2, QuietOrder DEF StartStep
<1>3. ASSUME NEW v \in Ve, EndStep(v) PROVE OrderInv'
  <2>1. phase' = phase /\ bench' = bench
    BY <1>3 DEF EndStep
  <2>2. PICK at : Where(at)
    BY DEF IInv
  <2> SUFFICES ASSUME phase = "balloon", ~ bench.reorder
               PROVE  Earned(req') /\ \A w \in Ve : InOrder(req', short'[w])
    BY <2>1 DEF OrderInv
  <2> QED
    BY <1>3, <2>2, EndStepOrder
<1>4. CASE Stop
  BY <1>4, QuietOrder DEF Stop
<1>5. CASE Restore
  BY <1>5, QuietOrder DEF Restore
<1>6. CASE UNCHANGED vars
  BY <1>6, QuietOrder DEF vars
<1> QED
  BY <1>1, <1>2, <1>3, <1>4, <1>5, <1>6 DEF Next

\* What a step may not do to those that wait.
NoOvertaking ==
  \A v \in Ve : \A r \in ToSet(running'[v]) \cap (ToSet(short[v]) \cup ToSet(unaccepted)) :
    Fused /\ ~ bench.reorder /\ Fresh(r) => \A s \in ToSet(short'[v]) : r < s

LEMMA StepInTurn ==
  ASSUME IInv, OrderInv, [Next]_vars
  PROVE  NoOvertaking
<1> SUFFICES ASSUME NEW v \in Ve,
                    NEW r \in ToSet(running'[v]) \cap (ToSet(short[v]) \cup ToSet(unaccepted)),
                    Fused, ~ bench.reorder, Fresh(r), NEW s \in ToSet(short'[v])
             PROVE  r < s
  BY DEF NoOvertaking
<1>1. PICK at : Where(at)
  BY DEF IInv
<1>2. r \in Req /\ at[r] \in {InGlobal, InShort(v)}
  BY <1>1, NowWaiting
<1>3. ASSUME running' = running PROVE FALSE
  <2>1. at[r] = InRunning(v)
    BY <1>1, <1>3, NowRunning
  <2> QED
    BY <1>2, <2>1, NamesApart
<1>4. ASSUME NEW w \in Ve, EndStep(w) PROVE r < s
  <2>1. InTurn(at, req)
    BY <1>1, <1>4, EndStepOrder DEF Fused
  <2>2. req[r].outputs = 0 /\ ~ (bench.packing /\ req[r].prompt > LongThreshold)
    BY DEF Fresh, Long
  <2> QED
    BY <1>2, <2>1, <2>2 DEF InTurn
<1>5. (\E w \in Ve : EndStep(w)) \/ running' = running
  BY DEF Next, Arrive, StartStep, Stop, Restore, vars
<1> QED
  BY <1>3, <1>4, <1>5

\* A request that has not generated anything starts before those that arrived
\* later and wait for the same virtual engine (the sort by arrival of
\* balance_prefill, flash_backend.py:1857-1861), unless short prompts are preferred.
THEOREM FirstComeHolds == Spec => FirstComeFirstServed
<1>1. Init => OrderInv
  BY InitOrder
<1>2. IInv /\ OrderInv /\ [Next]_vars => OrderInv'
  BY OrderKept
<1>3. IInv /\ OrderInv /\ [Next]_vars => [NoOvertaking]_vars
  BY StepInTurn
<1>4. Spec => [][NoOvertaking]_vars
  BY <1>1, <1>2, <1>3, Invariance, PTL DEF Spec
<1>5. [][NoOvertaking]_vars => FirstComeFirstServed
  BY PTL DEF FirstComeFirstServed, NoOvertaking
<1> QED
  BY <1>4, <1>5
=============================================================================
