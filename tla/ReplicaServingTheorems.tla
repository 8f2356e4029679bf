----------------------- MODULE ReplicaServingTheorems -----------------------
(***************************************************************************)
(* Proofs about ReplicaServing, for any number of instances, virtual       *)
(* engines, requests and blocks.  The invariant, Inv below, says where a   *)
(* request can be, with what location, during each await of a step.        *)
(***************************************************************************)
EXTENDS ReplicaServing, FiniteSetTheorems, TLAPS

-----------------------------------------------------------------------------
(* Shares of blocks.                                                       *)

\* Whoever leaves has its blocks copied away.
LEMMA PartitionLeave ==
  ASSUME NEW B, NEW fr, NEW sw, NEW A, NEW tb,
         NEW sw2, NEW A2, NEW tb2, NEW r \in A,
         Partition(B, fr, sw, A, tb),
         sw2 = sw \cup tb[r], A2 = A \ {r},
         \A s \in A2 : tb2[s] = tb[s]
  PROVE  Partition(B, fr, sw2, A2, tb2)
<1>1. fr \cup sw2 \cup UNION {tb2[s] : s \in A2} = B
  BY DEF Partition
<1>2. fr \cap sw2 = {}
  BY DEF Partition
<1>3. \A s \in A2 : /\ tb2[s] \cap (fr \cup sw2) = {}
                    /\ \A u \in A2 : s # u => tb2[s] \cap tb2[u] = {}
  BY DEF Partition
<1> QED  BY <1>1, <1>2, <1>3 DEF Partition

LEMMA PartitionSettle ==
  ASSUME NEW B, NEW fr, NEW sw, NEW A, NEW tb,
         Partition(B, fr, sw, A, tb)
  PROVE  Partition(B, fr \cup sw, {}, A, tb)
BY DEF Partition

LEMMA PartitionFree ==
  ASSUME NEW B, NEW fr, NEW sw, NEW A, NEW tb, NEW S,
         NEW fr2, NEW A2, NEW tb2,
         Partition(B, fr, sw, A, tb), S \subseteq A,
         fr2 = fr \cup UNION {tb[r] : r \in S}, A2 = A \ S,
         \A s \in A2 : tb2[s] = tb[s]
  PROVE  Partition(B, fr2, sw, A2, tb2)
<1>1. fr2 \cup sw \cup UNION {tb2[s] : s \in A2} = B
  BY DEF Partition
<1>2. fr2 \cap sw = {}
  BY DEF Partition
<1>3. \A s \in A2 : /\ tb2[s] \cap (fr2 \cup sw) = {}
                    /\ \A u \in A2 : s # u => tb2[s] \cap tb2[u] = {}
  BY DEF Partition
<1> QED  BY <1>1, <1>2, <1>3 DEF Partition

LEMMA PartitionFrame ==
  ASSUME NEW B, NEW fr, NEW sw, NEW A, NEW tb, NEW tb2,
         Partition(B, fr, sw, A, tb), \A s \in A : tb2[s] = tb[s]
  PROVE  Partition(B, fr, sw, A, tb2)
BY DEF Partition

-----------------------------------------------------------------------------
(* Operations of the block manager.                                        *)

\* _get_free_blocks returns blocks that were on one of the lists, and takes
\* them off.
LEMMA TakenFromLists ==
  ASSUME NEW i, NEW d, NEW n, free[i][d] \cap swapping[i][d] = {},
         NEW t \in Taken(i, d, n)
  PROVE  /\ t.got \subseteq free[i][d] \cup swapping[i][d]
         /\ t.free \cup t.swapping = (free[i][d] \cup swapping[i][d]) \ t.got
         /\ t.free \cap t.swapping = {}
<1> DEFINE missing == n - Cardinality(free[i][d])
<1>1. CASE missing <= 0
  <2>1. PICK S \in kSubset(n, free[i][d]) :
          t = [got |-> S, free |-> free[i][d] \ S, swapping |-> swapping[i][d]]
    BY <1>1 DEF Taken
  <2>2. S \subseteq free[i][d]
    BY DEF kSubset
  <2>3. t.got = S /\ t.free = free[i][d] \ S /\ t.swapping = swapping[i][d]
    BY <2>1
  <2> QED  BY <2>2, <2>3
<1>2. CASE ~ (missing <= 0)
  <2>1. PICK S \in kSubset(missing, swapping[i][d]) :
          t = [got |-> free[i][d] \cup S, free |-> swapping[i][d] \ S,
               swapping |-> {}]
    BY <1>2 DEF Taken
  <2>2. S \subseteq swapping[i][d]
    BY DEF kSubset
  <2>3. t.got = free[i][d] \cup S /\ t.free = swapping[i][d] \ S /\ t.swapping = {}
    BY <2>1
  <2> QED  BY <2>2, <2>3
<1> QED  BY <1>1, <1>2

PoolsOK ==
  /\ free \in [Instance -> [Device -> SUBSET (Gpu \cup Cpu)]]
  /\ swapping \in [Instance -> [Device -> SUBSET (Gpu \cup Cpu)]]
  /\ table \in [Req -> SUBSET (Gpu \cup Cpu)]
  /\ location \in [Req -> Device \cup {"none"}]
  /\ BlocksConserved

LEMMA PoolsKept ==
  PoolsOK /\ UNCHANGED <<pools, home>> => PoolsOK'
BY DEF PoolsOK, BlocksConserved, Partition, On, pools

\* The request is on the GPU already or has no blocks.
LEMMA AllocateConserves ==
  ASSUME PoolsOK, NEW r \in Req, home[r] \in Instance,
         location[r] = "gpu" \/ (location[r] = "none" /\ table[r] = {}),
         Allocate(r), UNCHANGED home
  PROVE  /\ PoolsOK'
         /\ \A s \in Req : s # r => table'[s] = table[s] /\ location'[s] = location[s]
         /\ location'[r] = "gpu"
<1> DEFINE i == home[r]
<1>1. PICK t \in Taken(i, "gpu", Lacks(r)) :
        /\ free' = [free EXCEPT ![i]["gpu"] = t.free]
        /\ swapping' = [swapping EXCEPT ![i]["gpu"] = t.swapping]
        /\ table' = [table EXCEPT ![r] = @ \cup t.got]
        /\ location' = [location EXCEPT ![r] = "gpu"]
  BY DEF Allocate
<1>2. "gpu" \in Device /\ "cpu" \in Device
  BY DEF Device
<1>3. free[i]["gpu"] \cap swapping[i]["gpu"] = {}
  BY <1>2 DEF PoolsOK, BlocksConserved, Partition
<1>4. /\ t.got \subseteq free[i]["gpu"] \cup swapping[i]["gpu"]
      /\ t.free \cup t.swapping = (free[i]["gpu"] \cup swapping[i]["gpu"]) \ t.got
      /\ t.free \cap t.swapping = {}
  BY <1>3, TakenFromLists
<1>5. /\ free' \in [Instance -> [Device -> SUBSET (Gpu \cup Cpu)]]
      /\ swapping' \in [Instance -> [Device -> SUBSET (Gpu \cup Cpu)]]
      /\ table' \in [Req -> SUBSET (Gpu \cup Cpu)]
      /\ location' \in [Req -> Device \cup {"none"}]
  <2>1. {t.free, t.swapping, t.got} \subseteq SUBSET (Gpu \cup Cpu)
    BY <1>2, <1>4 DEF PoolsOK
  <2> QED  BY <1>1, <1>2, <2>1 DEF PoolsOK
<1>6. /\ \A s \in Req : s # r => table'[s] = table[s] /\ location'[s] = location[s]
      /\ table'[r] = table[r] \cup t.got /\ location'[r] = "gpu"
  BY <1>1 DEF PoolsOK
<1>7. ASSUME NEW j \in Instance, NEW d \in Device
      PROVE  Partition(Blocks(d), free'[j][d], swapping'[j][d], On(j, d)', table')
  <2>1. Partition(Blocks(d), free[j][d], swapping[j][d], On(j, d), table)
    BY DEF PoolsOK, BlocksConserved
  <2>2. CASE j = i /\ d = "gpu"
    <3>1. free'[j][d] = t.free /\ swapping'[j][d] = t.swapping
      BY <1>1, <1>2, <2>2 DEF PoolsOK
    <3>2. On(j, d)' = On(j, d) \cup {r}
      BY <1>6, <2>2 DEF On
    <3>3. \/ r \in On(j, d) /\ table'[r] = table[r] \cup t.got
          \/ r \notin On(j, d) /\ table'[r] = t.got
      BY <1>6, <2>2 DEF On
    <3>4. \A s \in On(j, d)' \ {r} : table'[s] = table[s]
      BY <1>6 DEF On
    <3>5. Partition(Blocks(d), free[i]["gpu"], swapping[i]["gpu"], On(j, d), table)
      BY <2>1, <2>2
    <3>6. Partition(Blocks(d), t.free, t.swapping, On(j, d)', table')
      BY <1>4, <3>2, <3>3, <3>4, <3>5 DEF Partition
    <3> QED  BY <3>1, <3>6
  <2>3. CASE ~ (j = i /\ d = "gpu")
    <3>1. free'[j][d] = free[j][d] /\ swapping'[j][d] = swapping[j][d]
      BY <1>1, <1>2, <2>3 DEF PoolsOK
    <3>2. On(j, d)' = On(j, d) /\ r \notin On(j, d)
      BY <1>6, <2>3 DEF On, Device
    <3>3. \A s \in On(j, d) : table'[s] = table[s]
      BY <1>6, <3>2 DEF On
    <3> QED  BY <2>1, <3>1, <3>2, <3>3, PartitionFrame
  <2> QED  BY <2>2, <2>3
<1>8. BlocksConserved'
  BY <1>7 DEF BlocksConserved, Blocks
<1> QED  BY <1>5, <1>6, <1>8 DEF PoolsOK

\* The new blocks are taken on one device while the old ones are copied away
\* on the other.
LEMMA SwapConserves ==
  ASSUME PoolsOK, NEW r \in Req, home[r] \in Instance,
         NEW from \in Device, NEW to \in Device, from # to, location[r] = from,
         SwapOne(r, from, to), UNCHANGED home
  PROVE  /\ PoolsOK'
         /\ \A s \in Req : s # r => table'[s] = table[s] /\ location'[s] = location[s]
         /\ location'[r] = to
<1> DEFINE i == home[r]
<1>1. PICK t \in Taken(i, to, Cardinality(table[r])) :
        /\ free' = [free EXCEPT ![i][to] = t.free]
        /\ swapping' = [swapping EXCEPT ![i] =
             [d \in Device |-> IF d = to THEN t.swapping
                               ELSE swapping[i][d] \cup table[r]]]
        /\ table' = [table EXCEPT ![r] = t.got]
        /\ location' = [location EXCEPT ![r] = to]
  BY DEF SwapOne
<1>2. free[i][to] \cap swapping[i][to] = {}
  BY DEF PoolsOK, BlocksConserved, Partition
<1>3. /\ t.got \subseteq free[i][to] \cup swapping[i][to]
      /\ t.free \cup t.swapping = (free[i][to] \cup swapping[i][to]) \ t.got
      /\ t.free \cap t.swapping = {}
  BY <1>2, TakenFromLists
<1>4. /\ free' \in [Instance -> [Device -> SUBSET (Gpu \cup Cpu)]]
      /\ swapping' \in [Instance -> [Device -> SUBSET (Gpu \cup Cpu)]]
      /\ table' \in [Req -> SUBSET (Gpu \cup Cpu)]
      /\ location' \in [Req -> Device \cup {"none"}]
  <2>1. {t.free, t.swapping, t.got} \subseteq SUBSET (Gpu \cup Cpu)
    BY <1>3 DEF PoolsOK
  <2>2. free' \in [Instance -> [Device -> SUBSET (Gpu \cup Cpu)]]
    BY <1>1, <2>1 DEF PoolsOK
  <2>3. [d \in Device |-> IF d = to THEN t.swapping ELSE swapping[i][d] \cup table[r]]
          \in [Device -> SUBSET (Gpu \cup Cpu)]
    BY <2>1 DEF PoolsOK
  <2>4. swapping' \in [Instance -> [Device -> SUBSET (Gpu \cup Cpu)]]
    BY <1>1, <2>3 DEF PoolsOK
  <2> QED  BY <1>1, <2>1, <2>2, <2>4 DEF PoolsOK
<1>5. /\ \A s \in Req : s # r => table'[s] = table[s] /\ location'[s] = location[s]
      /\ table'[r] = t.got /\ location'[r] = to
  BY <1>1 DEF PoolsOK
<1>6. ASSUME NEW j \in Instance, NEW d \in Device
      PROVE  Partition(Blocks(d), free'[j][d], swapping'[j][d], On(j, d)', table')
  <2>1. Partition(Blocks(d), free[j][d], swapping[j][d], On(j, d), table)
    BY DEF PoolsOK, BlocksConserved
  <2>2. CASE j = i /\ d = to
    <3>1. free'[j][d] = t.free /\ swapping'[j][d] = t.swapping
      BY <1>1, <2>2 DEF PoolsOK
    <3>2. On(j, d)' = On(j, d) \cup {r} /\ r \notin On(j, d)
      BY <1>5, <2>2 DEF On
    <3>3. \A s \in On(j, d)' \ {r} : table'[s] = table[s]
      BY <1>5 DEF On
    <3>4. Partition(Blocks(d), free[i][to], swapping[i][to], On(j, d), table)
      BY <2>1, <2>2
    <3>5. Partition(Blocks(d), t.free, t.swapping, On(j, d)', table')
      BY <1>3, <1>5, <3>2, <3>3, <3>4 DEF Partition
    <3> QED  BY <3>1, <3>5
  <2>3. CASE j = i /\ d = from
    <3>1. free'[j][d] = free[j][d] /\ swapping'[j][d] = swapping[j][d] \cup table[r]
      BY <1>1, <2>3 DEF PoolsOK
    <3>2. On(j, d)' = On(j, d) \ {r} /\ r \in On(j, d)
      BY <1>5, <2>3 DEF On
    <3>3. \A s \in On(j, d)' : table'[s] = table[s]
      BY <1>5, <3>2 DEF On
    <3> QED  BY <2>1, <3>1, <3>2, <3>3, PartitionLeave
  <2>4. CASE j # i
    <3>1. free'[j][d] = free[j][d] /\ swapping'[j][d] = swapping[j][d]
      BY <1>1, <2>4 DEF PoolsOK
    <3>2. On(j, d)' = On(j, d) /\ r \notin On(j, d)
      BY <1>5, <2>4 DEF On
    <3>3. \A s \in On(j, d) : table'[s] = table[s]
      BY <1>5, <3>2 DEF On
    <3> QED  BY <2>1, <3>1, <3>2, <3>3, PartitionFrame
  <2>5. d = from \/ d = to
    BY DEF Device
  <2> QED  BY <2>2, <2>3, <2>4, <2>5
<1>7. BlocksConserved'
  BY <1>6 DEF BlocksConserved, Blocks
<1> QED  BY <1>4, <1>5, <1>7 DEF PoolsOK

LEMMA SettleConserves ==
  ASSUME PoolsOK, NEW i \in Instance, NEW d \in Device,
         Settle(i, d), UNCHANGED home
  PROVE  PoolsOK'
<1>1. /\ free' \in [Instance -> [Device -> SUBSET (Gpu \cup Cpu)]]
      /\ swapping' \in [Instance -> [Device -> SUBSET (Gpu \cup Cpu)]]
      /\ free'[i][d] = free[i][d] \cup swapping[i][d] /\ swapping'[i][d] = {}
      /\ \A j \in Instance, c \in Device : j # i \/ c # d =>
           free'[j][c] = free[j][c] /\ swapping'[j][c] = swapping[j][c]
  BY DEF PoolsOK, Settle
<1>2. ASSUME NEW j \in Instance, NEW c \in Device
      PROVE  Partition(Blocks(c), free'[j][c], swapping'[j][c], On(j, c)', table')
  <2>1. Partition(Blocks(c), free[j][c], swapping[j][c], On(j, c), table)
    BY DEF PoolsOK, BlocksConserved
  <2>2. On(j, c)' = On(j, c) /\ table' = table
    BY DEF On, Settle
  <2>3. CASE j = i /\ c = d
    BY <1>1, <2>1, <2>2, <2>3 DEF Partition
  <2>4. CASE ~ (j = i /\ c = d)
    BY <1>1, <2>1, <2>2, <2>4
  <2> QED  BY <2>3, <2>4
<1> QED  BY <1>1, <1>2 DEF PoolsOK, BlocksConserved, Blocks, Settle

LEMMA FreeConserves ==
  ASSUME PoolsOK, NEW i \in Instance, NEW S \in SUBSET On(i, "gpu"),
         FreeBlocks(i, S), UNCHANGED home
  PROVE  /\ PoolsOK'
         /\ \A r \in Req \ S : table'[r] = table[r] /\ location'[r] = location[r]
         /\ \A r \in S : table'[r] = {} /\ location'[r] = "none"
<1>1. "gpu" \in Device /\ S \subseteq Req
  BY DEF Device, On
<1>2. /\ \A r \in Req \ S : table'[r] = table[r] /\ location'[r] = location[r]
      /\ \A r \in S : table'[r] = {} /\ location'[r] = "none"
  BY <1>1 DEF FreeBlocks
<1>3. /\ free' \in [Instance -> [Device -> SUBSET (Gpu \cup Cpu)]]
      /\ table' \in [Req -> SUBSET (Gpu \cup Cpu)]
      /\ location' \in [Req -> Device \cup {"none"}]
      /\ free'[i]["gpu"] = free[i]["gpu"] \cup UNION {table[r] : r \in S}
      /\ \A j \in Instance, c \in Device : j # i \/ c # "gpu" => free'[j][c] = free[j][c]
      /\ swapping' = swapping
  <2>1. UNION {table[r] : r \in S} \subseteq Gpu \cup Cpu
    BY <1>1 DEF PoolsOK
  <2>2. table' \in [Req -> SUBSET (Gpu \cup Cpu)] /\ location' \in [Req -> Device \cup {"none"}]
    BY DEF PoolsOK, FreeBlocks
  <2> QED  BY <1>1, <2>1, <2>2 DEF PoolsOK, FreeBlocks
<1>4. ASSUME NEW j \in Instance, NEW d \in Device
      PROVE  Partition(Blocks(d), free'[j][d], swapping'[j][d], On(j, d)', table')
  <2>1. Partition(Blocks(d), free[j][d], swapping[j][d], On(j, d), table)
    BY DEF PoolsOK, BlocksConserved
  <2>2. CASE j = i /\ d = "gpu"
    <3>1. On(j, d)' = On(j, d) \ S
      BY <1>1, <1>2, <2>2 DEF On
    <3>2. \A s \in On(j, d)' : table'[s] = table[s]
      BY <1>2, <3>1 DEF On
    <3> QED  BY <1>3, <2>1, <2>2, <3>1, <3>2, PartitionFree
  <2>3. CASE ~ (j = i /\ d = "gpu")
    <3>1. On(j, d)' = On(j, d) /\ \A s \in On(j, d) : s \notin S
      BY <1>1, <1>2, <2>3 DEF On, Device
    <3>2. \A s \in On(j, d) : table'[s] = table[s]
      BY <1>2, <3>1 DEF On
    <3> QED  BY <1>3, <2>1, <2>3, <3>1, <3>2, PartitionFrame
  <2> QED  BY <2>2, <2>3
<1> QED  BY <1>2, <1>3, <1>4 DEF PoolsOK, BlocksConserved, Blocks

-----------------------------------------------------------------------------
(* Places.                                                                 *)

\* The action moves S from a to b.
Moved(a, b, S) ==
  \A p \in Place : Holders'[p] = IF p = a THEN Holders[a] \ S
                                 ELSE IF p = b THEN Holders[b] \cup S
                                 ELSE Holders[p]

LEMMA PlaceCases ==
  ASSUME NEW p \in Place
  PROVE  \/ \E i \in Instance : p = <<"unaccepted", i>>
         \/ \E e \in Engine : p \in {<<"running", e>>, <<"swapped", e>>, <<"moving", e>>}
BY DEF Place

LEMMA PlacesOf ==
  /\ \A i \in Instance : <<"unaccepted", i>> \in Place
  /\ \A e \in Engine : {<<"running", e>>, <<"swapped", e>>, <<"moving", e>>} \subseteq Place
BY DEF Place

LEMMA HoldersAre ==
  /\ \A i \in Instance : Holders[<<"unaccepted", i>>] = unaccepted[i]
  /\ \A e \in Engine : /\ Holders[<<"running", e>>] = running[e]
                       /\ Holders[<<"swapped", e>>] = ToSet(swapped[e])
                       /\ Holders[<<"moving", e>>] = Moving(e)
BY PlacesOf DEF Holders

LEMMA HoldersBecome ==
  /\ \A i \in Instance : Holders'[<<"unaccepted", i>>] = unaccepted'[i]
  /\ \A e \in Engine : /\ Holders'[<<"running", e>>] = running'[e]
                       /\ Holders'[<<"swapped", e>>] = ToSet(swapped'[e])
                       /\ Holders'[<<"moving", e>>] = Moving(e)'
BY PlacesOf DEF Holders

LEMMA HoldersSame ==
  ASSUME UNCHANGED queues, \A e \in Engine : Moving(e)' = Moving(e)
  PROVE  \A p \in Place : Holders'[p] = Holders[p]
<1>1. unaccepted' = unaccepted /\ running' = running /\ swapped' = swapped
  BY DEF queues
<1>2. TAKE p \in Place
<1>3. CASE \E i \in Instance : p = <<"unaccepted", i>>
  BY <1>1, <1>3, HoldersAre, HoldersBecome
<1>4. ASSUME NEW e \in Engine, p \in {<<"running", e>>, <<"swapped", e>>, <<"moving", e>>}
      PROVE  Holders'[p] = Holders[p]
  <2>1. Holders'[<<"running", e>>] = Holders[<<"running", e>>]
    BY <1>1, HoldersAre, HoldersBecome, Zenon
  <2>2. Holders'[<<"swapped", e>>] = Holders[<<"swapped", e>>]
    BY <1>1, HoldersAre, HoldersBecome, Zenon
  <2>3. Holders'[<<"moving", e>>] = Holders[<<"moving", e>>]
    BY HoldersAre, HoldersBecome, Zenon
  <2> QED
    BY <1>4, <2>1, <2>2, <2>3
<1> QED  BY <1>3, <1>4, PlaceCases

LEMMA TransferApart ==
  ASSUME NEW a \in Place, NEW b \in Place, a # b, NEW S, S \subseteq Holders[a],
         Moved(a, b, S), Apart
  PROVE  /\ Apart'
         /\ \A r : (\E p \in Place : r \in Holders[p]) => \E p \in Place : r \in Holders'[p]
<1>1. Place' = Place
  BY DEF Place
<1>2. ASSUME NEW p \in Place, NEW q \in Place, p # q
      PROVE  Holders'[p] \cap Holders'[q] = {}
  <2>1. /\ Holders[p] \cap Holders[q] = {} /\ Holders[a] \cap Holders[b] = {}
        /\ p # a => Holders[p] \cap Holders[a] = {}
        /\ q # a => Holders[q] \cap Holders[a] = {}
        /\ p # b => Holders[p] \cap Holders[b] = {}
        /\ q # b => Holders[q] \cap Holders[b] = {}
    BY <1>2 DEF Apart
  <2> QED  BY <1>2, <2>1 DEF Moved
<1>3. ASSUME NEW r, NEW p \in Place, r \in Holders[p]
      PROVE  \E q \in Place : r \in Holders'[q]
  BY <1>3 DEF Moved
<1> QED  BY <1>1, <1>2, <1>3 DEF Apart

\* Requests in a queue.
LEMMA AppendSet ==
  ASSUME NEW S, NEW s \in Seq(S), NEW x \in S
  PROVE  /\ ToSet(Append(s, x)) = ToSet(s) \cup {x}
         /\ IsInjective(s) /\ x \notin ToSet(s) => IsInjective(Append(s, x))
BY DEF ToSet, IsInjective

LEMMA TailSet ==
  ASSUME NEW S, NEW s \in Seq(S), s # <<>>, IsInjective(s)
  PROVE  /\ Head(s) \in S /\ Head(s) \in ToSet(s)
         /\ ToSet(Tail(s)) = ToSet(s) \ {Head(s)}
         /\ IsInjective(Tail(s))
         /\ Tail(s) \in Seq(S)
<1>1. /\ Len(s) \in Nat \ {0} /\ DOMAIN s = 1 .. Len(s) /\ Head(s) = s[1]
      /\ Tail(s) \in Seq(S) /\ DOMAIN Tail(s) = 1 .. Len(s) - 1
      /\ \A k \in 1 .. Len(s) - 1 : Tail(s)[k] = s[k + 1]
  OBVIOUS
<1>2. IsInjective(Tail(s))
  BY <1>1 DEF IsInjective
<1>3. ASSUME NEW x PROVE x \in ToSet(Tail(s)) <=> x \in ToSet(s) \ {Head(s)}
  <2>1. ASSUME NEW k \in 1 .. Len(s) - 1, x = Tail(s)[k]
        PROVE  x \in ToSet(s) \ {Head(s)}
    BY <1>1, <2>1 DEF ToSet, IsInjective
  <2>2. ASSUME NEW k \in 1 .. Len(s), x = s[k], x # s[1]
        PROVE  x \in ToSet(Tail(s))
    <3>1. k - 1 \in 1 .. Len(s) - 1 /\ Tail(s)[k - 1] = x
      BY <1>1, <2>2
    <3> QED  BY <1>1, <3>1 DEF ToSet
  <2> QED  BY <1>1, <2>1, <2>2 DEF ToSet
<1> QED  BY <1>1, <1>2, <1>3 DEF ToSet

-----------------------------------------------------------------------------
(* The invariant.                                                          *)

RestOK ==
  /\ prompt \in [Req -> Nat] /\ generated \in [Req -> 0 .. Limit]
  /\ home \in [Req -> Instance \cup {None}]
  /\ unaccepted \in [Instance -> SUBSET Req]
  /\ running \in [Engine -> SUBSET Req]
  /\ swapped \in [Engine -> Seq(Req)]
  /\ step \in [Engine -> StepType]
  /\ lock \in [Instance -> Ve \cup {None}]
  /\ migrating \in [Instance -> BOOLEAN]

InstanceOf(p) == IF p[1] = "unaccepted" THEN p[2] ELSE p[2][1]

\* The location of the requests at p: the block manager changes it when the
\* copying begins.
LocationAt(p) ==
  CASE p[1] = "unaccepted" -> "none"
    [] p[1] = "running"    -> "gpu"
    [] p[1] = "swapped"    -> "cpu"
    [] p[1] = "moving"     -> IF step[p[2]].at = "out" THEN "cpu"
                              ELSE IF step[p[2]].at = "in" THEN "gpu" ELSE "none"

\* Whoever is in a queue has tokens to come, unless its virtual engine is stuck.
Placed ==
  \A p \in Place : \A r \in Holders[p] :
    /\ home[r] = InstanceOf(p) /\ location[r] = LocationAt(p)
    /\ (p[1] = "running" /\ step[p[2]].at = "blocked") \/ generated[r] < Limit

Absent ==
  \A r \in Req : /\ location[r] = "none" => table[r] = {}
                 /\ home[r] = None => location[r] = "none" /\ generated[r] = 0

StepsOK ==
  \A e \in Engine :
    /\ step[e].batch \subseteq running[e]
    /\ step[e].at # "forward" => step[e].batch = {}
    /\ step[e].at = "extend" => step[e].who \subseteq running[e]
    /\ step[e].at \in {"out", "in", "extend"} => \E r \in Req : step[e].who = {r}
    /\ step[e].at \in {"poll", "told", "send"} => step[e].to \in Instance

Inv == PoolsOK /\ RestOK /\ OnePlace /\ Placed /\ Absent /\ StepsOK

\* The places, in terms of the queues.
LEMMA PlacedIn ==
  ASSUME Placed
  PROVE  /\ \A i \in Instance : \A r \in unaccepted[i] :
              home[r] = i /\ location[r] = "none" /\ generated[r] < Limit
         /\ \A e \in Engine : \A r \in running[e] :
              /\ home[r] = e[1] /\ location[r] = "gpu"
              /\ step[e].at # "blocked" => generated[r] < Limit
         /\ \A e \in Engine : \A r \in ToSet(swapped[e]) :
              home[r] = e[1] /\ location[r] = "cpu" /\ generated[r] < Limit
         /\ \A e \in Engine : \A r \in Moving(e) :
              /\ home[r] = e[1] /\ generated[r] < Limit
              /\ step[e].at = "out"  => location[r] = "cpu"
              /\ step[e].at = "in"   => location[r] = "gpu"
              /\ step[e].at = "send" => location[r] = "none"
<1>1. ASSUME NEW i \in Instance, NEW r \in unaccepted[i]
      PROVE  home[r] = i /\ location[r] = "none" /\ generated[r] < Limit
  <2>1. <<"unaccepted", i>> \in Place /\ r \in Holders[<<"unaccepted", i>>]
    BY HoldersAre, PlacesOf
  <2> QED  BY <2>1 DEF Placed, InstanceOf, LocationAt
<1>2. ASSUME NEW e \in Engine, NEW r \in running[e]
      PROVE  /\ home[r] = e[1] /\ location[r] = "gpu"
             /\ step[e].at # "blocked" => generated[r] < Limit
  <2>1. <<"running", e>> \in Place /\ r \in Holders[<<"running", e>>]
    BY HoldersAre, PlacesOf
  <2> QED  BY <2>1 DEF Placed, InstanceOf, LocationAt
<1>3. ASSUME NEW e \in Engine, NEW r \in ToSet(swapped[e])
      PROVE  home[r] = e[1] /\ location[r] = "cpu" /\ generated[r] < Limit
  <2>1. <<"swapped", e>> \in Place /\ r \in Holders[<<"swapped", e>>]
    BY HoldersAre, PlacesOf
  <2> QED  BY <2>1 DEF Placed, InstanceOf, LocationAt
<1>4. ASSUME NEW e \in Engine, NEW r \in Moving(e)
      PROVE  /\ home[r] = e[1] /\ generated[r] < Limit
             /\ step[e].at = "out"  => location[r] = "cpu"
             /\ step[e].at = "in"   => location[r] = "gpu"
             /\ step[e].at = "send" => location[r] = "none"
  <2>1. <<"moving", e>> \in Place /\ r \in Holders[<<"moving", e>>]
    BY HoldersAre, PlacesOf
  <2> QED  BY <2>1 DEF Placed, InstanceOf, LocationAt
<1> QED  BY <1>1, <1>2, <1>3, <1>4

\* And back, after a step.
LEMMA PlacedBecomes ==
  ASSUME \A i \in Instance : \A r \in unaccepted'[i] :
           home'[r] = i /\ location'[r] = "none" /\ generated'[r] < Limit,
         \A e \in Engine : \A r \in running'[e] :
           /\ home'[r] = e[1] /\ location'[r] = "gpu"
           /\ step'[e].at # "blocked" => generated'[r] < Limit,
         \A e \in Engine : \A r \in ToSet(swapped'[e]) :
           home'[r] = e[1] /\ location'[r] = "cpu" /\ generated'[r] < Limit,
         \A e \in Engine : \A r \in Moving(e)' :
           /\ home'[r] = e[1] /\ generated'[r] < Limit
           /\ step'[e].at = "out"  => location'[r] = "cpu"
           /\ step'[e].at = "in"   => location'[r] = "gpu"
           /\ step'[e].at = "send" => location'[r] = "none"
  PROVE  Placed'
<1>1. SUFFICES ASSUME NEW p \in Place, NEW r \in Holders'[p]
               PROVE  /\ home'[r] = InstanceOf(p) /\ location'[r] = LocationAt(p)'
                      /\ \/ p[1] = "running" /\ step'[p[2]].at = "blocked"
                         \/ generated'[r] < Limit
  BY DEF Placed, Place, InstanceOf
<1>2. ASSUME NEW i \in Instance, p = <<"unaccepted", i>>
      PROVE  /\ home'[r] = InstanceOf(p) /\ location'[r] = LocationAt(p)'
             /\ generated'[r] < Limit
  BY <1>2, HoldersBecome DEF InstanceOf, LocationAt
<1>3. ASSUME NEW e \in Engine, p = <<"running", e>>
      PROVE  /\ home'[r] = InstanceOf(p) /\ location'[r] = LocationAt(p)'
             /\ step'[e].at = "blocked" \/ generated'[r] < Limit
  <2>1. r \in running'[e]
    BY <1>3, HoldersBecome
  <2>2. InstanceOf(p) = e[1] /\ LocationAt(p)' = "gpu"
    BY <1>3 DEF InstanceOf, LocationAt
  <2> QED  BY <2>1, <2>2
<1>4. ASSUME NEW e \in Engine, p = <<"swapped", e>>
      PROVE  /\ home'[r] = InstanceOf(p) /\ location'[r] = LocationAt(p)'
             /\ generated'[r] < Limit
  <2>1. r \in ToSet(swapped'[e])
    BY <1>4, HoldersBecome
  <2>2. InstanceOf(p) = e[1] /\ LocationAt(p)' = "cpu"
    BY <1>4 DEF InstanceOf, LocationAt
  <2> QED  BY <2>1, <2>2
<1>5. ASSUME NEW e \in Engine, p = <<"moving", e>>
      PROVE  /\ home'[r] = InstanceOf(p) /\ location'[r] = LocationAt(p)'
             /\ generated'[r] < Limit
  <2>1. r \in Moving(e)' /\ step'[e].at \in {"out", "in", "send"}
    BY <1>5, HoldersBecome DEF Moving
  <2> QED  BY <1>5, <2>1 DEF InstanceOf, LocationAt
<1> QED  BY <1>2, <1>3, <1>4, <1>5, PlaceCases

LEMMA InvInit == Init => Inv
<1> SUFFICES ASSUME Init PROVE Inv
  OBVIOUS
<1> USE DEF Init
<1>1. PoolsOK
  BY DEF PoolsOK, BlocksConserved, Partition, On, Device, Blocks
<1>2. RestOK
  BY ServingAssumption DEF RestOK, StepType, Idle
<1>3. \A e \in Engine : Moving(e) = {} /\ ToSet(swapped[e]) = {}
  BY DEF Moving, Idle, ToSet
<1>4. \A p \in Place : Holders[p] = {}
  BY <1>3, HoldersAre, PlaceCases
<1>5. OnePlace
  BY <1>4 DEF OnePlace, Apart, Kept, Distinct, IsInjective
<1>6. Placed /\ Absent
  BY <1>4 DEF Placed, Absent
<1>7. StepsOK
  BY DEF StepsOK, Idle
<1> QED  BY <1>1, <1>2, <1>5, <1>6, <1>7 DEF Inv

-----------------------------------------------------------------------------
(* Steps that move nobody.                                                 *)

LEMMA QuietStep ==
  ASSUME Inv, NEW e \in Engine, NEW s \in StepType,
         step' = [step EXCEPT ![e] = s],
         UNCHANGED <<pools, requests, queues>>,
         lock' \in [Instance -> Ve \cup {None}], migrating' \in [Instance -> BOOLEAN],
         step[e].at \notin {"out", "in", "send", "blocked"},
         s.at \notin {"out", "in", "send", "extend"},
         s.batch \subseteq running[e], s.at # "forward" => s.batch = {},
         s.at \in {"poll", "told"} => s.to \in Instance
  PROVE  Inv'
<1>1. /\ RestOK /\ step'[e] = s
      /\ \A f \in Engine : f # e => step'[f] = step[f]
  BY DEF Inv, RestOK
<1>2. UNCHANGED <<home, prompt, generated, unaccepted, running, swapped, location, table>>
  BY DEF pools, requests, queues
<1>3. PoolsOK' /\ Absent'
  BY <1>2, PoolsKept DEF Inv, Absent
<1>4. RestOK'
  BY <1>1, <1>2 DEF RestOK
<1>5. \A f \in Engine : Moving(f)' = Moving(f)
  BY <1>1 DEF Moving
<1>6. \A p \in Place : Holders'[p] = Holders[p]
  BY <1>5, HoldersSame
<1>7. OnePlace'
  BY <1>2, <1>6 DEF Inv, OnePlace, Apart, Kept, Distinct, Place
<1>8. Placed'
  <2>1. Placed
    BY DEF Inv
  <2>2. \A f \in Engine : \A r \in Moving(f)' :
          /\ step'[f].at = "out"  => step[f].at = "out"
          /\ step'[f].at = "in"   => step[f].at = "in"
          /\ step'[f].at = "send" => step[f].at = "send"
    BY <1>1
  <2>3. \A f \in Engine : step[f].at = "blocked" => step'[f].at = "blocked"
    BY <1>1
  <2>4. \A f \in Engine : \A r \in Moving(f)' :
           /\ home'[r] = f[1] /\ generated'[r] < Limit
           /\ step'[f].at = "out"  => location'[r] = "cpu"
           /\ step'[f].at = "in"   => location'[r] = "gpu"
           /\ step'[f].at = "send" => location'[r] = "none"
    BY <1>2, <1>5, <2>1, <2>2, PlacedIn
  <2> QED  BY <1>2, <2>1, <2>3, <2>4, PlacedIn, PlacedBecomes
<1>9. StepsOK'
  BY <1>1, <1>2 DEF Inv, StepsOK
<1> QED  BY <1>3, <1>4, <1>7, <1>8, <1>9 DEF Inv

\* The steps of the virtual engines, at a place in the code.
LEMMA AtType ==
  /\ \A p \in {"idle", "forward"} \cup Inside \cup Awaits :
       /\ At(p) \in StepType
       /\ At(p).at = p /\ At(p).batch = {} /\ At(p).who = {} /\ At(p).to = None
  /\ Idle \in StepType /\ Idle.at = "idle" /\ Idle.batch = {} /\ Idle.who = {}
BY DEF At, Idle, StepType

LEMMA StepIs ==
  ASSUME Inv, NEW e \in Engine
  PROVE  /\ step \in [Engine -> StepType] /\ step[e] \in StepType
         /\ step[e].at \in {"idle", "forward"} \cup Inside \cup Awaits
         /\ step[e].batch \in SUBSET Req /\ step[e].who \in SUBSET Req
         /\ step[e].to \in Instance \cup {None}
         /\ e[1] \in Instance /\ e[2] \in Ve
BY DEF Inv, RestOK, StepType, Engine

LEMMA InvStartStep ==
  ASSUME Inv, NEW e \in Engine, StartStep(e)
  PROVE  Inv'
<1> DEFINE s == [At("forward") EXCEPT !.batch = Scheduled(e)]
<1>1. Scheduled(e) \subseteq running[e] /\ running[e] \subseteq Req
  BY DEF Scheduled, Inv, RestOK
<1>2. s \in StepType /\ s.at = "forward" /\ s.batch = Scheduled(e)
  BY <1>1 DEF At, Idle, StepType
<1>3. step' = [step EXCEPT ![e] = s] /\ step[e].at = "idle"
  BY DEF StartStep
<1>4. lock' \in [Instance -> Ve \cup {None}] /\ migrating' \in [Instance -> BOOLEAN]
  BY DEF StartStep, Inv, RestOK
<1> QED  BY <1>1, <1>2, <1>3, <1>4, QuietStep DEF StartStep

LEMMA InvGo ==
  ASSUME Inv, NEW e \in Engine,
         NEW p \in {"idle", "fetch", "look", "admit"},
         Go(e, p), step[e].at \in {"grow", "fetch", "look", "told", "sent", "admit"},
         UNCHANGED <<pools, requests, queues>>,
         lock' \in [Instance -> Ve \cup {None}], migrating' \in [Instance -> BOOLEAN]
  PROVE  Inv'
<1>1. At(p) \in StepType /\ At(p).at = p /\ At(p).batch = {}
  BY AtType DEF Inside
<1> QED  BY <1>1, QuietStep DEF Go

LEMMA InvRelease ==
  ASSUME Inv, NEW e \in Engine, step[e].at \in {"grow", "admit"}, Release(e),
         UNCHANGED <<pools, requests, queues, migrating>>
  PROVE  Inv'
<1>1. lock' \in [Instance -> Ve \cup {None}] /\ migrating' \in [Instance -> BOOLEAN]
  BY StepIs DEF Release, Inv, RestOK
<1>2. step' = [step EXCEPT ![e] = Idle]
  BY DEF Release
<1> QED  BY <1>1, <1>2, AtType, QuietStep

LEMMA InvQuiet ==
  ASSUME Inv, NEW e \in Engine,
         Grown(e) \/ GiveUp(e) \/ Fetched(e) \/ Look(e) \/ Tell(e) \/ Migrated(e)
           \/ Admitted(e)
  PROVE  Inv'
<1>1. CASE Grown(e)
  BY <1>1, InvGo DEF Grown, Inv, RestOK
<1>2. CASE GiveUp(e)
  BY <1>2, InvRelease DEF GiveUp
<1>3. CASE Fetched(e)
  BY <1>3, InvGo DEF Fetched, Inv, RestOK
<1>4. CASE Look(e)
  <2>1. CASE Go(e, "admit")
    BY <1>4, <2>1, InvGo DEF Look, Inv, RestOK
  <2>2. ASSUME NEW j \in Instance \ {e[1]},
               step' = [step EXCEPT ![e] = [At("poll") EXCEPT !.to = j]]
        PROVE  Inv'
    <3> DEFINE s == [At("poll") EXCEPT !.to = j]
    <3>1. s \in StepType /\ s.at = "poll" /\ s.batch = {} /\ s.to = j
      BY DEF At, Idle, StepType, Awaits
    <3>2. lock' \in [Instance -> Ve \cup {None}] /\ migrating' \in [Instance -> BOOLEAN]
      BY <1>4 DEF Look, Inv, RestOK
    <3> QED  BY <1>4, <2>2, <3>1, <3>2, QuietStep DEF Look
  <2> QED  BY <1>4, <2>1, <2>2 DEF Look
<1>5. CASE Tell(e)
  <2> DEFINE s == [step[e] EXCEPT !.at = IF migrating[step[e].to] THEN "sent" ELSE "told"]
  <2>1. /\ s \in StepType /\ s.at \in {"sent", "told"}
        /\ s.batch = step[e].batch /\ s.to = step[e].to
    BY StepIs DEF StepType, Awaits
  <2>2. s.batch = {} /\ s.to \in Instance
    BY <1>5, <2>1 DEF Tell, Inv, StepsOK
  <2>3. step' = [step EXCEPT ![e] = s]
    BY <1>5, StepIs DEF Tell
  <2>4. lock' \in [Instance -> Ve \cup {None}] /\ migrating' \in [Instance -> BOOLEAN]
    BY <1>5 DEF Tell, Inv, RestOK
  <2> QED  BY <1>5, <2>1, <2>2, <2>3, <2>4, QuietStep DEF Tell
<1>6. CASE Migrated(e)
  BY <1>6, InvGo DEF Migrated, Inv, RestOK
<1>7. CASE Admitted(e)
  BY <1>7, InvRelease DEF Admitted
<1> QED  BY <1>1, <1>2, <1>3, <1>4, <1>5, <1>6, <1>7

-----------------------------------------------------------------------------
(* Steps that allocate blocks for a request that stays where it is.        *)

LEMMA InvAllocate ==
  ASSUME Inv, NEW e \in Engine, NEW r \in running[e], Allocate(r), NEW s \in StepType,
         step[e].at \in {"grow", "extend"},
         step' = step \/ (step' = [step EXCEPT ![e] = s] /\ s = At("fetch")),
         UNCHANGED <<requests, queues, lock, migrating>>
  PROVE  Inv'
<1>1. UNCHANGED <<home, prompt, generated, unaccepted, running, swapped, lock, migrating>>
  BY DEF requests, queues
<1>2. r \in Req /\ home[r] = e[1] /\ e[1] \in Instance /\ location[r] = "gpu"
  BY PlacedIn, StepIs DEF Inv, RestOK
<1>3. /\ PoolsOK'
      /\ \A q \in Req : q # r => table'[q] = table[q] /\ location'[q] = location[q]
      /\ location'[r] = "gpu"
  BY <1>1, <1>2, AllocateConserves DEF Inv
<1>4. /\ At("fetch") \in StepType /\ At("fetch").at = "fetch" /\ At("fetch").batch = {}
  BY AtType DEF Inside
<1>5. /\ step' \in [Engine -> StepType]
      /\ \A f \in Engine : f # e => step'[f] = step[f]
      /\ step'[e] = step[e] \/ step'[e] = At("fetch")
  BY <1>4 DEF Inv, RestOK
<1>6. RestOK'
  BY <1>1, <1>5 DEF Inv, RestOK
<1>7. \A f \in Engine : Moving(f)' = Moving(f)
  BY <1>4, <1>5 DEF Moving
<1>8. \A p \in Place : Holders'[p] = Holders[p]
  BY <1>7, HoldersSame
<1>9. OnePlace'
  BY <1>1, <1>8 DEF Inv, OnePlace, Apart, Kept, Distinct, Place
<1>10. \A q \in Req : location'[q] = location[q]
  BY <1>2, <1>3
<1>11. Placed'
  <2>1. Placed /\ RestOK
    BY DEF Inv
  <2>2. \A f \in Engine : \A q \in Moving(f)' : q \in Req /\ step'[f] = step[f]
    BY <1>4, <1>5, StepIs DEF Moving
  <2>3. \A f \in Engine : \A q \in Moving(f)' :
           /\ home'[q] = f[1] /\ generated'[q] < Limit
           /\ step'[f].at = "out"  => location'[q] = "cpu"
           /\ step'[f].at = "in"   => location'[q] = "gpu"
           /\ step'[f].at = "send" => location'[q] = "none"
    BY <1>1, <1>7, <1>10, <2>1, <2>2, PlacedIn
  <2>4. /\ \A f \in Engine : running[f] \subseteq Req /\ ToSet(swapped[f]) \subseteq Req
        /\ \A i \in Instance : unaccepted[i] \subseteq Req
    BY <2>1 DEF RestOK, ToSet
  <2>5. \A f \in Engine : step[f].at = "blocked" => step'[f].at = "blocked"
    BY <1>5
  <2>6. /\ \A i \in Instance : \A q \in unaccepted'[i] :
             home'[q] = i /\ location'[q] = "none" /\ generated'[q] < Limit
        /\ \A f \in Engine : \A q \in running'[f] :
             /\ home'[q] = f[1] /\ location'[q] = "gpu"
             /\ step'[f].at # "blocked" => generated'[q] < Limit
        /\ \A f \in Engine : \A q \in ToSet(swapped'[f]) :
             home'[q] = f[1] /\ location'[q] = "cpu" /\ generated'[q] < Limit
    BY <1>1, <1>10, <2>1, <2>4, <2>5, PlacedIn
  <2> QED  BY <2>3, <2>6, PlacedBecomes
<1>12. Absent'
  BY <1>1, <1>2, <1>3, <1>10 DEF Inv, Absent
<1>13. StepsOK'
  BY <1>1, <1>4, <1>5 DEF Inv, StepsOK
<1> QED  BY <1>3, <1>6, <1>9, <1>11, <1>12, <1>13 DEF Inv

LEMMA InvGrow ==
  ASSUME Inv, NEW e \in Engine, Grow(e)
  PROVE  Inv'
<1>1. PICK r \in running[e] : Allocate(r)
  BY DEF Grow
<1>2. step' = step /\ UNCHANGED <<requests, queues, lock, migrating>> /\ step[e].at = "grow"
  BY DEF Grow
<1> QED  BY <1>1, <1>2, InvAllocate, StepIs

LEMMA InvExtend ==
  ASSUME Inv, NEW e \in Engine, Extend(e)
  PROVE  Inv'
<1>1. PICK r \in step[e].who : IF Lacks(r) > 0 THEN Allocate(r) ELSE UNCHANGED pools
  BY DEF Extend
<1>2. /\ step[e].at = "extend" /\ step' = [step EXCEPT ![e] = At("fetch")]
      /\ UNCHANGED <<requests, queues, lock, migrating>>
  BY DEF Extend, Go
<1>3. r \in running[e]
  BY <1>1, <1>2 DEF Inv, StepsOK
<1>4. At("fetch") \in StepType /\ At("fetch").at = "fetch" /\ At("fetch").batch = {}
  BY AtType DEF Inside
<1>5. CASE Allocate(r)
  BY <1>2, <1>3, <1>4, <1>5, InvAllocate
<1>6. CASE UNCHANGED pools
  <2>1. lock' \in [Instance -> Ve \cup {None}] /\ migrating' \in [Instance -> BOOLEAN]
    BY <1>2 DEF Inv, RestOK
  <2> QED  BY <1>2, <1>4, <1>6, <2>1, QuietStep
<1> QED  BY <1>1, <1>5, <1>6

-----------------------------------------------------------------------------
(* Steps that move requests.                                               *)

LEMMA OnePlaceMoved ==
  ASSUME Inv, NEW a \in Place, NEW b \in Place, a # b, NEW S, S \subseteq Holders[a],
         Moved(a, b, S), Distinct', generated' = generated,
         \A r \in Req : home'[r] # None => home[r] # None
  PROVE  OnePlace'
<1>1. Apart /\ Kept
  BY DEF Inv, OnePlace
<1>2. /\ Apart'
      /\ \A r : (\E p \in Place : r \in Holders[p]) => \E p \in Place : r \in Holders'[p]
  BY <1>1, TransferApart
<1>3. Place' = Place
  BY DEF Place
<1>4. Kept'
  BY <1>1, <1>2, <1>3 DEF Kept
<1> QED  BY <1>2, <1>4 DEF OnePlace

\* The queue that is not named, the places of others.
LEMMA MovedIs ==
  ASSUME NEW a \in Place, NEW b \in Place, NEW S,
         \A i \in Instance : unaccepted'[i] =
           IF <<"unaccepted", i>> = a THEN Holders[a] \ S
           ELSE IF <<"unaccepted", i>> = b THEN Holders[b] \cup S ELSE unaccepted[i],
         \A f \in Engine : running'[f] =
           IF <<"running", f>> = a THEN Holders[a] \ S
           ELSE IF <<"running", f>> = b THEN Holders[b] \cup S ELSE running[f],
         \A f \in Engine : ToSet(swapped'[f]) =
           IF <<"swapped", f>> = a THEN Holders[a] \ S
           ELSE IF <<"swapped", f>> = b THEN Holders[b] \cup S ELSE ToSet(swapped[f]),
         \A f \in Engine : Moving(f)' =
           IF <<"moving", f>> = a THEN Holders[a] \ S
           ELSE IF <<"moving", f>> = b THEN Holders[b] \cup S ELSE Moving(f)
  PROVE  Moved(a, b, S)
<1>1. SUFFICES ASSUME NEW p \in Place
               PROVE  Holders'[p] = IF p = a THEN Holders[a] \ S
                                    ELSE IF p = b THEN Holders[b] \cup S ELSE Holders[p]
  BY DEF Moved
<1>2. ASSUME NEW i \in Instance, p = <<"unaccepted", i>>
      PROVE  Holders'[p] = unaccepted'[i] /\ Holders[p] = unaccepted[i]
  BY <1>2, HoldersAre, HoldersBecome
<1>3. ASSUME NEW e \in Engine, p = <<"running", e>>
      PROVE  Holders'[p] = running'[e] /\ Holders[p] = running[e]
  BY <1>3, HoldersAre, HoldersBecome
<1>4. ASSUME NEW e \in Engine, p = <<"swapped", e>>
      PROVE  Holders'[p] = ToSet(swapped'[e]) /\ Holders[p] = ToSet(swapped[e])
  BY <1>4, HoldersAre, HoldersBecome
<1>5. ASSUME NEW e \in Engine, p = <<"moving", e>>
      PROVE  Holders'[p] = Moving(e)' /\ Holders[p] = Moving(e)
  BY <1>5, HoldersAre, HoldersBecome
<1>6. CASE \E i \in Instance : p = <<"unaccepted", i>>
  BY <1>2, <1>6
<1>7. CASE \E e \in Engine : p = <<"running", e>>
  BY <1>3, <1>7
<1>8. CASE \E e \in Engine : p = <<"swapped", e>>
  BY <1>4, <1>8
<1>9. CASE \E e \in Engine : p = <<"moving", e>>
  BY <1>5, <1>9
<1> QED  BY <1>6, <1>7, <1>8, <1>9, PlaceCases

LEMMA HeldAreRequests ==
  ASSUME Inv, NEW p \in Place
  PROVE  Holders[p] \subseteq Req
<1>1. ASSUME NEW i \in Instance, p = <<"unaccepted", i>> PROVE Holders[p] \subseteq Req
  BY <1>1, HoldersAre DEF Inv, RestOK
<1>2. ASSUME NEW e \in Engine, p = <<"running", e>> PROVE Holders[p] \subseteq Req
  BY <1>2, HoldersAre DEF Inv, RestOK
<1>3. ASSUME NEW e \in Engine, p = <<"swapped", e>> PROVE Holders[p] \subseteq Req
  <2>1. swapped[e] \in Seq(Req)
    BY DEF Inv, RestOK
  <2>2. ToSet(swapped[e]) \subseteq Req
    BY <2>1 DEF ToSet
  <2> QED  BY <1>3, <2>2, HoldersAre
<1>4. ASSUME NEW e \in Engine, p = <<"moving", e>> PROVE Holders[p] \subseteq Req
  <2>1. Moving(e) \subseteq Req
    BY StepIs DEF Moving
  <2> QED  BY <1>4, <2>1, HoldersAre
<1>5. CASE \E e \in Engine : p \in {<<"running", e>>, <<"swapped", e>>, <<"moving", e>>}
  BY <1>2, <1>3, <1>4, <1>5
<1> QED  BY <1>1, <1>5, PlaceCases

\* A step of e that moves S from a to b.
LEMMA InvMove ==
  ASSUME Inv, NEW e \in Engine, NEW a \in Place, NEW b \in Place, a # b,
         NEW S \in SUBSET Req, S \subseteq Holders[a], Moved(a, b, S),
         \A f \in Engine : f # e => step'[f] = step[f],
         step[e].at # "blocked", Moving(e) = {} \/ Moving(e)' = {},
         PoolsOK', RestOK', Distinct', StepsOK', generated' = generated,
         \A r \in Req \ S : /\ home'[r] = home[r] /\ location'[r] = location[r]
                            /\ table'[r] = table[r],
         \A r \in S : /\ home'[r] = InstanceOf(b) /\ location'[r] = LocationAt(b)'
                      /\ generated[r] < Limit /\ home[r] # None /\ home'[r] # None
                      /\ location'[r] = "none" => table'[r] = {}
  PROVE  Inv'
<1>1. OnePlace'
  BY OnePlaceMoved DEF Inv, RestOK
<1>2. Absent'
  BY DEF Inv, Absent
<1>3. Placed'
  <2>1. SUFFICES ASSUME NEW p \in Place, NEW r \in Holders'[p]
                 PROVE  /\ home'[r] = InstanceOf(p) /\ location'[r] = LocationAt(p)'
                        /\ \/ p[1] = "running" /\ step'[p[2]].at = "blocked"
                           \/ generated'[r] < Limit
    BY DEF Placed, Place, InstanceOf
  <2>2. CASE p = b /\ r \in S
    BY <2>2
  <2>3. CASE ~ (p = b /\ r \in S)
    <3>1. r \in Holders[p] /\ r \notin S
      <4>1. r \in Holders[p] /\ (p = a => r \notin S)
        BY <2>1, <2>3 DEF Moved
      <4>2. p # a => Holders[p] \cap Holders[a] = {}
        BY DEF Inv, OnePlace, Apart
      <4> QED  BY <4>1, <4>2
    <3>2. /\ home[r] = InstanceOf(p) /\ location[r] = LocationAt(p)
          /\ (p[1] = "running" /\ step[p[2]].at = "blocked") \/ generated[r] < Limit
      BY <3>1 DEF Inv, Placed
    <3>3. r \in Req
      BY <3>1, HeldAreRequests
    <3>4. p # <<"moving", e>>
      <4>1. Holders[<<"moving", e>>] = Moving(e) /\ Holders'[<<"moving", e>>] = Moving(e)'
        BY HoldersAre, HoldersBecome
      <4> QED  BY <2>1, <3>1, <4>1
    <3>5. LocationAt(p)' = LocationAt(p)
      <4>1. ASSUME NEW f \in Engine, p = <<"moving", f>>
            PROVE  LocationAt(p)' = LocationAt(p)
        BY <3>4, <4>1 DEF LocationAt
      <4>2. p[1] \in {"unaccepted", "running", "swapped"} => LocationAt(p)' = LocationAt(p)
        BY DEF LocationAt
      <4> QED  BY <4>1, <4>2, PlaceCases
    <3>6. p[1] = "running" /\ step[p[2]].at = "blocked" => step'[p[2]] = step[p[2]]
      BY DEF Place
    <3> QED  BY <3>1, <3>2, <3>3, <3>5, <3>6
  <2> QED  BY <2>2, <2>3
<1> QED  BY <1>1, <1>2, <1>3 DEF Inv

\* Different places, for MovedIs.
LEMMA PlacesDiffer ==
  ASSUME NEW e \in Engine, NEW i \in Instance
  PROVE  /\ \A f \in Engine :
              /\ <<"unaccepted", i>> \notin {<<"running", f>>, <<"swapped", f>>, <<"moving", f>>}
              /\ <<"running", e>> \notin {<<"swapped", f>>, <<"moving", f>>}
              /\ <<"swapped", e>> # <<"moving", f>>
              /\ f # e => /\ <<"running", e>> # <<"running", f>>
                          /\ <<"swapped", e>> # <<"swapped", f>>
                          /\ <<"moving", e>> # <<"moving", f>>
         /\ \A j \in Instance : j # i => <<"unaccepted", i>> # <<"unaccepted", j>>
OBVIOUS

LEMMA InvSwapOut ==
  ASSUME Inv, NEW e \in Engine, SwapOut(e)
  PROVE  Inv'
<1> DEFINE a == <<"running", e>>
           b == <<"moving", e>>
<1>1. PICK r \in Victims(e) :
        /\ SwapOne(r, "gpu", "cpu")
        /\ running' = [running EXCEPT ![e] = @ \ {r}]
        /\ step' = [step EXCEPT ![e] = [At("out") EXCEPT !.who = {r}]]
  BY DEF SwapOut
<1>2. /\ step[e].at = "grow" /\ r \in running[e]
      /\ UNCHANGED <<home, prompt, generated, unaccepted, swapped, lock, migrating>>
  BY DEF SwapOut, Victims, requests
<1>3. /\ r \in Req /\ home[r] = e[1] /\ e[1] \in Instance /\ location[r] = "gpu"
      /\ generated[r] < Limit
  BY <1>2, PlacedIn, StepIs DEF Inv, RestOK
<1>4. /\ PoolsOK'
      /\ \A q \in Req : q # r => table'[q] = table[q] /\ location'[q] = location[q]
      /\ location'[r] = "cpu"
  BY <1>1, <1>2, <1>3, SwapConserves DEF Inv, Device
<1>5. /\ step' \in [Engine -> StepType]
      /\ step'[e].at = "out" /\ step'[e].who = {r} /\ step'[e].batch = {}
      /\ \A f \in Engine : f # e => step'[f] = step[f]
  <2> DEFINE s == [At("out") EXCEPT !.who = {r}]
  <2>1. s \in StepType /\ s.at = "out" /\ s.who = {r} /\ s.batch = {}
    BY <1>3 DEF At, Idle, StepType, Awaits
  <2> QED  BY <1>1, <2>1, StepIs
<1>6. /\ running' \in [Engine -> SUBSET Req] /\ running'[e] = running[e] \ {r}
      /\ \A f \in Engine : f # e => running'[f] = running[f]
  BY <1>1 DEF Inv, RestOK
<1>7. RestOK'
  BY <1>2, <1>5, <1>6 DEF Inv, RestOK
<1>8. /\ Moving(e) = {} /\ Moving(e)' = {r}
      /\ \A f \in Engine : f # e => Moving(f)' = Moving(f)
  BY <1>2, <1>5 DEF Moving
<1>9. a \in Place /\ b \in Place /\ a # b /\ Holders[a] = running[e] /\ Holders[b] = {}
  BY <1>8, PlacesOf, HoldersAre
<1>10. Moved(a, b, {r})
  BY <1>2, <1>3, <1>6, <1>8, <1>9, PlacesDiffer, MovedIs
<1>11. Distinct' /\ StepsOK'
  <2>1. \A f \in Engine : step[f].batch \subseteq running[f]
    BY DEF Inv, StepsOK
  <2> QED  BY <1>2, <1>3, <1>5, <1>6, <2>1 DEF Inv, StepsOK, OnePlace, Distinct
<1>12. InstanceOf(b) = e[1] /\ LocationAt(b)' = "cpu"
  BY <1>5 DEF InstanceOf, LocationAt
<1>13. home[r] # None
  BY <1>3, ServingAssumption
<1> QED  BY <1>2, <1>3, <1>4, <1>5, <1>7, <1>8, <1>9, <1>10, <1>11, <1>12, <1>13, InvMove

LEMMA InvSwappedOut ==
  ASSUME Inv, NEW e \in Engine, SwappedOut(e)
  PROVE  Inv'
<1> DEFINE a == <<"moving", e>>
           b == <<"swapped", e>>
<1>1. /\ step[e].at = "out" /\ Settle(e[1], "gpu") /\ step' = [step EXCEPT ![e] = At("grow")]
      /\ UNCHANGED <<home, prompt, generated, unaccepted, running, table, location, lock, migrating>>
  BY DEF SwappedOut, Go, requests, Settle
<1>2. PICK r \in Req : step[e].who = {r}
  BY <1>1 DEF Inv, StepsOK
<1>3. swapped' = [swapped EXCEPT ![e] = Append(@, r)]
  BY <1>2 DEF SwappedOut
<1>4. Moving(e) = {r} /\ home[r] = e[1] /\ generated[r] < Limit /\ location[r] = "cpu"
  BY <1>1, <1>2, PlacedIn DEF Moving, Inv
<1>5. /\ step' \in [Engine -> StepType]
      /\ step'[e].at = "grow" /\ step'[e].who = {} /\ step'[e].batch = {}
      /\ \A f \in Engine : f # e => step'[f] = step[f]
  BY <1>1, StepIs, AtType DEF Inside
<1>6. Moving(e)' = {} /\ \A f \in Engine : f # e => Moving(f)' = Moving(f)
  BY <1>5 DEF Moving
<1>7. a \in Place /\ b \in Place /\ a # b /\ Holders[a] = {r} /\ Holders[b] = ToSet(swapped[e])
  BY <1>4, PlacesOf, HoldersAre
<1>8. r \notin ToSet(swapped[e])
  BY <1>7 DEF Inv, OnePlace, Apart
<1>9. /\ swapped' \in [Engine -> Seq(Req)] /\ ToSet(swapped'[e]) = ToSet(swapped[e]) \cup {r}
      /\ IsInjective(swapped'[e])
      /\ \A f \in Engine : f # e => swapped'[f] = swapped[f]
  <2>1. swapped \in [Engine -> Seq(Req)] /\ swapped[e] \in Seq(Req) /\ IsInjective(swapped[e])
    BY DEF Inv, RestOK, OnePlace, Distinct
  <2>2. Append(swapped[e], r) \in Seq(Req)
    BY <2>1
  <2> QED  BY <1>3, <1>8, <2>1, <2>2, AppendSet
<1>10. PoolsOK'
  BY <1>1, StepIs, SettleConserves DEF Inv, Device
<1>11. RestOK'
  BY <1>1, <1>5, <1>9 DEF Inv, RestOK
<1>12. Moved(a, b, {r})
  BY <1>1, <1>6, <1>7, <1>9, PlacesDiffer, StepIs, MovedIs
<1>13. Distinct' /\ StepsOK'
  BY <1>1, <1>5, <1>9 DEF Inv, StepsOK, OnePlace, Distinct
<1>14. InstanceOf(b) = e[1] /\ LocationAt(b)' = "cpu"
  BY DEF InstanceOf, LocationAt
<1>15. home[r] # None
  BY <1>4, ServingAssumption, StepIs
<1> QED  BY <1>1, <1>4, <1>5, <1>6, <1>7, <1>10, <1>11, <1>12, <1>13, <1>14, <1>15, InvMove

LEMMA InvSwapIn ==
  ASSUME Inv, NEW e \in Engine, SwapIn(e)
  PROVE  Inv'
<1> DEFINE r == Head(swapped[e])
           a == <<"swapped", e>>
           b == <<"moving", e>>
<1>1. /\ step[e].at = "fetch" /\ swapped[e] # <<>> /\ SwapOne(r, "cpu", "gpu")
      /\ swapped' = [swapped EXCEPT ![e] = Tail(@)]
      /\ step' = [step EXCEPT ![e] = [At("in") EXCEPT !.who = {r}]]
      /\ UNCHANGED <<home, prompt, generated, unaccepted, running, lock, migrating>>
  BY DEF SwapIn, requests
<1>2. /\ swapped \in [Engine -> Seq(Req)] /\ swapped[e] \in Seq(Req) /\ IsInjective(swapped[e])
  BY DEF Inv, RestOK, OnePlace, Distinct
<1>3. /\ r \in Req /\ r \in ToSet(swapped[e]) /\ Tail(swapped[e]) \in Seq(Req)
      /\ ToSet(Tail(swapped[e])) = ToSet(swapped[e]) \ {r}
      /\ IsInjective(Tail(swapped[e]))
  BY <1>1, <1>2, TailSet
<1> HIDE DEF r
<1>4. home[r] = e[1] /\ e[1] \in Instance /\ location[r] = "cpu" /\ generated[r] < Limit
  BY <1>3, PlacedIn, StepIs DEF Inv
<1>5. /\ PoolsOK'
      /\ \A q \in Req : q # r => table'[q] = table[q] /\ location'[q] = location[q]
      /\ location'[r] = "gpu"
  BY <1>1, <1>3, <1>4, SwapConserves DEF Inv, Device
<1>6. /\ step' \in [Engine -> StepType]
      /\ step'[e].at = "in" /\ step'[e].who = {r} /\ step'[e].batch = {}
      /\ \A f \in Engine : f # e => step'[f] = step[f]
  <2> DEFINE s == [At("in") EXCEPT !.who = {r}]
  <2>1. s \in StepType /\ s.at = "in" /\ s.who = {r} /\ s.batch = {}
    BY <1>3 DEF At, Idle, StepType, Awaits
  <2> QED  BY <1>1, <2>1, StepIs
<1>7. /\ swapped' \in [Engine -> Seq(Req)] /\ swapped'[e] = Tail(swapped[e])
      /\ \A f \in Engine : f # e => swapped'[f] = swapped[f]
  BY <1>1, <1>2, <1>3
<1>8. RestOK'
  BY <1>1, <1>6, <1>7 DEF Inv, RestOK
<1>9. /\ Moving(e) = {} /\ Moving(e)' = {r}
      /\ \A f \in Engine : f # e => Moving(f)' = Moving(f)
  BY <1>1, <1>6 DEF Moving
<1>10. a \in Place /\ b \in Place /\ a # b /\ Holders[a] = ToSet(swapped[e]) /\ Holders[b] = {}
  BY <1>9, PlacesOf, HoldersAre
<1>11. Moved(a, b, {r})
  BY <1>1, <1>3, <1>7, <1>9, <1>10, PlacesDiffer, StepIs, MovedIs
<1>12. Distinct' /\ StepsOK'
  BY <1>1, <1>3, <1>6, <1>7 DEF Inv, StepsOK, OnePlace, Distinct
<1>13. InstanceOf(b) = e[1] /\ LocationAt(b)' = "gpu"
  BY <1>6 DEF InstanceOf, LocationAt
<1>14. home[r] # None
  BY <1>4, ServingAssumption
<1> QED  BY <1>1, <1>3, <1>4, <1>5, <1>6, <1>8, <1>9, <1>10, <1>11, <1>12, <1>13, <1>14, InvMove

LEMMA InvSwappedIn ==
  ASSUME Inv, NEW e \in Engine, SwappedIn(e)
  PROVE  Inv'
<1> DEFINE S == step[e].who
           a == <<"moving", e>>
           b == <<"running", e>>
<1>1. /\ step[e].at = "in" /\ Settle(e[1], "cpu")
      /\ running' = [running EXCEPT ![e] = @ \cup S]
      /\ step' = [step EXCEPT ![e].at = "extend"]
      /\ UNCHANGED <<home, prompt, generated, unaccepted, swapped, table, location, lock, migrating>>
  BY DEF SwappedIn, requests, Settle
<1>2. Moving(e) = S /\ S \in SUBSET Req
  BY <1>1, StepIs DEF Moving
<1>3. \A r \in S : home[r] = e[1] /\ generated[r] < Limit /\ location[r] = "gpu"
  BY <1>1, <1>2, PlacedIn DEF Inv
<1>4. /\ step' \in [Engine -> StepType]
      /\ step'[e].at = "extend" /\ step'[e].who = S /\ step'[e].batch = step[e].batch
      /\ \A f \in Engine : f # e => step'[f] = step[f]
  <2> DEFINE s == [step[e] EXCEPT !.at = "extend"]
  <2>1. s \in StepType /\ s.at = "extend" /\ s.who = S /\ s.batch = step[e].batch
    BY StepIs DEF StepType, Inside
  <2> QED  BY <1>1, <2>1, StepIs
<1>5. /\ running' \in [Engine -> SUBSET Req] /\ running'[e] = running[e] \cup S
      /\ \A f \in Engine : f # e => running'[f] = running[f]
  BY <1>1, <1>2 DEF Inv, RestOK
<1>6. Moving(e)' = {} /\ \A f \in Engine : f # e => Moving(f)' = Moving(f)
  BY <1>4 DEF Moving
<1>7. a \in Place /\ b \in Place /\ a # b /\ Holders[a] = S /\ Holders[b] = running[e]
  BY <1>2, PlacesOf, HoldersAre
<1>8. PoolsOK'
  BY <1>1, StepIs, SettleConserves DEF Inv, Device
<1>9. RestOK'
  BY <1>1, <1>4, <1>5 DEF Inv, RestOK
<1>10. Moved(a, b, S)
  BY <1>1, <1>5, <1>6, <1>7, PlacesDiffer, StepIs, MovedIs
<1>11. Distinct' /\ StepsOK'
  BY <1>1, <1>4, <1>5 DEF Inv, StepsOK, OnePlace, Distinct
<1>12. InstanceOf(b) = e[1] /\ LocationAt(b)' = "gpu"
  BY DEF InstanceOf, LocationAt
<1>13. e[1] # None
  BY ServingAssumption, StepIs
<1> QED  BY <1>1, <1>2, <1>3, <1>4, <1>6, <1>7, <1>8, <1>9, <1>10, <1>11, <1>12, <1>13, InvMove

LEMMA InvMigrate ==
  ASSUME Inv, NEW e \in Engine, Migrate(e)
  PROVE  Inv'
<1> DEFINE i == e[1]
           a == <<"unaccepted", i>>
           b == <<"moving", e>>
<1>1. PICK S \in SUBSET unaccepted[i] :
        /\ unaccepted' = [unaccepted EXCEPT ![i] = @ \ S]
        /\ migrating' = [migrating EXCEPT ![i] = S # {}]
        /\ step' = [step EXCEPT ![e] = IF S = {} THEN At("admit")
                                       ELSE [@ EXCEPT !.at = "send", !.who = S]]
  BY DEF Migrate
<1>2. /\ step[e].at = "told" /\ step[e].batch = {} /\ step[e].to \in Instance
      /\ i \in Instance /\ UNCHANGED <<pools, requests, running, swapped, lock>>
  BY StepIs DEF Migrate, Inv, StepsOK
<1>3. migrating' \in [Instance -> BOOLEAN] /\ lock' \in [Instance -> Ve \cup {None}]
  BY <1>1, <1>2 DEF Inv, RestOK
<1>4. /\ unaccepted' \in [Instance -> SUBSET Req] /\ unaccepted'[i] = unaccepted[i] \ S
      /\ \A j \in Instance : j # i => unaccepted'[j] = unaccepted[j]
      /\ S \in SUBSET Req
  BY <1>1, <1>2 DEF Inv, RestOK
<1>5. CASE S = {}
  <2>1. unaccepted' = unaccepted
    BY <1>1, <1>5 DEF Inv, RestOK
  <2>2. Go(e, "admit") /\ UNCHANGED queues
    BY <1>1, <1>2, <1>5, <2>1 DEF Go, queues
  <2> QED  BY <1>2, <1>3, <2>2, InvGo
<1>6. CASE S # {}
  <2>1. /\ step' \in [Engine -> StepType]
        /\ step'[e].at = "send" /\ step'[e].who = S /\ step'[e].batch = {}
        /\ step'[e].to = step[e].to
        /\ \A f \in Engine : f # e => step'[f] = step[f]
    <3> DEFINE s == [step[e] EXCEPT !.at = "send", !.who = S]
    <3>1. /\ s \in StepType /\ s.at = "send" /\ s.who = S /\ s.batch = step[e].batch
          /\ s.to = step[e].to
      BY <1>4, StepIs DEF StepType, Awaits
    <3>2. step' = [step EXCEPT ![e] = s]
      BY <1>1, <1>6, StepIs
    <3> QED  BY <1>2, <3>1, <3>2, StepIs
  <2>2. UNCHANGED <<home, prompt, generated, location, table>>
    BY <1>2 DEF pools, requests
  <2>3. \A r \in S : home[r] = i /\ location[r] = "none" /\ generated[r] < Limit
    BY <1>2, PlacedIn DEF Inv
  <2>4. /\ Moving(e) = {} /\ Moving(e)' = S
        /\ \A f \in Engine : f # e => Moving(f)' = Moving(f)
    BY <1>2, <2>1 DEF Moving
  <2>5. a \in Place /\ b \in Place /\ a # b /\ Holders[a] = unaccepted[i] /\ Holders[b] = {}
    BY <1>2, <2>4, PlacesOf, HoldersAre
  <2>6. PoolsOK'
    BY <1>2, <2>2, PoolsKept DEF Inv
  <2>7. RestOK'
    BY <1>2, <1>3, <1>4, <2>1, <2>2 DEF Inv, RestOK
  <2>8. Moved(a, b, S)
    BY <1>2, <1>4, <2>4, <2>5, PlacesDiffer, MovedIs
  <2>9. Distinct' /\ StepsOK'
    BY <1>2, <2>1 DEF Inv, StepsOK, OnePlace, Distinct
  <2>10. InstanceOf(b) = i /\ LocationAt(b)' = "none"
    BY <2>1 DEF InstanceOf, LocationAt
  <2>11. i # None /\ \A r \in S : table[r] = {}
    BY <1>2, <1>4, <2>3, ServingAssumption DEF Inv, Absent
  <2> QED  BY <1>2, <1>4, <2>1, <2>2, <2>3, <2>4, <2>5, <2>6, <2>7, <2>8, <2>9, <2>10,
              <2>11, InvMove
<1> QED  BY <1>5, <1>6

LEMMA InvAddRequests ==
  ASSUME Inv, NEW e \in Engine, AddRequests(e)
  PROVE  Inv'
<1>0. PICK j \in Instance, S \in SUBSET Req : j = step[e].to /\ S = step[e].who
  BY StepIs DEF AddRequests, Inv, StepsOK
<1> DEFINE a == <<"moving", e>>
           b == <<"unaccepted", j>>
<1>1. /\ step[e].at = "send"
      /\ unaccepted' = [unaccepted EXCEPT ![j] = @ \cup S]
      /\ home' = [r \in Req |-> IF r \in S THEN j ELSE home[r]]
      /\ step' = [step EXCEPT ![e] = At("sent")]
      /\ UNCHANGED <<free, swapping, table, location, prompt, generated, running,
                     swapped, lock, migrating>>
  BY <1>0 DEF AddRequests, pools
<1>2. Moving(e) = S
  BY <1>0, <1>1 DEF Moving
<1>3. \A r \in S : /\ home[r] = e[1] /\ generated[r] < Limit /\ location[r] = "none"
                   /\ table[r] = {}
  BY <1>1, <1>2, PlacedIn DEF Inv, Absent
<1>4. /\ step' \in [Engine -> StepType]
      /\ step'[e].at = "sent" /\ step'[e].who = {} /\ step'[e].batch = {}
      /\ \A f \in Engine : f # e => step'[f] = step[f]
  BY <1>1, StepIs, AtType DEF Awaits
<1>5. /\ unaccepted' \in [Instance -> SUBSET Req] /\ unaccepted'[j] = unaccepted[j] \cup S
      /\ \A i \in Instance : i # j => unaccepted'[i] = unaccepted[i]
  BY <1>1, <1>2 DEF Inv, RestOK
<1>6. /\ home' \in [Req -> Instance \cup {None}]
      /\ \A r \in S : home'[r] = j
      /\ \A r \in Req \ S : home'[r] = home[r]
  BY <1>1, <1>2 DEF Inv, RestOK
<1>7. Moving(e)' = {} /\ \A f \in Engine : f # e => Moving(f)' = Moving(f)
  BY <1>4 DEF Moving
<1>8. a \in Place /\ b \in Place /\ a # b /\ Holders[a] = S /\ Holders[b] = unaccepted[j]
  BY <1>2, PlacesOf, HoldersAre
<1>9. PoolsOK'
  <2>1. \A i \in Instance, d \in Device : On(i, d)' = On(i, d)
    BY <1>1, <1>3, <1>6 DEF On, Device
  <2> QED  BY <1>1, <2>1 DEF Inv, PoolsOK, BlocksConserved, Blocks
<1>10. RestOK'
  BY <1>1, <1>4, <1>5, <1>6 DEF Inv, RestOK
<1>11. Moved(a, b, S)
  BY <1>1, <1>2, <1>5, <1>7, <1>8, PlacesDiffer, MovedIs
<1>12. Distinct' /\ StepsOK'
  BY <1>1, <1>4 DEF Inv, StepsOK, OnePlace, Distinct
<1>13. InstanceOf(b) = j /\ LocationAt(b)' = "none"
  BY DEF InstanceOf, LocationAt
<1>14. j # None /\ e[1] # None
  BY <1>2, ServingAssumption, StepIs
<1>15. \A r \in Req \ S : /\ home'[r] = home[r] /\ location'[r] = location[r]
                           /\ table'[r] = table[r]
  BY <1>1, <1>6
<1>16. \A r \in S : /\ home'[r] = InstanceOf(b) /\ location'[r] = LocationAt(b)'
                    /\ generated[r] < Limit /\ home[r] # None /\ home'[r] # None
                    /\ location'[r] = "none" => table'[r] = {}
  BY <1>1, <1>3, <1>6, <1>13, <1>14
<1>17. step[e].at # "blocked" /\ generated' = generated
  BY <1>1
<1> QED  BY <1>4, <1>7, <1>8, <1>9, <1>10, <1>11, <1>12, <1>15, <1>16, <1>17, InvMove

LEMMA InvAdmit ==
  ASSUME Inv, NEW e \in Engine, Admit(e)
  PROVE  Inv'
<1> DEFINE i == e[1]
           a == <<"unaccepted", i>>
           b == <<"running", e>>
<1>1. PICK r \in unaccepted[i] :
        /\ Allocate(r)
        /\ unaccepted' = [unaccepted EXCEPT ![i] = @ \ {r}]
        /\ running' = [running EXCEPT ![e] = @ \cup {r}]
  BY DEF Admit
<1>2. /\ step[e].at = "admit" /\ step' = step
      /\ UNCHANGED <<home, prompt, generated, swapped, lock, migrating>>
  BY DEF Admit, requests
<1>3. /\ i \in Instance /\ r \in Req /\ home[r] = i /\ location[r] = "none"
      /\ generated[r] < Limit /\ table[r] = {}
  BY PlacedIn, StepIs DEF Inv, RestOK, Absent
<1>4. /\ PoolsOK'
      /\ \A q \in Req : q # r => table'[q] = table[q] /\ location'[q] = location[q]
      /\ location'[r] = "gpu"
  BY <1>1, <1>2, <1>3, AllocateConserves DEF Inv
<1>5. /\ unaccepted' \in [Instance -> SUBSET Req] /\ unaccepted'[i] = unaccepted[i] \ {r}
      /\ \A j \in Instance : j # i => unaccepted'[j] = unaccepted[j]
  BY <1>1, <1>3 DEF Inv, RestOK
<1>6. /\ running' \in [Engine -> SUBSET Req] /\ running'[e] = running[e] \cup {r}
      /\ \A f \in Engine : f # e => running'[f] = running[f]
  BY <1>1, <1>3 DEF Inv, RestOK
<1>7. Moving(e) = {} /\ \A f \in Engine : Moving(f)' = Moving(f)
  BY <1>2 DEF Moving
<1>8. a \in Place /\ b \in Place /\ a # b /\ Holders[a] = unaccepted[i] /\ Holders[b] = running[e]
  BY <1>3, PlacesOf, HoldersAre
<1>9. RestOK'
  BY <1>2, <1>5, <1>6 DEF Inv, RestOK
<1>10. Moved(a, b, {r})
  BY <1>2, <1>3, <1>5, <1>6, <1>7, <1>8, PlacesDiffer, MovedIs
<1>11. Distinct' /\ StepsOK'
  BY <1>2, <1>6 DEF Inv, StepsOK, OnePlace, Distinct
<1>12. InstanceOf(b) = i /\ LocationAt(b)' = "gpu"
  BY DEF InstanceOf, LocationAt
<1>13. i # None
  BY <1>3, ServingAssumption
<1> QED  BY <1>1, <1>2, <1>3, <1>4, <1>7, <1>8, <1>9, <1>10, <1>11, <1>12, <1>13, InvMove

-----------------------------------------------------------------------------
(* Requests that come, and requests that are finished.                     *)

LEMMA InvArrive ==
  ASSUME Inv, NEW r \in Req, NEW i \in Instance, Arrive(r, i)
  PROVE  Inv'
<1> DEFINE b == <<"unaccepted", i>>
<1>1. PICK n \in Prompts : prompt' = [prompt EXCEPT ![r] = n]
  BY DEF Arrive
<1>2. /\ home[r] = None /\ home' = [home EXCEPT ![r] = i]
      /\ unaccepted' = [unaccepted EXCEPT ![i] = @ \cup {r}]
      /\ UNCHANGED <<free, swapping, table, location, generated, running, swapped, step,
                     lock, migrating>>
  BY DEF Arrive, pools
<1>3. location[r] = "none" /\ table[r] = {} /\ generated[r] = 0 /\ i # None
  BY <1>2, ServingAssumption DEF Inv, Absent
<1>4. /\ home' \in [Req -> Instance \cup {None}] /\ home'[r] = i
      /\ \A q \in Req : q # r => home'[q] = home[q]
  BY <1>2 DEF Inv, RestOK
<1>5. PoolsOK'
  <2>1. \A j \in Instance, d \in Device : On(j, d)' = On(j, d)
    BY <1>2, <1>3, <1>4 DEF On, Device
  <2> QED  BY <1>2, <2>1 DEF Inv, PoolsOK, BlocksConserved, Blocks
<1>6. /\ unaccepted' \in [Instance -> SUBSET Req] /\ unaccepted'[i] = unaccepted[i] \cup {r}
      /\ \A j \in Instance : j # i => unaccepted'[j] = unaccepted[j]
  BY <1>2 DEF Inv, RestOK
<1>7. RestOK'
  <2>1. prompt' \in [Req -> Nat]
    BY <1>1, ServingAssumption DEF Inv, RestOK
  <2> QED  BY <1>2, <1>4, <1>6, <2>1 DEF Inv, RestOK
<1>8. \A p \in Place : Holders'[p] = IF p = b THEN Holders[p] \cup {r} ELSE Holders[p]
  <2>1. \A f \in Engine : Moving(f)' = Moving(f)
    BY <1>2 DEF Moving
  <2>2. ASSUME NEW j \in Instance
        PROVE  Holders'[<<"unaccepted", j>>] =
                 IF j = i THEN Holders[<<"unaccepted", j>>] \cup {r}
                 ELSE Holders[<<"unaccepted", j>>]
    BY <1>6, HoldersAre, HoldersBecome
  <2>3. ASSUME NEW p \in Place, NEW f \in Engine,
               p \in {<<"running", f>>, <<"swapped", f>>, <<"moving", f>>}
        PROVE  Holders'[p] = Holders[p] /\ p # b
    <3>1. /\ Holders'[<<"running", f>>] = Holders[<<"running", f>>]
          /\ Holders'[<<"swapped", f>>] = Holders[<<"swapped", f>>]
          /\ Holders'[<<"moving", f>>] = Holders[<<"moving", f>>]
      BY <1>2, <2>1, HoldersAre, HoldersBecome
    <3> QED  BY <2>3, <3>1
  <2> QED  BY <2>2, <2>3, PlaceCases
<1>9. \A p \in Place : r \notin Holders[p] /\ InstanceOf(p) \in Instance
  <2>1. \A p \in Place : InstanceOf(p) \in Instance
    BY PlaceCases DEF InstanceOf, Engine
  <2> QED  BY <1>2, <2>1, ServingAssumption DEF Inv, Placed
<1>10. b \in Place /\ Place' = Place
  BY PlacesOf DEF Place
<1>11. OnePlace'
  <2>1. Apart'
    BY <1>8, <1>9, <1>10 DEF Inv, OnePlace, Apart
  <2>2. Kept'
    BY <1>2, <1>4, <1>8, <1>10 DEF Inv, OnePlace, Kept
  <2> QED  BY <1>2, <2>1, <2>2 DEF Inv, OnePlace, Distinct
<1>12. Placed'
  <2>1. \A p \in Place : LocationAt(p)' = LocationAt(p)
    BY <1>2 DEF LocationAt
  <2>2. InstanceOf(b) = i /\ LocationAt(b) = "none"
    BY DEF InstanceOf, LocationAt
  <2>3. 0 < Limit
    BY ServingAssumption
  <2>4. ASSUME NEW p \in Place, NEW q \in Holders'[p]
        PROVE  /\ home'[q] = InstanceOf(p) /\ location'[q] = LocationAt(p)'
               /\ (p[1] = "running" /\ step'[p[2]].at = "blocked") \/ generated'[q] < Limit
    <3>1. CASE q = r
      <4>1. p = b
        BY <1>8, <1>9, <2>4, <3>1
      <4> QED  BY <1>2, <1>3, <1>4, <2>1, <2>2, <2>3, <3>1, <4>1
    <3>2. CASE q # r
      <4>1. q \in Holders[p] /\ q \in Req
        BY <1>8, <2>4, <3>2, HeldAreRequests
      <4> QED  BY <1>2, <1>4, <2>1, <3>2, <4>1 DEF Inv, Placed
    <3> QED  BY <3>1, <3>2
  <2> QED  BY <1>10, <2>4 DEF Placed, InstanceOf
<1>13. Absent' /\ StepsOK'
  BY <1>2, <1>3, <1>4 DEF Inv, Absent, StepsOK
<1> QED  BY <1>5, <1>7, <1>11, <1>12, <1>13 DEF Inv

\* The tokens of a batch.  Nobody in it is finished, since its virtual engine
\* has looked at all of them after the last step.
LEMMA Tokens ==
  ASSUME Inv, NEW e \in Engine, EndForward(e)
  PROVE  /\ step[e].batch \subseteq running[e] /\ running[e] \subseteq Req
         /\ \A r \in step[e].batch : generated[r] < Limit /\ home[r] = e[1]
                                     /\ generated'[r] = generated[r] + 1
         /\ \A r \in Req \ step[e].batch : generated'[r] = generated[r]
         /\ \A r \in Req : generated[r] \in Nat /\ generated'[r] >= generated[r]
         /\ generated' \in [Req -> 0 .. Limit]
<1>1. /\ step[e].at = "forward" /\ step[e].batch \subseteq running[e]
      /\ running[e] \subseteq Req
  BY DEF EndForward, Inv, StepsOK, RestOK
<1>2. \A r \in step[e].batch : generated[r] < Limit /\ home[r] = e[1]
  BY <1>1, PlacedIn DEF Inv
<1>3. generated' = [r \in Req |-> IF r \in step[e].batch THEN generated[r] + 1
                                  ELSE generated[r]]
  BY DEF EndForward
<1>4. generated \in [Req -> 0 .. Limit] /\ Limit \in Nat
  BY ServingAssumption DEF Inv, RestOK
<1> QED  BY <1>1, <1>2, <1>3, <1>4

LEMMA InvEndForward ==
  ASSUME Inv, NEW e \in Engine, EndForward(e)
  PROVE  Inv'
<1>0. PICK F \in SUBSET Req : F = Finished(step[e].batch)
  BY Tokens DEF Finished
<1>1. /\ step[e].at = "forward" /\ Acquire(e)
      /\ UNCHANGED <<prompt, home, unaccepted, swapped, migrating>>
      /\ IF step'[e].at = "grow"
         THEN /\ FreeBlocks(e[1], F)
              /\ running' = [running EXCEPT ![e] = @ \ F]
         ELSE UNCHANGED <<pools, running>>
  BY <1>0 DEF EndForward
<1>2. F \subseteq running[e] /\ \A r \in F : ~ (generated'[r] < Limit)
  BY <1>0, Tokens, ServingAssumption DEF Finished
<1>3. F \subseteq On(e[1], "gpu") /\ e[1] \in Instance /\ e[2] \in Ve
  BY <1>2, PlacedIn, StepIs DEF Inv, On
<1>4. /\ step' \in [Engine -> StepType] /\ lock' \in [Instance -> Ve \cup {None}]
      /\ step'[e].at \in {"grow", "blocked"} /\ step'[e].who = {} /\ step'[e].batch = {}
      /\ \A f \in Engine : f # e => step'[f] = step[f]
  <2>1. \A p \in {"grow", "blocked"} : At(p) \in StepType /\ At(p).at = p
                                       /\ At(p).batch = {} /\ At(p).who = {}
    BY AtType DEF Inside
  <2>2. \E p \in {"grow", "blocked"} : step' = [step EXCEPT ![e] = At(p)]
    BY <1>1 DEF Acquire
  <2>3. lock' \in [Instance -> Ve \cup {None}]
    BY <1>1, <1>3 DEF Acquire, Inv, RestOK
  <2> QED  BY <2>1, <2>2, <2>3, StepIs
<1>5. \A f \in Engine : Moving(f)' = Moving(f)
  BY <1>1, <1>4 DEF Moving
<1>6. \E G \in SUBSET F :
        /\ running' \in [Engine -> SUBSET Req] /\ running'[e] = running[e] \ G
        /\ \A f \in Engine : f # e => running'[f] = running[f]
        /\ PoolsOK'
        /\ \A r \in Req \ G : table'[r] = table[r] /\ location'[r] = location[r]
        /\ \A r \in G : table'[r] = {} /\ location'[r] = "none"
        /\ step'[e].at = "grow" => G = F
  <2>1. CASE step'[e].at = "grow"
    <3>1. running' = [running EXCEPT ![e] = @ \ F] /\ FreeBlocks(e[1], F)
      BY <1>1, <2>1
    <3>2. /\ running' \in [Engine -> SUBSET Req] /\ running'[e] = running[e] \ F
          /\ \A f \in Engine : f # e => running'[f] = running[f]
      BY <3>1 DEF Inv, RestOK
    <3> QED  BY <1>1, <1>3, <3>1, <3>2, FreeConserves DEF Inv
  <2>2. CASE step'[e].at # "grow"
    <3>1. UNCHANGED <<pools, running>>
      BY <1>1, <2>2
    <3>2. PoolsOK'
      BY <1>1, <3>1, PoolsKept DEF Inv
    <3>3. running' = running /\ table' = table /\ location' = location
      BY <3>1 DEF pools
    <3>4. running \in [Engine -> SUBSET Req] /\ running[e] \ {} = running[e]
      BY DEF Inv, RestOK
    <3> WITNESS {} \in SUBSET F
    <3> QED  BY <2>2, <3>2, <3>3, <3>4
  <2> QED  BY <2>1, <2>2
<1>7. PICK G \in SUBSET F :
        /\ running' \in [Engine -> SUBSET Req] /\ running'[e] = running[e] \ G
        /\ \A f \in Engine : f # e => running'[f] = running[f]
        /\ PoolsOK'
        /\ \A r \in Req \ G : table'[r] = table[r] /\ location'[r] = location[r]
        /\ \A r \in G : table'[r] = {} /\ location'[r] = "none"
        /\ step'[e].at = "grow" => G = F
  BY <1>6
<1>8. RestOK'
  BY <1>1, <1>4, <1>7, Tokens DEF Inv, RestOK
<1>9. /\ \A i \in Instance : unaccepted'[i] = unaccepted[i]
      /\ \A f \in Engine : /\ running'[f] = IF f = e THEN running[f] \ G ELSE running[f]
                           /\ swapped'[f] = swapped[f] /\ Moving(f)' = Moving(f)
  BY <1>1, <1>5, <1>7
<1>10. /\ \A p \in Place : p # <<"running", e>> => Holders'[p] = Holders[p]
       /\ Holders'[<<"running", e>>] = Holders[<<"running", e>>] \ G
  <2>1. \A f \in Engine : f # e => <<"running", f>> # <<"running", e>>
    OBVIOUS
  <2>2. ASSUME NEW i \in Instance
        PROVE  Holders'[<<"unaccepted", i>>] = Holders[<<"unaccepted", i>>]
    BY <1>9, HoldersAre, HoldersBecome
  <2>3. ASSUME NEW f \in Engine
        PROVE  /\ Holders'[<<"running", f>>] = IF f = e THEN Holders[<<"running", f>>] \ G
                                               ELSE Holders[<<"running", f>>]
               /\ Holders'[<<"swapped", f>>] = Holders[<<"swapped", f>>]
               /\ Holders'[<<"moving", f>>] = Holders[<<"moving", f>>]
    BY <1>9, HoldersAre, HoldersBecome
  <2>4. Holders'[<<"running", e>>] = Holders[<<"running", e>>] \ G
    BY <2>3
  <2> QED  BY <2>1, <2>2, <2>3, <2>4, PlaceCases
<1>11. <<"running", e>> \in Place /\ Place' = Place
  BY PlacesOf DEF Place
<1>12. \A p \in Place : Holders'[p] \subseteq Holders[p]
  BY <1>10, <1>11
<1>13. OnePlace'
  <2>1. Apart'
    BY <1>11, <1>12 DEF Inv, OnePlace, Apart
  <2>2. ASSUME NEW r \in Req, home'[r] # None, generated'[r] < Limit
        PROVE  \E p \in Place : r \in Holders'[p]
    <3>1. generated[r] < Limit /\ home[r] # None
      BY <1>1, <2>2, Tokens, ServingAssumption DEF Inv, RestOK
    <3>2. PICK p \in Place : r \in Holders[p]
      BY <3>1 DEF Inv, OnePlace, Kept
    <3>3. r \notin G
      BY <1>2, <2>2
    <3> QED  BY <1>10, <3>2, <3>3
  <2> QED  BY <1>1, <1>11, <2>1, <2>2 DEF Inv, OnePlace, Kept, Distinct
<1>14. Placed'
  <2>1. ASSUME NEW p \in Place, NEW r \in Holders'[p]
        PROVE  /\ home'[r] = InstanceOf(p) /\ location'[r] = LocationAt(p)'
               /\ (p[1] = "running" /\ step'[p[2]].at = "blocked") \/ generated'[r] < Limit
    <3>1. r \in Holders[p] /\ r \in Req
      BY <1>12, <2>1, HeldAreRequests
    <3>2. /\ home[r] = InstanceOf(p) /\ location[r] = LocationAt(p)
          /\ (p[1] = "running" /\ step[p[2]].at = "blocked") \/ generated[r] < Limit
      BY <3>1 DEF Inv, Placed
    <3>3. p # <<"running", e>> => r \notin running[e]
      BY <1>11, <3>1, HoldersAre DEF Inv, OnePlace, Apart
    <3>4. r \notin G
      BY <1>2, <1>10, <2>1, <3>3
    <3>5. LocationAt(p)' = LocationAt(p)
      <4>1. ASSUME NEW f \in Engine, p = <<"moving", f>>
            PROVE  LocationAt(p)' = LocationAt(p)
        BY <1>1, <1>4, <4>1 DEF LocationAt
      <4>2. p[1] \in {"unaccepted", "running", "swapped"} => LocationAt(p)' = LocationAt(p)
        BY DEF LocationAt
      <4> QED  BY <4>1, <4>2, PlaceCases
    <3>6. CASE p = <<"running", e>>
      <4>1. CASE step'[e].at = "blocked"
        BY <1>1, <1>7, <3>1, <3>2, <3>4, <3>5, <3>6, <4>1
      <4>2. CASE step'[e].at = "grow"
        <5>1. r \notin F /\ r \in running[e]
          BY <1>7, <3>1, <3>4, <3>6, <4>2, HoldersAre
        <5>2. generated[r] < Limit
          BY <1>1, <5>1, PlacedIn DEF Inv
        <5>3. generated'[r] < Limit
          <6>1. CASE r \in step[e].batch
            <7>1. ~ (generated[r] + 1 >= Limit)
              BY <1>0, <5>1, <6>1 DEF Finished
            <7> QED  BY <3>1, <6>1, <7>1, Tokens, ServingAssumption
          <6>2. CASE r \notin step[e].batch
            BY <3>1, <5>2, <6>2, Tokens
          <6> QED  BY <6>1, <6>2
        <5> QED  BY <1>1, <1>7, <3>1, <3>2, <3>4, <3>5, <5>3
      <4> QED  BY <1>4, <4>1, <4>2
    <3>7. CASE p # <<"running", e>>
      <4>1. generated'[r] = generated[r]
        BY <3>1, <3>3, <3>7, Tokens
      <4>2. p[1] = "running" => p[2] \in Engine /\ p[2] # e
        BY <3>7 DEF Place
      <4> QED  BY <1>1, <1>4, <1>7, <3>1, <3>2, <3>4, <3>5, <4>1, <4>2
    <3> QED  BY <3>6, <3>7
  <2> QED  BY <1>11, <2>1 DEF Placed, InstanceOf
<1>15. Absent'
  <2>1. \A r \in Req : home[r] = None => r \notin step[e].batch
    BY <1>3, Tokens, ServingAssumption
  <2> QED  BY <1>1, <1>7, <2>1, Tokens DEF Inv, Absent
<1>16. StepsOK'
  <2>1. \A f \in Engine : f # e => step'[f] = step[f] /\ running'[f] = running[f]
    BY <1>4, <1>7
  <2> QED  BY <1>4, <2>1 DEF Inv, StepsOK
<1> QED  BY <1>7, <1>8, <1>13, <1>14, <1>15, <1>16 DEF Inv

-----------------------------------------------------------------------------
(* The theorems.                                                           *)

LEMMA InvNext ==
  ASSUME Inv, Next
  PROVE  Inv'
<1>1. ASSUME NEW r \in Req, NEW i \in Instance, Arrive(r, i) PROVE Inv'
  BY <1>1, InvArrive
<1>2. ASSUME NEW e \in Engine, StartStep(e) \/ EndForward(e) PROVE Inv'
  BY <1>2, InvStartStep, InvEndForward
<1>3. ASSUME NEW e \in Engine, GetNextBatch(e) PROVE Inv'
  BY <1>3, InvGrow, InvExtend, InvSwapOut, InvSwappedOut, InvSwapIn, InvSwappedIn,
     InvMigrate, InvAddRequests, InvAdmit, InvQuiet DEF GetNextBatch
<1> QED  BY <1>1, <1>2, <1>3 DEF Next

LEMMA InvStutter ==
  ASSUME Inv, UNCHANGED vars
  PROVE  Inv'
<1>1. UNCHANGED <<pools, requests, queues, step, lock, migrating>>
  BY DEF vars
<1>2. /\ UNCHANGED <<table, location, prompt, generated, home, unaccepted, running, swapped>>
  BY <1>1 DEF pools, requests, queues
<1>3. PoolsOK' /\ RestOK' /\ Absent' /\ StepsOK'
  BY <1>1, <1>2, PoolsKept DEF Inv, RestOK, Absent, StepsOK
<1>4. \A e \in Engine : Moving(e)' = Moving(e)
  BY <1>1 DEF Moving
<1>5. \A p \in Place : Holders'[p] = Holders[p] /\ LocationAt(p)' = LocationAt(p)
  BY <1>1, <1>4, HoldersSame DEF LocationAt
<1>6. OnePlace' /\ Placed'
  BY <1>1, <1>2, <1>5 DEF Inv, OnePlace, Apart, Kept, Distinct, Placed, Place, InstanceOf
<1> QED  BY <1>3, <1>6 DEF Inv

LEMMA InvAlways == Spec => []Inv
<1>1. Inv /\ [Next]_vars => Inv'
  BY InvNext, InvStutter
<1> QED  BY <1>1, InvInit, PTL DEF Spec

\* The types of the state, in particular that no answer gets more tokens than
\* were asked for.
THEOREM TypeCorrect == Spec => []TypeOK
<1>1. Inv => TypeOK
  BY DEF Inv, PoolsOK, RestOK, TypeOK
<1> QED  BY <1>1, InvAlways, PTL

\* No block is lost or shared, by swapping out and in, by refused swaps, and by
\* moves to other instances (block_manager.py).
THEOREM BlocksSafe == Spec => []BlocksConserved
<1>1. Inv => BlocksConserved
  BY DEF Inv, PoolsOK
<1> QED  BY <1>1, InvAlways, PTL

\* Every request that has arrived and is not finished is in one queue or on its
\* way with one step (colocated_scheduler.py).
THEOREM PlacesSafe == Spec => []OnePlace
<1>1. Inv => OnePlace
  BY DEF Inv
<1> QED  BY <1>1, InvAlways, PTL

\* The location of the block manager agrees with the queue of the scheduler.
THEOREM LocationsSafe == Spec => []LocationFollows
<1>1. Inv => LocationFollows
  <2>1. SUFFICES ASSUME Inv PROVE LocationFollows
    OBVIOUS
  <2>2. /\ \A i \in Instance : unaccepted[i] \subseteq Req
        /\ \A e \in Engine : running[e] \subseteq Req /\ ToSet(swapped[e]) \subseteq Req
    <3>1. \A e \in Engine : swapped[e] \in Seq(Req)
      BY <2>1 DEF Inv, RestOK
    <3> QED  BY <2>1, <3>1 DEF Inv, RestOK, ToSet
  <2> QED  BY <2>1, <2>2, PlacedIn DEF LocationFollows, Inv, On, Absent
<1> QED  BY <1>1, InvAlways, PTL

-----------------------------------------------------------------------------
(* What a step of one virtual engine leaves to the others.                 *)

LEMMA RunningApart ==
  ASSUME Inv, NEW e \in Engine, NEW f \in Engine, e # f
  PROVE  running[e] \cap running[f] = {}
<1>1. <<"running", e>> # <<"running", f>>
  OBVIOUS
<1> QED  BY <1>1, HoldersAre, PlacesOf DEF Inv, OnePlace, Apart

Untouched(r) == table'[r] = table[r] /\ location'[r] = location[r]

\* Blocks change hands in a step of e only for requests of e, or for one that
\* is not running.
LEMMA TouchesOwn ==
  ASSUME Inv, NEW e \in Engine, EndForward(e) \/ GetNextBatch(e)
  PROVE  \A r \in Req : ~ Untouched(r) =>
           r \in running[e] \/ (location[r] # "gpu" /\ home[r] = e[1])
<1>1. ASSUME NEW r \in Req, home[r] = e[1], Allocate(r), UNCHANGED home,
             location[r] = "gpu" \/ (location[r] = "none" /\ table[r] = {})
      PROVE  \A q \in Req : q # r => Untouched(q)
  BY <1>1, StepIs, AllocateConserves DEF Inv, Untouched
<1>2. ASSUME NEW r \in Req, home[r] = e[1], UNCHANGED home,
             NEW from \in Device, NEW to \in Device, from # to, location[r] = from,
             SwapOne(r, from, to)
      PROVE  \A q \in Req : q # r => Untouched(q)
  BY <1>2, StepIs, SwapConserves DEF Inv, Untouched
<1>3. CASE UNCHANGED <<table, location>>
  BY <1>3 DEF Untouched
<1>4. CASE EndForward(e)
  <2>1. Finished(step[e].batch) \subseteq running[e]
    BY <1>4, Tokens DEF Finished
  <2>2. \/ UNCHANGED pools
        \/ FreeBlocks(e[1], Finished(step[e].batch))
    BY <1>4 DEF EndForward
  <2>3. UNCHANGED pools => UNCHANGED <<table, location>>
    BY DEF pools
  <2>4. CASE FreeBlocks(e[1], Finished(step[e].batch))
    BY <2>1, <2>4 DEF FreeBlocks, Untouched
  <2> QED  BY <1>3, <2>2, <2>3, <2>4
<1>5. ASSUME NEW r \in running[e], Allocate(r), UNCHANGED home
      PROVE  \A q \in Req : q # r => Untouched(q)
  <2>1. r \in Req /\ home[r] = e[1] /\ location[r] = "gpu"
    BY PlacedIn DEF Inv, RestOK
  <2> QED  BY <1>1, <1>5, <2>1
<1>6. CASE Grow(e)
  BY <1>5, <1>6 DEF Grow, requests
<1>7. CASE Extend(e)
  <2>1. PICK r \in step[e].who : IF Lacks(r) > 0 THEN Allocate(r) ELSE UNCHANGED pools
    BY <1>7 DEF Extend
  <2>2. r \in running[e] /\ UNCHANGED home
    BY <1>7, <2>1 DEF Extend, Inv, StepsOK, requests
  <2> QED  BY <1>3, <1>5, <2>1, <2>2 DEF pools
<1>8. CASE SwapOut(e)
  <2>1. PICK r \in running[e] : SwapOne(r, "gpu", "cpu")
    BY <1>8 DEF SwapOut, Victims
  <2>2. r \in Req /\ home[r] = e[1] /\ location[r] = "gpu" /\ UNCHANGED home
    BY <1>8, PlacedIn DEF Inv, RestOK, SwapOut, requests
  <2> QED  BY <1>2, <2>1, <2>2 DEF Device
<1>9. CASE SwapIn(e)
  <2>1. SwapOne(Head(swapped[e]), "cpu", "gpu") /\ UNCHANGED home /\ swapped[e] # <<>>
    BY <1>9 DEF SwapIn, requests
  <2>2. Head(swapped[e]) \in Req /\ Head(swapped[e]) \in ToSet(swapped[e])
    BY <2>1, TailSet DEF Inv, RestOK, OnePlace, Distinct
  <2>3. home[Head(swapped[e])] = e[1] /\ location[Head(swapped[e])] = "cpu"
    BY <2>2, PlacedIn DEF Inv
  <2> QED  BY <1>2, <2>1, <2>2, <2>3 DEF Device
<1>10. CASE Admit(e)
  <2>1. PICK r \in unaccepted[e[1]] : Allocate(r)
    BY <1>10 DEF Admit
  <2>2. /\ r \in Req /\ home[r] = e[1] /\ location[r] = "none" /\ table[r] = {}
        /\ UNCHANGED home
    BY <1>10, PlacedIn, StepIs DEF Inv, RestOK, Absent, Admit, requests
  <2> QED  BY <1>1, <2>1, <2>2
<1>11. CASE \/ Grown(e) \/ GiveUp(e) \/ SwappedOut(e) \/ SwappedIn(e) \/ Fetched(e)
            \/ Look(e) \/ Tell(e) \/ Migrate(e) \/ AddRequests(e) \/ Migrated(e)
            \/ Admitted(e)
  BY <1>3, <1>11 DEF Grown, GiveUp, SwappedOut, SwappedIn, Settle, Fetched, Look, Tell,
     Migrate, AddRequests, Migrated, Admitted, pools
<1> QED  BY <1>4, <1>6, <1>7, <1>8, <1>9, <1>10, <1>11 DEF GetNextBatch

LEMMA OthersStay ==
  ASSUME Inv, NEW e \in Engine, NEW f \in Engine, e # f,
         StartStep(f) \/ EndForward(f) \/ GetNextBatch(f)
  PROVE  step'[e] = step[e]
<1>1. step \in [Engine -> StepType]
  BY DEF Inv, RestOK
<1>2. CASE StartStep(f) \/ EndForward(f)
  BY <1>1, <1>2 DEF StartStep, EndForward, Acquire
<1>3. CASE GetNextBatch(f)
  BY <1>1, <1>3 DEF GetNextBatch, Grow, Grown, GiveUp, SwapOut, SwappedOut, SwapIn,
     SwappedIn, Extend, Fetched, Look, Tell, Migrate, AddRequests, Migrated, Admit,
     Admitted, Go, Release
<1> QED  BY <1>2, <1>3

\* While the workers run a batch, no step of another virtual engine takes its
\* blocks or swaps it, in any interleaving.
THEOREM BatchesPinned == Spec => Pinned
<1>1. Inv /\ [Next]_vars => [BatchStays]_vars
  <2>1. SUFFICES ASSUME Inv, Next, NEW e \in Engine, NEW r \in step[e].batch,
                        step'[e].at = "forward"
                 PROVE  Untouched(r)
    BY DEF Untouched, BatchStays
  <2>2. r \in running[e] /\ step[e].at = "forward" /\ r \in Req /\ location[r] = "gpu"
    BY <2>1, PlacedIn DEF Inv, StepsOK, RestOK
  <2>3. ASSUME NEW q \in Req, NEW i \in Instance, Arrive(q, i) PROVE Untouched(r)
    BY <2>3 DEF Arrive, pools, Untouched
  <2>4. ASSUME NEW f \in Engine, StartStep(f) PROVE Untouched(r)
    BY <2>4 DEF StartStep, pools, Untouched
  <2>5. ASSUME NEW f \in Engine, EndForward(f) \/ GetNextBatch(f) PROVE Untouched(r)
    <3>1. CASE f = e
      <4>1. ~ EndForward(e)
        BY <2>1, StepIs DEF EndForward, Acquire, At, Idle, Inv, RestOK
      <4>2. ~ GetNextBatch(e)
        BY <2>2 DEF GetNextBatch, Grow, Grown, GiveUp, SwapOut, SwappedOut, SwapIn,
           SwappedIn, Extend, Fetched, Look, Tell, Migrate, AddRequests, Migrated, Admit,
           Admitted
      <4> QED  BY <2>5, <3>1, <4>1, <4>2
    <3>2. CASE f # e
      <4>1. r \notin running[f]
        BY <2>2, <3>2, RunningApart, <2>1
      <4> QED  BY <2>1, <2>2, <2>5, <4>1, TouchesOwn
    <3> QED  BY <3>1, <3>2
  <2> QED  BY <2>1, <2>3, <2>4, <2>5 DEF Next
<1> QED  BY <1>1, InvAlways, PTL DEF Spec, Pinned

\* Whatever happens to its memory, an answer grows by one token at a time, is
\* never taken back, and ends at the number of tokens that were asked for: the
\* serving of instances implements the promise of Answers.
THEOREM Serves == Spec => KeepsPromise
<1>1. Init => Promise!Init
  BY DEF Init, Promise!Init
<1>2. Inv /\ [Next]_vars => [Promise!Next]_(Promise!vars)
  <2> DEFINE asked == {r \in Req : home[r] # None}
  <2>1. ASSUME UNCHANGED <<home, generated>> PROVE UNCHANGED Promise!vars
    BY <2>1 DEF Promise!vars
  <2>2. ASSUME Inv, NEW r \in Req, NEW i \in Instance, Arrive(r, i)
        PROVE  Promise!Next
    <3>1. asked' = asked \cup {r} /\ r \notin asked /\ generated' = generated
      BY <2>2, ServingAssumption DEF Arrive, Inv, RestOK
    <3>2. Promise!Ask(r)
      BY <3>1 DEF Promise!Ask
    <3> QED  BY <3>2 DEF Promise!Next
  <2>3. ASSUME Inv, NEW e \in Engine, EndForward(e) PROVE Promise!Next
    <3>1. PICK S \in SUBSET Req : S = step[e].batch
      BY <2>3, StepIs
    <3>2. \A r \in S : r \in asked /\ generated[r] < Limit
      BY <2>3, <3>1, Tokens, StepIs, ServingAssumption
    <3>3. generated' = [r \in Req |-> IF r \in S THEN generated[r] + 1 ELSE generated[r]]
      BY <2>3, <3>1 DEF EndForward
    <3>4. UNCHANGED asked
      BY <2>3 DEF EndForward
    <3>5. Promise!Give(S)
      BY <3>2, <3>3, <3>4 DEF Promise!Give
    <3> QED  BY <3>5 DEF Promise!Next
  <2>4. ASSUME Inv, NEW e \in Engine, AddRequests(e) PROVE UNCHANGED Promise!vars
    <3>1. step[e].to \in Instance /\ step[e].who \subseteq Req
      BY <2>4, StepIs DEF AddRequests, Inv, StepsOK
    <3>2. \A r \in step[e].who : home[r] = e[1]
      BY <2>4, PlacedIn DEF AddRequests, Moving, Inv
    <3>3. asked' = asked
      BY <2>4, <3>1, <3>2, StepIs, ServingAssumption DEF AddRequests
    <3> QED  BY <2>4, <3>3 DEF AddRequests, Promise!vars
  <2>5. ASSUME NEW e \in Engine, StartStep(e) PROVE UNCHANGED Promise!vars
    BY <2>1, <2>5 DEF StartStep, requests
  <2>6. ASSUME NEW e \in Engine,
               \/ Grow(e) \/ Grown(e) \/ SwapOut(e) \/ GiveUp(e) \/ SwappedOut(e)
               \/ SwapIn(e) \/ SwappedIn(e) \/ Extend(e) \/ Fetched(e)
               \/ Look(e) \/ Tell(e) \/ Migrate(e) \/ Migrated(e)
               \/ Admit(e) \/ Admitted(e)
        PROVE  UNCHANGED Promise!vars
    BY <2>1, <2>6 DEF Grow, Grown, GiveUp, SwapOut, SwappedOut, SwapIn, SwappedIn, Extend,
       Fetched, Look, Tell, Migrate, Migrated, Admit, Admitted, requests
  <2>7. UNCHANGED vars => UNCHANGED Promise!vars
    BY <2>1 DEF vars, requests
  <2> QED  BY <2>2, <2>3, <2>4, <2>5, <2>6, <2>7 DEF Next, GetNextBatch
<1> QED  BY <1>1, <1>2, InvAlways, PTL DEF Spec, KeepsPromise, Promise!Spec

-----------------------------------------------------------------------------
(* The lock, and the blocks of requests that come back.                    *)

\* Where a virtual engine has the lock.
Parts == (Inside \cup Awaits) \ {"blocked"}

Locked == \A e \in Engine : step[e].at \in Parts => lock[e[1]] = e[2]

\* Whoever comes back will get its block.
Back ==
  \A e \in Engine : step[e].at \in {"in", "extend"} =>
    \A r \in step[e].who : Lacks(r) <= FreeGpu(e[1])

LEMMA InParts ==
  ASSUME NEW e \in Engine, GetNextBatch(e)
  PROVE  step[e].at \in Parts
BY DEF GetNextBatch, Grow, Grown, GiveUp, SwapOut, SwappedOut, SwapIn, SwappedIn, Extend,
   Fetched, Look, Tell, Migrate, AddRequests, Migrated, Admit, Admitted, Parts, Inside, Awaits

\* One virtual engine of an instance makes its next batch, also while it waits.
LEMMA Exclusive ==
  ASSUME Locked, NEW e \in Engine, NEW f \in Engine, e # f, e[1] = f[1],
         step[e].at \in Parts
  PROVE  step[f].at \notin Parts
BY DEF Locked, Engine

LEMMA LockedNext ==
  ASSUME Inv, Locked, Next
  PROVE  Locked'
<1>1. ASSUME NEW r \in Req, NEW i \in Instance, Arrive(r, i) PROVE Locked'
  BY <1>1 DEF Arrive, Locked
<1>2. ASSUME NEW f \in Engine, StartStep(f) \/ EndForward(f) \/ GetNextBatch(f)
      PROVE  Locked'
  <2>1. SUFFICES ASSUME NEW e \in Engine, step'[e].at \in Parts
                 PROVE  lock'[e[1]] = e[2]
    BY DEF Locked
  <2>2. lock \in [Instance -> Ve \cup {None}] /\ f[1] \in Instance /\ e[1] \in Instance
    BY StepIs DEF Inv, RestOK
  <2>3. \/ lock' = lock
        \/ lock[f[1]] = None /\ lock' = [lock EXCEPT ![f[1]] = f[2]] /\ EndForward(f)
        \/ step[f].at \in Parts /\ Release(f)
    BY <1>2, InParts DEF StartStep, EndForward, Acquire, GetNextBatch, Grow, Grown, GiveUp,
       SwapOut, SwappedOut, SwapIn, SwappedIn, Extend, Fetched, Look, Tell, Migrate,
       AddRequests, Migrated, Admit, Admitted
  <2>4. CASE e # f
    <3>1. step'[e] = step[e]
      BY <1>2, <2>4, OthersStay
    <3>2. step[e].at \in Parts /\ lock[e[1]] = e[2] /\ e[2] # None
      BY <2>1, <3>1, StepIs, ServingAssumption DEF Locked, Ve
    <3>3. CASE lock' = lock
      BY <3>2, <3>3
    <3>4. CASE lock[f[1]] = None /\ lock' = [lock EXCEPT ![f[1]] = f[2]]
      BY <2>2, <3>2, <3>4
    <3>5. CASE step[f].at \in Parts /\ Release(f)
      <4>1. e[1] # f[1]
        BY <2>4, <3>2, <3>5, Exclusive
      <4> QED  BY <2>2, <3>2, <3>5, <4>1 DEF Release
    <3> QED  BY <2>3, <3>3, <3>4, <3>5
  <2>5. CASE e = f
    <3>1. CASE StartStep(f)
      <4>1. step'[f].at = "forward"
        BY <3>1, StepIs DEF StartStep, At, Idle
      <4> QED  BY <2>1, <2>5, <4>1 DEF Parts, Inside, Awaits
    <3>2. CASE EndForward(f)
      <4>1. CASE lock[f[1]] = None
        BY <2>2, <2>5, <3>2, <4>1 DEF EndForward, Acquire
      <4>2. CASE lock[f[1]] # None
        <5>1. step'[f].at = "blocked"
          BY <3>2, <4>2, StepIs DEF EndForward, Acquire, At, Idle
        <5> QED  BY <2>1, <2>5, <5>1 DEF Parts
      <4> QED  BY <4>1, <4>2
    <3>3. CASE GetNextBatch(f)
      <4>1. lock[f[1]] = f[2]
        BY <3>3, InParts DEF Locked
      <4>2. CASE Release(f)
        <5>1. step'[f].at = "idle"
          BY <4>2, StepIs DEF Release, Idle
        <5> QED  BY <2>1, <2>5, <5>1 DEF Parts, Inside, Awaits
      <4>3. ~ EndForward(f)
        BY <3>3, InParts DEF EndForward, Parts, Inside, Awaits
      <4> QED  BY <2>3, <2>5, <4>1, <4>2, <4>3
    <3> QED  BY <1>2, <3>1, <3>2, <3>3
  <2> QED  BY <2>4, <2>5
<1> QED  BY <1>1, <1>2 DEF Next

\* _get_free_blocks returns as many blocks as were asked for.
LEMMA TakenCount ==
  ASSUME NEW i, NEW d, NEW n \in Nat, IsFiniteSet(free[i][d]), IsFiniteSet(swapping[i][d]),
         free[i][d] \cap swapping[i][d] = {}, NEW t \in Taken(i, d, n)
  PROVE  /\ Cardinality(t.got) = n
         /\ Cardinality(t.free) >= Cardinality(free[i][d]) - n
<1> DEFINE F == free[i][d]
           W == swapping[i][d]
           missing == n - Cardinality(F)
<1>0. Cardinality(F) \in Nat /\ Cardinality(W) \in Nat
  BY FS_CardinalityType
<1>1. CASE missing <= 0
  <2>1. PICK S \in kSubset(n, F) : t = [got |-> S, free |-> F \ S, swapping |-> W]
    BY <1>1 DEF Taken
  <2>2. S \subseteq F /\ Cardinality(S) = n /\ F \cap S = S
    BY DEF kSubset
  <2>3. Cardinality(F \ S) = Cardinality(F) - n
    BY <2>2, FS_Difference
  <2> QED  BY <1>0, <2>1, <2>2, <2>3
<1>2. CASE ~ (missing <= 0)
  <2>1. PICK S \in kSubset(missing, W) : t = [got |-> F \cup S, free |-> W \ S, swapping |-> {}]
    BY <1>2 DEF Taken
  <2>2. S \subseteq W /\ Cardinality(S) = missing /\ F \cap S = {} /\ IsFiniteSet(S)
    BY FS_Subset DEF kSubset
  <2>3. Cardinality(F \cup S) = Cardinality(F) + Cardinality(S) - Cardinality({})
    BY <2>2, FS_Union
  <2>4. Cardinality(W \ S) \in Nat
    BY FS_Subset, FS_CardinalityType
  <2> QED  BY <1>0, <1>2, <2>1, <2>2, <2>3, <2>4, FS_EmptySet
<1> QED  BY <1>1, <1>2

LEMMA ListsFinite ==
  ASSUME Inv, NEW i \in Instance, NEW d \in Device
  PROVE  /\ IsFiniteSet(free[i][d]) /\ IsFiniteSet(swapping[i][d])
         /\ free[i][d] \cap swapping[i][d] = {}
         /\ Cardinality(free[i][d]) \in Nat /\ Cardinality(swapping[i][d]) \in Nat
         /\ \A r \in Req : IsFiniteSet(table[r]) /\ Cardinality(table[r]) \in Nat
<1>1. IsFiniteSet(Gpu \cup Cpu)
  BY ServingAssumption, FS_Union
<1>2. /\ free[i][d] \subseteq Gpu \cup Cpu /\ swapping[i][d] \subseteq Gpu \cup Cpu
      /\ \A r \in Req : table[r] \subseteq Gpu \cup Cpu
      /\ free[i][d] \cap swapping[i][d] = {}
  BY DEF Inv, PoolsOK, BlocksConserved, Partition
<1> QED  BY <1>1, <1>2, FS_Subset, FS_CardinalityType

\* The lists of other instances are their own.
ListsKept(j) == free'[j] = free[j] /\ swapping'[j] = swapping[j]

LEMMA FreeOwn ==
  ASSUME Inv, NEW f \in Engine, EndForward(f) \/ GetNextBatch(f), NEW j \in Instance, j # f[1]
  PROVE  ListsKept(j)
<1> USE DEF ListsKept
<1>1. /\ free \in [Instance -> [Device -> SUBSET (Gpu \cup Cpu)]]
      /\ swapping \in [Instance -> [Device -> SUBSET (Gpu \cup Cpu)]]
  BY DEF Inv, PoolsOK
<1>2. ASSUME NEW r \in Req, home[r] = f[1], Allocate(r) PROVE ListsKept(j)
  BY <1>1, <1>2 DEF Allocate
<1>3. ASSUME NEW r \in Req, home[r] = f[1], NEW a, NEW b, SwapOne(r, a, b)
      PROVE  ListsKept(j)
  BY <1>1, <1>3 DEF SwapOne
<1>4. CASE EndForward(f)
  BY <1>1, <1>4 DEF EndForward, FreeBlocks, pools
<1>5. CASE Grow(f)
  <2>1. PICK r \in running[f] : Allocate(r)
    BY <1>5 DEF Grow
  <2> QED  BY <1>2, <2>1, PlacedIn DEF Inv, RestOK
<1>6. CASE Extend(f)
  <2>1. PICK r \in step[f].who : Allocate(r) \/ UNCHANGED pools
    BY <1>6 DEF Extend
  <2>2. r \in running[f]
    BY <1>6, <2>1 DEF Extend, Inv, StepsOK
  <2>3. r \in Req /\ home[r] = f[1]
    BY <2>2, PlacedIn DEF Inv, RestOK
  <2> QED  BY <1>2, <2>1, <2>3 DEF pools
<1>7. CASE SwapOut(f)
  <2>1. PICK r \in running[f] : SwapOne(r, "gpu", "cpu")
    BY <1>7 DEF SwapOut, Victims
  <2> QED  BY <1>3, <2>1, PlacedIn DEF Inv, RestOK
<1>8. CASE SwapIn(f)
  <2>1. SwapOne(Head(swapped[f]), "cpu", "gpu") /\ swapped[f] # <<>>
    BY <1>8 DEF SwapIn
  <2>2. Head(swapped[f]) \in Req /\ Head(swapped[f]) \in ToSet(swapped[f])
    BY <2>1, TailSet DEF Inv, RestOK, OnePlace, Distinct
  <2>3. home[Head(swapped[f])] = f[1]
    BY <2>2, PlacedIn DEF Inv
  <2> QED  BY <1>3, <2>1, <2>2, <2>3
<1>9. CASE Admit(f)
  <2>1. PICK r \in unaccepted[f[1]] : Allocate(r)
    BY <1>9 DEF Admit
  <2>2. r \in Req /\ home[r] = f[1]
    BY <2>1, PlacedIn, StepIs DEF Inv, RestOK
  <2> QED  BY <1>2, <2>1, <2>2
<1>10. CASE SwappedOut(f) \/ SwappedIn(f)
  BY <1>1, <1>10 DEF SwappedOut, SwappedIn, Settle
<1>11. CASE \/ Grown(f) \/ GiveUp(f) \/ Fetched(f) \/ Look(f) \/ Tell(f) \/ Migrate(f)
            \/ AddRequests(f) \/ Migrated(f) \/ Admitted(f)
  BY <1>11 DEF Grown, GiveUp, Fetched, Look, Tell, Migrate, AddRequests, Migrated, Admitted,
     pools
<1> QED  BY <1>4, <1>5, <1>6, <1>7, <1>8, <1>9, <1>10, <1>11 DEF GetNextBatch

\* In the other steps of a virtual engine nobody is on the way back.
LEMMA ReturnsBy ==
  ASSUME Inv, NEW e \in Engine, StartStep(e) \/ EndForward(e) \/ GetNextBatch(e),
         step'[e].at \in {"in", "extend"}
  PROVE  SwapIn(e) \/ SwappedIn(e) \/ (Grow(e) /\ step[e].at \in {"in", "extend"})
           \/ (Admit(e) /\ step[e].at \in {"in", "extend"})
<1>1. step \in [Engine -> StepType] /\ step[e] \in StepType
  BY StepIs
<1>2. CASE StartStep(e)
  BY <1>1, <1>2 DEF StartStep, At, Idle
<1>3. CASE EndForward(e)
  BY <1>1, <1>3 DEF EndForward, Acquire, At, Idle
<1>4. CASE \/ Grown(e) \/ Fetched(e) \/ SwappedOut(e) \/ Extend(e) \/ Look(e)
           \/ Migrated(e) \/ AddRequests(e)
  <2>1. ASSUME NEW p, Go(e, p) PROVE step'[e].at = p
    BY <1>1, <2>1 DEF Go, At, Idle
  <2>2. ASSUME NEW j \in Instance,
               step' = [step EXCEPT ![e] = [At("poll") EXCEPT !.to = j]]
        PROVE  step'[e].at = "poll"
    BY <1>1, <2>2 DEF At, Idle
  <2>3. CASE Fetched(e)
    <3>1. CASE Migration /\ e[2] = 0
      BY <2>1, <2>3, <3>1 DEF Fetched
    <3>2. CASE ~ (Migration /\ e[2] = 0)
      BY <2>1, <2>3, <3>2 DEF Fetched
    <3> QED  BY <3>1, <3>2
  <2>4. CASE Look(e)
    BY <2>1, <2>2, <2>4 DEF Look
  <2>5. CASE AddRequests(e)
    BY <1>1, <2>5 DEF AddRequests, At, Idle
  <2>6. CASE Grown(e) \/ SwappedOut(e) \/ Extend(e) \/ Migrated(e)
    <3>1. Go(e, "fetch") \/ Go(e, "grow") \/ Go(e, "admit")
      BY <2>6 DEF Grown, SwappedOut, Extend, Migrated
    <3> QED  BY <2>1, <3>1
  <2> QED  BY <1>4, <2>3, <2>4, <2>5, <2>6
<1>5. CASE GiveUp(e) \/ Admitted(e) \/ SwapOut(e)
  <2>1. CASE Release(e)
    BY <1>1, <2>1 DEF Release, Idle
  <2>2. CASE SwapOut(e)
    <3>1. PICK r \in Victims(e) : step' = [step EXCEPT ![e] = [At("out") EXCEPT !.who = {r}]]
      BY <2>2 DEF SwapOut
    <3> QED  BY <1>1, <3>1 DEF At, Idle
  <2> QED  BY <1>5, <2>1, <2>2 DEF GiveUp, Admitted
<1>6. CASE Tell(e)
  <2>1. step'[e].at = IF migrating[step[e].to] THEN "sent" ELSE "told"
    BY <1>1, <1>6 DEF Tell, StepType
  <2> QED  BY <2>1
<1>7. CASE Migrate(e)
  <2>1. step'[e].at \in {"admit", "send"}
    BY <1>1, <1>7 DEF Migrate, At, Idle, StepType
  <2> QED  BY <2>1
<1>8. CASE Grow(e) \/ Admit(e)
  BY <1>8 DEF Grow, Admit
<1> QED  BY <1>2, <1>3, <1>4, <1>5, <1>6, <1>7, <1>8 DEF GetNextBatch

LEMMA BackNext ==
  ASSUME Inv, Locked, Back, Next
  PROVE  Back'
<1>1. SUFFICES ASSUME NEW e \in Engine, step'[e].at \in {"in", "extend"},
                      NEW r \in step'[e].who
               PROVE  Lacks(r)' <= FreeGpu(e[1])'
  BY DEF Back
<1>2. e[1] \in Instance /\ e[2] \in Ve /\ e[2] # None
  BY StepIs, ServingAssumption DEF Ve
<1>3. ASSUME step[e].at \in {"in", "extend"}, step'[e].who = step[e].who,
             free'[e[1]]["gpu"] = free[e[1]]["gpu"],
             table'[r] = table[r], prompt'[r] = prompt[r], generated'[r] = generated[r]
      PROVE  Lacks(r)' <= FreeGpu(e[1])'
  <2>1. Lacks(r)' = Lacks(r) /\ FreeGpu(e[1])' = FreeGpu(e[1])
    BY <1>3 DEF Lacks, Need, FreeGpu
  <2> QED  BY <1>1, <1>3, <2>1 DEF Back
\* Who is on the way back.
<1>4. ASSUME step'[e] = step[e]
      PROVE  /\ r \in Req /\ home[r] = e[1] /\ location[r] = "gpu"
             /\ \A f \in Engine : f # e => r \notin running[f]
  <2>1. r \in step[e].who /\ step[e].at \in {"in", "extend"} /\ r \in Req
    BY <1>1, <1>4, StepIs
  <2>2. CASE step[e].at = "in"
    <3>1. r \in Moving(e)
      BY <2>1, <2>2 DEF Moving
    <3>2. home[r] = e[1] /\ location[r] = "gpu"
      BY <2>2, <3>1, PlacedIn DEF Inv
    <3>3. ASSUME NEW f \in Engine PROVE r \notin running[f]
      <4>1. <<"moving", e>> \in Place /\ <<"running", f>> \in Place
        BY PlacesOf
      <4>2. <<"moving", e>> # <<"running", f>>
        OBVIOUS
      <4>3. Holders[<<"moving", e>>] \cap Holders[<<"running", f>>] = {}
        BY <4>1, <4>2 DEF Inv, OnePlace, Apart
      <4>4. Holders[<<"moving", e>>] = Moving(e) /\ Holders[<<"running", f>>] = running[f]
        BY HoldersAre
      <4> QED  BY <3>1, <4>3, <4>4
    <3> QED  BY <2>1, <3>2, <3>3
  <2>3. CASE step[e].at = "extend"
    <3>1. r \in running[e]
      BY <2>1, <2>3 DEF Inv, StepsOK
    <3> QED  BY <2>1, <3>1, PlacedIn, RunningApart DEF Inv
  <2> QED  BY <2>1, <2>2, <2>3
<1>5. ASSUME NEW q \in Req, NEW i \in Instance, Arrive(q, i)
      PROVE  Lacks(r)' <= FreeGpu(e[1])'
  <2>1. step' = step /\ UNCHANGED <<free, table, generated>>
    BY <1>5 DEF Arrive, pools
  <2>2. r # q
    BY <1>2, <1>4, <1>5, <2>1, ServingAssumption DEF Arrive
  <2>3. prompt'[r] = prompt[r]
    BY <1>4, <1>5, <2>1, <2>2 DEF Arrive, Inv, RestOK
  <2> QED  BY <1>1, <1>3, <2>1, <2>3
<1>6. ASSUME NEW f \in Engine, f # e, StartStep(f) \/ EndForward(f) \/ GetNextBatch(f)
      PROVE  Lacks(r)' <= FreeGpu(e[1])'
  <2>1. step'[e] = step[e]
    BY <1>6, OthersStay
  <2>2. step[e].at \in Parts /\ lock[e[1]] = e[2]
    BY <1>1, <2>1 DEF Locked, Parts, Inside, Awaits
  <2>3. CASE StartStep(f)
    BY <1>1, <1>3, <2>1, <2>3 DEF StartStep, pools, requests
  <2>4. CASE EndForward(f) \/ GetNextBatch(f)
    <3>1. table'[r] = table[r]
      BY <1>4, <1>6, <2>1, <2>4, TouchesOwn DEF Untouched
    <3>2. UNCHANGED prompt
      BY <2>4 DEF EndForward, GetNextBatch, Grow, Grown, GiveUp, SwapOut, SwappedOut, SwapIn,
         SwappedIn, Extend, Fetched, Look, Tell, Migrate, AddRequests, Migrated, Admit,
         Admitted, requests
    <3>3. generated'[r] = generated[r]
      <4>1. CASE EndForward(f)
        BY <1>4, <1>6, <2>1, <4>1, Tokens
      <4>2. CASE GetNextBatch(f)
        BY <4>2 DEF GetNextBatch, Grow, Grown, GiveUp, SwapOut, SwappedOut, SwapIn,
           SwappedIn, Extend, Fetched, Look, Tell, Migrate, AddRequests, Migrated, Admit,
           Admitted, requests
      <4> QED  BY <2>4, <4>1, <4>2
    <3>4. free'[e[1]]["gpu"] = free[e[1]]["gpu"]
      <4>1. CASE f[1] # e[1]
        BY <1>2, <2>4, <4>1, FreeOwn DEF ListsKept
      <4>2. CASE f[1] = e[1]
        <5>1. ~ GetNextBatch(f)
          BY <1>6, <2>2, <4>2, Exclusive, InParts
        <5>2. EndForward(f) /\ lock[f[1]] # None
          BY <1>2, <2>2, <2>4, <4>2, <5>1
        <5>3. step'[f].at = "blocked"
          BY <5>2, StepIs DEF EndForward, Acquire, At, Idle
        <5> QED  BY <5>2, <5>3 DEF EndForward, pools
      <4> QED  BY <4>1, <4>2
    <3> QED  BY <1>1, <1>3, <2>1, <3>1, <3>2, <3>3, <3>4
  <2> QED  BY <1>6, <2>3, <2>4
<1>7. CASE SwapIn(e)
  <2>1. /\ SwapOne(Head(swapped[e]), "cpu", "gpu") /\ swapped[e] # <<>> /\ CanReturn(e)
        /\ UNCHANGED <<prompt, generated>>
        /\ step' = [step EXCEPT ![e] = [At("in") EXCEPT !.who = {Head(swapped[e])}]]
    BY <1>7 DEF SwapIn, requests
  <2>2. r = Head(swapped[e])
    BY <1>1, <2>1, StepIs DEF At, Idle
  <2>3. r \in Req /\ r \in ToSet(swapped[e])
    BY <2>1, <2>2, TailSet DEF Inv, RestOK, OnePlace, Distinct
  <2>4. home[r] = e[1] /\ Need(r) <= FreeGpu(e[1])
    BY <2>1, <2>2, <2>3, PlacedIn DEF Inv, CanReturn, Fits
  <2> DEFINE n == Cardinality(table[r])
  <2>5. PICK t \in Taken(e[1], "gpu", n) :
          /\ free' = [free EXCEPT ![e[1]]["gpu"] = t.free]
          /\ table' = [table EXCEPT ![r] = t.got]
    BY <2>1, <2>2, <2>4 DEF SwapOne
  <2>6. "gpu" \in Device
    BY DEF Device
  <2>7. Cardinality(t.got) = n /\ Cardinality(t.free) >= FreeGpu(e[1]) - n
    BY <1>2, <2>3, <2>6, ListsFinite, TakenCount DEF FreeGpu
  <2>8. free'[e[1]]["gpu"] = t.free /\ table'[r] = t.got
    BY <1>2, <2>3, <2>5, <2>6 DEF Inv, PoolsOK
  <2>9. Lacks(r)' = Need(r) - n
    BY <2>1, <2>7, <2>8 DEF Lacks, Need
  <2>10. n \in Nat /\ FreeGpu(e[1]) \in Nat /\ Need(r) \in Int /\ Cardinality(t.free) \in Int
    <3>1. Need(r) \in Int
      BY <2>3, ServingAssumption DEF Need, Inv, RestOK
    <3>2. t.free \subseteq free[e[1]]["gpu"] \cup swapping[e[1]]["gpu"]
      BY <1>2, <2>6, ListsFinite, TakenFromLists
    <3>3. IsFiniteSet(t.free)
      BY <1>2, <2>6, <3>2, ListsFinite, FS_Union, FS_Subset
    <3> QED  BY <1>2, <2>3, <2>6, <3>1, <3>3, ListsFinite, FS_CardinalityType DEF FreeGpu
  <2> QED  BY <2>4, <2>7, <2>8, <2>9, <2>10 DEF FreeGpu
<1>8. CASE SwappedIn(e)
  <2>1. /\ step[e].at = "in" /\ Settle(e[1], "cpu") /\ UNCHANGED <<prompt, generated, table>>
        /\ step' = [step EXCEPT ![e].at = "extend"]
    BY <1>8 DEF SwappedIn, Settle, requests
  <2>2. step'[e].who = step[e].who
    BY <2>1, StepIs DEF StepType
  <2>3. free'[e[1]]["gpu"] = free[e[1]]["gpu"]
    BY <1>2, <2>1 DEF Settle, Inv, PoolsOK, Device
  <2> QED  BY <1>3, <2>1, <2>2, <2>3
<1>9. ~ (Grow(e) /\ step[e].at \in {"in", "extend"})
  BY DEF Grow
<1>10. ~ (Admit(e) /\ step[e].at \in {"in", "extend"})
  BY DEF Admit
<1>11. ASSUME StartStep(e) \/ EndForward(e) \/ GetNextBatch(e)
       PROVE  Lacks(r)' <= FreeGpu(e[1])'
  BY <1>1, <1>7, <1>8, <1>9, <1>10, <1>11, ReturnsBy
<1> QED  BY <1>5, <1>6, <1>11 DEF Next

\* A request that was seen to fit before it was swapped in gets the block for
\* its next token after the copying, whatever other virtual engines and other
\* instances do meanwhile: allocate_blocks does not fail, so the engine does
\* not exit (flash_backend.py:2289).
THEOREM Returns == Spec => []ReturnSucceeds
<1>1. Init => Locked /\ Back
  BY DEF Init, Locked, Back, Parts, Inside, Awaits, Idle
<1>2. Inv /\ Locked /\ Back /\ [Next]_vars => Locked' /\ Back'
  <2>1. ASSUME Inv, Locked, Back, UNCHANGED vars PROVE Locked' /\ Back'
    BY <2>1 DEF vars, pools, requests, Locked, Back, Lacks, Need, FreeGpu
  <2> QED  BY <2>1, LockedNext, BackNext
<1>3. Inv /\ Back => ReturnSucceeds
  <2>1. SUFFICES ASSUME Inv, Back, NEW e \in Engine, step[e].at = "extend",
                        NEW r \in step[e].who
                 PROVE  CanTake(e[1], "gpu", Lacks(r))
    BY DEF ReturnSucceeds
  <2>2. Lacks(r) <= FreeGpu(e[1])
    BY <2>1 DEF Back
  <2>3. r \in Req /\ e[1] \in Instance /\ "gpu" \in Device
    BY <2>1, StepIs DEF Device
  <2>4. /\ Cardinality(free[e[1]]["gpu"]) \in Nat /\ Cardinality(swapping[e[1]]["gpu"]) \in Nat
        /\ Cardinality(table[r]) \in Nat
    BY <2>1, <2>3, ListsFinite
  <2>5. Need(r) \in Int
    BY <2>1, <2>3, ServingAssumption DEF Need, Inv, RestOK
  <2> QED  BY <2>2, <2>4, <2>5 DEF CanTake, FreeGpu, Lacks
<1> QED  BY <1>1, <1>2, <1>3, InvAlways, PTL DEF Spec

-----------------------------------------------------------------------------
(* Batches have their blocks, unless the CPU is full.                      *)

Fed(e) == \A r \in running[e] : Lacks(r) <= 0

\* A victim was found, but the CPU has no room for it.
Refused(e) ==
  \E r \in Victims(e) : ~ CanTake(e[1], "cpu", Cardinality(table[r]))

\* Past the first part of _get_next_batch the running requests have the blocks
\* for their next token, except one that has just come back.  Prompts always
\* have theirs, so that a shortage has a victim.
Feeds(e) ==
  /\ step[e].at # "extend" => \A r \in running[e] : Context(r) => Lacks(r) <= 0
  /\ step[e].at = "extend" => \A r \in running[e] \ step[e].who : Lacks(r) <= 0
  /\ step[e].at \in {"fetch", "in", "look", "admit"} \cup (Awaits \ {"out"}) => Fed(e)
  /\ step[e].at \in {"idle", "forward"} => Fed(e) \/ Refused(e)

AllFeed == \A e \in Engine : Feeds(e)

\* allocate_blocks gives a request what it lacks.
LEMMA AllocateFeeds ==
  ASSUME Inv, NEW r \in Req, home[r] \in Instance,
         location[r] = "gpu" \/ table[r] = {}, Lacks(r) >= 0,
         Allocate(r), UNCHANGED <<prompt, generated>>
  PROVE  Lacks(r)' <= 0
<1> DEFINE i == home[r]
           n == Lacks(r)
<1>1. PICK t \in Taken(i, "gpu", n) : table' = [table EXCEPT ![r] = @ \cup t.got]
  BY DEF Allocate
<1>2. "gpu" \in Device
  BY DEF Device
<1>3. /\ IsFiniteSet(free[i]["gpu"]) /\ IsFiniteSet(swapping[i]["gpu"])
      /\ free[i]["gpu"] \cap swapping[i]["gpu"] = {}
      /\ IsFiniteSet(table[r]) /\ Cardinality(table[r]) \in Nat
  BY <1>2, ListsFinite
<1>4. Need(r) \in Int /\ n \in Nat
  <2>1. Need(r) \in Int
    BY ServingAssumption DEF Need, Inv, RestOK
  <2> QED  BY <1>3, <2>1 DEF Lacks
<1>5. Cardinality(t.got) = n
  BY <1>3, <1>4, TakenCount
<1>6. t.got \subseteq free[i]["gpu"] \cup swapping[i]["gpu"]
  BY <1>3, TakenFromLists
<1>7. table[r] \cap (free[i]["gpu"] \cup swapping[i]["gpu"]) = {}
  <2>1. CASE location[r] = "gpu"
    <3>1. r \in On(i, "gpu")
      BY <2>1 DEF On
    <3> QED  BY <1>2, <3>1 DEF Inv, PoolsOK, BlocksConserved, Partition
  <2> QED  BY <2>1
<1>8. IsFiniteSet(t.got)
  BY <1>3, <1>6, FS_Union, FS_Subset
<1>9. Cardinality(table[r] \cup t.got) = Cardinality(table[r]) + n
  <2>1. table[r] \cap t.got = {}
    BY <1>6, <1>7
  <2>2. /\ Cardinality({}) = 0
        /\ Cardinality(table[r] \cup t.got)
             = Cardinality(table[r]) + Cardinality(t.got) - Cardinality({})
    BY <1>3, <1>8, <2>1, FS_Union, FS_EmptySet
  <2> QED  BY <1>3, <1>4, <1>5, <2>2
<1>10. table'[r] = table[r] \cup t.got
  BY <1>1 DEF Inv, PoolsOK
<1>11. Lacks(r)' = Need(r) - Cardinality(table'[r])
  BY DEF Lacks, Need
<1> QED  BY <1>3, <1>4, <1>9, <1>10, <1>11 DEF Lacks

LEMMA LacksSame ==
  ASSUME NEW r, table'[r] = table[r], prompt'[r] = prompt[r], generated'[r] = generated[r]
  PROVE  Lacks(r)' = Lacks(r) /\ Need(r)' = Need(r) /\ Context(r)' = Context(r)
BY DEF Lacks, Need, Context

LEMMA LacksType ==
  ASSUME Inv, NEW i \in Instance, NEW r \in Req
  PROVE  Lacks(r) \in Int
<1>1. Cardinality(table[r]) \in Nat
  BY ListsFinite DEF Device
<1>2. Need(r) \in Int
  BY ServingAssumption DEF Need, Inv, RestOK
<1> QED  BY <1>1, <1>2 DEF Lacks

\* What a step of another instance leaves to e.
LEMMA FeedsOther ==
  ASSUME Inv, NEW e \in Engine, NEW f \in Engine, e[1] # f[1], Feeds(e),
         StartStep(f) \/ EndForward(f) \/ GetNextBatch(f)
  PROVE  Feeds(e)'
<1>1. e # f /\ step'[e] = step[e]
  BY OthersStay
<1>2. e[1] \in Instance /\ "cpu" \in Device
  BY StepIs DEF Device
<1>3. running'[e] = running[e]
  BY <1>1 DEF StartStep, EndForward, GetNextBatch, Grow, Grown, GiveUp, SwapOut, SwappedOut,
     SwapIn, SwappedIn, Extend, Fetched, Look, Tell, Migrate, AddRequests, Migrated, Admit,
     Admitted, Inv, RestOK, queues
<1>4. free'[e[1]] = free[e[1]] /\ swapping'[e[1]] = swapping[e[1]]
  <2>1. CASE StartStep(f)
    BY <2>1 DEF StartStep, pools
  <2> QED  BY <1>2, <2>1, FreeOwn DEF ListsKept
<1>5. prompt' = prompt
  BY DEF StartStep, EndForward, GetNextBatch, Grow, Grown, GiveUp, SwapOut, SwappedOut,
     SwapIn, SwappedIn, Extend, Fetched, Look, Tell, Migrate, AddRequests, Migrated, Admit,
     Admitted, requests
<1>6. ASSUME NEW r \in running[e]
      PROVE  table'[r] = table[r] /\ generated'[r] = generated[r]
  <2>1. r \in Req /\ location[r] = "gpu" /\ home[r] = e[1] /\ r \notin running[f]
    BY <1>1, RunningApart, PlacedIn DEF Inv, RestOK
  <2>2. CASE StartStep(f)
    BY <2>2 DEF StartStep, pools, requests
  <2>3. CASE EndForward(f)
    BY <2>1, <2>3, TouchesOwn, Tokens DEF Untouched
  <2>4. CASE GetNextBatch(f)
    <3>1. generated' = generated
      BY <2>4 DEF GetNextBatch, Grow, Grown, GiveUp, SwapOut, SwappedOut, SwapIn, SwappedIn,
         Extend, Fetched, Look, Tell, Migrate, AddRequests, Migrated, Admit, Admitted,
         requests
    <3> QED  BY <2>1, <2>4, <3>1, TouchesOwn DEF Untouched
  <2> QED  BY <2>2, <2>3, <2>4
<1>7. \A r \in running[e] : Lacks(r)' = Lacks(r) /\ Context(r)' = Context(r)
  BY <1>5, <1>6 DEF Lacks, Need, Context
<1>8. Refused(e) => Refused(e)'
  BY <1>3, <1>4, <1>6, <1>7 DEF Refused, Victims, CanTake
<1> QED  BY <1>1, <1>3, <1>7, <1>8 DEF Feeds, Fed

\* A step of e that leaves its requests with blocks as they were.
LEMMA FeedsQuiet ==
  ASSUME Inv, NEW e \in Engine, NEW p \in {"idle", "fetch", "look", "admit", "poll",
                                          "told", "send", "sent"},
         step'[e].at = p, UNCHANGED <<table, prompt, generated, running>>,
         \A r \in running[e] : Lacks(r) <= 0
  PROVE  Feeds(e)'
BY DEF Feeds, Fed, Lacks, Need

\* Growing: the batch as it is when the workers have answered.
LEMMA FeedsEndForward ==
  ASSUME Inv, NEW e \in Engine, Feeds(e), EndForward(e)
  PROVE  Feeds(e)'
<1>1. step'[e].at \in {"grow", "blocked"}
  BY StepIs DEF EndForward, Acquire, At, Idle
<1>2. running'[e] \subseteq running[e] /\ running[e] \subseteq Req
  BY DEF EndForward, queues, Inv, RestOK
<1>3. \A r \in running'[e] : table'[r] = table[r]
  BY <1>2 DEF EndForward, FreeBlocks, pools, Inv, PoolsOK, RestOK
<1>4. ASSUME NEW r \in running'[e], Context(r)'
      PROVE  Context(r) /\ generated'[r] = generated[r]
  <2>1. r \in Req
    BY <1>2, <1>4
  <2>2. generated[r] \in Nat /\ generated'[r] = 0
    BY <1>4, <2>1, Tokens DEF Context
  <2> QED  BY <1>4, <2>1, <2>2, Tokens DEF Context
<1>5. prompt' = prompt /\ step[e].at = "forward"
  BY DEF EndForward
<1>6. \A r \in running'[e] : Context(r)' => Lacks(r)' <= 0
  BY <1>2, <1>3, <1>4, <1>5, LacksSame DEF Feeds
<1> QED  BY <1>1, <1>6 DEF Feeds, Awaits

LEMMA FeedsGrow ==
  ASSUME Inv, NEW e \in Engine, Feeds(e), Grow(e)
  PROVE  Feeds(e)'
<1>1. PICK r \in running[e] : Lacks(r) > 0 /\ Allocate(r)
  BY DEF Grow
<1>2. UNCHANGED <<prompt, generated, home, running, step>> /\ step[e].at = "grow"
  BY DEF Grow, requests, queues
<1>3. r \in Req /\ home[r] \in Instance /\ home[r] = e[1] /\ location[r] = "gpu"
  BY PlacedIn, StepIs DEF Inv, RestOK
<1>4. Lacks(r) \in Int
  BY <1>3, StepIs, LacksType
<1>5. Lacks(r)' <= 0
  BY <1>1, <1>2, <1>3, <1>4, AllocateFeeds
<1>6. \A s \in Req : s # r => table'[s] = table[s]
  BY <1>1, <1>2, <1>3, AllocateConserves DEF Inv
<1>7. \A s \in running[e] : Context(s)' => Lacks(s)' <= 0
  <2>1. ASSUME NEW s \in running[e], s # r
        PROVE  Lacks(s)' = Lacks(s) /\ Context(s)' = Context(s)
    BY <1>2, <1>6, <2>1, LacksSame DEF Inv, RestOK
  <2> QED  BY <1>2, <1>5, <2>1 DEF Feeds
<1> QED  BY <1>2, <1>7 DEF Feeds, Awaits

LEMMA FeedsGrown ==
  ASSUME Inv, NEW e \in Engine, Feeds(e), Grown(e)
  PROVE  Feeds(e)'
<1>1. step'[e].at = "fetch"
  BY StepIs DEF Grown, Go, At, Idle
<1> QED  BY <1>1, FeedsQuiet DEF Grown, pools, requests, queues

LEMMA FeedsSwapOut ==
  ASSUME Inv, NEW e \in Engine, Feeds(e), SwapOut(e)
  PROVE  Feeds(e)'
<1>1. PICK r \in Victims(e) :
        /\ SwapOne(r, "gpu", "cpu")
        /\ running' = [running EXCEPT ![e] = @ \ {r}]
        /\ step' = [step EXCEPT ![e] = [At("out") EXCEPT !.who = {r}]]
  BY DEF SwapOut
<1>2. step'[e].at = "out" /\ step[e].at = "grow"
  BY <1>1, StepIs DEF SwapOut, At, Idle
<1>3. running'[e] = running[e] \ {r} /\ running[e] \subseteq Req
  BY <1>1 DEF Inv, RestOK
<1>4. UNCHANGED <<prompt, generated>>
  BY DEF SwapOut, requests
<1>5. \A s \in Req : s # r => table'[s] = table[s]
  BY <1>1 DEF SwapOne
<1>6. \A s \in running'[e] : Context(s)' => Lacks(s)' <= 0
  BY <1>2, <1>3, <1>4, <1>5 DEF Feeds, Fed, Lacks, Need, Context
<1> QED  BY <1>2, <1>6 DEF Feeds, Fed

\* A shortage has a victim, since prompts have their blocks: the engine gives
\* up only if the CPU is full.
LEMMA FeedsGiveUp ==
  ASSUME Inv, NEW e \in Engine, Feeds(e), GiveUp(e)
  PROVE  Feeds(e)'
<1>1. step'[e].at = "idle" /\ step[e].at = "grow"
  BY StepIs DEF GiveUp, Release, Idle
<1>2. UNCHANGED <<free, swapping, table, prompt, generated, running>>
  BY DEF GiveUp, pools, requests, queues
<1>3. PICK r \in running[e] : ~ CanTake(e[1], "gpu", Lacks(r))
  BY DEF GiveUp, Short
<1>4. ~ (Lacks(r) <= 0)
  <2>1. r \in Req /\ e[1] \in Instance /\ "gpu" \in Device
    BY <1>3, StepIs DEF Inv, RestOK, Device
  <2>2. /\ Cardinality(free[e[1]]["gpu"]) \in Nat /\ Cardinality(swapping[e[1]]["gpu"]) \in Nat
        /\ Cardinality(table[r]) \in Nat
    BY <2>1, ListsFinite
  <2>3. Lacks(r) \in Int
    BY <2>1, <2>2, ServingAssumption DEF Lacks, Need, Inv, RestOK
  <2> QED  BY <1>3, <2>2, <2>3 DEF CanTake
<1>5. r \in Victims(e)
  BY <1>1, <1>4 DEF Feeds, Fed, Victims
<1>6. Refused(e)
  BY <1>5 DEF GiveUp, Refused
<1>7. Refused(e)'
  BY <1>2, <1>6 DEF Refused, Victims, Context, CanTake
<1>8. \A s \in running[e] : Context(s)' => Lacks(s)' <= 0
  BY <1>1, <1>2, LacksSame DEF Feeds
<1> QED  BY <1>1, <1>2, <1>7, <1>8 DEF Feeds, Awaits

LEMMA FeedsSwappedOut ==
  ASSUME Inv, NEW e \in Engine, Feeds(e), SwappedOut(e)
  PROVE  Feeds(e)'
<1>1. step'[e].at = "grow" /\ step[e].at = "out"
  BY StepIs DEF SwappedOut, Go, At, Idle
<1>2. UNCHANGED <<table, prompt, generated, running>>
  BY DEF SwappedOut, Settle, requests
<1>3. \A s \in running[e] : Context(s)' => Lacks(s)' <= 0
  BY <1>1, <1>2, LacksSame DEF Feeds
<1> QED  BY <1>1, <1>2, <1>3 DEF Feeds, Awaits

LEMMA FeedsSwapIn ==
  ASSUME Inv, NEW e \in Engine, Feeds(e), SwapIn(e)
  PROVE  Feeds(e)'
<1> DEFINE h == Head(swapped[e])
<1>1. /\ step[e].at = "fetch" /\ swapped[e] # <<>> /\ SwapOne(h, "cpu", "gpu")
      /\ UNCHANGED <<prompt, generated, running>>
  BY DEF SwapIn, requests
<1>2. step'[e].at = "in"
  BY StepIs DEF SwapIn, At, Idle
<1>3. h \in ToSet(swapped[e]) /\ h \in Req
  BY <1>1, TailSet DEF Inv, RestOK, OnePlace, Distinct
<1>4. location[h] = "cpu"
  BY <1>3, PlacedIn DEF Inv
<1>5. h \notin running[e] /\ running[e] \subseteq Req
  BY <1>4, PlacedIn DEF Inv, RestOK
<1>6. \A s \in Req : s # h => table'[s] = table[s]
  BY <1>1 DEF SwapOne
<1>7. \A s \in running[e] : Lacks(s)' <= 0
  BY <1>1, <1>5, <1>6 DEF Feeds, Fed, Lacks, Need
<1> QED  BY <1>1, <1>2, <1>7 DEF Feeds, Fed

LEMMA FeedsSwappedIn ==
  ASSUME Inv, NEW e \in Engine, Feeds(e), SwappedIn(e)
  PROVE  Feeds(e)'
<1>1. /\ step[e].at = "in" /\ step'[e].at = "extend" /\ step'[e].who = step[e].who
  BY StepIs DEF SwappedIn, StepType
<1>2. running'[e] = running[e] \cup step[e].who
  BY DEF SwappedIn, Inv, RestOK
<1>3. UNCHANGED <<table, prompt, generated>>
  BY DEF SwappedIn, Settle, requests
<1>4. \A s \in running[e] : Lacks(s)' <= 0
  BY <1>1, <1>3, LacksSame DEF Feeds, Fed
<1> QED  BY <1>1, <1>2, <1>4 DEF Feeds, Awaits

LEMMA FeedsExtend ==
  ASSUME Inv, NEW e \in Engine, Feeds(e), Extend(e)
  PROVE  Feeds(e)'
<1>1. step[e].at = "extend" /\ step'[e].at = "fetch"
  BY StepIs DEF Extend, Go, At, Idle
<1>2. UNCHANGED <<prompt, generated, home, running>>
  BY DEF Extend, requests, queues
<1>3. PICK r \in Req : step[e].who = {r}
  BY <1>1 DEF Inv, StepsOK
<1>4. IF Lacks(r) > 0 THEN Allocate(r) ELSE UNCHANGED pools
  BY <1>3 DEF Extend
<1>5. r \in running[e]
  BY <1>1, <1>3 DEF Inv, StepsOK
<1>6. home[r] \in Instance /\ location[r] = "gpu"
  BY <1>5, PlacedIn, StepIs DEF Inv
<1>7. Lacks(r) \in Int
  BY <1>3, StepIs, LacksType
<1>8. CASE Lacks(r) > 0
  <2>1. Lacks(r)' <= 0
    BY <1>2, <1>4, <1>6, <1>7, <1>8, AllocateFeeds
  <2>2. \A s \in Req : s # r => table'[s] = table[s]
    BY <1>2, <1>4, <1>6, <1>8, AllocateConserves DEF Inv
  <2>3. \A s \in running[e] : Lacks(s)' <= 0
    BY <1>1, <1>2, <1>3, <2>1, <2>2 DEF Feeds, Fed, Lacks, Need, Inv, RestOK
  <2> QED  BY <1>1, <1>2, <2>3 DEF Feeds, Fed
<1>9. CASE ~ (Lacks(r) > 0)
  <2>1. table' = table
    BY <1>4, <1>9 DEF pools
  <2>2. \A s \in running[e] : Lacks(s) <= 0
    BY <1>1, <1>3, <1>7, <1>9 DEF Feeds, Fed
  <2> QED  BY <1>1, <1>2, <2>1, <2>2, FeedsQuiet
<1> QED  BY <1>8, <1>9

LEMMA FeedsAdmit ==
  ASSUME Inv, NEW e \in Engine, Feeds(e), Admit(e)
  PROVE  Feeds(e)'
<1>1. PICK r \in unaccepted[e[1]] :
        Allocate(r) /\ running' = [running EXCEPT ![e] = @ \cup {r}]
  BY DEF Admit
<1>2. UNCHANGED <<prompt, generated, home, step>> /\ step[e].at = "admit"
  BY DEF Admit, requests
<1>3. /\ r \in Req /\ home[r] \in Instance /\ location[r] = "none" /\ table[r] = {}
  BY PlacedIn, StepIs DEF Inv, RestOK, Absent
<1>4. Lacks(r) >= 0
  <2>1. Lacks(r) = Need(r)
    <3>1. Cardinality(table[r]) = 0
      BY <1>3, FS_EmptySet
    <3>2. Need(r) \in Int
      BY <1>3, ServingAssumption DEF Need, Inv, RestOK
    <3> QED  BY <3>1, <3>2 DEF Lacks
  <2>2. Need(r) >= 0
    <3>1. prompt[r] \in Nat /\ generated[r] \in Nat /\ BlockSize \in Nat \ {0}
      BY <1>3, ServingAssumption DEF Inv, RestOK
    <3> QED  BY <3>1 DEF Need
  <2> QED  BY <2>1, <2>2
<1>5. Lacks(r)' <= 0
  BY <1>1, <1>2, <1>3, <1>4, AllocateFeeds
<1>6. \A s \in Req : s # r => table'[s] = table[s]
  BY <1>1, <1>2, <1>3, AllocateConserves DEF Inv
<1>7. running'[e] = running[e] \cup {r} /\ running[e] \subseteq Req
  BY <1>1 DEF Inv, RestOK
<1>8. \A s \in running'[e] : Lacks(s)' <= 0
  BY <1>2, <1>5, <1>6, <1>7 DEF Feeds, Fed, Lacks, Need
<1> QED  BY <1>2, <1>8 DEF Feeds, Fed

\* The steps that look around, and the last one.
LEMMA FeedsLook ==
  ASSUME Inv, NEW e \in Engine, Feeds(e),
         Fetched(e) \/ Look(e) \/ Tell(e) \/ Migrate(e) \/ AddRequests(e) \/ Migrated(e)
           \/ Admitted(e)
  PROVE  Feeds(e)'
<1>1. UNCHANGED <<table, prompt, generated, running>>
  BY DEF Fetched, Look, Tell, Migrate, AddRequests, Migrated, Admitted, pools, requests,
     queues
<1>2. step[e].at \in {"fetch", "look", "poll", "told", "send", "sent", "admit"}
  BY DEF Fetched, Look, Tell, Migrate, AddRequests, Migrated, Admitted
<1>3. \A r \in running[e] : Lacks(r) <= 0
  BY <1>2 DEF Feeds, Fed, Awaits
<1>4. step'[e].at \in {"idle", "look", "admit", "poll", "told", "send", "sent"}
  <2>1. ASSUME NEW p, Go(e, p) PROVE step'[e].at = p
    BY <2>1, StepIs DEF Go, At, Idle
  <2>2. CASE Fetched(e)
    <3>1. CASE Migration /\ e[2] = 0
      BY <2>1, <2>2, <3>1 DEF Fetched
    <3>2. CASE ~ (Migration /\ e[2] = 0)
      BY <2>1, <2>2, <3>2 DEF Fetched
    <3> QED  BY <3>1, <3>2
  <2>3. CASE Look(e)
    <3>1. CASE Pending(e[1]) >= FreeGpu(e[1])
      <4>1. PICK j \in Instance : step' = [step EXCEPT ![e] = [At("poll") EXCEPT !.to = j]]
        BY <2>3, <3>1 DEF Look
      <4> QED  BY <4>1, StepIs DEF At, Idle
    <3>2. CASE ~ (Pending(e[1]) >= FreeGpu(e[1]))
      BY <2>1, <2>3, <3>2 DEF Look
    <3> QED  BY <3>1, <3>2
  <2>4. CASE Tell(e)
    BY <2>4, StepIs DEF Tell, StepType
  <2>5. CASE Migrate(e)
    <3>1. \/ step' = [step EXCEPT ![e] = At("admit")]
          \/ \E S \in SUBSET Req :
                step' = [step EXCEPT ![e] = [step[e] EXCEPT !.at = "send", !.who = S]]
      BY <2>5, StepIs DEF Migrate, Inv, RestOK
    <3>2. ASSUME NEW S \in SUBSET Req,
                 step' = [step EXCEPT ![e] = [step[e] EXCEPT !.at = "send", !.who = S]]
          PROVE  step'[e].at = "send"
      BY <3>2, StepIs DEF StepType
    <3>3. step' = [step EXCEPT ![e] = At("admit")] => step'[e].at = "admit"
      BY StepIs DEF At, Idle
    <3> QED  BY <3>1, <3>2, <3>3
  <2>6. CASE AddRequests(e)
    BY <2>6, StepIs DEF AddRequests, At, Idle
  <2>7. CASE Migrated(e)
    BY <2>1, <2>7 DEF Migrated
  <2>8. CASE Admitted(e)
    BY <2>8, StepIs DEF Admitted, Release, Idle
  <2> QED  BY <2>2, <2>3, <2>4, <2>5, <2>6, <2>7, <2>8
<1> QED  BY <1>1, <1>3, <1>4, FeedsQuiet

LEMMA FeedsStartStep ==
  ASSUME Inv, NEW e \in Engine, Feeds(e), StartStep(e)
  PROVE  Feeds(e)'
<1>1. step[e].at = "idle" /\ step'[e].at = "forward"
  BY StepIs DEF StartStep, At, Idle
<1>2. UNCHANGED <<free, swapping, table, prompt, generated, running>>
  BY DEF StartStep, pools, requests, queues
<1>3. Refused(e) => Refused(e)'
  BY <1>2 DEF Refused, Victims, Context, CanTake
<1>4. \A s \in running[e] : Lacks(s)' = Lacks(s) /\ Context(s)' = Context(s)
  BY <1>2, LacksSame
<1> QED  BY <1>1, <1>2, <1>3, <1>4 DEF Feeds, Fed, Awaits

LEMMA FeedsArrive ==
  ASSUME Inv, NEW e \in Engine, Feeds(e), NEW q \in Req, NEW i \in Instance, Arrive(q, i)
  PROVE  Feeds(e)'
<1>1. UNCHANGED <<step, free, swapping, table, generated, running>> /\ home[q] = None
  BY DEF Arrive, pools
<1>2. \A r \in running[e] : r \in Req /\ r # q
  <2>1. \A r \in running[e] : r \in Req /\ home[r] = e[1]
    BY PlacedIn DEF Inv, RestOK
  <2>2. e[1] # None
    BY StepIs, ServingAssumption
  <2> QED  BY <1>1, <2>1, <2>2
<1>3. \A r \in running[e] : prompt'[r] = prompt[r]
  BY <1>2 DEF Arrive, Inv, RestOK
<1>4. Refused(e) => Refused(e)'
  BY <1>1 DEF Refused, Victims, Context, CanTake
<1> QED  BY <1>1, <1>3, <1>4 DEF Feeds, Fed, Lacks, Need, Context

\* With one virtual engine the steps of others are steps of other instances.
LEMMA AllFeedNext ==
  ASSUME V = 1, Inv, AllFeed, Next
  PROVE  AllFeed'
<1>1. SUFFICES ASSUME NEW e \in Engine PROVE Feeds(e)'
  BY DEF AllFeed
<1>2. Feeds(e)
  BY DEF AllFeed
<1>3. CASE \E q \in Req, i \in Instance : Arrive(q, i)
  BY <1>2, <1>3, FeedsArrive
<1>4. ASSUME NEW f \in Engine, StartStep(f) \/ EndForward(f) \/ GetNextBatch(f)
      PROVE  Feeds(e)'
  <2>1. CASE f = e
    BY <1>2, <1>4, <2>1, FeedsStartStep, FeedsEndForward, FeedsGrow, FeedsGrown,
       FeedsSwapOut, FeedsGiveUp, FeedsSwappedOut, FeedsSwapIn, FeedsSwappedIn,
       FeedsExtend, FeedsAdmit, FeedsLook DEF GetNextBatch
  <2>2. CASE f # e
    <3>1. e[1] # f[1]
      BY <2>2 DEF Engine, Ve
    <3> QED  BY <1>2, <1>4, <3>1, FeedsOther
  <2> QED  BY <2>1, <2>2
<1> QED  BY <1>3, <1>4 DEF Next

\* With one virtual engine, the batch on the workers has the blocks for its
\* next tokens, or there was a victim that the CPU had no room for.  The early
\* return of _get_next_batch (flash_backend.py:2257) is only taken in the second
\* case: a shortage never goes without a victim, as prompts have their blocks.
\* Arrivals and moves between instances do not change that.
THEOREM BatchesBacked == Spec => []BackedUnlessFull
<1> DEFINE One == V = 1 => AllFeed
<1>1. Init => One
  BY DEF Init, AllFeed, Feeds, Fed, Idle, Awaits
<1>2. Inv /\ One /\ [Next]_vars => One'
  <2>1. ASSUME Inv, AllFeed, UNCHANGED vars PROVE AllFeed'
    <3>1. UNCHANGED <<step, free, swapping, table, prompt, generated, running>>
      BY <2>1 DEF vars, pools, requests, queues
    <3> QED  BY <2>1, <3>1 DEF AllFeed, Feeds, Fed, Refused, Victims, Lacks, Need,
                Context, CanTake
  <2> QED  BY <2>1, AllFeedNext
<1>3. Inv /\ One => BackedUnlessFull
  <2>1. SUFFICES ASSUME Inv, V = 1, AllFeed, NEW e \in Engine, step[e].at = "forward"
                 PROVE  \/ \A r \in step[e].batch : Lacks(r) <= 0
                        \/ \E r \in Victims(e) :
                             ~ CanTake(e[1], "cpu", Cardinality(table[r]))
    BY DEF BackedUnlessFull
  <2>2. step[e].batch \subseteq running[e]
    BY <2>1 DEF Inv, StepsOK
  <2> QED  BY <2>1, <2>2 DEF AllFeed, Feeds, Fed, Refused
<1> HIDE DEF One
<1> QED  BY <1>1, <1>2, <1>3, InvAlways, PTL DEF Spec

=============================================================================
