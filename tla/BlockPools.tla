----------------------------- MODULE BlockPools -----------------------------
(***************************************************************************)
(* The bookkeeping of one BlockManager (kunserve/block_manager.py): which  *)
(* pool or request owns each block of the key-value cache of one instance, *)
(* and what every operation does to the pools and to the counters.         *)
(*                                                                         *)
(* A manager is a record.  An operation of the code is an operator that    *)
(* returns the SET of managers it may leave behind; the empty set stands   *)
(* for an assertion of the code that fails.  Lists of free blocks are      *)
(* sets: the code takes a prefix of a list, the model any subset of that   *)
(* size, so it allows every order a list may have come to be in.           *)
(*                                                                         *)
(* Block number i * N + b of the code, "part i of local block b", is       *)
(* <<i, b>>; in the replica format local block b keeps its number, <<0,b>>.*)
(* The extended block N * F + k is <<F, k>>.  The encoding is one-to-one,  *)
(* so comparing a number with N or with N * F and taking it modulo N are   *)
(* membership in Local or Extend and the second component.                 *)
(***************************************************************************)
EXTENDS Integers, FiniteSets, FiniteSetsExt

CONSTANTS
  Req,    \* requests
  N,      \* local blocks of one instance before fusion (max_num_gpu_blocks)
  F,      \* instances fused into one group (fusion_size)
  E,      \* blocks gained by dropping parameters (the result of pmm_drop)
  Quota   \* int(N * F * reserved_blocks_ratio), fixed by the configuration

ASSUME PoolAssumption ==
  /\ N \in Nat \ {0}
  /\ F \in Nat \ {0, 1}
  /\ E \in Nat
  /\ Quota \in Nat

Stage    == 0 .. F - 1
Base     == 0 .. N - 1
Local    == {0} \X Base            \* numbers below N
Pipeline == Stage \X Base          \* numbers below N * F
Extend   == {F} \X (0 .. E - 1)
Block    == Pipeline \cup Extend

\* The blocks of the pipeline format that share the memory of the local
\* blocks S, and the local blocks all of whose parts are in S.
Parts(S)    == {<<i, x[2]>> : i \in Stage, x \in S}
Complete(S) == {x \in Local : Parts({x}) \subseteq S}

Manager == [
  free_gpu            : SUBSET Pipeline,
  reserved            : SUBSET Pipeline,
  reserved_set        : SUBSET Pipeline,
  free_fusion         : SUBSET Pipeline,
  free_extend         : SUBSET Extend,
  block_table         : [Req -> SUBSET Block],   \* {}: no entry
  is_fusion_state     : BOOLEAN,
  max_gpu             : Int,
  max_reserved        : Int,
  max_fusion          : Int,
  max_extend          : Int,
  num_reserved_blocks : Nat ]

InitManager == [
  free_gpu            |-> Local,
  reserved            |-> {},
  reserved_set        |-> {},
  free_fusion         |-> {},
  free_extend         |-> {},
  block_table         |-> [r \in Req |-> {}],
  is_fusion_state     |-> FALSE,
  max_gpu             |-> N,
  max_reserved        |-> 0,
  max_fusion          |-> N,
  max_extend          |-> 0,
  num_reserved_blocks |-> 0 ]

Held(m, r)     == Cardinality(m.block_table[r])
Lacks(m, r, n) == n - Held(m, r)
FreeBlocks(m)  ==                       \* get_num_free_gpu_blocks
  Cardinality(m.free_extend)
    + Cardinality(IF m.is_fusion_state THEN m.free_fusion ELSE m.free_gpu)

-----------------------------------------------------------------------------
(* Allocation of the blocks request r lacks to own n of them.              *)

AllocateFusion(m, r, n) ==
  LET k     == Lacks(m, r, n)
      spill == k - Cardinality(m.free_fusion)
  IN  IF k <= 0 THEN {m}
      ELSE IF spill <= 0
      THEN {[m EXCEPT !.free_fusion = @ \ S, !.block_table[r] = @ \cup S] :
              S \in kSubset(k, m.free_fusion)}
      ELSE {[m EXCEPT !.free_fusion = {}, !.free_extend = @ \ S,
                      !.block_table[r] = @ \cup m.free_fusion \cup S] :
              S \in kSubset(spill, m.free_extend)}

AllocateReserved(m, r, n) ==
  IF Lacks(m, r, n) <= 0 THEN {m}
  ELSE {[m EXCEPT !.reserved = @ \ S, !.block_table[r] = @ \cup S] :
          S \in kSubset(Lacks(m, r, n), m.reserved)}

AllocateGpu(m, r, n) ==
  IF Lacks(m, r, n) <= 0 THEN {m}
  ELSE {[m EXCEPT !.free_gpu = @ \ S, !.block_table[r] = @ \cup S] :
          S \in kSubset(Lacks(m, r, n), m.free_gpu)}

\* allocate_blocks: "pipelined" is `only_new_blocks or request.fusion_exec`
\* in fusion state and `request.fusion_exec` out of it.
Allocate(m, r, n, pipelined) ==
  IF m.is_fusion_state
  THEN IF pipelined THEN AllocateFusion(m, r, n) ELSE AllocateReserved(m, r, n)
  ELSE IF pipelined THEN AllocateReserved(m, r, n) ELSE AllocateGpu(m, r, n)

-----------------------------------------------------------------------------
(* Release of every block of request r (free_blocks).                      *)

FreePipelinedAsBase(m, r) ==                                    \* mutation
  {[m EXCEPT !.block_table[r] = {}, !.free_fusion = @ \cup m.block_table[r]]}
FreePipelined(m, r) ==
  LET T == m.block_table[r]
  IN  {[m EXCEPT !.block_table[r] = {},
                 !.free_fusion = @ \cup (T \ Extend),
                 !.free_extend = @ \cup (T \cap Extend)]}

\* Local blocks return to the reserve up to its quota; every further one is
\* cut into F blocks of the pipeline format.
FreeReserved(m, r) ==
  LET T    == m.block_table[r]
      new  == T \ m.reserved_set
      room == m.num_reserved_blocks - Cardinality(m.reserved_set)
      fill == IF room <= 0 THEN 0
              ELSE IF room <= Cardinality(new) THEN room ELSE Cardinality(new)
  IN  {LET cut == new \ kept
       IN  [m EXCEPT !.block_table[r] = {},
                     !.reserved = @ \cup (T \ cut),
                     !.reserved_set = @ \cup kept,
                     !.free_fusion = @ \cup Parts(cut),
                     !.max_reserved = @ - Cardinality(cut),
                     !.max_fusion = @ + Cardinality(cut) * F] :
       kept \in kSubset(fill, new)}

FreeUncounted(m, r) ==                                          \* mutation
  LET pool == m.reserved \cup m.block_table[r]
  IN  {[m EXCEPT !.block_table[r] = {},
                 !.reserved = pool \ Parts(M),
                 !.free_gpu = @ \cup M,
                 !.max_gpu = @ + Cardinality(M)] : M \in SUBSET Complete(pool)}

\* Out of fusion state the reserve holds pipeline blocks.  While it exceeds
\* the quota a group of parts that is complete, and whose part 0 happens to
\* come first in the list, becomes a local block again.
FreeMerging(m, r) ==
  LET pool == m.reserved \cup m.block_table[r]
  IN  {[m EXCEPT !.block_table[r] = {},
                 !.reserved = pool \ Parts(M),
                 !.free_gpu = @ \cup M,
                 !.max_gpu = @ + Cardinality(M),
                 !.max_reserved = @ - Cardinality(M) * F] :
       M \in {G \in SUBSET Complete(pool) :
                \/ G = {}
                \/ Cardinality(pool) - (Cardinality(G) - 1) * F
                     > m.num_reserved_blocks}}

FreeGpu(m, r) ==
  {[m EXCEPT !.block_table[r] = {}, !.free_gpu = @ \cup m.block_table[r]]}

Free(m, r, pipelined) ==
  IF m.is_fusion_state
  THEN IF pipelined THEN FreePipelined(m, r) ELSE FreeReserved(m, r)
  ELSE IF pipelined THEN FreeMerging(m, r) ELSE FreeGpu(m, r)

-----------------------------------------------------------------------------
(* Changes of format.                                                      *)

\* convert_to_pipeline_format, INITIAL -> BALLOON (set_fusion_state before
\* it).  The quota is the whole region, so every free block is reserved.
ConvertToPipeline(m) ==
  [m EXCEPT !.num_reserved_blocks = m.max_gpu,
            !.reserved = m.free_gpu,
            !.reserved_set = m.free_gpu,
            !.free_gpu = {},
            !.max_reserved = m.max_gpu,
            !.max_gpu = 0,
            !.max_fusion = Cardinality(m.free_fusion),
            !.is_fusion_state = TRUE]

AddExtendShifted(m) ==                                          \* mutation
  [m EXCEPT !.free_extend = @ \cup ({F} \X (1 .. E)), !.max_extend = E]
AddExtend(m) ==                                    \* add_ex_fusion_blocks
  [m EXCEPT !.free_extend = @ \cup Extend,
            !.max_extend = Cardinality(m.free_extend \cup Extend)]

\* convert_all_reserved_blocks_into_fusion; reserved_set is left as it was.
ConvertFree(m) ==                                               \* mutation
  [m EXCEPT !.free_fusion = @ \cup Parts(m.reserved),
            !.reserved = {},
            !.max_fusion = @ + Cardinality(m.reserved) * F,
            !.max_reserved = 0]
ConvertReserved(m) ==
  [m EXCEPT !.free_fusion = @ \cup Parts(m.reserved),
            !.reserved = {},
            !.max_fusion = @ + m.max_reserved * F,
            !.max_reserved = 0]

\* free_blocks_into_fusion_except: instance `rank` keeps its own part of the
\* blocks of r, the other parts become free.
FreeIntoFusionExcept(m, r, rank) ==
  LET T == m.block_table[r]
  IN  [m EXCEPT !.block_table[r] = {<<rank, x[2]>> : x \in T},
                !.free_fusion = @ \cup {x \in Parts(T) : x[1] # rank},
                !.max_reserved = @ - Cardinality(T),
                !.max_fusion = @ + Cardinality(T) * F]

\* One round of the loop of wait_for_ex_blocks_to_return.
PollExtend(m) ==
  [m EXCEPT !.max_extend = @ - Cardinality(m.free_extend), !.free_extend = {}]

\* pack_blocks_into_base_region for one request; {} when it gives up.
PackOne(m, r) ==
  LET ext == m.block_table[r] \cap Extend
  IN  IF ext = {} THEN {m}
      ELSE IF Cardinality(ext) >= Cardinality(m.free_fusion) THEN {}
      ELSE {[m EXCEPT !.block_table[r] = (@ \ ext) \cup S,
                      !.free_fusion = @ \ S,
                      !.free_extend = @ \cup ext] :
              S \in kSubset(Cardinality(ext), m.free_fusion)}

RestoreKvLosing(m) ==                                           \* mutation
  {[m EXCEPT !.free_gpu = m.reserved \cup M,
             !.reserved = {},
             !.reserved_set = {},
             !.free_fusion = {},
             !.num_reserved_blocks = Quota,
             !.max_gpu = m.max_reserved + Cardinality(M),
             !.max_reserved = m.max_fusion - Cardinality(M) * F,
             !.max_fusion = 0,
             !.is_fusion_state = FALSE] : M \in {Complete(m.free_fusion)}}

\* restore_kvblocks: of the free pipeline blocks, sorted by local block, the
\* first Quota stay pipeline blocks; among the rest complete groups (whose
\* part 0 comes first in the list) become local blocks.
RestoreKv(m) ==
  LET ff     == m.free_fusion
      n      == IF Quota <= Cardinality(ff) THEN Quota ELSE Cardinality(ff)
      Kept   == {K \in kSubset(n, ff) : \A x \in K, y \in ff \ K : x[2] <= y[2]}
  IN  UNION {
        {[m EXCEPT !.free_gpu = m.reserved \cup M,
                   !.reserved = ff \ Parts(M),
                   !.reserved_set = {},
                   !.free_fusion = {},
                   !.num_reserved_blocks = Quota,
                   !.max_gpu = m.max_reserved + Cardinality(M),
                   !.max_reserved = m.max_fusion - Cardinality(ff \ K)
                                      + Cardinality((ff \ K) \ Parts(M)),
                   !.max_fusion = 0,
                   !.is_fusion_state = FALSE] :
           M \in SUBSET Complete(ff \ K)} : K \in Kept}

\* restore_from_fusion, RESTORE -> INITIAL, with its assertion: part 0 of
\* what is in the reserve stands for the whole local block.
RestoreFromFusion(m) ==
  IF m.max_gpu + m.max_reserved \div F # N THEN {}
  ELSE {[m EXCEPT !.free_gpu = @ \cup (m.reserved \cap Local),
                  !.reserved = {},
                  !.max_gpu = N,
                  !.max_reserved = 0]}

\* get_block_manager_data and set_block_manager_data: a manager that is given
\* to another engine is a new object there.  The data holds neither the
\* number of local blocks nor the quota, so the object has those of a new one.
Handed(m) == [m EXCEPT !.max_gpu = N, !.num_reserved_blocks = 0]

-----------------------------------------------------------------------------
(* Who owns which memory of the instance outside of the extended region:   *)
(* the pools, the blocks `fresh` taken from them for a request that is     *)
(* being restored, and the requests, those in `local` with blocks of the   *)
(* replica format.                                                         *)

Holder == ({"pool"} \X {"gpu", "reserve", "fusion", "fresh"})
            \cup ({"request"} \X Req)

Shares(m, local, fresh) ==
  LET pool == [gpu     |-> Parts(m.free_gpu),
               reserve |-> IF m.is_fusion_state THEN Parts(m.reserved)
                           ELSE m.reserved,
               fusion  |-> m.free_fusion,
               fresh   |-> Parts(fresh)]
      own(r) == IF r \in local THEN Parts(m.block_table[r])
                ELSE m.block_table[r] \ Extend
  IN  [h \in Holder |-> IF h[1] = "pool" THEN pool[h[2]] ELSE own(h[2])]

\* Together the shares are the whole base region, and no two overlap.
Partition(share) ==
  /\ UNION {share[h] : h \in Holder} = Pipeline
  /\ \A h, k \in Holder : h # k => share[h] \cap share[k] = {}
=============================================================================
