------------------------- MODULE FusionGroupTheorems -------------------------
(***************************************************************************)
(* Safety of a group for every number of instances, requests and blocks.   *)
(*                                                                         *)
(* With live reshard an exchange may still be going on when RESTORE begins *)
(* and then takes its blocks in the wrong format (ExchangeIntoFused is     *)
(* violated).  The theorems leave that combination of options out.         *)
(***************************************************************************)
EXTENDS FusionGroup, FiniteSetTheorems, TLAPS

-----------------------------------------------------------------------------
(* BlockPools: what the operations of a block manager preserve, for every  *)
(* number of blocks, instances and requests and for every quota.           *)

(* Sets of blocks and their sizes.                                         *)

\* Every set of blocks is finite, and F instances have F stages.
LEMMA FiniteBlocks ==
  /\ IsFiniteSet(Stage) /\ Cardinality(Stage) = F
  /\ IsFiniteSet(Local) /\ IsFiniteSet(Pipeline) /\ IsFiniteSet(Extend)
<1>1. IsFiniteSet(Stage) /\ Cardinality(Stage) = F
  BY FS_Interval, PoolAssumption, SMT DEF Stage
<1>2. IsFiniteSet(Base)
  BY FS_Interval, PoolAssumption, SMT DEF Base
<1>3. /\ IsFiniteSet(0 .. E - 1)
      /\ IsFiniteSet({0}) /\ IsFiniteSet({F})
  <2>1. IsFiniteSet(0 .. E - 1)
    BY FS_Interval, PoolAssumption, SMT
  <2>2. IsFiniteSet({0}) /\ IsFiniteSet({F})
    BY FS_Singleton
  <2>3. QED
    BY <2>1, <2>2
<1>4. QED
  BY <1>1, <1>2, <1>3, FS_Product DEF Local, Pipeline, Extend

\* A subset of the blocks of one region is finite and has a size.
LEMMA BlockSets ==
  ASSUME NEW S, S \subseteq Pipeline \/ S \subseteq Extend \/ S \subseteq Block
  PROVE  IsFiniteSet(S) /\ Cardinality(S) \in Nat
<1>1. IsFiniteSet(Block)
  BY FiniteBlocks, FS_Union DEF Block
<1>2. IsFiniteSet(S)
  BY <1>1, FiniteBlocks, FS_Subset
<1>3. QED
  BY <1>2, FS_CardinalityType

\* The two regions of the pipeline format do not overlap, and the local
\* blocks are the first part of the base region.
LEMMA Regions ==
  Pipeline \cap Extend = {} /\ Local \subseteq Pipeline
<1>1. ASSUME NEW x \in Pipeline, x \in Extend PROVE FALSE
  <2>1. x[1] \in 0 .. F - 1 /\ x[1] = F
    BY <1>1 DEF Pipeline, Extend, Stage
  <2>2. QED
    BY <2>1, PoolAssumption
<1>2. {0} \subseteq Stage
  BY PoolAssumption DEF Stage
<1>3. QED
  BY <1>1, <1>2 DEF Local, Pipeline

\* The parts of pipeline blocks are pipeline blocks.
LEMMA PartsType ==
  ASSUME NEW S \in SUBSET Pipeline
  PROVE  Parts(S) \in SUBSET Pipeline
  BY DEF Parts, Pipeline

\* A local block has F parts, and no part belongs to two local blocks.
LEMMA PartsSize ==
  ASSUME NEW S \in SUBSET Local
  PROVE  Cardinality(Parts(S)) = Cardinality(S) * F
<1> DEFINE f == [p \in Stage \X S |-> <<p[1], p[2][2]>>]
<1>1. IsFiniteSet(S) /\ IsFiniteSet(Stage \X S)
  BY FiniteBlocks, FS_Subset, FS_Product
<1>2. f \in [Stage \X S -> Parts(S)]
  BY DEF Parts
<1>3. \A t \in Parts(S) : \E p \in Stage \X S : f[p] = t
  <2> TAKE t \in Parts(S)
  <2>1. PICK i \in Stage, x \in S : t = <<i, x[2]>>
    BY DEF Parts
  <2>2. <<i, x>> \in Stage \X S /\ f[<<i, x>>] = t
    BY <2>1
  <2>3. QED
    BY <2>2
<1>4. \A p, q \in Stage \X S : f[p] = f[q] => p = q
  <2> TAKE p, q \in Stage \X S
  <2>1. p = <<p[1], p[2]>> /\ q = <<q[1], q[2]>>
    OBVIOUS
  <2>2. p[2] \in Local /\ q[2] \in Local
    OBVIOUS
  <2>3. p[2] = <<0, p[2][2]>> /\ q[2] = <<0, q[2][2]>>
    BY <2>2 DEF Local
  <2>4. QED
    BY <2>1, <2>3
<1>5. f \in Bijection(Stage \X S, Parts(S))
  BY <1>2, <1>3, <1>4 DEF Bijection, Injection, Surjection, IsInjective
<1>6. Cardinality(Parts(S)) = Cardinality(Stage \X S)
  BY <1>1, <1>5, FS_Bijection DEF ExistsBijection
<1>7. Cardinality(Stage \X S) = F * Cardinality(S)
  BY <1>1, FiniteBlocks, FS_Product
<1>8. Cardinality(S) \in Nat
  BY <1>1, FS_CardinalityType
<1>9. QED
  BY <1>6, <1>7, <1>8, PoolAssumption

-----------------------------------------------------------------------------
(* The parts of the invariant that concern one manager.                    *)

\* The extended blocks on loan: free, or owned by a request.
Loan(m) == m.free_extend \cup (Extend \cap UNION {m.block_table[r] : r \in Req})

\* No extended block has two owners, and max_extend counts those on loan.
ExtendCounted(m) ==
  /\ \A r \in Req : m.free_extend \cap m.block_table[r] = {}
  /\ \A r, s \in Req : r # s =>
       Extend \cap m.block_table[r] \cap m.block_table[s] = {}
  /\ Cardinality(Loan(m)) = m.max_extend

\* The counters of the pools add up to the memory of the instance.
Counted(m) ==
  IF m.is_fusion_state THEN m.max_reserved * F + m.max_fusion = N * F
  ELSE m.max_gpu * F + m.max_reserved = N * F

\* What an allocation or a release for request r keeps as it was.
Keeps(m, b, r) ==
  /\ b.is_fusion_state = m.is_fusion_state
  /\ b.max_extend = m.max_extend
  /\ \A s \in Req \ {r} : b.block_table[s] = m.block_table[s]

\* The extended blocks on loan are those of the pool and those of r and of
\* the others.
LEMMA LoanSplit ==
  ASSUME NEW m \in Manager, NEW r \in Req
  PROVE  Loan(m) = m.free_extend \cup (Extend \cap m.block_table[r])
                     \cup (Extend \cap UNION {m.block_table[s] : s \in Req \ {r}})
  BY DEF Loan

\* ExtendCounted survives a step that keeps the other requests and only
\* exchanges extended blocks between the pool and r.
LEMMA LoanKept ==
  ASSUME NEW m \in Manager, NEW b \in Manager, NEW r \in Req,
         ExtendCounted(m), Keeps(m, b, r),
         b.free_extend \cap b.block_table[r] = {},
         b.free_extend \cup (Extend \cap b.block_table[r])
           = m.free_extend \cup (Extend \cap m.block_table[r])
  PROVE  ExtendCounted(b)
<1>1. Loan(b) = Loan(m)
  <2>1. UNION {b.block_table[s] : s \in Req \ {r}}
          = UNION {m.block_table[s] : s \in Req \ {r}}
    BY DEF Keeps
  <2>2. QED
    BY <2>1, LoanSplit
<1>2. m.free_extend \subseteq Extend /\ b.free_extend \subseteq Extend
  BY DEF Manager
<1>3. \A s \in Req \ {r} :
        /\ b.free_extend \cap b.block_table[s] = {}
        /\ Extend \cap b.block_table[r] \cap b.block_table[s] = {}
  BY <1>2 DEF ExtendCounted, Keeps
<1>4. \A s, t \in Req : s # t =>
        Extend \cap b.block_table[s] \cap b.block_table[t] = {}
  <2> SUFFICES ASSUME NEW s \in Req, NEW t \in Req, s # t
               PROVE  Extend \cap b.block_table[s] \cap b.block_table[t] = {}
    OBVIOUS
  <2>1. CASE s = r
    BY <2>1, <1>3
  <2>2. CASE t = r
    BY <2>2, <1>3
  <2>3. CASE s # r /\ t # r
    BY <2>3 DEF ExtendCounted, Keeps
  <2>4. QED
    BY <2>1, <2>2, <2>3
<1>5. QED
  BY <1>1, <1>3, <1>4 DEF ExtendCounted, Keeps

-----------------------------------------------------------------------------
(* Allocation.                                                             *)

\* Allocation for r changes no counter, leaves the other requests alone,
\* takes from the free list of the pipeline format but never adds to it, and
\* hands out extended blocks only in the pipeline format.
Allocated(m, b, r, extended) ==
  /\ b \in Manager
  /\ Keeps(m, b, r)
  /\ b.max_gpu = m.max_gpu
  /\ b.max_reserved = m.max_reserved
  /\ b.max_fusion = m.max_fusion
  /\ b.free_fusion \subseteq m.free_fusion
  /\ ~ extended => Extend \cap b.block_table[r] = Extend \cap m.block_table[r]
  /\ ExtendCounted(b)

LEMMA AllocateFusionStep ==
  ASSUME NEW m \in Manager, NEW r \in Req, NEW n \in Nat, ExtendCounted(m),
         NEW b \in AllocateFusion(m, r, n)
  PROVE  Allocated(m, b, r, TRUE)
<1> DEFINE k     == Lacks(m, r, n)
           spill == k - Cardinality(m.free_fusion)
<1>1. m.block_table[r] \subseteq Block /\ m.free_fusion \subseteq Pipeline
        /\ m.free_extend \subseteq Extend
  BY DEF Manager
<1>2. m.free_extend \cap m.block_table[r] = {}
  BY DEF ExtendCounted
<1>3. CASE k <= 0
  BY <1>3 DEF AllocateFusion, Allocated, Keeps
<1>4. CASE ~ (k <= 0) /\ spill <= 0
  <2>1. PICK S \in SUBSET m.free_fusion :
          b = [m EXCEPT !.free_fusion = @ \ S, !.block_table[r] = @ \cup S]
    BY <1>4 DEF AllocateFusion, kSubset
  <2>2. b \in Manager /\ Keeps(m, b, r)
    BY <1>1, <2>1 DEF Manager, Keeps, Block
  <2>3. b.free_extend = m.free_extend /\ b.block_table[r] = m.block_table[r] \cup S
    BY <2>1 DEF Manager
  <2>4. Extend \cap b.block_table[r] = Extend \cap m.block_table[r]
    BY <1>1, <2>3, Regions
  <2>5. b.free_extend \cap b.block_table[r] = {}
    BY <1>1, <1>2, <2>3, Regions
  <2>6. ExtendCounted(b)
    BY <2>2, <2>3, <2>4, <2>5, LoanKept
  <2>7. QED
    BY <2>1, <2>2, <2>4, <2>6 DEF Allocated, Manager
<1>5. CASE ~ (k <= 0) /\ ~ (spill <= 0)
  <2>1. PICK S \in SUBSET m.free_extend :
          b = [m EXCEPT !.free_fusion = {}, !.free_extend = @ \ S,
                        !.block_table[r] = @ \cup m.free_fusion \cup S]
    BY <1>5 DEF AllocateFusion, kSubset
  <2>2. b \in Manager /\ Keeps(m, b, r)
    BY <1>1, <2>1 DEF Manager, Keeps, Block
  <2>3. /\ b.free_extend = m.free_extend \ S
        /\ b.block_table[r] = m.block_table[r] \cup m.free_fusion \cup S
    BY <2>1 DEF Manager
  <2>4. b.free_extend \cup (Extend \cap b.block_table[r])
          = m.free_extend \cup (Extend \cap m.block_table[r])
    BY <1>1, <2>3, Regions
  <2>5. b.free_extend \cap b.block_table[r] = {}
    BY <1>1, <1>2, <2>3, Regions
  <2>6. ExtendCounted(b)
    BY <2>2, <2>4, <2>5, LoanKept
  <2>7. QED
    BY <2>1, <2>2, <2>6 DEF Allocated, Manager
<1>6. QED
  BY <1>3, <1>4, <1>5

LEMMA AllocateReservedStep ==
  ASSUME NEW m \in Manager, NEW r \in Req, NEW n \in Nat, ExtendCounted(m),
         NEW b \in AllocateReserved(m, r, n)
  PROVE  Allocated(m, b, r, FALSE)
<1>1. m.block_table[r] \subseteq Block /\ m.reserved \subseteq Pipeline
        /\ m.free_extend \subseteq Extend
        /\ m.free_extend \cap m.block_table[r] = {}
  BY DEF Manager, ExtendCounted
<1>2. CASE Lacks(m, r, n) <= 0
  BY <1>2 DEF AllocateReserved, Allocated, Keeps
<1>3. CASE ~ (Lacks(m, r, n) <= 0)
  <2>1. PICK S \in SUBSET m.reserved :
          b = [m EXCEPT !.reserved = @ \ S, !.block_table[r] = @ \cup S]
    BY <1>3 DEF AllocateReserved, kSubset
  <2>2. b \in Manager /\ Keeps(m, b, r)
    BY <1>1, <2>1 DEF Manager, Keeps, Block
  <2>3. b.free_extend = m.free_extend /\ b.block_table[r] = m.block_table[r] \cup S
    BY <2>1 DEF Manager
  <2>4. Extend \cap b.block_table[r] = Extend \cap m.block_table[r]
    BY <1>1, <2>3, Regions
  <2>5. b.free_extend \cap b.block_table[r] = {}
    BY <1>1, <2>3, Regions
  <2>6. ExtendCounted(b)
    BY <2>2, <2>3, <2>4, <2>5, LoanKept
  <2>7. QED
    BY <2>1, <2>2, <2>4, <2>6 DEF Allocated, Manager
<1>4. QED
  BY <1>2, <1>3

LEMMA AllocateGpuStep ==
  ASSUME NEW m \in Manager, NEW r \in Req, NEW n \in Nat, ExtendCounted(m),
         NEW b \in AllocateGpu(m, r, n)
  PROVE  Allocated(m, b, r, FALSE)
<1>1. m.block_table[r] \subseteq Block /\ m.free_gpu \subseteq Pipeline
        /\ m.free_extend \subseteq Extend
        /\ m.free_extend \cap m.block_table[r] = {}
  BY DEF Manager, ExtendCounted
<1>2. CASE Lacks(m, r, n) <= 0
  BY <1>2 DEF AllocateGpu, Allocated, Keeps
<1>3. CASE ~ (Lacks(m, r, n) <= 0)
  <2>1. PICK S \in SUBSET m.free_gpu :
          b = [m EXCEPT !.free_gpu = @ \ S, !.block_table[r] = @ \cup S]
    BY <1>3 DEF AllocateGpu, kSubset
  <2>2. b \in Manager /\ Keeps(m, b, r)
    BY <1>1, <2>1 DEF Manager, Keeps, Block
  <2>3. b.free_extend = m.free_extend /\ b.block_table[r] = m.block_table[r] \cup S
    BY <2>1 DEF Manager
  <2>4. Extend \cap b.block_table[r] = Extend \cap m.block_table[r]
    BY <1>1, <2>3, Regions
  <2>5. b.free_extend \cap b.block_table[r] = {}
    BY <1>1, <2>3, Regions
  <2>6. ExtendCounted(b)
    BY <2>2, <2>3, <2>4, <2>5, LoanKept
  <2>7. QED
    BY <2>1, <2>2, <2>4, <2>6 DEF Allocated, Manager
<1>4. QED
  BY <1>2, <1>3

\* Allocation keeps every invariant of the manager, and gives extended
\* blocks only to a pipeline request in fusion state.
LEMMA AllocateStep ==
  ASSUME NEW m \in Manager, NEW r \in Req, NEW n \in Nat, NEW p \in BOOLEAN,
         ExtendCounted(m), NEW b \in Allocate(m, r, n, p)
  PROVE  Allocated(m, b, r, m.is_fusion_state /\ p)
<1>1. CASE m.is_fusion_state /\ p
  BY <1>1, AllocateFusionStep DEF Allocate
<1>2. CASE ~ (m.is_fusion_state /\ p)
  <2>1. b \in AllocateReserved(m, r, n) \/ b \in AllocateGpu(m, r, n)
    BY <1>2 DEF Allocate
  <2>2. Allocated(m, b, r, FALSE)
    BY <2>1, AllocateReservedStep, AllocateGpuStep
  <2>3. QED
    BY <1>2, <2>2 DEF Allocated
<1>3. QED
  BY <1>1, <1>2

-----------------------------------------------------------------------------
(* Release.                                                                *)

\* A request that is released owns nothing afterwards, the others keep what
\* they had, and both accounts of the manager stay right.
Freed(m, b, r) ==
  /\ b \in Manager
  /\ Keeps(m, b, r)
  /\ b.block_table[r] = {}
  /\ ExtendCounted(b)
  /\ Counted(b)

LEMMA FreePipelinedStep ==
  ASSUME NEW m \in Manager, NEW r \in Req, ExtendCounted(m), Counted(m),
         NEW b \in FreePipelined(m, r)
  PROVE  Freed(m, b, r)
<1> DEFINE T == m.block_table[r]
<1>1. T \subseteq Block /\ T \ Extend \subseteq Pipeline /\ T \cap Extend \subseteq Extend
  BY DEF Manager, Block
<1>2. b = [m EXCEPT !.block_table[r] = {}, !.free_fusion = @ \cup (T \ Extend),
                    !.free_extend = @ \cup (T \cap Extend)]
  BY DEF FreePipelined
<1>3. b \in Manager /\ Keeps(m, b, r)
  BY <1>1, <1>2 DEF Manager, Keeps
<1>4. b.block_table[r] = {} /\ b.free_extend = m.free_extend \cup (T \cap Extend)
  BY <1>2 DEF Manager
<1>5. ExtendCounted(b)
  BY <1>3, <1>4, LoanKept
<1>6. Counted(b)
  BY <1>2 DEF Counted, Manager
<1>7. QED
  BY <1>3, <1>4, <1>5, <1>6 DEF Freed

LEMMA FreeReservedStep ==
  ASSUME NEW m \in Manager, NEW r \in Req, ExtendCounted(m), Counted(m),
         m.is_fusion_state, Extend \cap m.block_table[r] = {},
         NEW b \in FreeReserved(m, r)
  PROVE  Freed(m, b, r)
<1> DEFINE T    == m.block_table[r]
           new  == T \ m.reserved_set
<1>1. T \subseteq Pipeline
  BY DEF Manager, Block
<1>2. PICK kept \in SUBSET new :
        b = [m EXCEPT !.block_table[r] = {},
                      !.reserved = @ \cup (T \ (new \ kept)),
                      !.reserved_set = @ \cup kept,
                      !.free_fusion = @ \cup Parts(new \ kept),
                      !.max_reserved = @ - Cardinality(new \ kept),
                      !.max_fusion = @ + Cardinality(new \ kept) * F]
  BY DEF FreeReserved, kSubset
<1> DEFINE c == Cardinality(new \ kept)
<1>3. c \in Nat
  BY <1>1, BlockSets
<1>4. Parts(new \ kept) \subseteq Pipeline
  BY <1>1, PartsType
<1>5. b \in Manager /\ Keeps(m, b, r)
  <2>1. m.max_reserved - c \in Int /\ m.max_fusion + c * F \in Int
    BY <1>3, PoolAssumption DEF Manager
  <2>2. QED
    BY <1>1, <1>2, <1>4, <2>1 DEF Manager, Keeps
<1>6. b.block_table[r] = {} /\ b.free_extend = m.free_extend
  BY <1>2 DEF Manager
<1>7. ExtendCounted(b)
  BY <1>5, <1>6, LoanKept
<1>8. Counted(b)
  <2>1. b.max_reserved = m.max_reserved - c /\ b.max_fusion = m.max_fusion + c * F
    BY <1>2 DEF Manager
  <2>2. b.is_fusion_state
    BY <1>2 DEF Manager
  <2>3. m.max_reserved * F + m.max_fusion = N * F
    BY DEF Counted
  <2>4. m.max_reserved \in Int /\ m.max_fusion \in Int /\ F \in Int
    BY PoolAssumption DEF Manager
  <2>5. (m.max_reserved - c) * F = m.max_reserved * F - c * F
    BY <1>3, <2>4
  <2>6. b.max_reserved * F + b.max_fusion = N * F
    BY <1>3, <2>1, <2>3, <2>4, <2>5
  <2>7. QED
    BY <2>2, <2>6 DEF Counted
<1>9. QED
  BY <1>5, <1>6, <1>7, <1>8 DEF Freed

LEMMA FreeMergingStep ==
  ASSUME NEW m \in Manager, NEW r \in Req, ExtendCounted(m), Counted(m),
         ~ m.is_fusion_state, Extend \cap m.block_table[r] = {},
         NEW b \in FreeMerging(m, r)
  PROVE  Freed(m, b, r)
<1> DEFINE pool == m.reserved \cup m.block_table[r]
<1>1. pool \subseteq Pipeline
  BY DEF Manager, Block
<1>2. PICK M \in SUBSET Complete(pool) :
        b = [m EXCEPT !.block_table[r] = {},
                      !.reserved = pool \ Parts(M),
                      !.free_gpu = @ \cup M,
                      !.max_gpu = @ + Cardinality(M),
                      !.max_reserved = @ - Cardinality(M) * F]
  BY DEF FreeMerging
<1> DEFINE c == Cardinality(M)
<1>3. M \subseteq Pipeline /\ c \in Nat
  BY BlockSets, Regions DEF Complete
<1>4. b \in Manager /\ Keeps(m, b, r)
  <2>1. m.max_gpu + c \in Int /\ m.max_reserved - c * F \in Int
    BY <1>3, PoolAssumption DEF Manager
  <2>2. QED
    BY <1>1, <1>2, <1>3, <2>1 DEF Manager, Keeps
<1>5. b.block_table[r] = {} /\ b.free_extend = m.free_extend
  BY <1>2 DEF Manager
<1>6. ExtendCounted(b)
  BY <1>4, <1>5, LoanKept
<1>7. Counted(b)
  <2>1. b.max_gpu = m.max_gpu + c /\ b.max_reserved = m.max_reserved - c * F
    BY <1>2 DEF Manager
  <2>2. ~ b.is_fusion_state
    BY <1>2 DEF Manager
  <2>3. m.max_gpu * F + m.max_reserved = N * F
    BY DEF Counted
  <2>4. m.max_gpu \in Int /\ m.max_reserved \in Int /\ F \in Int
    BY PoolAssumption DEF Manager
  <2>5. (m.max_gpu + c) * F = m.max_gpu * F + c * F
    BY <1>3, <2>4
  <2>6. b.max_gpu * F + b.max_reserved = N * F
    BY <1>3, <2>1, <2>3, <2>4, <2>5
  <2>7. QED
    BY <2>2, <2>6 DEF Counted
<1>8. QED
  BY <1>4, <1>5, <1>6, <1>7 DEF Freed

LEMMA FreeGpuStep ==
  ASSUME NEW m \in Manager, NEW r \in Req, ExtendCounted(m), Counted(m),
         Extend \cap m.block_table[r] = {}, NEW b \in FreeGpu(m, r)
  PROVE  Freed(m, b, r)
<1>1. b = [m EXCEPT !.block_table[r] = {}, !.free_gpu = @ \cup m.block_table[r]]
  BY DEF FreeGpu
<1>2. m.block_table[r] \subseteq Pipeline
  BY DEF Manager, Block
<1>3. b \in Manager /\ Keeps(m, b, r)
  BY <1>1, <1>2 DEF Manager, Keeps
<1>4. b.block_table[r] = {} /\ b.free_extend = m.free_extend
  BY <1>1 DEF Manager
<1>5. ExtendCounted(b)
  BY <1>3, <1>4, LoanKept
<1>6. Counted(b)
  BY <1>1 DEF Counted, Manager
<1>7. QED
  BY <1>3, <1>4, <1>5, <1>6 DEF Freed

\* Release keeps every invariant of the manager, provided that only requests
\* released as pipeline requests of a fused group own extended blocks.
LEMMA FreeStep ==
  ASSUME NEW m \in Manager, NEW r \in Req, NEW p \in BOOLEAN,
         ExtendCounted(m), Counted(m),
         (m.is_fusion_state /\ p) \/ Extend \cap m.block_table[r] = {},
         NEW b \in Free(m, r, p)
  PROVE  /\ Freed(m, b, r)
         /\ ~ m.is_fusion_state => b.free_fusion = m.free_fusion
         /\ ~ m.is_fusion_state /\ ~ p =>
              b.max_gpu = m.max_gpu /\ b.max_reserved = m.max_reserved
<1>1. CASE m.is_fusion_state /\ p
  BY <1>1, FreePipelinedStep DEF Free
<1>2. CASE m.is_fusion_state /\ ~ p
  BY <1>2, FreeReservedStep DEF Free
<1>3. CASE ~ m.is_fusion_state /\ p
  <2>1. b.free_fusion = m.free_fusion
    BY <1>3 DEF Free, FreeMerging, Manager
  <2>2. QED
    BY <1>3, <2>1, FreeMergingStep DEF Free
<1>4. CASE ~ m.is_fusion_state /\ ~ p
  <2>1. /\ b.free_fusion = m.free_fusion
        /\ b.max_gpu = m.max_gpu /\ b.max_reserved = m.max_reserved
    BY <1>4 DEF Free, FreeGpu, Manager
  <2>2. QED
    BY <1>4, <2>1, FreeGpuStep DEF Free
<1>5. QED
  BY <1>1, <1>2, <1>3, <1>4

-----------------------------------------------------------------------------
(* Changes of format and the extended region.                              *)

\* What a change of format keeps: what the requests own and the account of
\* the extended region.
Reformatted(m, b) ==
  /\ b \in Manager
  /\ b.block_table = m.block_table
  /\ b.free_extend = m.free_extend
  /\ b.max_extend = m.max_extend

LEMMA ReformattedCounted ==
  ASSUME NEW m, NEW b, Reformatted(m, b), ExtendCounted(m)
  PROVE  ExtendCounted(b)
  BY DEF Reformatted, ExtendCounted, Loan

LEMMA ConvertToPipelineStep ==
  ASSUME NEW m \in Manager, m.max_gpu = N, m.free_fusion = {}
  PROVE  LET b == ConvertToPipeline(m)
         IN  Reformatted(m, b) /\ b.is_fusion_state /\ Counted(b)
<1> DEFINE b == ConvertToPipeline(m)
<1>1. Cardinality(m.free_fusion) = 0
  BY FS_EmptySet
<1>2. b = [m EXCEPT !.num_reserved_blocks = N, !.reserved = m.free_gpu,
                    !.reserved_set = m.free_gpu, !.free_gpu = {},
                    !.max_reserved = N, !.max_gpu = 0, !.max_fusion = 0,
                    !.is_fusion_state = TRUE]
  BY <1>1 DEF ConvertToPipeline
<1> HIDE DEF b
<1>3. b \in Manager
  <2>1. N \in Int /\ N \in Nat /\ 0 \in Int
    BY PoolAssumption
  <2>2. QED
    BY <1>2, <2>1 DEF Manager
<1>4. Reformatted(m, b) /\ b.is_fusion_state /\ b.max_reserved = N /\ b.max_fusion = 0
  BY <1>2, <1>3 DEF Reformatted, Manager
<1>5. Counted(b)
  BY <1>4, PoolAssumption DEF Counted
<1>6. QED
  BY <1>4, <1>5 DEF b

LEMMA AddExtendStep ==
  ASSUME NEW m \in Manager, Counted(m), m.free_extend = {},
         \A r \in Req : Extend \cap m.block_table[r] = {}
  PROVE  LET b == AddExtend(m)
         IN  /\ b \in Manager
             /\ b.block_table = m.block_table
             /\ b.is_fusion_state = m.is_fusion_state
             /\ ExtendCounted(b) /\ Counted(b)
<1> DEFINE b == AddExtend(m)
<1>1. Cardinality(Extend) \in Int
  <2>1. Cardinality(Extend) \in Nat
    BY BlockSets
  <2>2. QED
    BY <2>1
<1>2. b = [m EXCEPT !.free_extend = Extend, !.max_extend = Cardinality(Extend)]
  <2>1. m.free_extend \cup Extend = Extend
    OBVIOUS
  <2>2. QED
    BY <2>1 DEF AddExtend
<1> HIDE DEF b
<1>3. b \in Manager
  BY <1>1, <1>2 DEF Manager
<1>4. /\ b.block_table = m.block_table /\ b.is_fusion_state = m.is_fusion_state
      /\ b.free_extend = Extend /\ b.max_extend = Cardinality(Extend)
      /\ b.max_gpu = m.max_gpu /\ b.max_reserved = m.max_reserved
      /\ b.max_fusion = m.max_fusion
  BY <1>2 DEF Manager
<1>5. Counted(b)
  BY <1>4 DEF Counted
<1>6. Loan(b) = Extend
  BY <1>4 DEF Loan
<1>7. ExtendCounted(b)
  <2>1. \A r \in Req : b.free_extend \cap b.block_table[r] = {}
    BY <1>4
  <2>2. \A r, s \in Req : r # s =>
          Extend \cap b.block_table[r] \cap b.block_table[s] = {}
    BY <1>4
  <2>3. QED
    BY <1>4, <1>6, <2>1, <2>2 DEF ExtendCounted
<1>8. QED
  BY <1>3, <1>4, <1>5, <1>7 DEF b

LEMMA ConvertReservedStep ==
  ASSUME NEW m \in Manager, Counted(m), m.is_fusion_state
  PROVE  LET b == ConvertReserved(m)
         IN  Reformatted(m, b) /\ b.is_fusion_state /\ Counted(b)
<1> DEFINE b == ConvertReserved(m)
<1>1. m.reserved \subseteq Pipeline /\ Parts(m.reserved) \subseteq Pipeline
  BY PartsType DEF Manager
<1>2. m.max_reserved * F \in Int
  BY PoolAssumption DEF Manager
<1>3. m.max_fusion + m.max_reserved * F \in Int
  BY <1>2 DEF Manager
<1>4. b = [m EXCEPT !.free_fusion = @ \cup Parts(m.reserved), !.reserved = {},
                    !.max_fusion = m.max_fusion + m.max_reserved * F,
                    !.max_reserved = 0]
  BY DEF ConvertReserved
<1> HIDE DEF b
<1>5. b \in Manager
  <2>1. m.free_fusion \cup Parts(m.reserved) \subseteq Pipeline /\ 0 \in Int
    BY <1>1 DEF Manager
  <2>2. QED
    BY <1>3, <1>4, <2>1 DEF Manager
<1>6. /\ Reformatted(m, b) /\ b.is_fusion_state
      /\ b.max_reserved = 0 /\ b.max_fusion = m.max_fusion + m.max_reserved * F
  BY <1>4, <1>5 DEF Reformatted, Manager
<1>7. m.max_reserved * F + m.max_fusion = N * F /\ m.max_fusion \in Int
  BY DEF Counted, Manager
<1>8. Counted(b)
  BY <1>2, <1>6, <1>7, PoolAssumption DEF Counted
<1>9. QED
  BY <1>6, <1>8 DEF b

LEMMA FreeIntoFusionExceptStep ==
  ASSUME NEW m \in Manager, NEW r \in Req, NEW rank \in Stage,
         m.is_fusion_state, ExtendCounted(m), Counted(m),
         Extend \cap m.block_table[r] = {}
  PROVE  LET b == FreeIntoFusionExcept(m, r, rank)
         IN  /\ b \in Manager
             /\ Keeps(m, b, r)
             /\ Extend \cap b.block_table[r] = {}
             /\ ExtendCounted(b) /\ Counted(b)
<1> DEFINE b == FreeIntoFusionExcept(m, r, rank)
           T == m.block_table[r]
           c == Cardinality(T)
           own == {<<rank, x[2]>> : x \in T}
           rest == {x \in Parts(T) : x[1] # rank}
<1>1. T \subseteq Pipeline /\ c \in Nat
  BY BlockSets DEF Manager, Block
<1>2. own \subseteq Pipeline /\ rest \subseteq Pipeline
  BY <1>1, PartsType DEF Pipeline
<1>3. c * F \in Int /\ m.max_reserved \in Int /\ m.max_fusion \in Int
  BY <1>1, PoolAssumption DEF Manager
<1>4. m.max_reserved - c \in Int /\ m.max_fusion + c * F \in Int
  BY <1>1, <1>3
<1>5. b = [m EXCEPT !.block_table[r] = own, !.free_fusion = @ \cup rest,
                    !.max_reserved = @ - c, !.max_fusion = @ + c * F]
  BY DEF FreeIntoFusionExcept
<1> HIDE DEF b, c, own, rest
<1>6. b \in Manager /\ Keeps(m, b, r)
  BY <1>2, <1>4, <1>5 DEF Manager, Keeps, Block
<1>7. b.block_table[r] = own /\ b.free_extend = m.free_extend
  BY <1>5, <1>2 DEF Manager
<1>8. Extend \cap b.block_table[r] = {}
  BY <1>2, <1>7, Regions
<1>9. ExtendCounted(b)
  <2>1. m.free_extend \subseteq Extend
    BY DEF Manager
  <2>2. b.free_extend \cap b.block_table[r] = {}
    BY <2>1, <1>7, <1>8
  <2>3. QED
    BY <1>6, <1>7, <1>8, <2>2, LoanKept
<1>10. Counted(b)
  <2>1. /\ b.is_fusion_state
        /\ b.max_reserved = m.max_reserved - c /\ b.max_fusion = m.max_fusion + c * F
    BY <1>5 DEF Manager
  <2>2. (m.max_reserved - c) * F = m.max_reserved * F - c * F
    BY <1>1, <1>3, PoolAssumption
  <2>3. m.max_reserved * F + m.max_fusion = N * F /\ m.max_reserved * F \in Int
    BY PoolAssumption DEF Counted, Manager
  <2>4. b.max_reserved * F + b.max_fusion = N * F
    BY <1>3, <2>1, <2>2, <2>3
  <2>5. QED
    BY <2>1, <2>4 DEF Counted
<1>11. QED
  BY <1>6, <1>8, <1>9, <1>10 DEF b

LEMMA PollExtendStep ==
  ASSUME NEW m \in Manager, ExtendCounted(m), Counted(m)
  PROVE  LET b == PollExtend(m)
         IN  /\ b \in Manager
             /\ b.block_table = m.block_table
             /\ b.is_fusion_state = m.is_fusion_state
             /\ ExtendCounted(b) /\ Counted(b)
<1> DEFINE b == PollExtend(m)
<1>1. m.free_extend \subseteq Extend /\ Cardinality(m.free_extend) \in Nat
  BY BlockSets DEF Manager
<1> DEFINE c == Cardinality(m.free_extend)
<1>10. b = [m EXCEPT !.max_extend = @ - c, !.free_extend = {}]
  BY DEF PollExtend
<1>11. c \in Nat
  BY <1>1
<1> HIDE DEF b, c
<1>12. b \in Manager
  <2>1. m.max_extend - c \in Int
    BY <1>11 DEF Manager
  <2>2. QED
    BY <1>10, <2>1 DEF Manager
<1>2. /\ b \in Manager
      /\ b.block_table = m.block_table /\ b.is_fusion_state = m.is_fusion_state
      /\ b.free_extend = {}
      /\ b.max_extend = m.max_extend - c
      /\ b.max_gpu = m.max_gpu /\ b.max_reserved = m.max_reserved
      /\ b.max_fusion = m.max_fusion
  BY <1>10, <1>12 DEF Manager
<1>3. Loan(b) = Loan(m) \ m.free_extend
  BY <1>2 DEF Loan, ExtendCounted
<1>4. m.free_extend = Loan(m) \cap m.free_extend
  BY DEF Loan
<1>5. IsFiniteSet(Loan(m))
  <2>1. Loan(m) \subseteq Extend
    BY <1>1 DEF Loan
  <2>2. QED
    BY <2>1, BlockSets
<1>6. Cardinality(Loan(b)) = b.max_extend
  <2>1. Cardinality(Loan(b)) = Cardinality(Loan(m)) - Cardinality(Loan(m) \cap m.free_extend)
    BY <1>3, <1>5, FS_Difference
  <2>2. Cardinality(Loan(m) \cap m.free_extend) = c
    BY <1>4 DEF c
  <2>3. Cardinality(Loan(m)) = m.max_extend
    BY DEF ExtendCounted
  <2>4. QED
    BY <1>2, <2>1, <2>2, <2>3
<1>7. ExtendCounted(b)
  BY <1>2, <1>6 DEF ExtendCounted
<1>8. Counted(b)
  BY <1>2 DEF Counted
<1>9. QED
  BY <1>2, <1>7, <1>8 DEF b

LEMMA PackOneStep ==
  ASSUME NEW m \in Manager, NEW r \in Req, ExtendCounted(m), Counted(m),
         NEW b \in PackOne(m, r)
  PROVE  /\ b \in Manager
         /\ Keeps(m, b, r)
         /\ Extend \cap b.block_table[r] = {}
         /\ ExtendCounted(b) /\ Counted(b)
<1> DEFINE T   == m.block_table[r]
           ext == T \cap Extend
<1>1. T \subseteq Block /\ T \ ext \subseteq Pipeline /\ m.free_fusion \subseteq Pipeline
  BY DEF Manager, Block
<1>2. CASE ext = {}
  BY <1>2 DEF PackOne, Keeps
<1>3. CASE ext # {}
  <2>1. PICK S \in SUBSET m.free_fusion :
          b = [m EXCEPT !.block_table[r] = (@ \ ext) \cup S,
                        !.free_fusion = @ \ S,
                        !.free_extend = @ \cup ext]
    BY <1>3 DEF PackOne, kSubset
  <2>2. b \in Manager /\ Keeps(m, b, r)
    BY <1>1, <2>1 DEF Manager, Keeps, Block
  <2>3. b.block_table[r] = (T \ ext) \cup S /\ b.free_extend = m.free_extend \cup ext
    BY <2>1 DEF Manager
  <2>4. Extend \cap b.block_table[r] = {}
    BY <1>1, <2>3, Regions
  <2>5. b.free_extend \subseteq Extend
    BY <2>2 DEF Manager
  <2>6. ExtendCounted(b)
    BY <2>2, <2>3, <2>4, <2>5, LoanKept
  <2>7. Counted(b)
    BY <2>1 DEF Counted, Manager
  <2>8. QED
    BY <2>2, <2>4, <2>6, <2>7
<1>4. QED
  BY <1>2, <1>3

LEMMA RestoreKvStep ==
  ASSUME NEW m \in Manager, Counted(m), m.is_fusion_state, NEW b \in RestoreKv(m)
  PROVE  Reformatted(m, b) /\ ~ b.is_fusion_state /\ b.free_fusion = {} /\ Counted(b)
<1> DEFINE ff == m.free_fusion
           after(K, M) ==
             [m EXCEPT !.free_gpu = m.reserved \cup M,
                       !.reserved = ff \ Parts(M),
                       !.reserved_set = {},
                       !.free_fusion = {},
                       !.num_reserved_blocks = Quota,
                       !.max_gpu = m.max_reserved + Cardinality(M),
                       !.max_reserved = m.max_fusion - Cardinality(ff \ K)
                                          + Cardinality((ff \ K) \ Parts(M)),
                       !.max_fusion = 0,
                       !.is_fusion_state = FALSE]
           n == IF Quota <= Cardinality(ff) THEN Quota ELSE Cardinality(ff)
           Kept == {K \in kSubset(n, ff) : \A x \in K, y \in ff \ K : x[2] <= y[2]}
<1>1. b \in UNION {{after(K, M) : M \in SUBSET Complete(ff \ K)} : K \in Kept}
  BY DEF RestoreKv
<1> HIDE DEF after
<1>15. PICK K \in SUBSET ff : b \in {after(K, M) : M \in SUBSET Complete(ff \ K)}
  <2>1. Kept \subseteq SUBSET ff
    BY DEF kSubset
  <2>2. QED
    BY <1>1, <2>1
<1>2. PICK M \in SUBSET Complete(ff \ K) : b = after(K, M)
  BY <1>15
<1> HIDE DEF ff
<1> DEFINE c    == Cardinality(M)
           rest == ff \ K
<1>3. M \subseteq Local /\ M \subseteq Pipeline /\ c \in Nat
  BY BlockSets, Regions DEF Complete
<1>4. Parts(M) \subseteq rest
  BY DEF Parts, Complete
<1>5. Cardinality(Parts(M)) = c * F
  BY <1>3, PartsSize
<1>6. ff \subseteq Pipeline /\ IsFiniteSet(rest) /\ Cardinality(rest) \in Nat
  <2>1. ff \subseteq Pipeline
    BY DEF ff, Manager
  <2>2. QED
    BY <2>1, BlockSets
<1>7. Cardinality(rest \ Parts(M)) = Cardinality(rest) - c * F
  <2>1. rest \cap Parts(M) = Parts(M)
    BY <1>4
  <2>2. Cardinality(rest \ Parts(M)) = Cardinality(rest) - Cardinality(rest \cap Parts(M))
    BY <1>6, FS_Difference
  <2>3. QED
    BY <1>5, <2>1, <2>2
<1>8. /\ m.max_reserved \in Int /\ m.max_fusion \in Int
      /\ c * F \in Int /\ m.max_reserved * F \in Int
  BY <1>3, PoolAssumption DEF Manager
<1>9. m.max_fusion - Cardinality(rest) + Cardinality(rest \ Parts(M)) = m.max_fusion - c * F
  BY <1>6, <1>7, <1>8
<1>10. b = [m EXCEPT !.free_gpu = m.reserved \cup M, !.reserved = ff \ Parts(M),
                     !.reserved_set = {}, !.free_fusion = {},
                     !.num_reserved_blocks = Quota,
                     !.max_gpu = m.max_reserved + c,
                     !.max_reserved = m.max_fusion - c * F,
                     !.max_fusion = 0, !.is_fusion_state = FALSE]
  BY <1>2, <1>9 DEF after
<1> HIDE DEF c, rest
<1>11. b \in Manager
  <2>1. m.max_reserved + c \in Int /\ m.max_fusion - c * F \in Int
    BY <1>3, <1>8
  <2>2. Quota \in Nat /\ 0 \in Int /\ m.reserved \cup M \subseteq Pipeline
    BY <1>3, PoolAssumption DEF Manager
  <2>3. QED
    BY <1>3, <1>6, <1>10, <2>1, <2>2 DEF Manager
<1>12. /\ Reformatted(m, b) /\ ~ b.is_fusion_state /\ b.free_fusion = {}
       /\ b.max_gpu = m.max_reserved + c
       /\ b.max_reserved = m.max_fusion - c * F
  BY <1>10, <1>11 DEF Reformatted, Manager
<1>13. Counted(b)
  <2>1. (m.max_reserved + c) * F = m.max_reserved * F + c * F
    BY <1>3, <1>8, PoolAssumption
  <2>2. m.max_reserved * F + m.max_fusion = N * F
    BY DEF Counted
  <2>3. b.max_gpu * F + b.max_reserved = N * F
    BY <1>8, <1>12, <2>1, <2>2
  <2>4. QED
    BY <1>12, <2>3 DEF Counted
<1>14. QED
  BY <1>12, <1>13

\* The assertion of restore_from_fusion holds of every manager whose counters
\* add up, and the manager returns to its initial format.
LEMMA RestoreFromFusionStep ==
  ASSUME NEW m \in Manager, Counted(m), ~ m.is_fusion_state
  PROVE  /\ RestoreFromFusion(m) # {}
         /\ \A b \in RestoreFromFusion(m) :
              /\ Reformatted(m, b)
              /\ ~ b.is_fusion_state
              /\ b.free_fusion = m.free_fusion
              /\ b.max_gpu = N /\ b.max_reserved = 0
<1>1. m.max_gpu \in Int /\ m.max_reserved \in Int /\ N \in Int /\ F \in Nat \ {0}
  BY PoolAssumption DEF Manager
<1>2. m.max_reserved = (N - m.max_gpu) * F
  <2>1. (N - m.max_gpu) * F = N * F - m.max_gpu * F
    BY <1>1
  <2>2. m.max_gpu * F + m.max_reserved = N * F
    BY DEF Counted
  <2>3. N * F \in Int /\ m.max_gpu * F \in Int
    BY <1>1
  <2>4. QED
    BY <1>1, <2>1, <2>2, <2>3
<1>3. m.max_reserved \div F = N - m.max_gpu
  BY <1>1, <1>2
<1>4. m.max_gpu + m.max_reserved \div F = N
  BY <1>1, <1>3
<1>5. RestoreFromFusion(m) = {[m EXCEPT !.free_gpu = @ \cup (m.reserved \cap Local),
                                        !.reserved = {},
                                        !.max_gpu = N,
                                        !.max_reserved = 0]}
  BY <1>4 DEF RestoreFromFusion
<1>6. ASSUME NEW b \in RestoreFromFusion(m)
      PROVE  /\ Reformatted(m, b)
             /\ ~ b.is_fusion_state
             /\ b.free_fusion = m.free_fusion
             /\ b.max_gpu = N /\ b.max_reserved = 0
  <2>1. b = [m EXCEPT !.free_gpu = @ \cup (m.reserved \cap Local), !.reserved = {},
                      !.max_gpu = N, !.max_reserved = 0]
    BY <1>5, <1>6
  <2>2. b \in Manager
    <3>1. 0 \in Int /\ m.free_gpu \cup (m.reserved \cap Local) \subseteq Pipeline
      BY DEF Manager
    <3>2. QED
      BY <1>1, <2>1, <3>1 DEF Manager
  <2>3. QED
    BY <2>1, <2>2 DEF Reformatted, Manager
<1>7. QED
  BY <1>5, <1>6

\* A manager whose blocks are local is the same one elsewhere, but for its
\* quota.
LEMMA HandedStep ==
  ASSUME NEW m \in Manager, m.max_gpu = N
  PROVE  LET b == Handed(m)
         IN  /\ Reformatted(m, b)
             /\ b.is_fusion_state = m.is_fusion_state
             /\ b.free_fusion = m.free_fusion
             /\ b.max_gpu = N /\ b.max_reserved = m.max_reserved
<1> DEFINE b == Handed(m)
<1>1. b = [m EXCEPT !.max_gpu = N, !.num_reserved_blocks = 0]
  BY DEF Handed
<1> HIDE DEF b
<1>2. b \in Manager
  BY <1>1, PoolAssumption DEF Manager
<1>3. QED
  BY <1>1, <1>2 DEF Reformatted, Manager, b

-----------------------------------------------------------------------------
(* The partition of the memory of an instance.                             *)

Gpu     == <<"pool", "gpu">>
Reserve == <<"pool", "reserve">>
Fusion  == <<"pool", "fusion">>
Fresh   == <<"pool", "fresh">>
Of(r)   == <<"request", r>>

\* A block of the pipeline format shares the memory of a set of local blocks
\* when it is a part of one of them.
LEMMA PartsPoint ==
  ASSUME NEW S, S \subseteq Local, NEW x \in Pipeline
  PROVE  x \in Parts(S) <=> <<0, x[2]>> \in S
<1>1. PICK i \in Stage, k \in Base : x = <<i, k>>
  BY DEF Pipeline
<1>2. ASSUME x \in Parts(S) PROVE <<0, x[2]>> \in S
  <2>1. PICK j \in Stage, y \in S : x = <<j, y[2]>>
    BY <1>2 DEF Parts
  <2>2. y = <<0, y[2]>>
    BY DEF Local
  <2>3. QED
    BY <2>1, <2>2
<1>3. ASSUME <<0, x[2]>> \in S PROVE x \in Parts(S)
  <2>1. <<0, k>> \in S /\ <<0, k>>[2] = k
    BY <1>1, <1>3
  <2>2. QED
    BY <1>1, <2>1 DEF Parts
<1>4. QED
  BY <1>2, <1>3

\* Cutting local blocks into parts commutes with union, difference and
\* intersection.
LEMMA PartsAlgebra ==
  ASSUME NEW A, NEW S, A \subseteq Local, S \subseteq Local
  PROVE  /\ Parts(A) \subseteq Pipeline
         /\ Parts(A \cup S) = Parts(A) \cup Parts(S)
         /\ Parts(A \ S) = Parts(A) \ Parts(S)
         /\ Parts(A \cap S) = Parts(A) \cap Parts(S)
         /\ S \subseteq A => Parts(S) \subseteq Parts(A)
<1>1. /\ Parts(A) \subseteq Pipeline /\ Parts(S) \subseteq Pipeline
      /\ Parts(A \cup S) \subseteq Pipeline /\ Parts(A \ S) \subseteq Pipeline
      /\ Parts(A \cap S) \subseteq Pipeline
  BY Regions, PartsType
<1>2. \A x \in Pipeline :
        /\ x \in Parts(A) <=> <<0, x[2]>> \in A
        /\ x \in Parts(S) <=> <<0, x[2]>> \in S
        /\ x \in Parts(A \cup S) <=> <<0, x[2]>> \in A \cup S
        /\ x \in Parts(A \ S) <=> <<0, x[2]>> \in A \ S
        /\ x \in Parts(A \cap S) <=> <<0, x[2]>> \in A \cap S
  BY PartsPoint
<1>3. QED
  BY <1>1, <1>2, Zenon

LEMMA PartsOfNone == Parts({}) = {}
  BY DEF Parts

\* The holders are the four pools and the requests, all different.
LEMMA Holders ==
  /\ Gpu \in Holder /\ Reserve \in Holder /\ Fusion \in Holder /\ Fresh \in Holder
  /\ \A r \in Req : /\ Of(r) \in Holder
                    /\ Of(r) # Gpu /\ Of(r) # Reserve /\ Of(r) # Fusion /\ Of(r) # Fresh
  /\ \A r, s \in Req : r # s => Of(r) # Of(s)
  /\ \A h \in Holder : h \in {Gpu, Reserve, Fusion, Fresh} \/ \E r \in Req : h = Of(r)
  /\ Gpu # Reserve /\ Gpu # Fusion /\ Gpu # Fresh
  /\ Reserve # Fusion /\ Reserve # Fresh /\ Fusion # Fresh
  BY DEF Gpu, Reserve, Fusion, Fresh, Of, Holder

\* What each holder has.
HolderShares(own, m, L, fr) ==
  /\ own[Gpu] = Parts(m.free_gpu)
  /\ own[Reserve] = IF m.is_fusion_state THEN Parts(m.reserved) ELSE m.reserved
  /\ own[Fusion] = m.free_fusion
  /\ own[Fresh] = Parts(fr)
  /\ \A r \in Req : own[Of(r)] = IF r \in L THEN Parts(m.block_table[r])
                                 ELSE m.block_table[r] \ Extend

LEMMA ShareOf ==
  ASSUME NEW m, NEW L, NEW fr
  PROVE  HolderShares(Shares(m, L, fr), m, L, fr)
  BY Holders DEF Shares, HolderShares, Gpu, Reserve, Fusion, Fresh, Of

\* Two partitions are compared holder by holder.
LEMMA SameHolders ==
  ASSUME NEW own, NEW new,
         new[Gpu] = own[Gpu], new[Reserve] = own[Reserve],
         new[Fusion] = own[Fusion], new[Fresh] = own[Fresh],
         \A r \in Req : new[Of(r)] = own[Of(r)],
         Partition(own)
  PROVE  Partition(new)
<1>1. \A h \in Holder : new[h] = own[h]
  BY Holders, Zenon
<1>2. UNION {new[h] : h \in Holder} = UNION {own[h] : h \in Holder}
  BY <1>1
<1>3. QED
  BY <1>1, <1>2 DEF Partition

\* Memory that only changes hands among a few holders stays partitioned.
LEMMA Regroup ==
  ASSUME NEW own, NEW new, NEW A \in SUBSET Holder, Partition(own),
         \A h \in Holder \ A : new[h] = own[h],
         \A x : (\E h \in A : x \in new[h]) <=> (\E h \in A : x \in own[h]),
         \A h, k \in A : h # k => new[h] \cap new[k] = {}
  PROVE  Partition(new)
<1>1. UNION {own[h] : h \in Holder} = Pipeline
  BY DEF Partition
<1>2. ASSUME NEW x
      PROVE  (\E h \in Holder : x \in new[h]) <=> (\E h \in Holder : x \in own[h])
  <2>1. (\E h \in Holder : x \in new[h])
          <=> (\E h \in A : x \in new[h]) \/ (\E h \in Holder \ A : x \in new[h])
    BY Zenon
  <2>2. (\E h \in Holder : x \in own[h])
          <=> (\E h \in A : x \in own[h]) \/ (\E h \in Holder \ A : x \in own[h])
    BY Zenon
  <2>3. (\E h \in Holder \ A : x \in new[h]) <=> (\E h \in Holder \ A : x \in own[h])
    BY Zenon
  <2>4. (\E h \in A : x \in new[h]) <=> (\E h \in A : x \in own[h])
    OBVIOUS
  <2>5. QED
    BY <2>1, <2>2, <2>3, <2>4, Zenon
<1>3. UNION {new[h] : h \in Holder} = Pipeline
  <2>1. UNION {new[h] : h \in Holder} = UNION {own[h] : h \in Holder}
    BY <1>2
  <2>2. QED
    BY <1>1, <2>1
<1>4. ASSUME NEW h \in Holder, NEW k \in Holder, h # k, NEW x, x \in new[h], x \in new[k]
      PROVE  FALSE
  <2>1. \A g, f \in Holder : g # f => own[g] \cap own[f] = {}
    BY DEF Partition
  <2>2. CASE h \in A /\ k \in A
    BY <1>4, <2>2
  <2>3. CASE h \notin A /\ k \notin A
    BY <1>4, <2>1, <2>3
  <2>4. CASE h \in A /\ k \notin A
    <3>1. x \in own[k]
      BY <1>4, <2>4
    <3>2. PICK g \in A : x \in own[g]
      BY <1>4, <2>4
    <3>3. QED
      BY <2>1, <2>4, <3>1, <3>2
  <2>5. CASE h \notin A /\ k \in A
    <3>1. x \in own[h]
      BY <1>4, <2>5
    <3>2. PICK g \in A : x \in own[g]
      BY <1>4, <2>5
    <3>3. QED
      BY <2>1, <2>5, <3>1, <3>2
  <2>6. QED
    BY <2>2, <2>3, <2>4, <2>5
<1>5. QED
  BY <1>3, <1>4 DEF Partition

\* In particular when p gives S to q.
LEMMA Moved ==
  ASSUME NEW own, NEW new, NEW p \in Holder, NEW q \in Holder, p # q, NEW S,
         Partition(own), S \subseteq own[p],
         new[p] = own[p] \ S, new[q] = own[q] \cup S,
         \A h \in Holder \ {p, q} : new[h] = own[h]
  PROVE  Partition(new)
<1>1. own[p] \cap own[q] = {}
  BY DEF Partition
<1>2. \A x : (\E h \in {p, q} : x \in new[h]) <=> (\E h \in {p, q} : x \in own[h])
  OBVIOUS
<1>3. \A h, k \in {p, q} : h # k => new[h] \cap new[k] = {}
  BY <1>1
<1> DEFINE A == {p, q}
<1>4. A \in SUBSET Holder /\ \A h \in Holder \ A : new[h] = own[h]
  OBVIOUS
<1>5. /\ \A x : (\E h \in A : x \in new[h]) <=> (\E h \in A : x \in own[h])
      /\ \A h, k \in A : h # k => new[h] \cap new[k] = {}
  BY <1>2, <1>3
<1> HIDE DEF A
<1>6. QED
  BY <1>4, <1>5, Regroup


\* In which format every holder has its blocks, and that they are a partition.
Format(m, L, fr) ==
  /\ m.free_gpu \subseteq Local /\ fr \subseteq Local
  /\ m.is_fusion_state => m.reserved \subseteq Local /\ m.free_gpu = {}
  /\ \A r \in Req : r \in L => m.block_table[r] \subseteq Local

Parted(m, L, fr) == Format(m, L, fr) /\ Partition(Shares(m, L, fr))

\* A request without blocks has no format.
LEMMA Relabelled ==
  ASSUME NEW m, NEW L, NEW K, NEW fr, Parted(m, L, fr),
         \A r \in Req : m.block_table[r] # {} => (r \in L <=> r \in K)
  PROVE  Parted(m, K, fr)
<1> DEFINE own == Shares(m, L, fr)
           new == Shares(m, K, fr)
<1>o. HolderShares(own, m, L, fr)
  BY ShareOf
<1>n. HolderShares(new, m, K, fr)
  BY ShareOf
<1>p. Parted(m, L, fr) => Partition(own)
  BY DEF Parted
<1>q. Format(m, K, fr) /\ Partition(new) => Parted(m, K, fr)
  BY DEF Parted
<1> HIDE DEF own, new
<1>1. \A r \in Req : new[Of(r)] = own[Of(r)]
  <2> TAKE r \in Req
  <2>1. CASE m.block_table[r] = {}
    BY <2>1, <1>o, <1>n, PartsOfNone DEF HolderShares
  <2>2. CASE m.block_table[r] # {}
    BY <2>2, <1>o, <1>n DEF HolderShares
  <2>3. QED
    BY <2>1, <2>2
<1>2. /\ new[Gpu] = own[Gpu] /\ new[Reserve] = own[Reserve]
      /\ new[Fusion] = own[Fusion] /\ new[Fresh] = own[Fresh]
  BY <1>o, <1>n DEF HolderShares
<1>3. Partition(own)
  BY <1>p
<1>4. Partition(new)
  BY <1>1, <1>2, <1>3, SameHolders
<1>5. Format(m, K, fr)
  BY DEF Parted, Format
<1>6. QED
  BY <1>4, <1>5, <1>q

\* The two directions of an exchange between a request and one pool.
LEMMA FromPool ==
  ASSUME NEW own, NEW new, NEW r \in Req, NEW p \in {Gpu, Reserve, Fusion, Fresh},
         NEW S, Partition(own), S \subseteq own[p],
         new[p] = own[p] \ S, new[Of(r)] = own[Of(r)] \cup S,
         \A q \in {Gpu, Reserve, Fusion, Fresh} \ {p} : new[q] = own[q],
         \A s \in Req \ {r} : new[Of(s)] = own[Of(s)]
  PROVE  Partition(new)
<1>1. p \in Holder /\ Of(r) \in Holder /\ p # Of(r)
  BY Holders
<1>2. \A h \in Holder \ {p, Of(r)} : new[h] = own[h]
  BY Holders
<1>3. QED
  BY <1>1, <1>2, Moved

LEMMA ToPool ==
  ASSUME NEW own, NEW new, NEW r \in Req, NEW p \in {Gpu, Reserve, Fusion, Fresh},
         NEW S, Partition(own), S \subseteq own[Of(r)],
         new[Of(r)] = own[Of(r)] \ S, new[p] = own[p] \cup S,
         \A q \in {Gpu, Reserve, Fusion, Fresh} \ {p} : new[q] = own[q],
         \A s \in Req \ {r} : new[Of(s)] = own[Of(s)]
  PROVE  Partition(new)
<1>1. p \in Holder /\ Of(r) \in Holder /\ p # Of(r)
  BY Holders
<1>2. \A h \in Holder \ {p, Of(r)} : new[h] = own[h]
  BY Holders
<1>3. QED
  BY <1>1, <1>2, Moved

LEMMA BetweenPools ==
  ASSUME NEW own, NEW new, NEW p \in {Gpu, Reserve, Fusion, Fresh},
         NEW q \in {Gpu, Reserve, Fusion, Fresh}, p # q,
         NEW S, Partition(own), S \subseteq own[p],
         new[p] = own[p] \ S, new[q] = own[q] \cup S,
         \A h \in {Gpu, Reserve, Fusion, Fresh} \ {p, q} : new[h] = own[h],
         \A s \in Req : new[Of(s)] = own[Of(s)]
  PROVE  Partition(new)
<1>1. p \in Holder /\ q \in Holder
  BY Holders
<1>2. \A h \in Holder \ {p, q} : new[h] = own[h]
  BY Holders
<1>3. QED
  BY <1>1, <1>2, Moved

\* Allocation from the free list of the pipeline format.
LEMMA AllocateFusionParted ==
  ASSUME NEW m \in Manager, NEW L, NEW fr, Parted(m, L, fr),
         NEW r \in Req, r \notin L, NEW n \in Nat, NEW b \in AllocateFusion(m, r, n)
  PROVE  Parted(b, L, fr)
<1> DEFINE k     == Lacks(m, r, n)
           spill == k - Cardinality(m.free_fusion)
           own   == Shares(m, L, fr)
           new   == Shares(b, L, fr)
<1>o. HolderShares(own, m, L, fr)
  BY ShareOf
<1>n. HolderShares(new, b, L, fr)
  BY ShareOf
<1>p. Parted(m, L, fr) => Partition(own)
  BY DEF Parted
<1>q. Format(b, L, fr) /\ Partition(new) => Parted(b, L, fr)
  BY DEF Parted
<1> HIDE DEF own, new
<1>1. m.free_fusion \subseteq Pipeline /\ m.free_extend \subseteq Extend
  BY DEF Manager
<1>2. CASE k <= 0
  BY <1>2 DEF AllocateFusion
<1>3. CASE ~ (k <= 0)
  <2>1. PICK S \in SUBSET m.free_fusion, X \in SUBSET Extend :
          /\ b.free_fusion = m.free_fusion \ S
          /\ b.block_table[r] = m.block_table[r] \cup S \cup X
          /\ \A s \in Req \ {r} : b.block_table[s] = m.block_table[s]
          /\ b.free_gpu = m.free_gpu /\ b.reserved = m.reserved
          /\ b.is_fusion_state = m.is_fusion_state
    <3>1. CASE spill <= 0
      <4>1. PICK S \in SUBSET m.free_fusion :
              b = [m EXCEPT !.free_fusion = @ \ S, !.block_table[r] = @ \cup S]
        BY <1>3, <3>1 DEF AllocateFusion, kSubset
      <4>2. {} \in SUBSET Extend /\ m.block_table[r] \cup S = m.block_table[r] \cup S \cup {}
        OBVIOUS
      <4>3. QED
        BY <4>1, <4>2 DEF Manager
    <3>2. CASE ~ (spill <= 0)
      <4>1. PICK X \in SUBSET m.free_extend :
              b = [m EXCEPT !.free_fusion = {}, !.free_extend = @ \ X,
                            !.block_table[r] = @ \cup m.free_fusion \cup X]
        BY <1>3, <3>2 DEF AllocateFusion, kSubset
      <4>2. m.free_fusion \ m.free_fusion = {} /\ X \in SUBSET Extend
        BY <1>1
      <4>3. QED
        BY <4>1, <4>2 DEF Manager
    <3>3. QED
      BY <3>1, <3>2
  <2>2. S \cap Extend = {}
    BY <1>1, Regions
  <2>3. /\ new[Fusion] = own[Fusion] \ S
        /\ new[Of(r)] = own[Of(r)] \cup S
        /\ S \subseteq own[Fusion]
        /\ new[Gpu] = own[Gpu] /\ new[Reserve] = own[Reserve] /\ new[Fresh] = own[Fresh]
        /\ \A s \in Req \ {r} : new[Of(s)] = own[Of(s)]
    <3>1. (m.block_table[r] \cup S \cup X) \ Extend = (m.block_table[r] \ Extend) \cup S
      BY <2>2
    <3>2. ASSUME NEW s \in Req \ {r} PROVE new[Of(s)] = own[Of(s)]
      <4>1. b.block_table[s] = m.block_table[s]
        BY <2>1
      <4>2. QED
        BY <4>1, <1>o, <1>n DEF HolderShares
    <3>3. new[Of(r)] = own[Of(r)] \cup S
      BY <2>1, <3>1, <1>o, <1>n DEF HolderShares
    <3>4. /\ new[Fusion] = own[Fusion] \ S /\ S \subseteq own[Fusion]
          /\ new[Gpu] = own[Gpu] /\ new[Fresh] = own[Fresh]
      BY <2>1, <1>o, <1>n DEF HolderShares
    <3>5. new[Reserve] = own[Reserve]
      BY <2>1, <1>o, <1>n DEF HolderShares
    <3>6. QED
      BY <3>2, <3>3, <3>4, <3>5
  <2>4. Partition(own)
    BY <1>p
  <2>5. Partition(new)
    BY <2>3, <2>4, FromPool
  <2>6. Format(b, L, fr)
    BY <2>1 DEF Parted, Format
  <2>7. QED
    BY <2>5, <2>6, <1>q
<1>4. QED
  BY <1>2, <1>3

\* Allocation from the reserve, which in fusion state holds local blocks.
LEMMA AllocateReservedParted ==
  ASSUME NEW m \in Manager, NEW L, NEW fr, Parted(m, L, fr),
         NEW r \in Req, r \in L <=> m.is_fusion_state,
         NEW n \in Nat, NEW b \in AllocateReserved(m, r, n)
  PROVE  Parted(b, L, fr)
<1> DEFINE own == Shares(m, L, fr)
           new == Shares(b, L, fr)
<1>o. HolderShares(own, m, L, fr)
  BY ShareOf
<1>n. HolderShares(new, b, L, fr)
  BY ShareOf
<1>p. Parted(m, L, fr) => Partition(own)
  BY DEF Parted
<1>q. Format(b, L, fr) /\ Partition(new) => Parted(b, L, fr)
  BY DEF Parted
<1> HIDE DEF own, new
<1>1. m.reserved \subseteq Pipeline /\ Format(m, L, fr) /\ Partition(own)
  BY <1>p DEF Manager, Parted
<1>2. CASE Lacks(m, r, n) <= 0
  BY <1>2 DEF AllocateReserved
<1>3. CASE ~ (Lacks(m, r, n) <= 0)
  <2>1. PICK S \in SUBSET m.reserved :
          b = [m EXCEPT !.reserved = @ \ S, !.block_table[r] = @ \cup S]
    BY <1>3 DEF AllocateReserved, kSubset
  <2>2. /\ b.reserved = m.reserved \ S
        /\ b.block_table[r] = m.block_table[r] \cup S
        /\ \A s \in Req \ {r} : b.block_table[s] = m.block_table[s]
        /\ b.free_gpu = m.free_gpu /\ b.free_fusion = m.free_fusion
        /\ b.is_fusion_state = m.is_fusion_state
    BY <2>1 DEF Manager
  <2>3. PICK P : /\ P \subseteq own[Reserve]
                 /\ new[Reserve] = own[Reserve] \ P
                 /\ new[Of(r)] = own[Of(r)] \cup P
    <3>1. CASE m.is_fusion_state
      <4>1. m.reserved \subseteq Local /\ m.block_table[r] \subseteq Local /\ S \subseteq Local
        BY <1>1, <3>1 DEF Format
      <4>2. /\ Parts(m.reserved \ S) = Parts(m.reserved) \ Parts(S)
            /\ Parts(m.block_table[r] \cup S) = Parts(m.block_table[r]) \cup Parts(S)
            /\ Parts(S) \subseteq Parts(m.reserved)
        BY <4>1, PartsAlgebra
      <4>3. /\ Parts(S) \subseteq own[Reserve]
            /\ new[Reserve] = own[Reserve] \ Parts(S)
            /\ new[Of(r)] = own[Of(r)] \cup Parts(S)
        BY <2>2, <3>1, <4>2, <1>o, <1>n DEF HolderShares
      <4>4. QED
        BY <4>3
    <3>2. CASE ~ m.is_fusion_state
      <4>1. S \cap Extend = {}
        BY <1>1, Regions
      <4>2. (m.block_table[r] \cup S) \ Extend = (m.block_table[r] \ Extend) \cup S
        BY <4>1
      <4>3. /\ S \subseteq own[Reserve]
            /\ new[Reserve] = own[Reserve] \ S
            /\ new[Of(r)] = own[Of(r)] \cup S
        BY <2>2, <3>2, <4>2, <1>o, <1>n DEF HolderShares
      <4>4. QED
        BY <4>3
    <3>3. QED
      BY <3>1, <3>2
  <2>4. /\ new[Gpu] = own[Gpu] /\ new[Fusion] = own[Fusion] /\ new[Fresh] = own[Fresh]
        /\ \A s \in Req \ {r} : new[Of(s)] = own[Of(s)]
    <3>1. ASSUME NEW s \in Req \ {r} PROVE new[Of(s)] = own[Of(s)]
      <4>1. b.block_table[s] = m.block_table[s]
        BY <2>2
      <4>2. /\ own[Of(s)] = IF s \in L THEN Parts(m.block_table[s]) ELSE m.block_table[s] \ Extend
            /\ new[Of(s)] = IF s \in L THEN Parts(b.block_table[s]) ELSE b.block_table[s] \ Extend
        BY <1>o, <1>n DEF HolderShares
      <4> QED
        BY <4>1, <4>2
    <3>2. new[Gpu] = own[Gpu] /\ new[Fusion] = own[Fusion] /\ new[Fresh] = own[Fresh]
      BY <2>2, <1>o, <1>n DEF HolderShares
    <3>3. QED
      BY <3>1, <3>2
  <2>5. Partition(new)
    BY <1>1, <2>3, <2>4, FromPool
  <2>6. Format(b, L, fr)
    BY <1>1, <2>2 DEF Format
  <2>7. QED
    BY <2>5, <2>6, <1>q
<1>4. QED
  BY <1>2, <1>3

LEMMA AllocateGpuParted ==
  ASSUME NEW m \in Manager, NEW L, NEW fr, Parted(m, L, fr), ~ m.is_fusion_state,
         NEW r \in Req, r \in L, NEW n \in Nat, NEW b \in AllocateGpu(m, r, n)
  PROVE  Parted(b, L, fr)
<1> DEFINE own == Shares(m, L, fr)
           new == Shares(b, L, fr)
<1>o. HolderShares(own, m, L, fr)
  BY ShareOf
<1>n. HolderShares(new, b, L, fr)
  BY ShareOf
<1>p. Parted(m, L, fr) => Partition(own)
  BY DEF Parted
<1>q. Format(b, L, fr) /\ Partition(new) => Parted(b, L, fr)
  BY DEF Parted
<1> HIDE DEF own, new
<1>1. Format(m, L, fr) /\ Partition(own)
  BY <1>p DEF Parted
<1>2. CASE Lacks(m, r, n) <= 0
  BY <1>2 DEF AllocateGpu
<1>3. CASE ~ (Lacks(m, r, n) <= 0)
  <2>1. PICK S \in SUBSET m.free_gpu :
          b = [m EXCEPT !.free_gpu = @ \ S, !.block_table[r] = @ \cup S]
    BY <1>3 DEF AllocateGpu, kSubset
  <2>2. /\ b.free_gpu = m.free_gpu \ S
        /\ b.block_table[r] = m.block_table[r] \cup S
        /\ \A s \in Req \ {r} : b.block_table[s] = m.block_table[s]
        /\ b.reserved = m.reserved /\ b.free_fusion = m.free_fusion
        /\ b.is_fusion_state = m.is_fusion_state
    BY <2>1 DEF Manager
  <2>3. m.free_gpu \subseteq Local /\ m.block_table[r] \subseteq Local /\ S \subseteq Local
    BY <1>1 DEF Format
  <2>4. /\ Parts(m.free_gpu \ S) = Parts(m.free_gpu) \ Parts(S)
        /\ Parts(m.block_table[r] \cup S) = Parts(m.block_table[r]) \cup Parts(S)
        /\ Parts(S) \subseteq Parts(m.free_gpu)
    BY <2>3, PartsAlgebra
  <2>5. /\ Parts(S) \subseteq own[Gpu]
        /\ new[Gpu] = own[Gpu] \ Parts(S)
        /\ new[Of(r)] = own[Of(r)] \cup Parts(S)
        /\ new[Reserve] = own[Reserve] /\ new[Fusion] = own[Fusion]
        /\ new[Fresh] = own[Fresh]
        /\ \A s \in Req \ {r} : new[Of(s)] = own[Of(s)]
    BY <2>2, <2>4, <1>o, <1>n DEF HolderShares
  <2>6. Partition(new)
    BY <1>1, <2>5, FromPool
  <2>7. Format(b, L, fr)
    BY <1>1, <2>2, <2>3 DEF Format
  <2>8. QED
    BY <2>6, <2>7, <1>q
<1>4. QED
  BY <1>2, <1>3

\* A request gets blocks of the format it has, whatever pool they are from.
LEMMA AllocateParted ==
  ASSUME NEW m \in Manager, NEW L, NEW fr, Parted(m, L, fr),
         NEW r \in Req, NEW n \in Nat, NEW p \in BOOLEAN, p <=> r \notin L,
         NEW b \in Allocate(m, r, n, p)
  PROVE  Parted(b, L, fr)
  BY AllocateFusionParted, AllocateReservedParted, AllocateGpuParted DEF Allocate

-----------------------------------------------------------------------------
(* Release.                                                                *)

\* The holders of A share out anew what they have.
Shuffled(own, new, A) ==
  /\ \A h \in Holder \ A : new[h] = own[h]
  /\ \A x : (\E h \in A : x \in new[h]) <=> (\E h \in A : x \in own[h])
  /\ \A h, k \in A : h # k => new[h] \cap new[k] = {}

LEMMA RegroupShuffled ==
  ASSUME NEW own, NEW new, NEW A \in SUBSET Holder, Partition(own), Shuffled(own, new, A)
  PROVE  Partition(new)
<1>1. /\ \A h \in Holder \ A : new[h] = own[h]
      /\ \A x : (\E h \in A : x \in new[h]) <=> (\E h \in A : x \in own[h])
      /\ \A h, k \in A : h # k => new[h] \cap new[k] = {}
  BY DEF Shuffled
<1> QED
  BY <1>1, Regroup

\* Memory that changes hands among three holders.
LEMMA Regroup3 ==
  ASSUME NEW own, NEW new, NEW o \in Holder, NEW p \in Holder, NEW q \in Holder,
         Partition(own),
         new[o] \cup new[p] \cup new[q] = own[o] \cup own[p] \cup own[q],
         new[o] \cap new[p] = {}, new[o] \cap new[q] = {}, new[p] \cap new[q] = {},
         \A h \in Holder \ {o, p, q} : new[h] = own[h]
  PROVE  Partition(new)
<1> DEFINE A == {o, p, q}
<1>1. A \in SUBSET Holder /\ \A h \in Holder \ A : new[h] = own[h]
  OBVIOUS
<1>2. \A x : (\E h \in A : x \in new[h]) <=> (\E h \in A : x \in own[h])
  <2>1. \A x : x \in new[o] \cup new[p] \cup new[q] <=> \E h \in A : x \in new[h]
    OBVIOUS
  <2>2. \A x : x \in own[o] \cup own[p] \cup own[q] <=> \E h \in A : x \in own[h]
    OBVIOUS
  <2>3. QED
    BY <2>1, <2>2
<1>3. \A h, k \in A : h # k => new[h] \cap new[k] = {}
  OBVIOUS
<1> HIDE DEF A
<1>4. Shuffled(own, new, A)
  BY <1>1, <1>2, <1>3 DEF Shuffled
<1>5. QED
  BY <1>1, <1>4, RegroupShuffled

\* In particular when a request and two pools share theirs out anew.
LEMMA RegroupRequest ==
  ASSUME NEW own, NEW new, NEW r \in Req, NEW p \in {Gpu, Reserve, Fusion, Fresh},
         NEW q \in {Gpu, Reserve, Fusion, Fresh}, p # q, Partition(own),
         new[Of(r)] \cup new[p] \cup new[q] = own[Of(r)] \cup own[p] \cup own[q],
         new[Of(r)] \cap new[p] = {}, new[Of(r)] \cap new[q] = {},
         new[p] \cap new[q] = {},
         \A h \in {Gpu, Reserve, Fusion, Fresh} \ {p, q} : new[h] = own[h],
         \A s \in Req \ {r} : new[Of(s)] = own[Of(s)]
  PROVE  Partition(new)
<1>1. p \in Holder /\ q \in Holder /\ Of(r) \in Holder
  BY Holders
<1>2. \A h \in Holder \ {Of(r), p, q} : new[h] = own[h]
  BY Holders
<1>3. QED
  BY <1>1, <1>2, Regroup3

\* Two holders of a partition have nothing in common.
LEMMA Apart ==
  ASSUME NEW own, Partition(own)
  PROVE  /\ own[Gpu] \cap own[Reserve] = {} /\ own[Gpu] \cap own[Fusion] = {}
         /\ own[Reserve] \cap own[Fusion] = {}
         /\ \A r \in Req : /\ own[Gpu] \cap own[Of(r)] = {}
                           /\ own[Reserve] \cap own[Of(r)] = {}
                           /\ own[Fusion] \cap own[Of(r)] = {}
  BY Holders DEF Partition

LEMMA FreePipelinedParted ==
  ASSUME NEW m \in Manager, NEW L, NEW fr, Parted(m, L, fr),
         NEW r \in Req, r \notin L, NEW b \in FreePipelined(m, r)
  PROVE  Parted(b, L, fr)
<1> DEFINE own == Shares(m, L, fr)
           new == Shares(b, L, fr)
           T   == m.block_table[r]
<1>o. HolderShares(own, m, L, fr)
  BY ShareOf
<1>n. HolderShares(new, b, L, fr)
  BY ShareOf
<1>1. Format(m, L, fr) /\ Partition(own)
  BY DEF Parted
<1>2. /\ b.block_table[r] = {} /\ b.free_fusion = m.free_fusion \cup (T \ Extend)
      /\ \A s \in Req \ {r} : b.block_table[s] = m.block_table[s]
      /\ b.free_gpu = m.free_gpu /\ b.reserved = m.reserved
      /\ b.is_fusion_state = m.is_fusion_state
  <2>1. b = [m EXCEPT !.block_table[r] = {},
                      !.free_fusion = @ \cup (T \ Extend),
                      !.free_extend = @ \cup (T \cap Extend)]
    BY DEF FreePipelined
  <2>2. /\ b.block_table = [m.block_table EXCEPT ![r] = {}]
        /\ m.block_table \in [Req -> SUBSET Block]
    BY <2>1 DEF Manager
  <2>3. /\ b.free_fusion = m.free_fusion \cup (T \ Extend)
        /\ b.free_gpu = m.free_gpu /\ b.reserved = m.reserved
        /\ b.is_fusion_state = m.is_fusion_state
    BY <2>1 DEF Manager
  <2> QED
    BY <2>2, <2>3
<1>3. Format(b, L, fr)
  BY <1>1, <1>2 DEF Format
<1>q. Partition(new) => Parted(b, L, fr)
  BY <1>3 DEF Parted
<1> HIDE DEF own, new
<1>4. own[Of(r)] = T \ Extend /\ new[Of(r)] = {}
  BY <1>2, <1>o, <1>n DEF HolderShares
<1>5. new[Fusion] = own[Fusion] \cup (T \ Extend)
  BY <1>2, <1>o, <1>n DEF HolderShares
<1>6. ASSUME NEW s \in Req \ {r} PROVE new[Of(s)] = own[Of(s)]
  <2>1. b.block_table[s] = m.block_table[s]
    BY <1>2
  <2>2. /\ own[Of(s)] = IF s \in L THEN Parts(m.block_table[s]) ELSE m.block_table[s] \ Extend
        /\ new[Of(s)] = IF s \in L THEN Parts(b.block_table[s]) ELSE b.block_table[s] \ Extend
    BY <1>o, <1>n DEF HolderShares
  <2> QED
    BY <2>1, <2>2
<1>7. new[Gpu] = own[Gpu] /\ new[Reserve] = own[Reserve] /\ new[Fresh] = own[Fresh]
  BY <1>2, <1>o, <1>n DEF HolderShares
<1>8. Partition(new)
  BY <1>1, <1>4, <1>5, <1>6, <1>7, ToPool
<1>9. QED
  BY <1>8, <1>q

LEMMA FreeGpuParted ==
  ASSUME NEW m \in Manager, NEW L, NEW fr, Parted(m, L, fr), ~ m.is_fusion_state,
         NEW r \in Req, r \in L, NEW b \in FreeGpu(m, r)
  PROVE  Parted(b, L, fr)
<1> DEFINE own == Shares(m, L, fr)
           new == Shares(b, L, fr)
           T   == m.block_table[r]
<1>o. HolderShares(own, m, L, fr)
  BY ShareOf
<1>n. HolderShares(new, b, L, fr)
  BY ShareOf
<1>1. Format(m, L, fr) /\ Partition(own)
  BY DEF Parted
<1>2. /\ b.block_table[r] = {} /\ b.free_gpu = m.free_gpu \cup T
      /\ \A s \in Req \ {r} : b.block_table[s] = m.block_table[s]
      /\ b.free_fusion = m.free_fusion /\ b.reserved = m.reserved
      /\ b.is_fusion_state = m.is_fusion_state
  BY DEF FreeGpu, Manager
<1>3. T \subseteq Local /\ m.free_gpu \subseteq Local
  BY <1>1 DEF Format
<1>4. Format(b, L, fr)
  BY <1>1, <1>2, <1>3 DEF Format
<1>q. Partition(new) => Parted(b, L, fr)
  BY <1>4 DEF Parted
<1> HIDE DEF own, new
<1>5. own[Of(r)] = Parts(T) /\ new[Of(r)] = {}
  BY <1>2, <1>o, <1>n, PartsOfNone DEF HolderShares
<1>6. new[Gpu] = own[Gpu] \cup Parts(T)
  <2>1. Parts(m.free_gpu \cup T) = Parts(m.free_gpu) \cup Parts(T)
    BY <1>3, PartsAlgebra
  <2>2. QED
    BY <1>2, <2>1, <1>o, <1>n DEF HolderShares
<1>7. ASSUME NEW s \in Req \ {r} PROVE new[Of(s)] = own[Of(s)]
  <2>1. b.block_table[s] = m.block_table[s]
    BY <1>2
  <2>2. /\ own[Of(s)] = IF s \in L THEN Parts(m.block_table[s]) ELSE m.block_table[s] \ Extend
        /\ new[Of(s)] = IF s \in L THEN Parts(b.block_table[s]) ELSE b.block_table[s] \ Extend
    BY <1>o, <1>n DEF HolderShares
  <2> QED
    BY <2>1, <2>2
<1>8. new[Fusion] = own[Fusion] /\ new[Reserve] = own[Reserve] /\ new[Fresh] = own[Fresh]
  BY <1>2, <1>o, <1>n DEF HolderShares
<1>9. Partition(new)
  BY <1>1, <1>5, <1>6, <1>7, <1>8, ToPool
<1>10. QED
  BY <1>9, <1>q

\* What the reserve does not keep of a stale request is cut into parts.
LEMMA FreeReservedParted ==
  ASSUME NEW m \in Manager, NEW L, NEW fr, Parted(m, L, fr), m.is_fusion_state,
         NEW r \in Req, r \in L, NEW b \in FreeReserved(m, r)
  PROVE  Parted(b, L, fr)
<1> DEFINE own == Shares(m, L, fr)
           new == Shares(b, L, fr)
           T   == m.block_table[r]
<1>o. HolderShares(own, m, L, fr)
  BY ShareOf
<1>n. HolderShares(new, b, L, fr)
  BY ShareOf
<1>1. Format(m, L, fr) /\ Partition(own)
  BY DEF Parted
<1>2. PICK cut \in SUBSET T :
        /\ b.block_table[r] = {} /\ b.reserved = m.reserved \cup (T \ cut)
        /\ b.free_fusion = m.free_fusion \cup Parts(cut)
        /\ \A s \in Req \ {r} : b.block_table[s] = m.block_table[s]
        /\ b.free_gpu = m.free_gpu /\ b.is_fusion_state = m.is_fusion_state
  <2>1. PICK kept \in SUBSET (T \ m.reserved_set) :
          b = [m EXCEPT !.block_table[r] = {},
                        !.reserved = @ \cup (T \ ((T \ m.reserved_set) \ kept)),
                        !.reserved_set = @ \cup kept,
                        !.free_fusion = @ \cup Parts((T \ m.reserved_set) \ kept),
                        !.max_reserved = @ - Cardinality((T \ m.reserved_set) \ kept),
                        !.max_fusion = @ + Cardinality((T \ m.reserved_set) \ kept) * F]
    BY DEF FreeReserved, kSubset
  <2> DEFINE cut == (T \ m.reserved_set) \ kept
  <2>2. cut \in SUBSET T
    OBVIOUS
  <2>3. b = [m EXCEPT !.block_table[r] = {},
                      !.reserved = @ \cup (T \ cut),
                      !.reserved_set = @ \cup kept,
                      !.free_fusion = @ \cup Parts(cut),
                      !.max_reserved = @ - Cardinality(cut),
                      !.max_fusion = @ + Cardinality(cut) * F]
    BY <2>1
  <2> HIDE DEF cut
  <2>4. QED
    BY <2>2, <2>3 DEF Manager
<1>3. /\ T \subseteq Local /\ m.reserved \subseteq Local
      /\ cut \subseteq Local /\ T \ cut \subseteq Local
  BY <1>1, <1>2 DEF Format
<1>4. Format(b, L, fr)
  BY <1>1, <1>2, <1>3 DEF Format
<1>q. Partition(new) => Parted(b, L, fr)
  BY <1>4 DEF Parted
<1> HIDE DEF own, new
<1>5. own[Of(r)] = Parts(T) /\ new[Of(r)] = {}
  BY <1>2, <1>o, <1>n, PartsOfNone DEF HolderShares
<1>6. /\ Parts(T \ cut) = Parts(T) \ Parts(cut) /\ Parts(cut) \subseteq Parts(T)
      /\ Parts(m.reserved \cup (T \ cut)) = Parts(m.reserved) \cup Parts(T \ cut)
  <2>1. Parts(T \ cut) = Parts(T) \ Parts(cut) /\ Parts(cut) \subseteq Parts(T)
    BY <1>2, <1>3, PartsAlgebra
  <2>2. Parts(m.reserved \cup (T \ cut)) = Parts(m.reserved) \cup Parts(T \ cut)
    BY <1>3, PartsAlgebra
  <2>3. QED
    BY <2>1, <2>2
<1>7. own[Reserve] = Parts(m.reserved) /\ new[Reserve] = Parts(m.reserved \cup (T \ cut))
  BY <1>2, <1>o, <1>n DEF HolderShares
<1>8. new[Fusion] = own[Fusion] \cup Parts(cut)
  <2>1. new[Fusion] = b.free_fusion /\ own[Fusion] = m.free_fusion
    BY <1>o, <1>n DEF HolderShares
  <2>2. QED
    BY <1>2, <2>1
<1>9. ASSUME NEW s \in Req \ {r} PROVE new[Of(s)] = own[Of(s)]
  <2>1. b.block_table[s] = m.block_table[s]
    BY <1>2
  <2>2. QED
    BY <2>1, <1>o, <1>n DEF HolderShares
<1>10. new[Gpu] = own[Gpu] /\ new[Fresh] = own[Fresh]
  BY <1>2, <1>o, <1>n DEF HolderShares
<1>11. /\ own[Reserve] \cap own[Of(r)] = {} /\ own[Fusion] \cap own[Of(r)] = {}
       /\ own[Reserve] \cap own[Fusion] = {}
  BY <1>1, Apart
<1>12. /\ new[Of(r)] \cup new[Reserve] \cup new[Fusion]
            = own[Of(r)] \cup own[Reserve] \cup own[Fusion]
       /\ new[Of(r)] \cap new[Reserve] = {} /\ new[Of(r)] \cap new[Fusion] = {}
       /\ new[Reserve] \cap new[Fusion] = {}
  <2> DEFINE P == Parts(T)
             C == Parts(cut)
             X == own[Reserve]
             Y == own[Fusion]
  <2>1. /\ C \subseteq P /\ X \cap P = {} /\ Y \cap P = {} /\ X \cap Y = {}
        /\ own[Of(r)] = P /\ new[Of(r)] = {}
        /\ new[Reserve] = X \cup (P \ C) /\ new[Fusion] = Y \cup C
    BY <1>5, <1>6, <1>7, <1>8, <1>11
  <2> HIDE DEF P, C, X, Y
  <2>2. /\ {} \cup (X \cup (P \ C)) \cup (Y \cup C) = P \cup X \cup Y
        /\ (X \cup (P \ C)) \cap (Y \cup C) = {}
    BY <2>1
  <2>3. QED
    BY <2>1, <2>2 DEF X, Y
<1>13. Partition(new)
  <2>1. Reserve # Fusion
    BY Holders
  <2>2. \A h \in {Gpu, Reserve, Fusion, Fresh} \ {Reserve, Fusion} : new[h] = own[h]
    BY <1>10
  <2>3. QED
    BY <1>1, <1>9, <1>12, <2>1, <2>2, RegroupRequest
<1>14. QED
  BY <1>13, <1>q

\* Out of fusion state complete groups of parts become local blocks again.
LEMMA FreeMergingParted ==
  ASSUME NEW m \in Manager, NEW L, NEW fr, Parted(m, L, fr), ~ m.is_fusion_state,
         NEW r \in Req, r \notin L, Extend \cap m.block_table[r] = {},
         NEW b \in FreeMerging(m, r)
  PROVE  Parted(b, L, fr)
<1> DEFINE own  == Shares(m, L, fr)
           new  == Shares(b, L, fr)
           T    == m.block_table[r]
           pool == m.reserved \cup T
<1>o. HolderShares(own, m, L, fr)
  BY ShareOf
<1>n. HolderShares(new, b, L, fr)
  BY ShareOf
<1>1. Format(m, L, fr) /\ Partition(own)
  BY DEF Parted
<1>2. PICK M \in SUBSET Complete(pool) :
        /\ b.block_table[r] = {} /\ b.reserved = pool \ Parts(M)
        /\ b.free_gpu = m.free_gpu \cup M
        /\ \A s \in Req \ {r} : b.block_table[s] = m.block_table[s]
        /\ b.free_fusion = m.free_fusion /\ b.is_fusion_state = m.is_fusion_state
  <2>1. PICK M \in SUBSET Complete(pool) :
          b = [m EXCEPT !.block_table[r] = {},
                        !.reserved = pool \ Parts(M),
                        !.free_gpu = @ \cup M,
                        !.max_gpu = @ + Cardinality(M),
                        !.max_reserved = @ - Cardinality(M) * F]
    BY DEF FreeMerging
  <2> HIDE DEF pool
  <2>2. QED
    BY <2>1 DEF Manager
<1>3. M \subseteq Local /\ m.free_gpu \subseteq Local
  BY <1>1 DEF Complete, Format
<1>4. Parts(M) \subseteq pool
  BY DEF Complete, Parts
<1>5. Format(b, L, fr)
  BY <1>1, <1>2, <1>3 DEF Format
<1>q. Partition(new) => Parted(b, L, fr)
  BY <1>5 DEF Parted
<1> HIDE DEF own, new
<1>6. own[Of(r)] = T /\ new[Of(r)] = {}
  <2>1. T \ Extend = T
    OBVIOUS
  <2>2. QED
    BY <1>2, <2>1, <1>o, <1>n DEF HolderShares
<1>7. own[Reserve] = m.reserved /\ new[Reserve] = pool \ Parts(M)
  BY <1>2, <1>o, <1>n DEF HolderShares
<1>8. new[Gpu] = own[Gpu] \cup Parts(M)
  <2>1. Parts(m.free_gpu \cup M) = Parts(m.free_gpu) \cup Parts(M)
    BY <1>3, PartsAlgebra
  <2>2. QED
    BY <1>2, <2>1, <1>o, <1>n DEF HolderShares
<1>9. ASSUME NEW s \in Req \ {r} PROVE new[Of(s)] = own[Of(s)]
  <2>1. b.block_table[s] = m.block_table[s]
    BY <1>2
  <2>2. QED
    BY <2>1, <1>o, <1>n DEF HolderShares
<1>10. new[Fusion] = own[Fusion] /\ new[Fresh] = own[Fresh]
  BY <1>2, <1>o, <1>n DEF HolderShares
<1>11. /\ own[Reserve] \cap own[Of(r)] = {} /\ own[Gpu] \cap own[Of(r)] = {}
       /\ own[Gpu] \cap own[Reserve] = {}
  BY <1>1, Apart
<1>12. /\ new[Of(r)] \cup new[Reserve] \cup new[Gpu]
            = own[Of(r)] \cup own[Reserve] \cup own[Gpu]
       /\ new[Of(r)] \cap new[Reserve] = {} /\ new[Of(r)] \cap new[Gpu] = {}
       /\ new[Reserve] \cap new[Gpu] = {}
  BY <1>4, <1>6, <1>7, <1>8, <1>11
<1>13. Partition(new)
  <2>1. Reserve # Gpu
    BY Holders
  <2>2. \A h \in {Gpu, Reserve, Fusion, Fresh} \ {Reserve, Gpu} : new[h] = own[h]
    BY <1>10
  <2>3. QED
    BY <1>1, <1>9, <1>12, <2>1, <2>2, RegroupRequest
<1>14. QED
  BY <1>13, <1>q

LEMMA FreeParted ==
  ASSUME NEW m \in Manager, NEW L, NEW fr, Parted(m, L, fr),
         NEW r \in Req, NEW p \in BOOLEAN, p <=> r \notin L,
         m.is_fusion_state \/ Extend \cap m.block_table[r] = {},
         NEW b \in Free(m, r, p)
  PROVE  Parted(b, L, fr)
  BY FreePipelinedParted, FreeReservedParted, FreeMergingParted, FreeGpuParted DEF Free

-----------------------------------------------------------------------------
(* Changes of format, exchange and live restore.                           *)

\* The parts of a manager that say who owns the base region.
LEMMA SameParted ==
  ASSUME NEW m, NEW b, NEW L, NEW fr, Parted(m, L, fr),
         b.block_table = m.block_table, b.free_gpu = m.free_gpu,
         b.reserved = m.reserved, b.free_fusion = m.free_fusion,
         b.is_fusion_state = m.is_fusion_state
  PROVE  Parted(b, L, fr)
<1>1. Shares(b, L, fr) = Shares(m, L, fr)
  BY DEF Shares
<1>2. Format(b, L, fr)
  BY DEF Parted, Format
<1>3. QED
  BY <1>1, <1>2 DEF Parted

LEMMA ConvertToPipelineParted ==
  ASSUME NEW m \in Manager, NEW L, NEW fr, Parted(m, L, fr),
         ~ m.is_fusion_state, m.reserved = {}
  PROVE  Parted(ConvertToPipeline(m), L, fr)
<1> DEFINE b   == ConvertToPipeline(m)
           own == Shares(m, L, fr)
           new == Shares(b, L, fr)
<1>o. HolderShares(own, m, L, fr)
  BY ShareOf
<1>n. HolderShares(new, b, L, fr)
  BY ShareOf
<1>1. Format(m, L, fr) /\ Partition(own)
  BY DEF Parted
<1>2. /\ b.free_gpu = {} /\ b.reserved = m.free_gpu /\ b.is_fusion_state
      /\ b.free_fusion = m.free_fusion /\ b.block_table = m.block_table
  BY DEF ConvertToPipeline, Manager
<1>3. Format(b, L, fr)
  BY <1>1, <1>2 DEF Format
<1>q. Partition(new) => Parted(b, L, fr)
  BY <1>3 DEF Parted
<1> HIDE DEF b, own, new
<1>4. /\ own[Gpu] = Parts(m.free_gpu) /\ new[Gpu] = {}
      /\ own[Reserve] = {} /\ new[Reserve] = Parts(m.free_gpu)
  BY <1>2, <1>o, <1>n, PartsOfNone DEF HolderShares
<1>5. new[Fusion] = own[Fusion] /\ new[Fresh] = own[Fresh]
  BY <1>2, <1>o, <1>n DEF HolderShares
<1>6. \A s \in Req : new[Of(s)] = own[Of(s)]
  BY <1>2, <1>o, <1>n DEF HolderShares
<1>7. Partition(new)
  <2>1. /\ new[Gpu] = own[Gpu] \ own[Gpu] /\ new[Reserve] = own[Reserve] \cup own[Gpu]
        /\ \A h \in {Gpu, Reserve, Fusion, Fresh} \ {Gpu, Reserve} : new[h] = own[h]
    BY <1>4, <1>5
  <2>2. Gpu # Reserve
    BY Holders
  <2>3. QED
    BY <1>1, <1>6, <2>1, <2>2, BetweenPools
<1>8. QED
  BY <1>7, <1>q DEF b

LEMMA ConvertReservedParted ==
  ASSUME NEW m \in Manager, NEW L, NEW fr, Parted(m, L, fr), m.is_fusion_state
  PROVE  Parted(ConvertReserved(m), L, fr)
<1> DEFINE b   == ConvertReserved(m)
           own == Shares(m, L, fr)
           new == Shares(b, L, fr)
<1>o. HolderShares(own, m, L, fr)
  BY ShareOf
<1>n. HolderShares(new, b, L, fr)
  BY ShareOf
<1>1. Format(m, L, fr) /\ Partition(own)
  BY DEF Parted
<1>2. /\ b.free_gpu = m.free_gpu /\ b.reserved = {} /\ b.is_fusion_state
      /\ b.free_fusion = m.free_fusion \cup Parts(m.reserved)
      /\ b.block_table = m.block_table
  BY DEF ConvertReserved, Manager
<1>3. Format(b, L, fr)
  BY <1>1, <1>2 DEF Format
<1>q. Partition(new) => Parted(b, L, fr)
  BY <1>3 DEF Parted
<1> HIDE DEF b, own, new
<1>4. own[Reserve] = Parts(m.reserved) /\ new[Reserve] = {}
  BY <1>2, <1>o, <1>n, PartsOfNone DEF HolderShares
<1>5. new[Fusion] = own[Fusion] \cup Parts(m.reserved)
  BY <1>2, <1>o, <1>n DEF HolderShares
<1>6. new[Gpu] = own[Gpu] /\ new[Fresh] = own[Fresh]
  BY <1>2, <1>o, <1>n DEF HolderShares
<1>7. \A s \in Req : new[Of(s)] = own[Of(s)]
  BY <1>2, <1>o, <1>n DEF HolderShares
<1>8. Partition(new)
  <2>1. /\ new[Reserve] = own[Reserve] \ own[Reserve]
        /\ new[Fusion] = own[Fusion] \cup own[Reserve]
        /\ \A h \in {Gpu, Reserve, Fusion, Fresh} \ {Reserve, Fusion} : new[h] = own[h]
    BY <1>4, <1>5, <1>6
  <2>2. Reserve # Fusion
    BY Holders
  <2>3. QED
    BY <1>1, <1>7, <2>1, <2>2, BetweenPools
<1>9. QED
  BY <1>8, <1>q DEF b

\* After its exchange a request has its own part of its blocks at home, in
\* the pipeline format.
LEMMA FreeIntoFusionExceptParted ==
  ASSUME NEW m \in Manager, NEW L, NEW fr, Parted(m, L, fr), m.is_fusion_state,
         NEW r \in Req, r \in L, NEW rank \in Stage
  PROVE  Parted(FreeIntoFusionExcept(m, r, rank), L \ {r}, fr)
<1> DEFINE b   == FreeIntoFusionExcept(m, r, rank)
           K   == L \ {r}
           own == Shares(m, L, fr)
           new == Shares(b, K, fr)
           T   == m.block_table[r]
           S   == {x \in Parts(T) : x[1] # rank}
           kept == {<<rank, x[2]>> : x \in T}
<1>o. HolderShares(own, m, L, fr)
  BY ShareOf
<1>n. HolderShares(new, b, K, fr)
  BY ShareOf
<1>1. Format(m, L, fr) /\ Partition(own)
  BY DEF Parted
<1>2. /\ b.block_table[r] = kept /\ b.free_fusion = m.free_fusion \cup S
      /\ \A s \in Req \ {r} : b.block_table[s] = m.block_table[s]
      /\ b.free_gpu = m.free_gpu /\ b.reserved = m.reserved
      /\ b.is_fusion_state = m.is_fusion_state
  BY DEF FreeIntoFusionExcept, Manager
<1>3. kept = Parts(T) \ S
  BY DEF Parts
<1>4. Parts(T) \cap Extend = {}
  <2>1. Parts(T) \subseteq Pipeline
    BY <1>1, PartsAlgebra DEF Format
  <2>2. QED
    BY <2>1, Regions
<1>5. Format(b, K, fr)
  BY <1>1, <1>2 DEF Format
<1>q. Partition(new) => Parted(b, K, fr)
  BY <1>5 DEF Parted
<1>6. S \subseteq Parts(T) /\ r \notin K
  OBVIOUS
<1>7. ASSUME NEW s \in Req \ {r} PROVE new[Of(s)] = own[Of(s)]
  <2>1. b.block_table[s] = m.block_table[s] /\ (s \in K <=> s \in L)
    BY <1>2
  <2> HIDE DEF b, own, new, K, S, kept
  <2>2. QED
    BY <2>1, <1>o, <1>n DEF HolderShares
<1> HIDE DEF b, own, new, K, S, kept
<1>8. own[Of(r)] = Parts(T)
  BY <1>o DEF HolderShares
<1>9. new[Of(r)] = own[Of(r)] \ S
  <2>1. new[Of(r)] = kept \ Extend
    BY <1>2, <1>6, <1>n DEF HolderShares
  <2>2. QED
    BY <1>3, <1>4, <1>8, <2>1
<1>10. new[Fusion] = own[Fusion] \cup S
  BY <1>2, <1>o, <1>n DEF HolderShares
<1>11. new[Gpu] = own[Gpu] /\ new[Reserve] = own[Reserve] /\ new[Fresh] = own[Fresh]
  BY <1>2, <1>o, <1>n DEF HolderShares
<1>12. Partition(new)
  BY <1>1, <1>6, <1>7, <1>8, <1>9, <1>10, <1>11, ToPool
<1>13. QED
  BY <1>12, <1>q DEF b, K

LEMMA PackOneParted ==
  ASSUME NEW m \in Manager, NEW L, NEW fr, Parted(m, L, fr),
         NEW r \in Req, NEW b \in PackOne(m, r)
  PROVE  Parted(b, L, fr)
<1> DEFINE own == Shares(m, L, fr)
           new == Shares(b, L, fr)
           T   == m.block_table[r]
           ext == T \cap Extend
<1>1. CASE ext = {}
  BY <1>1 DEF PackOne
<1>2. CASE ext # {}
  <2>o. HolderShares(own, m, L, fr)
    BY ShareOf
  <2>n. HolderShares(new, b, L, fr)
    BY ShareOf
  <2>1. Format(m, L, fr) /\ Partition(own)
    BY DEF Parted
  <2>2. PICK S \in SUBSET m.free_fusion :
          b = [m EXCEPT !.block_table[r] = (@ \ ext) \cup S,
                        !.free_fusion = @ \ S,
                        !.free_extend = @ \cup ext]
    BY <1>2 DEF PackOne, kSubset
  <2>3. /\ b.block_table[r] = (T \ ext) \cup S /\ b.free_fusion = m.free_fusion \ S
        /\ \A s \in Req \ {r} : b.block_table[s] = m.block_table[s]
        /\ b.free_gpu = m.free_gpu /\ b.reserved = m.reserved
        /\ b.is_fusion_state = m.is_fusion_state
    BY <2>2 DEF Manager
  <2>4. r \notin L
    <3>1. r \in L => T \subseteq Pipeline
      BY <2>1, Regions DEF Format
    <3>2. QED
      BY <1>2, <3>1, Regions
  <2>5. S \cap Extend = {}
    BY Regions DEF Manager
  <2>6. Format(b, L, fr)
    BY <2>1, <2>3, <2>4 DEF Format
  <2>q. Partition(new) => Parted(b, L, fr)
    BY <2>6 DEF Parted
  <2>7. ((T \ ext) \cup S) \ Extend = (T \ Extend) \cup S
    BY <2>5
  <2> HIDE DEF own, new, ext
  <2>8. new[Of(r)] = own[Of(r)] \cup S
    <3>1. new[Of(r)] = ((T \ ext) \cup S) \ Extend
      BY <2>3, <2>4, <2>n DEF HolderShares
    <3>2. own[Of(r)] = T \ Extend
      BY <2>4, <2>o DEF HolderShares
    <3>3. QED
      BY <2>7, <3>1, <3>2
  <2>9. new[Fusion] = own[Fusion] \ S /\ S \subseteq own[Fusion]
    BY <2>3, <2>o, <2>n DEF HolderShares
  <2>10. ASSUME NEW s \in Req \ {r} PROVE new[Of(s)] = own[Of(s)]
    <3>1. b.block_table[s] = m.block_table[s]
      BY <2>3
    <3>2. QED
      BY <3>1, <2>o, <2>n DEF HolderShares
  <2>11. new[Gpu] = own[Gpu] /\ new[Reserve] = own[Reserve] /\ new[Fresh] = own[Fresh]
    BY <2>3, <2>o, <2>n DEF HolderShares
  <2>12. Partition(new)
    BY <2>1, <2>8, <2>9, <2>10, <2>11, FromPool
  <2>13. QED
    BY <2>12, <2>q
<1>3. QED
  BY <1>1, <1>2

LEMMA RestoreKvParted ==
  ASSUME NEW m \in Manager, NEW L, NEW fr, Parted(m, L, fr), m.is_fusion_state,
         NEW b \in RestoreKv(m)
  PROVE  Parted(b, L, fr)
<1> DEFINE ff  == m.free_fusion
           own == Shares(m, L, fr)
           new == Shares(b, L, fr)
<1>o. HolderShares(own, m, L, fr)
  BY ShareOf
<1>n. HolderShares(new, b, L, fr)
  BY ShareOf
<1>1. Format(m, L, fr) /\ Partition(own)
  BY DEF Parted
<1>2. PICK M \in SUBSET Complete(ff) :
        /\ b.free_gpu = m.reserved \cup M /\ b.reserved = ff \ Parts(M)
        /\ b.free_fusion = {} /\ ~ b.is_fusion_state
        /\ b.block_table = m.block_table
  <2> DEFINE after(K, M) ==
             [m EXCEPT !.free_gpu = m.reserved \cup M,
                       !.reserved = ff \ Parts(M),
                       !.reserved_set = {},
                       !.free_fusion = {},
                       !.num_reserved_blocks = Quota,
                       !.max_gpu = m.max_reserved + Cardinality(M),
                       !.max_reserved = m.max_fusion - Cardinality(ff \ K)
                                          + Cardinality((ff \ K) \ Parts(M)),
                       !.max_fusion = 0,
                       !.is_fusion_state = FALSE]
             n == IF Quota <= Cardinality(ff) THEN Quota ELSE Cardinality(ff)
             Kept == {K \in kSubset(n, ff) : \A x \in K, y \in ff \ K : x[2] <= y[2]}
  <2>1. b \in UNION {{after(K, M) : M \in SUBSET Complete(ff \ K)} : K \in Kept}
    BY DEF RestoreKv
  <2> HIDE DEF after
  <2>2. Kept \subseteq SUBSET ff
    BY DEF kSubset
  <2> HIDE DEF Kept
  <2>3. PICK K \in SUBSET ff : b \in {after(K, M) : M \in SUBSET Complete(ff \ K)}
    BY <2>1, <2>2
  <2>4. PICK M \in SUBSET Complete(ff \ K) : b = after(K, M)
    BY <2>3
  <2>5. /\ b.free_gpu = m.reserved \cup M /\ b.reserved = ff \ Parts(M)
        /\ b.free_fusion = {} /\ ~ b.is_fusion_state
        /\ b.block_table = m.block_table
    <3> HIDE DEF ff
    <3>1. QED
      BY <2>4 DEF after, Manager
  <2>6. M \in SUBSET Complete(ff)
    BY DEF Complete
  <2>7. QED
    BY <2>5, <2>6
<1>3. M \subseteq Local /\ m.reserved \subseteq Local /\ m.free_gpu = {}
  BY <1>1 DEF Complete, Format
<1>4. Parts(M) \subseteq ff
  BY DEF Complete, Parts
<1>5. Format(b, L, fr)
  BY <1>1, <1>2, <1>3 DEF Format
<1>q. Partition(new) => Parted(b, L, fr)
  BY <1>5 DEF Parted
<1> HIDE DEF own, new, ff
<1>6. own[Gpu] = {} /\ own[Reserve] = Parts(m.reserved)
  BY <1>1, <1>3, <1>o, PartsOfNone DEF HolderShares
<1>7. own[Fusion] = ff /\ new[Fusion] = {} /\ new[Reserve] = ff \ Parts(M)
  BY <1>2, <1>o, <1>n DEF HolderShares, ff
<1>8. new[Gpu] = Parts(m.reserved) \cup Parts(M)
  <2>1. Parts(m.reserved \cup M) = Parts(m.reserved) \cup Parts(M)
    BY <1>3, PartsAlgebra
  <2>2. QED
    BY <1>2, <2>1, <1>n DEF HolderShares
<1>9. own[Reserve] \cap own[Fusion] = {}
  BY <1>1, Apart
<1>10. /\ new[Gpu] \cup new[Reserve] \cup new[Fusion]
            = own[Gpu] \cup own[Reserve] \cup own[Fusion]
       /\ new[Gpu] \cap new[Reserve] = {} /\ new[Gpu] \cap new[Fusion] = {}
       /\ new[Reserve] \cap new[Fusion] = {}
  BY <1>4, <1>6, <1>7, <1>8, <1>9
<1>11. new[Fresh] = own[Fresh]
  BY <1>o, <1>n DEF HolderShares
<1>12. \A s \in Req : new[Of(s)] = own[Of(s)]
  BY <1>2, <1>o, <1>n DEF HolderShares
<1>13. Partition(new)
  <2>1. \A h \in Holder \ {Gpu, Reserve, Fusion} : new[h] = own[h]
    <3>1. ASSUME NEW h \in Holder, h \notin {Gpu, Reserve, Fusion}
          PROVE  new[h] = own[h]
      <4>1. h = Fresh \/ \E s \in Req : h = Of(s)
        BY <3>1, Holders
      <4>2. QED
        BY <1>11, <1>12, <4>1
    <3>2. QED
      BY <3>1
  <2>2. Gpu \in Holder /\ Reserve \in Holder /\ Fusion \in Holder
    BY Holders
  <2>3. Partition(own)
    BY <1>1
  <2>4. QED
    <3> DEFINE A == {Gpu, Reserve, Fusion}
    <3>1. A \in SUBSET Holder /\ \A h \in Holder \ A : new[h] = own[h]
      BY <2>1, <2>2
    <3>2. \A x : (\E h \in A : x \in new[h]) <=> (\E h \in A : x \in own[h])
      <4>1. ASSUME NEW x
            PROVE  (\E h \in A : x \in new[h]) <=> (\E h \in A : x \in own[h])
        <5>1. (\E h \in A : x \in new[h]) <=> x \in new[Gpu] \cup new[Reserve] \cup new[Fusion]
          OBVIOUS
        <5>2. (\E h \in A : x \in own[h]) <=> x \in own[Gpu] \cup own[Reserve] \cup own[Fusion]
          OBVIOUS
        <5>3. QED
          BY <1>10, <5>1, <5>2
      <4>2. QED
        BY <4>1
    <3>3. \A h, k \in A : h # k => new[h] \cap new[k] = {}
      BY <1>10
    <3> HIDE DEF A
    <3>4. QED
      BY <2>3, <3>1, <3>2, <3>3, Regroup
<1>14. QED
  BY <1>13, <1>q

\* When every request is back in the replica format and nothing is on its
\* way, the reserve holds whole groups of parts.
LEMMA WholeGroups ==
  ASSUME NEW m \in Manager, NEW L, Parted(m, L, {}), ~ m.is_fusion_state,
         m.free_fusion = {}, \A r \in Req : r \in L \/ m.block_table[r] = {}
  PROVE  m.reserved = Parts(m.reserved \cap Local)
<1> DEFINE own == Shares(m, L, {})
           root(x) == <<0, x[2]>>
<1>o. HolderShares(own, m, L, {})
  BY ShareOf
<1>1. Format(m, L, {}) /\ Partition(own)
  BY DEF Parted
<1>2. m.reserved \subseteq Pipeline
  BY DEF Manager
<1> HIDE DEF own
<1>3. own[Reserve] = m.reserved /\ own[Fusion] = {} /\ own[Fresh] = {}
  BY <1>o, PartsOfNone DEF HolderShares
<1>4. \A r \in Req : \E S \in SUBSET Local : own[Of(r)] = Parts(S)
  <2> TAKE r \in Req
  <2>1. CASE r \in L
    <3>1. m.block_table[r] \subseteq Local /\ own[Of(r)] = Parts(m.block_table[r])
      BY <1>1, <1>o, <2>1 DEF HolderShares, Format
    <3>2. QED
      BY <3>1
  <2>2. CASE r \notin L
    <3>1. own[Of(r)] = {} /\ {} \in SUBSET Local
      BY <1>o, <2>2 DEF HolderShares
    <3>2. QED
      BY <3>1, PartsOfNone
  <2>3. QED
    BY <2>1, <2>2
<1>5. \E S \in SUBSET Local : own[Gpu] = Parts(S)
  <2>1. m.free_gpu \subseteq Local /\ own[Gpu] = Parts(m.free_gpu)
    BY <1>1, <1>o DEF HolderShares, Format
  <2>2. QED
    BY <2>1
<1>6. \A x, y \in Pipeline : x[2] = y[2] /\ x \in m.reserved => y \in m.reserved
  <2> SUFFICES ASSUME NEW x \in Pipeline, NEW y \in Pipeline, x[2] = y[2],
                      x \in m.reserved, y \notin m.reserved
               PROVE  FALSE
    OBVIOUS
  <2>1. PICK h \in Holder : y \in own[h]
    BY <1>1 DEF Partition
  <2>2. h # Reserve /\ h # Fusion /\ h # Fresh
    BY <1>3, <2>1
  <2>3. PICK S \in SUBSET Local : own[h] = Parts(S)
    <3>1. h = Gpu \/ \E s \in Req : h = Of(s)
      BY <2>2, Holders
    <3>2. QED
      BY <1>4, <1>5, <3>1
  <2>4. x \in Parts(S)
    <3>1. y \in Parts(S) /\ S \subseteq Local
      BY <2>1, <2>3
    <3>2. <<0, y[2]>> \in S /\ <<0, y[2]>> = <<0, x[2]>>
      BY <3>1, PartsPoint
    <3>3. QED
      BY <3>1, <3>2, PartsPoint
  <2>5. x \in own[h] /\ x \in own[Reserve]
    BY <1>3, <2>3, <2>4
  <2>6. QED
    BY <1>1, <2>2, <2>5, Holders DEF Partition
<1>7. \A x \in Pipeline : root(x) \in Local /\ root(x) \in Pipeline /\ root(x)[2] = x[2]
  <2> TAKE x \in Pipeline
  <2>1. x[2] \in Base
    BY DEF Pipeline
  <2>2. QED
    BY <2>1, Regions DEF Local
<1> DEFINE W == m.reserved \cap Local
<1>8. W \subseteq Local /\ Parts(W) \subseteq Pipeline
  BY PartsAlgebra
<1>9. \A x \in Pipeline : x \in m.reserved <=> root(x) \in W
  BY <1>6, <1>7
<1>10. \A x \in Pipeline : x \in Parts(W) <=> root(x) \in W
  BY <1>8, PartsPoint
<1> HIDE DEF W, root
<1>11. \A x \in Pipeline : x \in m.reserved <=> x \in Parts(W)
  BY <1>9, <1>10
<1>12. m.reserved = Parts(W)
  BY <1>2, <1>8, <1>11
<1>13. QED
  BY <1>12 DEF W

LEMMA RestoreFromFusionParted ==
  ASSUME NEW m \in Manager, NEW L, Parted(m, L, {}), ~ m.is_fusion_state,
         m.free_fusion = {}, \A r \in Req : r \in L \/ m.block_table[r] = {},
         NEW b \in RestoreFromFusion(m)
  PROVE  Parted(b, L, {}) /\ b.reserved = {}
<1> DEFINE own == Shares(m, L, {})
           new == Shares(b, L, {})
           W   == m.reserved \cap Local
<1>o. HolderShares(own, m, L, {})
  BY ShareOf
<1>n. HolderShares(new, b, L, {})
  BY ShareOf
<1>1. Format(m, L, {}) /\ Partition(own)
  BY DEF Parted
<1>2. /\ b.free_gpu = m.free_gpu \cup W /\ b.reserved = {}
      /\ b.free_fusion = m.free_fusion /\ b.block_table = m.block_table
      /\ b.is_fusion_state = m.is_fusion_state
  BY DEF RestoreFromFusion, Manager
<1>3. m.reserved = Parts(W)
  BY WholeGroups
<1>4. W \subseteq Local /\ m.free_gpu \subseteq Local
  BY <1>1 DEF Format
<1>5. Format(b, L, {})
  BY <1>1, <1>2, <1>4 DEF Format
<1>q. Partition(new) => Parted(b, L, {})
  BY <1>5 DEF Parted
<1> HIDE DEF own, new, W
<1>6. own[Reserve] = Parts(W) /\ new[Reserve] = {}
  BY <1>2, <1>3, <1>o, <1>n DEF HolderShares
<1>7. new[Gpu] = own[Gpu] \cup Parts(W)
  <2>1. Parts(m.free_gpu \cup W) = Parts(m.free_gpu) \cup Parts(W)
    BY <1>4, PartsAlgebra
  <2>2. QED
    BY <1>2, <2>1, <1>o, <1>n DEF HolderShares
<1>8. new[Fusion] = own[Fusion] /\ new[Fresh] = own[Fresh]
  BY <1>2, <1>o, <1>n DEF HolderShares
<1>9. \A s \in Req : new[Of(s)] = own[Of(s)]
  <2>1. b.block_table = m.block_table
    BY <1>2
  <2>2. QED
    BY <2>1, <1>o, <1>n DEF HolderShares
<1>10. Partition(new)
  <2>1. /\ new[Reserve] = own[Reserve] \ own[Reserve]
        /\ new[Gpu] = own[Gpu] \cup own[Reserve]
        /\ \A h \in {Gpu, Reserve, Fusion, Fresh} \ {Reserve, Gpu} : new[h] = own[h]
    BY <1>6, <1>7, <1>8
  <2>2. Reserve # Gpu
    BY Holders
  <2>3. QED
    BY <1>1, <1>9, <2>1, <2>2, BetweenPools
<1>11. QED
  BY <1>2, <1>10, <1>q

\* The blocks taken for a live restore, and their delivery.
LEMMA FreshTaken ==
  ASSUME NEW m \in Manager, NEW L, Parted(m, L, {}),
         NEW S \in SUBSET m.free_gpu
  PROVE  Parted([m EXCEPT !.free_gpu = @ \ S], L, S)
<1> DEFINE b   == [m EXCEPT !.free_gpu = @ \ S]
           own == Shares(m, L, {})
           new == Shares(b, L, S)
<1>o. HolderShares(own, m, L, {})
  BY ShareOf
<1>n. HolderShares(new, b, L, S)
  BY ShareOf
<1>1. Format(m, L, {}) /\ Partition(own)
  BY DEF Parted
<1>2. /\ b.free_gpu = m.free_gpu \ S /\ b.reserved = m.reserved
      /\ b.free_fusion = m.free_fusion /\ b.block_table = m.block_table
      /\ b.is_fusion_state = m.is_fusion_state
  BY DEF Manager
<1>3. S \subseteq Local /\ m.free_gpu \subseteq Local
  BY <1>1 DEF Format
<1>4. Format(b, L, S)
  BY <1>1, <1>2, <1>3 DEF Format
<1>q. Partition(new) => Parted(b, L, S)
  BY <1>4 DEF Parted
<1> HIDE DEF b, own, new
<1>5. new[Gpu] = own[Gpu] \ Parts(S) /\ Parts(S) \subseteq own[Gpu]
  <2>1. /\ Parts(m.free_gpu \ S) = Parts(m.free_gpu) \ Parts(S)
        /\ Parts(S) \subseteq Parts(m.free_gpu)
    BY <1>3, PartsAlgebra
  <2>2. QED
    BY <1>2, <2>1, <1>o, <1>n DEF HolderShares
<1>6. own[Fresh] = {} /\ new[Fresh] = Parts(S)
  BY <1>o, <1>n, PartsOfNone DEF HolderShares
<1>7. new[Fusion] = own[Fusion] /\ new[Reserve] = own[Reserve]
  BY <1>2, <1>o, <1>n DEF HolderShares
<1>8. \A s \in Req : new[Of(s)] = own[Of(s)]
  BY <1>2, <1>o, <1>n DEF HolderShares
<1>9. Partition(new)
  <2>1. /\ new[Fresh] = own[Fresh] \cup Parts(S)
        /\ \A h \in {Gpu, Reserve, Fusion, Fresh} \ {Gpu, Fresh} : new[h] = own[h]
    BY <1>6, <1>7
  <2>2. Gpu # Fresh
    BY Holders
  <2>3. QED
    BY <1>1, <1>5, <1>8, <2>1, <2>2, BetweenPools
<1>10. QED
  BY <1>9, <1>q DEF b

LEMMA FreshGiven ==
  ASSUME NEW m \in Manager, NEW L, NEW fr, Parted(m, L, fr),
         NEW r \in Req, r \in L, m.block_table[r] = {}, NEW b,
         b.block_table[r] = fr, \A s \in Req \ {r} : b.block_table[s] = m.block_table[s],
         b.free_gpu = m.free_gpu, b.reserved = m.reserved,
         b.free_fusion = m.free_fusion, b.is_fusion_state = m.is_fusion_state
  PROVE  Parted(b, L, {})
<1> DEFINE own == Shares(m, L, fr)
           new == Shares(b, L, {})
<1>o. HolderShares(own, m, L, fr)
  BY ShareOf
<1>n. HolderShares(new, b, L, {})
  BY ShareOf
<1>1. Format(m, L, fr) /\ Partition(own)
  BY DEF Parted
<1>2. Format(b, L, {})
  BY <1>1 DEF Format
<1>q. Partition(new) => Parted(b, L, {})
  BY <1>2 DEF Parted
<1> HIDE DEF own, new
<1>3. own[Fresh] = Parts(fr) /\ new[Fresh] = {}
  BY <1>o, <1>n, PartsOfNone DEF HolderShares
<1>4. own[Of(r)] = {} /\ new[Of(r)] = Parts(fr)
  BY <1>o, <1>n, PartsOfNone DEF HolderShares
<1>5. /\ new[Gpu] = own[Gpu] /\ new[Fusion] = own[Fusion]
      /\ new[Reserve] = own[Reserve]
  BY <1>o, <1>n DEF HolderShares
<1>6. ASSUME NEW s \in Req \ {r} PROVE new[Of(s)] = own[Of(s)]
  <2>1. b.block_table[s] = m.block_table[s]
    OBVIOUS
  <2>2. QED
    BY <2>1, <1>o, <1>n DEF HolderShares
<1>7. Partition(new)
  <2>1. /\ new[Fresh] = own[Fresh] \ Parts(fr) /\ Parts(fr) \subseteq own[Fresh]
        /\ new[Of(r)] = own[Of(r)] \cup Parts(fr)
    BY <1>3, <1>4
  <2>2. \A h \in {Gpu, Reserve, Fusion, Fresh} \ {Fresh} : new[h] = own[h]
    BY <1>5
  <2>3. QED
    BY <1>1, <1>6, <2>1, <2>2, FromPool
<1>8. QED
  BY <1>7, <1>q

\* At the start every local block is free.
LEMMA InitParted ==
  ASSUME NEW L
  PROVE  Parted(InitManager, L, {})
<1> DEFINE m   == InitManager
           own == Shares(m, L, {})
<1>o. HolderShares(own, m, L, {})
  BY ShareOf
<1>1. /\ m.free_gpu = Local /\ m.reserved = {} /\ m.free_fusion = {}
      /\ ~ m.is_fusion_state /\ \A r \in Req : m.block_table[r] = {}
  BY DEF InitManager
<1>2. Format(m, L, {})
  BY <1>1 DEF Format
<1>q. Partition(own) => Parted(m, L, {})
  BY <1>2 DEF Parted
<1>3. Parts(Local) = Pipeline
  <2>1. Parts(Local) \subseteq Pipeline
    BY PartsAlgebra
  <2>2. ASSUME NEW x \in Pipeline PROVE x \in Parts(Local)
    <3>1. <<0, x[2]>> \in Local
      BY DEF Pipeline, Local
    <3>2. QED
      BY <3>1, PartsPoint
  <2>3. QED
    BY <2>1, <2>2
<1> HIDE DEF m, own
<1>4. own[Gpu] = Pipeline /\ own[Reserve] = {} /\ own[Fusion] = {} /\ own[Fresh] = {}
  BY <1>1, <1>3, <1>o, PartsOfNone DEF HolderShares
<1>5. \A r \in Req : own[Of(r)] = {}
  BY <1>1, <1>o, PartsOfNone DEF HolderShares
<1>6. \A h \in Holder : own[h] = IF h = Gpu THEN Pipeline ELSE {}
  BY <1>4, <1>5, Holders
<1>7. Partition(own)
  BY <1>6, Holders DEF Partition
<1>8. QED
  BY <1>7, <1>q DEF m

-----------------------------------------------------------------------------
(* How many blocks a request owns.                                         *)

LEMMA UnionSize ==
  ASSUME NEW S, NEW T, S \subseteq Block, T \subseteq Block, S \cap T = {}
  PROVE  Cardinality(S \cup T) = Cardinality(S) + Cardinality(T)
<1>1. IsFiniteSet(S) /\ IsFiniteSet(T) /\ Cardinality(S) \in Nat /\ Cardinality(T) \in Nat
  BY BlockSets
<1>2. Cardinality(S \cap T) = 0
  BY FS_EmptySet
<1>3. Cardinality(S \cup T) = Cardinality(S) + Cardinality(T) - Cardinality(S \cap T)
  BY <1>1, FS_Union
<1>4. QED
  BY <1>1, <1>2, <1>3

LEMMA HeldType ==
  ASSUME NEW m \in Manager, NEW r \in Req
  PROVE  /\ m.block_table[r] \subseteq Block
         /\ Held(m, r) \in Nat
         /\ Held(m, r) # 0 <=> m.block_table[r] # {}
<1>1. m.block_table[r] \subseteq Block
  BY DEF Manager
<1>2. IsFiniteSet(m.block_table[r]) /\ Cardinality(m.block_table[r]) \in Nat
  BY <1>1, BlockSets
<1>3. QED
  BY <1>1, <1>2, FS_EmptySet DEF Held

\* What a pool has is not what a request has.
LEMMA PoolApart ==
  ASSUME NEW m \in Manager, NEW L, NEW fr, Parted(m, L, fr), NEW r \in Req
  PROVE  /\ r \notin L => m.free_fusion \cap m.block_table[r] = {}
         /\ r \notin L /\ ~ m.is_fusion_state => m.reserved \cap m.block_table[r] = {}
         /\ r \in L /\ m.is_fusion_state => m.reserved \cap m.block_table[r] = {}
         /\ r \in L => m.free_gpu \cap m.block_table[r] = {}
<1> DEFINE own == Shares(m, L, fr)
           T   == m.block_table[r]
<1>o. HolderShares(own, m, L, fr)
  BY ShareOf
<1>1. Format(m, L, fr) /\ Partition(own)
  BY DEF Parted
<1>2. m.free_fusion \subseteq Pipeline /\ m.reserved \subseteq Pipeline
  BY DEF Manager
<1> HIDE DEF own
<1>3. /\ own[Gpu] \cap own[Of(r)] = {} /\ own[Reserve] \cap own[Of(r)] = {}
      /\ own[Fusion] \cap own[Of(r)] = {}
  BY <1>1, Apart
<1>4. CASE r \notin L
  <2>1. own[Of(r)] = T \ Extend /\ own[Fusion] = m.free_fusion
    BY <1>4, <1>o DEF HolderShares
  <2>2. ~ m.is_fusion_state => own[Reserve] = m.reserved
    BY <1>o DEF HolderShares
  <2>3. QED
    BY <1>2, <1>3, <1>4, <2>1, <2>2, Regions
<1>5. CASE r \in L
  <2>1. T \subseteq Local /\ m.free_gpu \subseteq Local
    BY <1>1, <1>5 DEF Format
  <2>2. own[Of(r)] = Parts(T) /\ own[Gpu] = Parts(m.free_gpu)
    BY <1>5, <1>o DEF HolderShares
  <2>3. ASSUME NEW S, S \subseteq Local, Parts(S) \cap Parts(T) = {} PROVE S \cap T = {}
    <3>1. Parts(S \cap T) = {}
      <4>1. S \subseteq Local /\ T \subseteq Local
        BY <2>1, <2>3
      <4> HIDE DEF T
      <4>2. Parts(S \cap T) = Parts(S) \cap Parts(T)
        BY <4>1, PartsAlgebra
      <4>3. QED
        BY <2>3, <4>2
    <3>2. ASSUME NEW x \in S \cap T PROVE FALSE
      <4>1. x \in Pipeline /\ <<0, x[2]>> = x
        BY <2>3, <3>2, Regions DEF Local
      <4>2. x \in Parts(S \cap T)
        BY <2>3, <3>2, <4>1, PartsPoint
      <4>3. QED
        BY <3>1, <4>2
    <3>3. QED
      BY <3>2
  <2>4. m.free_gpu \cap T = {}
    BY <1>3, <2>1, <2>2, <2>3
  <2>5. m.is_fusion_state => m.reserved \cap T = {}
    <3>1. m.is_fusion_state => own[Reserve] = Parts(m.reserved) /\ m.reserved \subseteq Local
      BY <1>1, <1>o DEF HolderShares, Format
    <3>2. QED
      BY <1>3, <2>2, <2>3, <3>1
  <2>6. QED
    BY <1>5, <2>4, <2>5
<1>6. QED
  BY <1>4, <1>5

\* An allocation leaves the request the blocks it asked for, and no fewer
\* than it had.
LEMMA AllocateHeld ==
  ASSUME NEW m \in Manager, NEW L, NEW fr, Parted(m, L, fr), ExtendCounted(m),
         NEW r \in Req, NEW n \in Nat, NEW p \in BOOLEAN, p <=> r \notin L,
         NEW b \in Allocate(m, r, n, p)
  PROVE  Held(b, r) \in Nat /\ Held(b, r) >= n /\ Held(b, r) >= Held(m, r)
<1> DEFINE k == Lacks(m, r, n)
           T == m.block_table[r]
<1>1. Held(m, r) \in Nat /\ k = n - Held(m, r) /\ T \subseteq Block
  BY HeldType DEF Lacks
<1>2. m.free_extend \cap T = {}
  BY DEF ExtendCounted
<1>3. /\ m.free_fusion \subseteq Pipeline /\ m.free_extend \subseteq Extend
      /\ m.reserved \subseteq Pipeline /\ m.free_gpu \subseteq Pipeline
  BY DEF Manager
<1>4. ASSUME k <= 0 PROVE b = m
  BY <1>4 DEF Allocate, AllocateFusion, AllocateReserved, AllocateGpu
<1>5. ASSUME ~ (k <= 0)
      PROVE  \E S \in SUBSET Block : S \cap T = {} /\ Cardinality(S) >= k
                                       /\ b.block_table[r] = T \cup S
  <2>1. CASE m.is_fusion_state /\ p
    <3>1. b \in AllocateFusion(m, r, n)
      BY <2>1 DEF Allocate
    <3>2. m.free_fusion \cap T = {}
      BY <2>1, PoolApart
    <3>3. CASE k - Cardinality(m.free_fusion) <= 0
      <4>1. PICK S \in kSubset(k, m.free_fusion) :
              b = [m EXCEPT !.free_fusion = @ \ S, !.block_table[r] = @ \cup S]
        BY <1>5, <3>1, <3>3 DEF AllocateFusion
      <4>2. S \subseteq m.free_fusion /\ Cardinality(S) = k
        BY DEF kSubset
      <4>3. b.block_table[r] = T \cup S
        BY <4>1 DEF Manager
      <4>4. QED
        BY <1>1, <1>3, <3>2, <4>2, <4>3 DEF Block
    <3>4. CASE ~ (k - Cardinality(m.free_fusion) <= 0)
      <4> DEFINE spill == k - Cardinality(m.free_fusion)
      <4>1. PICK X \in kSubset(spill, m.free_extend) :
              b = [m EXCEPT !.free_fusion = {}, !.free_extend = @ \ X,
                            !.block_table[r] = @ \cup m.free_fusion \cup X]
        BY <1>5, <3>1, <3>4 DEF AllocateFusion
      <4>2. X \subseteq m.free_extend /\ Cardinality(X) = spill
        BY DEF kSubset
      <4>3. b.block_table[r] = T \cup (m.free_fusion \cup X)
        BY <4>1 DEF Manager
      <4>4. Cardinality(m.free_fusion \cup X) = Cardinality(m.free_fusion) + spill
        <5>1. m.free_fusion \subseteq Block /\ X \subseteq Block /\ m.free_fusion \cap X = {}
          BY <1>3, <4>2, Regions DEF Block
        <5>2. QED
          BY <4>2, <5>1, UnionSize
      <4>5. Cardinality(m.free_fusion) \in Nat
        BY <1>3, BlockSets
      <4>6. Cardinality(m.free_fusion \cup X) = k
        BY <1>1, <4>4, <4>5
      <4>7. (m.free_fusion \cup X) \cap T = {} /\ m.free_fusion \cup X \in SUBSET Block
        BY <1>2, <1>3, <3>2, <4>2 DEF Block
      <4>8. QED
        BY <1>1, <4>3, <4>6, <4>7
    <3>5. QED
      BY <3>3, <3>4
  <2>2. CASE m.is_fusion_state <=> ~ p
    <3>1. b \in AllocateReserved(m, r, n)
      BY <2>2 DEF Allocate
    <3>2. m.reserved \cap T = {}
      BY <2>2, PoolApart
    <3>3. PICK S \in kSubset(k, m.reserved) :
            b = [m EXCEPT !.reserved = @ \ S, !.block_table[r] = @ \cup S]
      BY <1>5, <3>1 DEF AllocateReserved
    <3>4. S \subseteq m.reserved /\ Cardinality(S) = k
      BY DEF kSubset
    <3>5. b.block_table[r] = T \cup S
      BY <3>3 DEF Manager
    <3>6. QED
      BY <1>1, <1>3, <3>2, <3>4, <3>5 DEF Block
  <2>3. CASE ~ m.is_fusion_state /\ ~ p
    <3>1. b \in AllocateGpu(m, r, n)
      BY <2>3 DEF Allocate
    <3>2. m.free_gpu \cap T = {}
      BY <2>3, PoolApart
    <3>3. PICK S \in kSubset(k, m.free_gpu) :
            b = [m EXCEPT !.free_gpu = @ \ S, !.block_table[r] = @ \cup S]
      BY <1>5, <3>1 DEF AllocateGpu
    <3>4. S \subseteq m.free_gpu /\ Cardinality(S) = k
      BY DEF kSubset
    <3>5. b.block_table[r] = T \cup S
      BY <3>3 DEF Manager
    <3>6. QED
      BY <1>1, <1>3, <3>2, <3>4, <3>5 DEF Block
  <2>4. m.is_fusion_state \in BOOLEAN
    BY DEF Manager
  <2>5. QED
    BY <2>1, <2>2, <2>3, <2>4
<1>6. CASE k <= 0
  BY <1>1, <1>4, <1>6
<1>7. CASE ~ (k <= 0)
  <2>1. PICK S \in SUBSET Block : S \cap T = {} /\ Cardinality(S) >= k
                                    /\ b.block_table[r] = T \cup S
    BY <1>5, <1>7
  <2>2. Cardinality(S) \in Nat
    BY BlockSets
  <2>3. Cardinality(T \cup S) = Held(m, r) + Cardinality(S)
    BY <1>1, <2>1, UnionSize DEF Held
  <2>4. Held(b, r) = Held(m, r) + Cardinality(S)
    BY <2>1, <2>3 DEF Held
  <2>5. QED
    BY <1>1, <1>7, <2>1, <2>2, <2>4
<1>8. QED
  BY <1>1, <1>6, <1>7

\* An exchange leaves a request as many blocks at home as it had.
LEMMA ExchangeHeld ==
  ASSUME NEW m \in Manager, NEW r \in Req, m.block_table[r] \subseteq Local,
         NEW rank \in Stage
  PROVE  Held(FreeIntoFusionExcept(m, r, rank), r) = Held(m, r)
<1> DEFINE T == m.block_table[r]
           U == {<<rank, x[2]>> : x \in T}
           f == [x \in T |-> <<rank, x[2]>>]
<1>1. IsFiniteSet(T)
  BY Regions, BlockSets
<1>2. f \in [T -> U]
  OBVIOUS
<1>3. \A x, y \in T : f[x] = f[y] => x = y
  <2> TAKE x, y \in T
  <2>1. x = <<0, x[2]>> /\ y = <<0, y[2]>>
    BY DEF Local
  <2>2. QED
    BY <2>1
<1>4. \A u \in U : \E x \in T : f[x] = u
  OBVIOUS
<1>5. f \in Bijection(T, U)
  BY <1>2, <1>3, <1>4 DEF Bijection, Injection, Surjection, IsInjective
<1>6. Cardinality(U) = Cardinality(T)
  BY <1>1, <1>5, FS_Bijection DEF ExistsBijection
<1>7. FreeIntoFusionExcept(m, r, rank).block_table[r] = U
  BY DEF FreeIntoFusionExcept, Manager
<1>8. QED
  BY <1>6, <1>7 DEF Held

-----------------------------------------------------------------------------
(* The group: phases, coroutines and types.                                *)

NoLiveRestore == Mode = "livereshard" => ~ AllowRestore

\* The phases in which the managers use the pipeline format, in which the
\* group is not merged, in which parameters are on their way back or are
\* back, and in which extended blocks may be on loan.
FusedPhases   == {"dropping", "handling", "balloon", "reclaiming", "reloading",
                  "stopping"}
InitialPhases == {"initial", "stopping_followers"}
RestorePhases == {"reclaiming", "reloading", "stopping", "restore",
                  "stopping_init"}
LoanPhases    == {"handling", "balloon", "reclaiming"}

-----------------------------------------------------------------------------
(* The inductive invariant.                                                *)

\* What the phase says about the coroutines.
Control ==
  /\ phase \in RestorePhases => AllowRestore
  /\ phase \in {"dropping", "handling"} => stopped[0]
  /\ phase = "handling" => AllIdle
  /\ remaining # {} => phase = "handling"
  /\ \A v \in Inst :
       /\ resharding[v] => Mode = "livereshard" /\ phase \in {"handling", "balloon"}
       /\ step[v].shard # {} => /\ step[v].pc = "pipe"
                                /\ Mode = "livereshard" /\ phase = "balloon"
       /\ step[v].moved # {} => /\ step[v].pc = "pipe"
                                /\ phase \in {"restore", "stopping_init"}
       /\ step[v].moved \subseteq step[v].pipe

\* Which requests are marked for the pipeline.
Marked ==
  /\ phase \in InitialPhases \cup {"stopping_init"} =>
       \A r \in Req : req[r].q = "running" => ~ req[r].fx
  /\ \A r \in remaining : req[r].q = "running" /\ req[r].fx
  /\ \A v \in Inst : \A r \in step[v].shard : req[r].q = "waiting" /\ req[r].fx

\* What the phase says about a manager.
PoolOK(m, ph) ==
  /\ m \in Manager
  /\ ExtendCounted(m)
  /\ Counted(m)
  /\ m.is_fusion_state = (ph \in FusedPhases)
  /\ ph \in InitialPhases => m.max_gpu = N /\ m.max_reserved = 0
  /\ ph \notin FusedPhases => m.free_fusion = {}
  /\ ph \notin LoanPhases => m.max_extend = 0

Pools == \A i \in Inst : PoolOK(bm[i], phase)

\* Only a pipeline request that is scheduled owns extended blocks, and at
\* home only after its exchange.
Local0(b, r) == Extend \cap b[req[r].home].block_table[r] = {}
Owners ==
  /\ \A i \in Inst, r \in Req :
       Extend \cap bm[i].block_table[r] # {} =>
         req[r].fx /\ req[r].q \in {"running", "waiting"}
  /\ \A r \in remaining : Local0(bm, r)
  /\ \A v \in Inst : \A r \in step[v].shard : Local0(bm, r)

IInv == TypeOK /\ Control /\ Marked /\ Pools /\ Owners

-----------------------------------------------------------------------------
(* Steps of one manager.                                                   *)

LEMMA StageType == 0 \in Inst /\ Inst = Stage
  BY PoolAssumption DEF Inst, Stage

\* Out of the phases with loans nobody has an extended block.
LEMMA NoLoan ==
  ASSUME NEW m, NEW ph, PoolOK(m, ph), m.max_extend = 0
  PROVE  m.free_extend = {} /\ \A r \in Req : Extend \cap m.block_table[r] = {}
<1>1. m \in Manager /\ Cardinality(Loan(m)) = 0
  BY DEF PoolOK, ExtendCounted
<1>2. IsFiniteSet(Loan(m))
  <2>1. Loan(m) \subseteq Extend
    BY <1>1 DEF Loan, Manager
  <2>2. QED
    BY <2>1, BlockSets
<1>3. Loan(m) = {}
  BY <1>1, <1>2, FS_EmptySet
<1>4. QED
  BY <1>3 DEF Loan

LEMMA AllocatePool ==
  ASSUME NEW m, NEW ph, PoolOK(m, ph),
         NEW r \in Req, NEW n \in Nat, NEW p \in BOOLEAN, NEW b \in Allocate(m, r, n, p)
  PROVE  /\ PoolOK(b, ph)
         /\ \A s \in Req \ {r} : b.block_table[s] = m.block_table[s]
         /\ ~ (ph \in FusedPhases /\ p) =>
              Extend \cap b.block_table[r] = Extend \cap m.block_table[r]
<1>1. m \in Manager /\ ExtendCounted(m)
  BY DEF PoolOK
<1>2. Allocated(m, b, r, m.is_fusion_state /\ p)
  BY <1>1, AllocateStep
<1>3. /\ b \in Manager /\ ExtendCounted(b)
      /\ b.is_fusion_state = m.is_fusion_state /\ b.max_extend = m.max_extend
      /\ b.max_gpu = m.max_gpu /\ b.max_reserved = m.max_reserved
      /\ b.max_fusion = m.max_fusion /\ b.free_fusion \subseteq m.free_fusion
  BY <1>2 DEF Allocated, Keeps
<1>4. PoolOK(b, ph)
  BY <1>3 DEF PoolOK, Counted
<1>5. QED
  BY <1>2, <1>4 DEF Allocated, Keeps, PoolOK

LEMMA FreePool ==
  ASSUME NEW m, NEW ph, PoolOK(m, ph),
         NEW r \in Req, NEW p \in BOOLEAN, NEW b \in Free(m, r, p),
         ph \in InitialPhases => ~ p,
         ~ p => Extend \cap m.block_table[r] = {}
  PROVE  /\ PoolOK(b, ph)
         /\ \A s \in Req \ {r} : b.block_table[s] = m.block_table[s]
         /\ b.block_table[r] = {}
<1>1. m \in Manager /\ ExtendCounted(m) /\ Counted(m)
  BY DEF PoolOK
<1>2. (m.is_fusion_state /\ p) \/ Extend \cap m.block_table[r] = {}
  <2>1. CASE ~ m.is_fusion_state
    <3>1. m.max_extend = 0
      BY <2>1 DEF PoolOK, LoanPhases, FusedPhases
    <3>2. QED
      BY <3>1, NoLoan
  <2>2. QED
    BY <2>1
<1>3. /\ Freed(m, b, r)
      /\ ~ m.is_fusion_state => b.free_fusion = m.free_fusion
      /\ ~ m.is_fusion_state /\ ~ p =>
           b.max_gpu = m.max_gpu /\ b.max_reserved = m.max_reserved
  BY <1>1, <1>2, FreeStep
<1>4. /\ b \in Manager /\ ExtendCounted(b) /\ Counted(b)
      /\ b.is_fusion_state = m.is_fusion_state /\ b.max_extend = m.max_extend
  BY <1>3 DEF Freed, Keeps
<1>5. ph \in InitialPhases => ~ m.is_fusion_state /\ ~ p
  BY DEF PoolOK, InitialPhases, FusedPhases
<1>6. PoolOK(b, ph)
  BY <1>3, <1>4, <1>5 DEF PoolOK
<1>7. QED
  BY <1>3, <1>6 DEF Freed, Keeps

-----------------------------------------------------------------------------
(* Steps of all managers of the group.                                     *)

\* The managers b are right in this phase, and only scheduled pipeline
\* requests own extended blocks.
Right(b) ==
  /\ b \in [Inst -> Manager]
  /\ \A i \in Inst : PoolOK(b[i], phase)
  /\ \A i \in Inst, r \in Req :
       Extend \cap b[i].block_table[r] # {} =>
         req[r].fx /\ req[r].q \in {"running", "waiting"}

\* The requests other than r own what they owned.
OthersKeep(b, c, r) ==
  \A i \in Inst, s \in Req \ {r} : c[i].block_table[s] = b[i].block_table[s]

LEMMA OneEachType ==
  ASSUME NEW M, NEW b \in OneEach(M)
  PROVE  DOMAIN b = Inst /\ b = [i \in Inst |-> b[i]] /\ \A i \in Inst : b[i] \in M[i]
  BY DEF OneEach

LEMMA AllocateManagers ==
  ASSUME TypeOK, NEW r \in Req, req[r].q = "running", NEW Is \in SUBSET Inst,
         NEW b, Right(b), NEW c \in OneEach(AllocateOn(b, r, Is))
  PROVE  Right(c) /\ OthersKeep(b, c, r)
<1>1. req[r].need \in Nat /\ req[r].fx \in BOOLEAN
  BY GroupAssumption DEF TypeOK, Request
<1>2. ASSUME NEW i \in Inst
      PROVE  /\ PoolOK(c[i], phase)
             /\ \A s \in Req \ {r} : c[i].block_table[s] = b[i].block_table[s]
             /\ ~ req[r].fx =>
                  Extend \cap c[i].block_table[r] = Extend \cap b[i].block_table[r]
  <2>1. CASE i \in Is
    <3>1. c[i] \in Allocate(b[i], r, req[r].need, req[r].fx)
      BY <2>1, OneEachType DEF AllocateOn
    <3>2. PoolOK(b[i], phase)
      BY DEF Right
    <3>3. QED
      BY <1>1, <3>1, <3>2, AllocatePool
  <2>2. CASE i \notin Is
    <3>1. c[i] = b[i]
      BY <2>2, OneEachType DEF AllocateOn
    <3>2. QED
      BY <3>1 DEF Right
  <2>3. QED
    BY <2>1, <2>2
<1>3. c \in [Inst -> Manager]
  <2>1. \A i \in Inst : c[i] \in Manager
    BY <1>2 DEF PoolOK
  <2>2. QED
    BY <2>1, OneEachType
<1>4. ASSUME NEW i \in Inst, NEW s \in Req, Extend \cap c[i].block_table[s] # {}
      PROVE  req[s].fx /\ req[s].q \in {"running", "waiting"}
  <2>1. CASE s = r
    BY <1>2, <1>4, <2>1 DEF Right
  <2>2. CASE s # r
    BY <1>2, <1>4, <2>2 DEF Right
  <2>3. QED
    BY <2>1, <2>2
<1>5. QED
  BY <1>2, <1>3, <1>4 DEF Right, OthersKeep

LEMMA FreeManagers ==
  ASSUME TypeOK, Marked, NEW r \in Req, req[r].q = "running", NEW Is \in SUBSET Inst,
         NEW b, Right(b), NEW c \in OneEach(FreeOn(b, r, Is))
  PROVE  /\ Right(c) /\ OthersKeep(b, c, r)
         /\ \A i \in Is : c[i].block_table[r] = {}
         /\ \A i \in Inst \ Is : c[i] = b[i]
<1>1. req[r].fx \in BOOLEAN
  BY DEF TypeOK, Request
<1>2. phase \in InitialPhases => ~ req[r].fx
  BY DEF Marked
<1>3. ASSUME NEW i \in Inst
      PROVE  /\ PoolOK(c[i], phase)
             /\ \A s \in Req \ {r} : c[i].block_table[s] = b[i].block_table[s]
             /\ i \in Is => c[i].block_table[r] = {}
             /\ i \notin Is => c[i] = b[i]
  <2>1. CASE i \in Is
    <3>1. c[i] \in Free(b[i], r, req[r].fx)
      BY <2>1, OneEachType DEF FreeOn
    <3>2. PoolOK(b[i], phase) /\ (~ req[r].fx => Extend \cap b[i].block_table[r] = {})
      BY DEF Right
    <3>3. QED
      BY <1>1, <1>2, <2>1, <3>1, <3>2, FreePool
  <2>2. CASE i \notin Is
    <3>1. c[i] = b[i]
      BY <2>2, OneEachType DEF FreeOn
    <3>2. QED
      BY <2>2, <3>1 DEF Right
  <2>3. QED
    BY <2>1, <2>2
<1>4. c \in [Inst -> Manager]
  <2>1. \A i \in Inst : c[i] \in Manager
    BY <1>3 DEF PoolOK
  <2>2. QED
    BY <2>1, OneEachType
<1>5. ASSUME NEW i \in Inst, NEW s \in Req, Extend \cap c[i].block_table[s] # {}
      PROVE  req[s].fx /\ req[s].q \in {"running", "waiting"}
  <2>1. CASE s = r
    <3>1. i \notin Is
      BY <1>3, <1>5, <2>1
    <3>2. QED
      BY <1>3, <1>5, <2>1, <3>1 DEF Right
  <2>2. CASE s # r
    BY <1>3, <1>5, <2>2 DEF Right
  <2>3. QED
    BY <2>1, <2>2
<1>6. QED
  BY <1>3, <1>4, <1>5 DEF Right, OthersKeep

-----------------------------------------------------------------------------
(* Every action preserves the invariant.  First the step of a virtual      *)
(* engine.                                                                 *)

LEMMA RightNow == IInv => Right(bm)
  BY DEF IInv, TypeOK, Pools, Owners, Right

\* No virtual engine moves while stale requests are being handled.
LEMMA Serving ==
  ASSUME IInv, NEW v \in Inst, CanStart(v) \/ step[v].pc # "idle"
  PROVE  phase # "handling" /\ remaining = {}
<1>1. ASSUME phase = "handling" PROVE FALSE
  <2>1. step[v].pc = "idle" /\ stopped[0]
    BY <1>1 DEF IInv, Control, AllIdle, Idle
  <2>2. Engine(v) = 0
    BY <1>1 DEF Engine, Merged
  <2>3. QED
    BY <2>1, <2>2 DEF CanStart
<1>2. QED
  BY <1>1 DEF IInv, Control

LEMMA ArriveStep ==
  ASSUME IInv, NEW r \in Req, Arrive(r)
  PROVE  IInv'
<1>0. TypeOK /\ Control /\ Marked /\ Pools /\ Owners
  BY DEF IInv
<1>1. PICK v \in Inst, n \in 1 .. MaxLen :
        req' = [req EXCEPT ![r] = [@ EXCEPT !.q = "queued", !.ve = v, !.need = n]]
  BY DEF Arrive
<1>2. req[r].q = "out" /\ UNCHANGED <<phase, bm, stopped, step, resharding, remaining>>
  BY DEF Arrive
<1>3. req \in [Req -> Request]
  BY <1>0 DEF TypeOK
<1>4. /\ req' \in [Req -> Request]
      /\ req'[r].q = "queued" /\ req'[r].home = req[r].home
      /\ \A s \in Req \ {r} : req'[s] = req[s]
  BY <1>1, <1>3 DEF Request, Queue
<1>5. TypeOK'
  BY <1>0, <1>2, <1>4 DEF TypeOK
<1>6. Control'
  BY <1>0, <1>2 DEF Control, AllIdle, Idle
<1>7. Marked'
  <2>1. remaining \subseteq Req /\ \A u \in Inst : step[u].shard \subseteq Req
    BY <1>0 DEF TypeOK, Step
  <2>2. \A s \in Req : s # r => req'[s] = req[s]
    BY <1>4
  <2>3. r \notin remaining /\ \A u \in Inst : r \notin step[u].shard
    BY <1>0, <1>2 DEF Marked
  <2>4. QED
    BY <1>0, <1>2, <1>4, <2>1, <2>2, <2>3 DEF Marked
<1>8. Pools'
  BY <1>0, <1>2 DEF Pools
<1>9. Owners'
  <2>1. \A s \in Req : req'[s].home = req[s].home
    BY <1>4
  <2>2. remaining \subseteq Req /\ \A u \in Inst : step[u].shard \subseteq Req
    BY <1>0 DEF TypeOK, Step
  <2>3. \A s \in Req : Local0(bm, s) => Local0(bm, s)'
    BY <1>2, <2>1 DEF Local0
  <2>4. \A i \in Inst, s \in Req :
          Extend \cap bm'[i].block_table[s] # {}
            => req'[s].fx /\ req'[s].q \in {"running", "waiting"}
    BY <1>0, <1>2, <1>4 DEF Owners
  <2>5. QED
    BY <1>0, <1>2, <2>2, <2>3, <2>4 DEF Owners
<1>10. QED
  BY <1>5, <1>6, <1>7, <1>8, <1>9 DEF IInv

\* What Launch leaves behind, given managers it may start from.
LEMMA LaunchStep ==
  ASSUME IInv, NEW v \in Inst, NEW b \in [Inst -> Manager],
         \A i \in Inst : PoolOK(b[i], phase), NEW sh \in SUBSET Req,
         Launch(v, b, sh), UNCHANGED <<phase>>,
         sh # {} => Mode = "livereshard" /\ phase = "balloon"
  PROVE  /\ bm' \in [Inst -> Manager] /\ Pools'
         /\ \A i \in Inst : bm'[i].block_table = b[i].block_table
         /\ step' \in [Inst -> Step]
         /\ \A u \in Inst \ {v} : step'[u] = step[u]
         /\ step'[v].shard = sh
         /\ sh # {} => step'[v].pc = "pipe"
         /\ step'[v].moved # {} => step'[v].pc = "pipe" /\ phase = "restore"
         /\ step'[v].moved \subseteq step'[v].pipe
         /\ step'[v].pc # "idle"
<1> DEFINE batch == Scheduled(Running(v) \ sh)
           pipe  == {r \in batch : req[r].fx}
           repl  == batch \ pipe
<1>1. PICK take \in Restorable(v, b, pipe) :
        /\ bm' = [b EXCEPT ![v].free_gpu = @ \ take[2]]
        /\ step' = [step EXCEPT ![v] =
             [NoStep EXCEPT
                !.pc = IF pipe \cup sh # {} THEN "pipe"
                       ELSE IF repl # {} /\ ~ Fused THEN "repl" ELSE "grow",
                !.pipe = pipe, !.repl = IF Fused THEN {} ELSE repl,
                !.shard = sh, !.moved = take[1], !.fresh = take[2]]]
  BY DEF Launch
<1>2. batch \subseteq Req /\ pipe \subseteq Req /\ repl \subseteq Req
  BY DEF Scheduled, Running
<1>3. b[v] \in Manager /\ b[v].free_gpu \subseteq Pipeline /\ b \in [Inst -> Manager]
  BY DEF Manager
<1>4. /\ take[1] \in SUBSET Req /\ take[2] \in SUBSET Pipeline
      /\ take[1] # {} => phase = "restore" /\ pipe # {}
      /\ take[1] \subseteq pipe
  <2>1. CASE phase # "restore" \/ pipe = {}
    <3>1. take = <<{}, {}>>
      BY <2>1, <1>1 DEF Restorable
    <3>2. QED
      BY <3>1
  <2>2. CASE phase = "restore" /\ pipe # {}
    <3> DEFINE c(r) == Held(b[v], r) \in 1 .. Cardinality(b[v].free_gpu)
               T(r) == {<<{r}, S>> : S \in kSubset(Held(b[v], r), b[v].free_gpu)}
    <3>1. take \in UNION {IF c(r) THEN T(r) ELSE {<<{}, {}>>} : r \in pipe}
      BY <2>2, <1>1 DEF Restorable
    <3>2. PICK r \in pipe : take \in IF c(r) THEN T(r) ELSE {<<{}, {}>>}
      BY <3>1
    <3>3. CASE c(r)
      <4>1. PICK S \in kSubset(Held(b[v], r), b[v].free_gpu) : take = <<{r}, S>>
        BY <3>2, <3>3
      <4>2. S \subseteq b[v].free_gpu
        BY DEF kSubset
      <4>3. QED
        BY <2>2, <4>1, <4>2, <1>2, <1>3
    <3>4. CASE ~ c(r)
      <4>1. take = <<{}, {}>>
        BY <3>2, <3>4
      <4>2. QED
        BY <4>1
    <3>5. QED
      BY <3>3, <3>4
  <2>3. QED
    BY <2>1, <2>2
<1> DEFINE st == [NoStep EXCEPT
                !.pc = IF pipe \cup sh # {} THEN "pipe"
                       ELSE IF repl # {} /\ ~ Fused THEN "repl" ELSE "grow",
                !.pipe = pipe, !.repl = IF Fused THEN {} ELSE repl,
                !.shard = sh, !.moved = take[1], !.fresh = take[2]]
<1>5. /\ st \in Step
      /\ st.shard = sh /\ st.moved = take[1] /\ st.pipe = pipe
      /\ pipe \cup sh # {} => st.pc = "pipe"
      /\ st.pc # "idle"
  BY <1>2, <1>4 DEF NoStep, Step, Pc
<1>6. step \in [Inst -> Step] /\ step' = [step EXCEPT ![v] = st]
  BY <1>1 DEF IInv, TypeOK
<1> HIDE DEF st
<1>7. /\ step' \in [Inst -> Step] /\ step'[v] = st
      /\ \A u \in Inst \ {v} : step'[u] = step[u]
  BY <1>5, <1>6
<1>8. /\ bm'[v] = [b[v] EXCEPT !.free_gpu = @ \ take[2]]
      /\ \A i \in Inst \ {v} : bm'[i] = b[i]
      /\ DOMAIN bm' = Inst /\ bm' = [i \in Inst |-> bm'[i]]
  BY <1>1, <1>3
<1>9. /\ bm'[v] \in Manager /\ bm'[v].block_table = b[v].block_table
      /\ PoolOK(bm'[v], phase)
  <2>1. PoolOK(b[v], phase)
    OBVIOUS
  <2>2. bm'[v] \in Manager
    BY <1>3, <1>8 DEF Manager
  <2>3. /\ bm'[v].block_table = b[v].block_table
        /\ bm'[v].free_extend = b[v].free_extend /\ bm'[v].max_extend = b[v].max_extend
        /\ bm'[v].is_fusion_state = b[v].is_fusion_state
        /\ bm'[v].max_gpu = b[v].max_gpu /\ bm'[v].max_reserved = b[v].max_reserved
        /\ bm'[v].max_fusion = b[v].max_fusion /\ bm'[v].free_fusion = b[v].free_fusion
    BY <1>3, <1>8 DEF Manager
  <2>4. QED
    BY <2>1, <2>2, <2>3 DEF PoolOK, ExtendCounted, Loan, Counted
<1>10. \A i \in Inst : PoolOK(bm'[i], phase) /\ bm'[i] \in Manager
                         /\ bm'[i].block_table = b[i].block_table
  BY <1>3, <1>8, <1>9
<1>11. QED
  BY <1>4, <1>5, <1>7, <1>8, <1>10 DEF Pools

-----------------------------------------------------------------------------
(* What the actions that stay in a phase have in common.                   *)

\* The coroutine of one virtual engine changes.
LEMMA ControlKept ==
  ASSUME IInv, NEW v \in Inst,
         UNCHANGED <<phase, stopped, remaining>>,
         \A u \in Inst : resharding'[u] => resharding[u],
         phase = "handling" => UNCHANGED step,
         \A u \in Inst \ {v} : step'[u] = step[u],
         step'[v].shard # {} => /\ step'[v].pc = "pipe"
                                /\ Mode = "livereshard" /\ phase = "balloon",
         step'[v].moved # {} => /\ step'[v].pc = "pipe"
                                /\ phase \in {"restore", "stopping_init"},
         step'[v].moved \subseteq step'[v].pipe
  PROVE  Control'
<1>1. Control
  BY DEF IInv
<1>2. phase = "handling" => AllIdle'
  BY <1>1 DEF Control, AllIdle, Idle
<1>3. ASSUME NEW u \in Inst
      PROVE  /\ resharding'[u] => Mode = "livereshard" /\ phase \in {"handling", "balloon"}
             /\ step'[u].shard # {} => /\ step'[u].pc = "pipe"
                                       /\ Mode = "livereshard" /\ phase = "balloon"
             /\ step'[u].moved # {} => /\ step'[u].pc = "pipe"
                                       /\ phase \in {"restore", "stopping_init"}
             /\ step'[u].moved \subseteq step'[u].pipe
  BY <1>1 DEF Control
<1>4. QED
  BY <1>1, <1>2, <1>3 DEF Control

\* Requests change their mark or their home only when they are not being
\* exchanged, and never become pipeline requests in a group that is apart.
RequestsOK ==
  \A s \in Req :
    \/ req'[s].q = req[s].q /\ req'[s].fx = req[s].fx /\ req'[s].home = req[s].home
    \/ /\ s \notin remaining \cup Sharding
       /\ ~ (/\ phase \in InitialPhases \cup {"stopping_init"}
             /\ req'[s].q = "running" /\ req'[s].fx)

\* Nothing new is exchanged, and what is exchanged gets no extended blocks
\* at home.
ExchangesOK ==
  /\ remaining' \subseteq remaining
  /\ \A u \in Inst : step'[u].shard \subseteq step[u].shard
  /\ \A s \in remaining' \cup Sharding, i \in Inst :
       Extend \cap bm'[i].block_table[s] \subseteq bm[i].block_table[s]

LEMMA MarkedKept ==
  ASSUME IInv, RequestsOK, ExchangesOK, UNCHANGED phase
  PROVE  Marked'
<1>1. Marked /\ remaining \in SUBSET Req /\ \A u \in Inst : step[u].shard \subseteq Req
  BY DEF IInv, TypeOK, Step
<1>2. ASSUME phase \in InitialPhases \cup {"stopping_init"}, NEW r \in Req,
             req'[r].q = "running"
      PROVE  ~ req'[r].fx
  BY <1>1, <1>2 DEF Marked, RequestsOK
<1>3. ASSUME NEW r \in remaining' PROVE req'[r].q = "running" /\ req'[r].fx
  BY <1>1 DEF Marked, RequestsOK, ExchangesOK
<1>4. ASSUME NEW u \in Inst, NEW r \in step'[u].shard
      PROVE  req'[r].q = "waiting" /\ req'[r].fx
  <2>1. r \in step[u].shard /\ r \in Sharding /\ r \in Req
    BY <1>1 DEF ExchangesOK, Sharding
  <2>2. QED
    BY <1>1, <2>1 DEF Marked, RequestsOK
<1>5. QED
  BY <1>2, <1>3, <1>4 DEF Marked

LEMMA OwnersKept ==
  ASSUME IInv, RequestsOK, ExchangesOK, Right(bm)'
  PROVE  Owners'
<1>1. /\ Owners /\ remaining \in SUBSET Req
      /\ \A u \in Inst : step[u].shard \subseteq Req
      /\ \A s \in Req : req[s].home \in Inst
  BY DEF IInv, TypeOK, Step, Request
<1>2. ASSUME NEW i \in Inst, NEW r \in Req, Extend \cap bm'[i].block_table[r] # {}
      PROVE  req'[r].fx /\ req'[r].q \in {"running", "waiting"}
  BY <1>2 DEF Right
<1>3. ASSUME NEW r \in remaining' \cup Sharding, Local0(bm, r) PROVE Local0(bm, r)'
  <2>1. r \in Req /\ r \in remaining \cup Sharding
    BY <1>1 DEF ExchangesOK, Sharding
  <2>2. req'[r].home = req[r].home /\ req[r].home \in Inst
    BY <1>1, <2>1 DEF RequestsOK
  <2>3. Extend \cap bm'[req[r].home].block_table[r] \subseteq
          bm[req[r].home].block_table[r]
    BY <2>2 DEF ExchangesOK
  <2>4. QED
    BY <1>3, <2>2, <2>3 DEF Local0
<1>4. ASSUME NEW r \in remaining' PROVE Local0(bm, r)'
  BY <1>1, <1>3 DEF Owners, ExchangesOK
<1>5. ASSUME NEW u \in Inst, NEW r \in step'[u].shard PROVE Local0(bm, r)'
  <2>1. r \in step[u].shard /\ r \in Sharding
    BY DEF ExchangesOK, Sharding
  <2>2. QED
    BY <1>1, <1>3, <2>1 DEF Owners
<1>6. QED
  BY <1>2, <1>4, <1>5 DEF Owners

\* SetPc away from the workers.
LEMMA SetPcStep ==
  ASSUME IInv, NEW v \in Inst, NEW pc \in Pc, pc # "pipe",
         step[v].pc # "pipe", SetPc(v, pc)
  PROVE  /\ step' \in [Inst -> Step]
         /\ \A u \in Inst \ {v} : step'[u] = step[u]
         /\ step'[v].shard = {} /\ step'[v].moved = {}
         /\ \A u \in Inst : step'[u].shard = step[u].shard
<1>1. /\ step \in [Inst -> Step]
      /\ step[v].shard = {} /\ step[v].moved = {}
  BY DEF IInv, TypeOK, Control
<1>2. CASE pc = "idle"
  <2>1. step' = [step EXCEPT ![v] = NoStep]
    BY <1>1, <1>2 DEF SetPc
  <2>2. NoStep \in Step /\ NoStep.shard = {} /\ NoStep.moved = {}
    BY DEF NoStep, Step, Pc
  <2>3. QED
    BY <1>1, <2>1, <2>2
<1>3. CASE pc # "idle"
  <2>1. step' = [step EXCEPT ![v] = [step[v] EXCEPT !.pc = pc]]
    BY <1>1, <1>3 DEF SetPc
  <2>2. step[v] \in Step
    BY <1>1
  <2>3. /\ [step[v] EXCEPT !.pc = pc] \in Step
        /\ [step[v] EXCEPT !.pc = pc].shard = step[v].shard
        /\ [step[v] EXCEPT !.pc = pc].moved = step[v].moved
    BY <2>2 DEF Step
  <2>4. QED
    BY <1>1, <2>1, <2>3
<1>4. QED
  BY <1>2, <1>3

LEMMA NotExchanged ==
  ASSUME IInv, NEW r \in Req
  PROVE  /\ req[r].q # "waiting" => r \notin Sharding
         /\ req[r].q # "running" \/ ~ req[r].fx => r \notin remaining
         /\ phase # "balloon" => Sharding = {}
  BY DEF IInv, Marked, Control, Sharding

-----------------------------------------------------------------------------
(* The steps of _get_next_batch.                                           *)

LEMMA PcStep ==
  ASSUME IInv, NEW v \in Inst, NEW pc \in Pc, pc # "pipe",
         step[v].pc \notin {"pipe", "idle"}, SetPc(v, pc),
         UNCHANGED <<phase, bm, req, stopped, resharding, remaining>>
  PROVE  IInv'
<1>1. /\ step' \in [Inst -> Step]
      /\ \A u \in Inst \ {v} : step'[u] = step[u]
      /\ step'[v].shard = {} /\ step'[v].moved = {}
      /\ \A u \in Inst : step'[u].shard = step[u].shard
  BY SetPcStep
<1>2. TypeOK'
  BY <1>1 DEF IInv, TypeOK
<1>3. phase # "handling"
  BY Serving
<1>4. Control'
  <2>1. /\ step'[v].shard # {} => /\ step'[v].pc = "pipe"
                                /\ Mode = "livereshard" /\ phase = "balloon"
        /\ step'[v].moved # {} => /\ step'[v].pc = "pipe"
                                /\ phase \in {"restore", "stopping_init"}
        /\ step'[v].moved \subseteq step'[v].pipe
    BY <1>1
  <2>2. QED
    BY <1>1, <1>3, <2>1, ControlKept
<1>5. RequestsOK /\ ExchangesOK
  BY <1>1 DEF RequestsOK, ExchangesOK
<1>6. Pools' /\ Right(bm)'
  BY RightNow DEF IInv, Pools, Right
<1>7. Marked' /\ Owners'
  BY <1>5, <1>6, MarkedKept, OwnersKept
<1>8. QED
  BY <1>2, <1>4, <1>6, <1>7 DEF IInv

LEMMA NextStoppedStep ==
  ASSUME IInv, NEW v \in Inst, NextStopped(v)
  PROVE  IInv'
<1>1. step[v].pc = "grow" /\ SetPc(v, "idle") /\ "idle" \in Pc
  BY DEF NextStopped, Pc
<1>2. QED
  BY <1>1, PcStep DEF NextStopped

LEMMA GrownStep ==
  ASSUME IInv, NEW v \in Inst, Grown(v)
  PROVE  IInv'
<1> DEFINE pc == IF Adoptable(v) # {} THEN "adopt"
                 ELSE IF Queued(v) # {} THEN "dispatch" ELSE "idle"
<1>1. step[v].pc = "grow" /\ SetPc(v, pc)
  BY DEF Grown, Growing
<1>2. pc \in Pc /\ pc # "pipe"
  BY DEF Pc
<1> HIDE DEF pc
<1>3. QED
  BY <1>1, <1>2, PcStep DEF Grown

\* What is being exchanged owns what it owned.
ExchangedKeep(b, c) ==
  \A s \in remaining \cup Sharding, i \in Inst :
    c[i].block_table[s] = b[i].block_table[s]

LEMMA OthersExchanged ==
  ASSUME IInv, NEW r \in Req, req[r].q = "running", r \notin remaining,
         NEW b, NEW c, OthersKeep(b, c, r)
  PROVE  ExchangedKeep(b, c)
<1>1. r \notin remaining \cup Sharding
  BY NotExchanged
<1>2. \A s \in remaining \cup Sharding : s \in Req \ {r}
  BY <1>1 DEF IInv, TypeOK, Sharding, Step
<1>3. QED
  BY <1>2 DEF OthersKeep, ExchangedKeep

\* One request of the group changes, the coroutines stay where they are.
LEMMA OneRequest ==
  ASSUME IInv, NEW r \in Req, req[r].q = "running", r \notin remaining,
         NEW q \in Request, req' = [req EXCEPT ![r] = q], q.q # "running",
         bm' \in [Inst -> Manager], Right(bm'), ExchangedKeep(bm, bm'),
         \A i \in Inst : Extend \cap bm'[i].block_table[r] = {},
         UNCHANGED <<phase, stopped, step, resharding, remaining>>
  PROVE  IInv'
<1>1. req \in [Req -> Request] /\ step \in [Inst -> Step] /\ remaining \in SUBSET Req
  BY DEF IInv, TypeOK
<1>2. /\ req' \in [Req -> Request] /\ req'[r] = q
      /\ \A s \in Req \ {r} : req'[s] = req[s]
  BY <1>1
<1>3. TypeOK'
  BY <1>2 DEF IInv, TypeOK
<1>4. Control'
  BY DEF IInv, Control, AllIdle, Idle
<1>5. r \notin remaining \cup Sharding
  BY NotExchanged
<1>6. RequestsOK
  BY <1>2, <1>5 DEF RequestsOK
<1>7. ExchangesOK
  BY DEF ExchangesOK, ExchangedKeep
<1>8. Pools'
  BY DEF Right, Pools
<1>9. Right(bm)'
  <2>1. ASSUME NEW i \in Inst, NEW s \in Req, Extend \cap bm'[i].block_table[s] # {}
        PROVE  req'[s].fx /\ req'[s].q \in {"running", "waiting"}
    BY <1>2, <2>1 DEF Right
  <2>2. QED
    BY <2>1 DEF Right
<1>10. Marked' /\ Owners'
  BY <1>6, <1>7, <1>9, MarkedKept, OwnersKept
<1>11. QED
  BY <1>3, <1>4, <1>8, <1>10 DEF IInv

\* Releasing r from everywhere it may be leaves it no extended block.
LEMMA FreeEverywhere ==
  ASSUME IInv, NEW r \in Req, req[r].q = "running",
         NEW b, Right(b), NEW c \in OneEach(FreeOn(b, r, Where(r)))
  PROVE  /\ Right(c) /\ c \in [Inst -> Manager] /\ OthersKeep(b, c, r)
         /\ \A i \in Inst : Extend \cap c[i].block_table[r] = {}
<1>1. TypeOK /\ Marked /\ req[r].home \in Inst
  BY DEF IInv, TypeOK, Request
<1>2. Where(r) \in SUBSET Inst /\ (req[r].fx => Where(r) = Inst)
  BY <1>1 DEF Where
<1>3. /\ Right(c) /\ OthersKeep(b, c, r)
      /\ \A i \in Where(r) : c[i].block_table[r] = {}
  BY <1>1, <1>2, FreeManagers
<1>4. ASSUME NEW i \in Inst PROVE Extend \cap c[i].block_table[r] = {}
  <2>1. CASE req[r].fx
    BY <1>2, <1>3, <2>1
  <2>2. CASE ~ req[r].fx
    BY <1>3, <2>2 DEF Right
  <2>3. QED
    BY <2>1, <2>2
<1>5. QED
  BY <1>3, <1>4 DEF Right

LEMMA FreeFinishedStep ==
  ASSUME IInv, NEW v \in Inst, NEW r \in Req, FreeFinished(v, r)
  PROVE  IInv'
<1> DEFINE q == [NewRequest EXCEPT !.q = "done"]
<1>1. step[v].pc = "grow" /\ req[r].q = "running"
  BY DEF FreeFinished, Growing, Finished, Running
<1>2. remaining = {}
  BY <1>1, Serving
<1>3. q \in Request /\ q.q = "done"
  <2>1. 1 \in 1 .. MaxLen
    BY GroupAssumption
  <2>2. NewRequest \in Request
    BY <2>1, StageType DEF NewRequest, Request, Queue
  <2>3. QED
    BY <2>2 DEF Request, Queue
<1>4. req' = [req EXCEPT ![r] = q]
  BY DEF FreeFinished
<1> HIDE DEF q
<1>5. bm' \in OneEach(FreeOn(bm, r, Where(r)))
  BY DEF FreeFinished
<1>6. /\ Right(bm') /\ bm' \in [Inst -> Manager] /\ OthersKeep(bm, bm', r)
      /\ \A i \in Inst : Extend \cap bm'[i].block_table[r] = {}
  BY <1>1, <1>5, RightNow, FreeEverywhere
<1>7. UNCHANGED <<phase, stopped, step, resharding, remaining>>
  BY DEF FreeFinished
<1>8. ExchangedKeep(bm, bm')
  BY <1>1, <1>2, <1>6, OthersExchanged
<1>9. QED
  BY <1>1, <1>2, <1>3, <1>4, <1>6, <1>7, <1>8, OneRequest

LEMMA RecomputedType ==
  ASSUME TypeOK, NEW r \in Req
  PROVE  Recomputed(r) \in Request /\ Recomputed(r).q = "queued"
  BY StageType DEF TypeOK, Recomputed, Request, Queue

LEMMA RecomputeStaleStep ==
  ASSUME IInv, NEW r \in Req, RecomputeStale(r)
  PROVE  IInv'
<1>1. req[r].q = "running" /\ ~ req[r].fx /\ r \notin remaining
  BY NotExchanged DEF RecomputeStale
<1>2. Recomputed(r) \in Request /\ Recomputed(r).q = "queued"
  BY RecomputedType DEF IInv
<1>3. bm' \in OneEach(FreeOn(bm, r, Where(r)))
  BY DEF RecomputeStale
<1>4. /\ Right(bm') /\ bm' \in [Inst -> Manager] /\ OthersKeep(bm, bm', r)
      /\ \A i \in Inst : Extend \cap bm'[i].block_table[r] = {}
  BY <1>1, <1>3, RightNow, FreeEverywhere
<1>5. req' = [req EXCEPT ![r] = Recomputed(r)]
      /\ UNCHANGED <<phase, stopped, step, resharding, remaining>>
  BY DEF RecomputeStale
<1>6. ExchangedKeep(bm, bm')
  BY <1>1, <1>4, OthersExchanged
<1>7. QED
  BY <1>1, <1>2, <1>4, <1>5, <1>6, OneRequest

\* The blocks for r are allocated on some managers; the virtual engine goes
\* on or gives up.
LEMMA GrowSome ==
  ASSUME IInv, NEW v \in Inst, NEW r \in Req, req[r].q = "running",
         step[v].pc = "grow", NEW Is \in SUBSET Inst,
         bm' \in OneEach(AllocateOn(bm, r, Is)),
         UNCHANGED step \/ SetPc(v, "idle"),
         UNCHANGED <<phase, req, stopped, resharding, remaining>>
  PROVE  IInv'
<1>1. TypeOK /\ remaining = {} /\ phase # "handling" /\ step \in [Inst -> Step]
  BY Serving DEF IInv, TypeOK
<1>2. Right(bm') /\ OthersKeep(bm, bm', r)
  BY <1>1, RightNow, AllocateManagers
<1>3. /\ step' \in [Inst -> Step]
      /\ \A u \in Inst \ {v} : step'[u] = step[u]
      /\ step'[v].shard = {} /\ step'[v].moved = {}
      /\ \A u \in Inst : step'[u].shard = step[u].shard
  <2>1. CASE UNCHANGED step
    BY <1>1, <2>1 DEF IInv, Control
  <2>2. CASE SetPc(v, "idle")
    <3>1. "idle" \in Pc
      BY DEF Pc
    <3>2. QED
      BY <2>2, <3>1, SetPcStep
  <2>3. QED
    BY <2>1, <2>2
<1>4. TypeOK'
  BY <1>1, <1>2, <1>3 DEF TypeOK, Right
<1>5. Control'
  <2>1. /\ step'[v].shard # {} => /\ step'[v].pc = "pipe"
                                  /\ Mode = "livereshard" /\ phase = "balloon"
        /\ step'[v].moved # {} => /\ step'[v].pc = "pipe"
                                  /\ phase \in {"restore", "stopping_init"}
        /\ step'[v].moved \subseteq step'[v].pipe
    BY <1>3
  <2>2. QED
    BY <1>1, <1>3, <2>1, ControlKept
<1>6. RequestsOK /\ ExchangesOK
  <2>1. ExchangedKeep(bm, bm')
    BY <1>1, <1>2, OthersExchanged
  <2>2. QED
    BY <1>3, <2>1 DEF RequestsOK, ExchangesOK, ExchangedKeep
<1>7. Pools' /\ Right(bm)'
  BY <1>2 DEF Pools, Right
<1>8. Marked' /\ Owners'
  BY <1>6, <1>7, MarkedKept, OwnersKept
<1>9. QED
  BY <1>4, <1>5, <1>7, <1>8 DEF IInv

LEMMA GrowStep ==
  ASSUME IInv, NEW v \in Inst, NEW r \in Req, Grow(v, r)
  PROVE  IInv'
<1>1. step[v].pc = "grow" /\ req[r].q = "running"
  BY DEF Grow, Growing, Running
<1>2. Where(r) \in SUBSET Inst
  BY DEF IInv, TypeOK, Request, Where
<1>3. bm' \in OneEach(AllocateOn(bm, r, Where(r)))
      /\ UNCHANGED <<phase, req, stopped, step, resharding, remaining>>
  BY DEF Grow
<1>4. QED
  BY <1>1, <1>2, <1>3, GrowSome

LEMMA PreemptStep ==
  ASSUME IInv, NEW v \in Inst, NEW r \in Req, Preempt(v, r)
  PROVE  IInv'
<1> DEFINE fails == {i \in Where(r) : Allocate(bm[i], r, req[r].need, req[r].fx) = {}}
           first == CHOOSE i \in fails : \A j \in fails : i <= j
           Is    == {i \in Where(r) : i < first}
<1>1. step[v].pc = "grow" /\ req[r].q = "running"
  BY DEF Preempt, Growing, Running
<1>2. Is \in SUBSET Inst
  BY DEF IInv, TypeOK, Request, Where
<1>3. PICK b \in OneEach(AllocateOn(bm, r, Is)) :
           IF Victims(v, r) = {} THEN bm' = b /\ SetPc(v, "idle") /\ UNCHANGED req
           ELSE \E w \in Victims(v, r) :
                  /\ bm' \in OneEach(FreeOn(b, w, Where(w)))
                  /\ req' = [req EXCEPT ![w] = Recomputed(w)]
                  /\ UNCHANGED step
  BY DEF Preempt
<1>4. UNCHANGED <<phase, stopped, resharding, remaining>>
  BY DEF Preempt
<1> HIDE DEF Is
<1>5. CASE Victims(v, r) = {}
  BY <1>1, <1>2, <1>3, <1>4, <1>5, GrowSome
<1>6. CASE Victims(v, r) # {}
  <2>1. PICK w \in Victims(v, r) :
          /\ bm' \in OneEach(FreeOn(b, w, Where(w)))
          /\ req' = [req EXCEPT ![w] = Recomputed(w)]
          /\ UNCHANGED step
    BY <1>3, <1>6
  <2>2. w \in Req /\ req[w].q = "running"
    BY DEF Victims, Running
  <2>3. TypeOK /\ remaining = {}
    BY <1>1, Serving DEF IInv
  <2>4. Right(b) /\ OthersKeep(bm, b, r)
    BY <1>1, <1>2, <1>3, <2>3, RightNow, AllocateManagers
  <2>5. /\ Right(bm') /\ bm' \in [Inst -> Manager] /\ OthersKeep(b, bm', w)
        /\ \A i \in Inst : Extend \cap bm'[i].block_table[w] = {}
    BY <2>1, <2>2, <2>4, FreeEverywhere
  <2>6. ExchangedKeep(bm, bm')
    <3>1. ExchangedKeep(bm, b) /\ ExchangedKeep(b, bm')
      BY <1>1, <2>2, <2>3, <2>4, <2>5, OthersExchanged
    <3>2. QED
      BY <3>1 DEF ExchangedKeep
  <2>7. Recomputed(w) \in Request /\ Recomputed(w).q = "queued"
    BY <2>2, <2>3, RecomputedType
  <2>8. QED
    BY <1>4, <2>1, <2>2, <2>3, <2>5, <2>6, <2>7, OneRequest
<1>7. QED
  BY <1>5, <1>6

\* A request that is checked for the batch is marked with the format the
\* managers use; the coroutine goes on looking or is through.
LEMMA CheckStep ==
  ASSUME IInv, NEW v \in Inst, NEW r \in Req, r \notin Sharding,
         step[v].pc \in {"adopt", "dispatch"},
         NEW q \in {"running", "waiting", "queued"},
         req' = [req EXCEPT ![r] = Checked(r, v, q)],
         q = "queued" => \A i \in Inst : Extend \cap bm[i].block_table[r] = {},
         bm' \in [Inst -> Manager], Pools', OthersKeep(bm, bm', r),
         q = "queued" => bm' = bm,
         NEW pc \in Pc, pc # "pipe", SetPc(v, pc),
         UNCHANGED <<phase, stopped, resharding, remaining>>
  PROVE  IInv'
<1>1. /\ TypeOK /\ Owners /\ Pools /\ remaining = {} /\ phase # "handling"
      /\ req \in [Req -> Request] /\ step \in [Inst -> Step]
  BY Serving DEF IInv, TypeOK
<1>2. /\ step' \in [Inst -> Step]
      /\ \A u \in Inst \ {v} : step'[u] = step[u]
      /\ step'[v].shard = {} /\ step'[v].moved = {}
      /\ \A u \in Inst : step'[u].shard = step[u].shard
  BY SetPcStep
<1>3. Fused = (phase \in FusedPhases) /\ Fused \in BOOLEAN
  <2>1. PoolOK(bm[0], phase)
    BY <1>1, StageType DEF Pools
  <2>2. Fused = (phase \in FusedPhases)
    BY <2>1 DEF PoolOK, Fused
  <2>3. QED
    BY <2>2
<1>4. /\ Checked(r, v, q) \in Request
      /\ Checked(r, v, q).q = q /\ Checked(r, v, q).fx = Fused
  <2>1. req[r] \in Request /\ q \in Queue
    BY <1>1 DEF Queue
  <2>2. QED
    BY <1>3, <2>1 DEF Checked, Request
<1>5. /\ req' \in [Req -> Request]
      /\ req'[r].q = q /\ req'[r].fx = Fused
      /\ \A s \in Req \ {r} : req'[s] = req[s]
  BY <1>1, <1>4
<1>6. TypeOK'
  BY <1>1, <1>2, <1>5 DEF TypeOK
<1>7. Control'
  <2>1. /\ step'[v].shard # {} => /\ step'[v].pc = "pipe"
                                  /\ Mode = "livereshard" /\ phase = "balloon"
        /\ step'[v].moved # {} => /\ step'[v].pc = "pipe"
                                  /\ phase \in {"restore", "stopping_init"}
        /\ step'[v].moved \subseteq step'[v].pipe
    BY <1>2
  <2>2. QED
    BY <1>1, <1>2, <2>1, ControlKept
<1>8. RequestsOK
  <2>1. phase \in InitialPhases \cup {"stopping_init"} => ~ Fused
    BY <1>3 DEF InitialPhases, FusedPhases
  <2>2. QED
    BY <1>1, <1>5, <2>1 DEF RequestsOK
<1>9. ExchangesOK
  <2>1. \A s \in Sharding : s \in Req \ {r}
    BY <1>1 DEF Sharding, Step
  <2>2. QED
    BY <1>1, <1>2, <2>1 DEF ExchangesOK, OthersKeep
<1>10. Right(bm)'
  <2>1. ASSUME NEW i \in Inst, NEW s \in Req, Extend \cap bm'[i].block_table[s] # {}
        PROVE  req'[s].fx /\ req'[s].q \in {"running", "waiting"}
    <3>1. CASE s # r
      BY <1>1, <1>5, <2>1, <3>1 DEF Owners, OthersKeep
    <3>2. CASE s = r
      <4>1. q # "queued"
        BY <2>1, <3>2
      <4>2. Fused
        <5>1. PoolOK(bm'[i], phase)
          BY DEF Pools
        <5>2. bm'[i].max_extend # 0
          BY <2>1, <5>1, NoLoan
        <5>3. QED
          BY <1>3, <5>1, <5>2 DEF PoolOK, LoanPhases, FusedPhases
      <4>3. QED
        BY <1>5, <3>2, <4>1, <4>2
    <3>3. QED
      BY <3>1, <3>2
  <2>2. QED
    BY <2>1 DEF Right, Pools
<1>11. Marked' /\ Owners'
  BY <1>8, <1>9, <1>10, MarkedKept, OwnersKept
<1>12. QED
  BY <1>6, <1>7, <1>11 DEF IInv

LEMMA AdoptStep ==
  ASSUME IInv, NEW v \in Inst, NEW r \in Req, Adopt(v, r)
  PROVE  IInv'
<1>1. step[v].pc = "adopt" /\ r \notin Sharding
  BY DEF Adopt, Adoptable
<1>2. PICK fits \in BOOLEAN :
       /\ req' = [req EXCEPT ![r] = Checked(r, v, IF fits THEN "running" ELSE "waiting")]
       /\ SetPc(v, IF fits /\ Adoptable(v) # {r} THEN "adopt"
                   ELSE IF Queued(v) # {} THEN "dispatch" ELSE "idle")
  BY DEF Adopt
<1> DEFINE q  == IF fits THEN "running" ELSE "waiting"
           pc == IF fits /\ Adoptable(v) # {r} THEN "adopt"
                 ELSE IF Queued(v) # {} THEN "dispatch" ELSE "idle"
<1>3. q \in {"running", "waiting", "queued"} /\ q # "queued"
  OBVIOUS
<1>4. pc \in Pc /\ pc # "pipe"
  BY DEF Pc
<1>5. req' = [req EXCEPT ![r] = Checked(r, v, q)] /\ SetPc(v, pc)
  BY <1>2
<1>6. UNCHANGED <<phase, bm, stopped, resharding, remaining>>
  BY DEF Adopt
<1>7. bm' \in [Inst -> Manager] /\ Pools' /\ OthersKeep(bm, bm', r)
  BY <1>6 DEF IInv, TypeOK, Pools, OthersKeep
<1> HIDE DEF q, pc
<1>8. QED
  BY <1>1, <1>3, <1>4, <1>5, <1>6, <1>7, CheckStep

LEMMA RefuseStep ==
  ASSUME IInv, NEW v \in Inst, NEW r \in Req, Refuse(v, r)
  PROVE  IInv'
<1>1. step[v].pc = "dispatch" /\ req[r].q = "queued"
  BY DEF Refuse, Queued
<1>2. /\ req' = [req EXCEPT ![r] = Checked(r, v, "queued")] /\ SetPc(v, "idle")
      /\ UNCHANGED <<phase, bm, stopped, resharding, remaining>>
  BY DEF Refuse
<1>3. r \notin Sharding
  BY <1>1, NotExchanged
<1>4. \A i \in Inst : Extend \cap bm[i].block_table[r] = {}
  BY <1>1 DEF IInv, Owners
<1>5. bm' \in [Inst -> Manager] /\ Pools' /\ OthersKeep(bm, bm', r)
  BY <1>2 DEF IInv, TypeOK, Pools, OthersKeep
<1>6. "idle" \in Pc
  BY DEF Pc
<1>7. QED
  BY <1>1, <1>2, <1>3, <1>4, <1>5, <1>6, CheckStep

LEMMA AdmitStep ==
  ASSUME IInv, NEW v \in Inst, NEW r \in Req, Admit(v, r)
  PROVE  IInv'
<1>1. step[v].pc = "dispatch" /\ req[r].q = "queued"
  BY DEF Admit, Queued
<1> DEFINE rq == Checked(r, v, "running")
           M  == [i \in Inst |->
                    IF Fused \/ i = v THEN Allocate(bm[i], r, rq.need, rq.fx)
                    ELSE {bm[i]}]
<1>2. /\ req' = [req EXCEPT ![r] = Checked(r, v, "running")]
      /\ bm' \in OneEach(M)
  BY DEF Admit
<1>3. PICK more \in BOOLEAN :
        SetPc(v, IF more /\ Queued(v) # {r} THEN "dispatch" ELSE "idle")
  BY DEF Admit
<1> DEFINE pc == IF more /\ Queued(v) # {r} THEN "dispatch" ELSE "idle"
<1>4. pc \in Pc /\ pc # "pipe" /\ SetPc(v, pc)
  BY <1>3 DEF Pc
<1>5. UNCHANGED <<phase, stopped, resharding, remaining>>
  BY DEF Admit
<1>6. r \notin Sharding
  BY <1>1, NotExchanged
<1>7. rq.need \in Nat /\ rq.fx \in BOOLEAN
  <2>1. req[r] \in Request
    BY DEF IInv, TypeOK
  <2>2. rq.need = req[r].need /\ rq.fx = Fused
    BY <2>1 DEF Checked, Request
  <2>3. PoolOK(bm[0], phase)
    BY StageType DEF IInv, Pools
  <2>4. Fused \in BOOLEAN
    BY <2>3 DEF Fused, PoolOK, Manager
  <2>5. req[r].need \in Nat
    BY <2>1, GroupAssumption DEF Request
  <2>6. QED
    BY <2>2, <2>4, <2>5
<1> HIDE DEF rq, pc
<1>8. ASSUME NEW i \in Inst
      PROVE  /\ PoolOK(bm'[i], phase)
             /\ \A s \in Req \ {r} : bm'[i].block_table[s] = bm[i].block_table[s]
  <2>1. PoolOK(bm[i], phase)
    BY DEF IInv, Pools
  <2>2. bm'[i] \in M[i]
    BY <1>2, OneEachType
  <2>3. CASE Fused \/ i = v
    <3>1. bm'[i] \in Allocate(bm[i], r, rq.need, rq.fx)
      BY <2>2, <2>3
    <3>2. QED
      BY <1>7, <2>1, <3>1, AllocatePool
  <2>4. CASE ~ (Fused \/ i = v)
    BY <2>1, <2>2, <2>4
  <2>5. QED
    BY <2>3, <2>4
<1>9. bm' \in [Inst -> Manager] /\ Pools' /\ OthersKeep(bm, bm', r)
  <2>1. bm' = [i \in Inst |-> bm'[i]]
    BY <1>2, OneEachType
  <2>2. QED
    BY <1>5, <1>8, <2>1 DEF PoolOK, Pools, OthersKeep
<1> HIDE DEF M
<1>10. QED
  BY <1>1, <1>2, <1>4, <1>5, <1>6, <1>9, CheckStep

-----------------------------------------------------------------------------
(* The steps of _step.                                                     *)

LEMMA StartStepStep ==
  ASSUME IInv, NEW v \in Inst, StartStep(v)
  PROVE  IInv'
<1>1. /\ CanStart(v) /\ Launch(v, bm, {})
      /\ resharding' = [resharding EXCEPT ![v] = @ /\ Stale(v) # {}]
      /\ UNCHANGED <<phase, req, stopped, remaining>>
  BY DEF StartStep
<1>2. TypeOK /\ Owners /\ phase # "handling" /\ remaining = {}
      /\ resharding \in [Inst -> BOOLEAN]
  BY <1>1, Serving DEF IInv, TypeOK
<1>3. /\ bm' \in [Inst -> Manager] /\ Pools'
      /\ \A i \in Inst : bm'[i].block_table = bm[i].block_table
      /\ step' \in [Inst -> Step]
      /\ \A u \in Inst \ {v} : step'[u] = step[u]
      /\ step'[v].shard = {}
      /\ step'[v].moved # {} => step'[v].pc = "pipe" /\ phase = "restore"
      /\ step'[v].moved \subseteq step'[v].pipe
  <2>1. bm \in [Inst -> Manager] /\ \A i \in Inst : PoolOK(bm[i], phase)
    BY DEF IInv, TypeOK, Pools
  <2>2. QED
    BY <1>1, <2>1, LaunchStep
<1>4. /\ resharding' \in [Inst -> BOOLEAN]
      /\ \A u \in Inst : resharding'[u] => resharding[u]
  BY <1>1, <1>2
<1>5. TypeOK'
  BY <1>1, <1>2, <1>3, <1>4 DEF TypeOK
<1>6. Control'
  BY <1>1, <1>2, <1>3, <1>4, ControlKept
<1>7. RequestsOK /\ ExchangesOK
  BY <1>1, <1>2, <1>3 DEF RequestsOK, ExchangesOK, Sharding
<1>8. Right(bm)'
  BY <1>1, <1>2, <1>3 DEF Owners, Pools, Right
<1>9. Marked' /\ Owners'
  BY <1>1, <1>7, <1>8, MarkedKept, OwnersKept
<1>10. QED
  BY <1>3, <1>5, <1>6, <1>9 DEF IInv

LEMMA OnPeersStep ==
  ASSUME IInv, NEW r \in Req, NEW b \in OneEach(OnPeers(r))
  PROVE  /\ b \in [Inst -> Manager] /\ \A i \in Inst : PoolOK(b[i], phase)
         /\ OthersKeep(bm, b, r) /\ b[req[r].home] = bm[req[r].home]
<1>1. req[r].need \in Nat /\ req[r].fx \in BOOLEAN /\ req[r].home \in Inst
  BY GroupAssumption DEF IInv, TypeOK, Request
<1>2. ASSUME NEW i \in Inst
      PROVE  /\ PoolOK(b[i], phase)
             /\ \A s \in Req \ {r} : b[i].block_table[s] = bm[i].block_table[s]
             /\ i = req[r].home => b[i] = bm[i]
  <2>1. PoolOK(bm[i], phase)
    BY DEF IInv, Pools
  <2>2. b[i] \in OnPeers(r)[i]
    BY OneEachType
  <2>3. CASE i = req[r].home
    BY <2>1, <2>2, <2>3 DEF OnPeers
  <2>4. CASE i # req[r].home
    <3> DEFINE p == bm[i].is_fusion_state \/ req[r].fx
    <3>1. p \in BOOLEAN
      OBVIOUS
    <3>2. b[i] \in Allocate(bm[i], r, req[r].need, p)
      BY <2>2, <2>4 DEF OnPeers
    <3> HIDE DEF p
    <3>3. QED
      BY <1>1, <2>1, <2>4, <3>1, <3>2, AllocatePool
  <2>5. QED
    BY <2>3, <2>4
<1>3. b = [i \in Inst |-> b[i]]
  BY OneEachType
<1>4. QED
  BY <1>1, <1>2, <1>3 DEF PoolOK, OthersKeep

LEMMA StartReshardStep ==
  ASSUME IInv, NEW v \in Inst, NEW r \in Req, StartReshard(v, r)
  PROVE  IInv'
<1>1. PICK b \in OneEach(OnPeers(r)) : Launch(v, b, {r})
  BY DEF StartReshard
<1>2. /\ CanStart(v) /\ resharding[v] /\ req[r].q = "running" /\ ~ req[r].fx
      /\ req' = [req EXCEPT ![r].q = "waiting", ![r].fx = TRUE]
      /\ UNCHANGED <<phase, stopped, resharding, remaining>>
  BY DEF StartReshard, Stale, Running
<1>3. /\ TypeOK /\ Control /\ Marked /\ Owners /\ remaining = {}
      /\ phase = "balloon" /\ Mode = "livereshard"
      /\ req \in [Req -> Request] /\ step \in [Inst -> Step]
  BY <1>2, Serving DEF IInv, TypeOK, Control
<1>4. /\ b \in [Inst -> Manager] /\ \A i \in Inst : PoolOK(b[i], phase)
      /\ OthersKeep(bm, b, r) /\ b[req[r].home] = bm[req[r].home]
  BY <1>1, OnPeersStep
<1>5. /\ bm' \in [Inst -> Manager] /\ Pools'
      /\ \A i \in Inst : bm'[i].block_table = b[i].block_table
      /\ step' \in [Inst -> Step]
      /\ \A u \in Inst \ {v} : step'[u] = step[u]
      /\ step'[v].shard = {r} /\ step'[v].pc = "pipe"
      /\ step'[v].moved # {} => step'[v].pc = "pipe" /\ phase = "restore"
      /\ step'[v].moved \subseteq step'[v].pipe
  <2>1. {r} \in SUBSET Req
    OBVIOUS
  <2>2. UNCHANGED <<phase>> /\ ({r} # {} => Mode = "livereshard" /\ phase = "balloon")
    BY <1>2, <1>3
  <2> DEFINE sh == {r}
  <2>3. sh \in SUBSET Req /\ (sh # {} => Mode = "livereshard" /\ phase = "balloon")
        /\ Launch(v, b, sh) /\ r \in sh
    BY <1>1, <2>1, <2>2
  <2> HIDE DEF sh
  <2>4. /\ bm' \in [Inst -> Manager] /\ Pools'
        /\ \A i \in Inst : bm'[i].block_table = b[i].block_table
        /\ step' \in [Inst -> Step]
        /\ \A u \in Inst \ {v} : step'[u] = step[u]
        /\ step'[v].shard = sh /\ (sh # {} => step'[v].pc = "pipe")
        /\ step'[v].moved # {} => step'[v].pc = "pipe" /\ phase = "restore"
        /\ step'[v].moved \subseteq step'[v].pipe
    BY <1>4, <2>2, <2>3, LaunchStep
  <2>5. QED
    BY <2>3, <2>4 DEF sh
<1>6. /\ req' \in [Req -> Request]
      /\ req'[r].q = "waiting" /\ req'[r].fx /\ req'[r].home = req[r].home
      /\ req[r].home \in Inst
      /\ \A s \in Req \ {r} : req'[s] = req[s]
  BY <1>2, <1>3 DEF Request, Queue
<1>7. TypeOK'
  BY <1>2, <1>3, <1>5, <1>6 DEF TypeOK
<1>8. Control'
  BY <1>2, <1>3, <1>5, ControlKept
<1>9. \A u \in Inst \ {v} : r \notin step[u].shard /\ step[u].shard \subseteq Req
  BY <1>2, <1>3 DEF Marked, Step
<1>10. Marked'
  <2>1. phase \notin InitialPhases \cup {"stopping_init"}
    BY <1>3 DEF InitialPhases
  <2>2. ASSUME NEW u \in Inst, NEW s \in step'[u].shard
        PROVE  req'[s].q = "waiting" /\ req'[s].fx
    <3>1. CASE u = v
      BY <1>5, <1>6, <2>2, <3>1
    <3>2. CASE u # v
      <4>1. s \in step[u].shard /\ s \in Req \ {r}
        BY <1>5, <1>9, <2>2, <3>2
      <4>2. QED
        BY <1>3, <1>6, <4>1 DEF Marked
    <3>3. QED
      BY <3>1, <3>2
  <2>3. QED
    BY <1>2, <1>3, <2>1, <2>2 DEF Marked
<1>11. Owners'
  <2>1. ASSUME NEW i \in Inst, NEW s \in Req, Extend \cap bm'[i].block_table[s] # {}
        PROVE  req'[s].fx /\ req'[s].q \in {"running", "waiting"}
    <3>1. CASE s = r
      BY <1>6, <3>1
    <3>2. CASE s # r
      BY <1>3, <1>4, <1>5, <1>6, <2>1, <3>2 DEF Owners, OthersKeep
    <3>3. QED
      BY <3>1, <3>2
  <2>2. ASSUME NEW u \in Inst, NEW s \in step'[u].shard
        PROVE  Local0(bm, s)'
    <3>1. CASE u = v
      <4>1. s = r
        BY <1>5, <2>2, <3>1
      <4>2. Extend \cap bm[req[r].home].block_table[r] = {}
        BY <1>2, <1>3, <1>6 DEF Owners
      <4>3. bm'[req[r].home].block_table = bm[req[r].home].block_table
        BY <1>4, <1>5, <1>6
      <4>4. QED
        BY <1>6, <4>1, <4>2, <4>3 DEF Local0
    <3>2. CASE u # v
      <4>1. s \in step[u].shard /\ s \in Req \ {r}
        BY <1>5, <1>9, <2>2, <3>2
      <4>2. Local0(bm, s) /\ req'[s].home = req[s].home /\ req[s].home \in Inst
        BY <1>3, <1>6, <4>1 DEF Owners, Request
      <4>3. bm'[req[s].home].block_table[s] = bm[req[s].home].block_table[s]
        BY <1>4, <1>5, <4>1, <4>2 DEF OthersKeep
      <4>4. QED
        BY <4>2, <4>3 DEF Local0
    <3>3. QED
      BY <3>1, <3>2
  <2>3. QED
    BY <1>2, <1>3, <2>1, <2>2 DEF Owners
<1>12. QED
  BY <1>5, <1>7, <1>8, <1>10, <1>11 DEF IInv

\* The home instance of a request keeps its own part of the blocks.
LEMMA ExchangeHome ==
  ASSUME IInv, phase \in FusedPhases, NEW r \in Req, NEW b \in [Inst -> Manager],
         \A i \in Inst : PoolOK(b[i], phase), Local0(b, r),
         NEW c, c = [b EXCEPT ![req[r].home] = FreeIntoFusionExcept(@, r, req[r].home)]
  PROVE  /\ c \in [Inst -> Manager] /\ \A i \in Inst : PoolOK(c[i], phase)
         /\ OthersKeep(b, c, r) /\ Local0(c, r)
         /\ \A i \in Inst \ {req[r].home} : c[i] = b[i]
<1> DEFINE h == req[r].home
<1>1. h \in Inst /\ Inst = Stage
  BY StageType DEF IInv, TypeOK, Request
<1>2. /\ c[h] = FreeIntoFusionExcept(b[h], r, h)
      /\ \A i \in Inst \ {h} : c[i] = b[i]
      /\ c = [i \in Inst |-> c[i]]
  BY <1>1
<1>3. PoolOK(b[h], phase) /\ Extend \cap b[h].block_table[r] = {}
  BY <1>1 DEF Local0
<1>4. /\ b[h] \in Manager /\ b[h].is_fusion_state
      /\ ExtendCounted(b[h]) /\ Counted(b[h])
  BY <1>3 DEF PoolOK
<1>5. /\ c[h] \in Manager /\ Keeps(b[h], c[h], r)
      /\ Extend \cap c[h].block_table[r] = {}
      /\ ExtendCounted(c[h]) /\ Counted(c[h])
  BY <1>1, <1>2, <1>3, <1>4, FreeIntoFusionExceptStep
<1>6. PoolOK(c[h], phase)
  BY <1>3, <1>5 DEF PoolOK, Keeps, FusedPhases, InitialPhases
<1>7. \A i \in Inst : PoolOK(c[i], phase)
  BY <1>2, <1>6
<1>8. c \in [Inst -> Manager]
  BY <1>2, <1>7 DEF PoolOK
<1>9. OthersKeep(b, c, r)
  BY <1>2, <1>5 DEF OthersKeep, Keeps
<1>10. QED
  BY <1>2, <1>5, <1>7, <1>8, <1>9 DEF Local0

LEMMA FinishReshardStep ==
  ASSUME IInv, NEW v \in Inst, FinishReshard(v)
  PROVE  IInv'
<1>1. PICK r \in step[v].shard :
        bm' = [bm EXCEPT ![req[r].home] = FreeIntoFusionExcept(@, r, req[r].home)]
  BY DEF FinishReshard
<1>2. /\ step' = [step EXCEPT ![v].shard = {}]
      /\ UNCHANGED <<phase, req, stopped, resharding, remaining>>
  BY DEF FinishReshard
<1>3. /\ TypeOK /\ Control /\ Owners /\ Pools /\ step \in [Inst -> Step]
      /\ r \in Req /\ r \in Sharding
      /\ phase = "balloon" /\ phase \in FusedPhases
      /\ bm \in [Inst -> Manager] /\ \A i \in Inst : PoolOK(bm[i], phase)
      /\ Local0(bm, r)
  BY DEF IInv, TypeOK, Step, Control, Pools, Owners, Sharding, FusedPhases
<1>4. /\ bm' \in [Inst -> Manager] /\ \A i \in Inst : PoolOK(bm'[i], phase)
      /\ OthersKeep(bm, bm', r) /\ Local0(bm', r)
      /\ \A i \in Inst \ {req[r].home} : bm'[i] = bm[i]
  BY <1>1, <1>3, ExchangeHome
<1>5. /\ step' \in [Inst -> Step]
      /\ \A u \in Inst \ {v} : step'[u] = step[u]
      /\ step'[v].shard = {}
      /\ step'[v].pc = step[v].pc /\ step'[v].moved = step[v].moved
      /\ step'[v].pipe = step[v].pipe
  <2>1. step' = [step EXCEPT ![v] = [step[v] EXCEPT !.shard = {}]]
    BY <1>2, <1>3
  <2>2. [step[v] EXCEPT !.shard = {}] \in Step
    BY <1>3 DEF Step
  <2>3. QED
    BY <1>3, <2>1, <2>2 DEF Step
<1>6. TypeOK'
  BY <1>2, <1>3, <1>4, <1>5 DEF TypeOK
<1>7. Control'
  <2>1. /\ step'[v].moved # {} => /\ step'[v].pc = "pipe"
                                  /\ phase \in {"restore", "stopping_init"}
        /\ step'[v].moved \subseteq step'[v].pipe
    BY <1>3, <1>5 DEF Control
  <2>2. QED
    BY <1>2, <1>3, <1>5, <2>1, ControlKept
<1>8. ASSUME NEW s \in Req, NEW i \in Inst
      PROVE  Extend \cap bm'[i].block_table[s] \subseteq bm[i].block_table[s]
  <2>1. CASE s = r /\ i = req[r].home
    BY <1>4, <2>1 DEF Local0
  <2>2. CASE s # r \/ i # req[r].home
    BY <1>4, <2>2 DEF OthersKeep
  <2>3. QED
    BY <2>1, <2>2
<1>9. RequestsOK /\ ExchangesOK
  <2>1. \A s \in remaining \cup Sharding : s \in Req
    BY <1>3 DEF TypeOK, Sharding, Step
  <2>2. \A u \in Inst : step'[u].shard \subseteq step[u].shard
    BY <1>5
  <2>3. QED
    BY <1>2, <1>8, <2>1, <2>2 DEF RequestsOK, ExchangesOK
<1>10. Pools' /\ Right(bm)'
  <2>1. ASSUME NEW i \in Inst, NEW s \in Req, Extend \cap bm'[i].block_table[s] # {}
        PROVE  req'[s].fx /\ req'[s].q \in {"running", "waiting"}
    <3>1. Extend \cap bm[i].block_table[s] # {}
      BY <1>8, <2>1
    <3>2. QED
      BY <1>2, <1>3, <3>1 DEF Owners
  <2>2. QED
    BY <1>2, <1>4, <2>1 DEF Pools, Right
<1>11. Marked' /\ Owners'
  BY <1>2, <1>9, <1>10, MarkedKept, OwnersKept
<1>12. QED
  BY <1>6, <1>7, <1>10, <1>11 DEF IInv

\* finish_one_iteration changes neither the queue nor the marks.
LEMMA AdvanceStep ==
  ASSUME TypeOK, NEW S \in SUBSET Req, NEW g \in Advanced(S), NEW r \in S
  PROVE  /\ g[r] \in Request
         /\ g[r].q = req[r].q /\ g[r].fx = req[r].fx /\ g[r].home = req[r].home
<1>1. g[r] \in Advance(req[r]) /\ req[r] \in Request
  BY DEF Advanced, TypeOK
<1>2. CASE g[r] = req[r]
  BY <1>1, <1>2
<1>3. CASE g[r] # req[r]
  <2> DEFINE q  == req[r]
             ns == {q.need, q.need + 1} \cap (1 .. MaxLen)
             fs == {q.finished, TRUE}
  <2>1. g[r] \in UNION {{[q EXCEPT !.ctx = FALSE, !.need = n, !.finished = f] :
                           f \in fs} : n \in ns}
    BY <1>1, <1>3 DEF Advance
  <2>2. ns \subseteq 1 .. MaxLen /\ fs \subseteq BOOLEAN /\ q \in Request
    BY <1>1 DEF Request
  <2> HIDE DEF q, ns, fs
  <2>3. PICK n \in ns, f \in fs :
          g[r] = [q EXCEPT !.ctx = FALSE, !.need = n, !.finished = f]
    BY <2>1
  <2>4. n \in 1 .. MaxLen /\ f \in BOOLEAN
    BY <2>2
  <2>5. QED
    BY <2>2, <2>3, <2>4 DEF Request, q
<1>4. QED
  BY <1>2, <1>3

LEMMA EndReplStep ==
  ASSUME IInv, NEW v \in Inst, EndRepl(v)
  PROVE  IInv'
<1>1. PICK g \in Advanced(step[v].repl) :
        req' = [r \in Req |-> IF r \in step[v].repl THEN g[r] ELSE req[r]]
  BY DEF EndRepl
<1>2. /\ step[v].pc = "repl" /\ step' = [step EXCEPT ![v] = [NoStep EXCEPT !.pc = "grow"]]
      /\ UNCHANGED <<phase, bm, stopped, resharding, remaining>>
  BY DEF EndRepl
<1>3. /\ TypeOK /\ remaining = {} /\ phase # "handling" /\ step \in [Inst -> Step]
      /\ step[v].repl \in SUBSET Req /\ req \in [Req -> Request]
  BY <1>2, Serving DEF IInv, TypeOK, Step
<1>4. \A s \in Req : /\ req'[s] \in Request
                     /\ req'[s].q = req[s].q /\ req'[s].fx = req[s].fx
                     /\ req'[s].home = req[s].home
  BY <1>1, <1>3, AdvanceStep
<1>5. /\ step' \in [Inst -> Step]
      /\ \A u \in Inst \ {v} : step'[u] = step[u]
      /\ step'[v].shard = {} /\ step'[v].moved = {}
  <2>1. [NoStep EXCEPT !.pc = "grow"] \in Step
    BY DEF NoStep, Step, Pc
  <2>2. QED
    BY <1>2, <1>3, <2>1 DEF NoStep
<1>6. TypeOK'
  <2>1. req' \in [Req -> Request]
    BY <1>1, <1>4
  <2>2. QED
    BY <1>2, <1>3, <1>5, <2>1 DEF TypeOK
<1>7. Control'
  BY <1>2, <1>3, <1>5, ControlKept
<1>8. RequestsOK /\ ExchangesOK
  BY <1>2, <1>4, <1>5 DEF RequestsOK, ExchangesOK
<1>9. Pools' /\ Right(bm)'
  BY <1>2, <1>4, RightNow DEF IInv, Pools, Right
<1>10. Marked' /\ Owners'
  BY <1>2, <1>8, <1>9, MarkedKept, OwnersKept
<1>11. QED
  BY <1>6, <1>7, <1>9, <1>10 DEF IInv

\* The end of a live restore: the pools stay right and nobody gets extended
\* blocks.
LEMMA RestoredStep ==
  ASSUME IInv, NEW v \in Inst, NEW c \in Restored(v)
  PROVE  /\ c \in [Inst -> Manager] /\ \A i \in Inst : PoolOK(c[i], phase)
         /\ \A i \in Inst, s \in Req :
              Extend \cap c[i].block_table[s] \subseteq bm[i].block_table[s]
<1>1. /\ bm \in [Inst -> Manager] /\ \A i \in Inst : PoolOK(bm[i], phase)
      /\ step[v].moved \in SUBSET Req /\ step[v].fresh \in SUBSET Pipeline
      /\ step[v].moved # {} => phase \in {"restore", "stopping_init"}
  BY DEF IInv, TypeOK, Step, Pools, Control
<1>2. CASE step[v].moved = {}
  BY <1>1, <1>2 DEF Restored
<1>3. CASE step[v].moved # {}
  <2>1. PICK b \in UNION {OneEach(FreeOn(bm, r, Inst)) : r \in step[v].moved} :
          c = [b EXCEPT ![v].block_table =
                 [r \in Req |-> IF r \in step[v].moved THEN step[v].fresh ELSE @[r]]]
    BY <1>3 DEF Restored
  <2>2. PICK r \in step[v].moved : b \in OneEach(FreeOn(bm, r, Inst))
    BY <2>1
  <2>3. r \in Req /\ req[r].fx \in BOOLEAN
    BY <1>1 DEF IInv, TypeOK, Request
  <2>4. phase \notin InitialPhases /\ phase \notin LoanPhases
    BY <1>1, <1>3 DEF InitialPhases, LoanPhases
  <2>5. ASSUME NEW i \in Inst
        PROVE  PoolOK(b[i], phase) /\ b[i].max_extend = 0
    <3>1. PoolOK(bm[i], phase) /\ bm[i].max_extend = 0
      BY <1>1, <2>4 DEF PoolOK
    <3>2. Extend \cap bm[i].block_table[r] = {}
      BY <2>3, <3>1, NoLoan
    <3>3. b[i] \in Free(bm[i], r, req[r].fx)
      BY <2>2, OneEachType DEF FreeOn
    <3>4. PoolOK(b[i], phase)
      BY <2>3, <2>4, <3>1, <3>2, <3>3, FreePool
    <3>5. QED
      BY <2>4, <3>4 DEF PoolOK
  <2> DEFINE T == [s \in Req |-> IF s \in step[v].moved THEN step[v].fresh
                                 ELSE b[v].block_table[s]]
  <2>6. b[v] \in Manager /\ b[v].block_table \in [Req -> SUBSET Block]
    BY <2>5 DEF PoolOK, Manager
  <2>7. T \in [Req -> SUBSET Block]
    BY <1>1, <2>6 DEF Block
  <2>8. b = [i \in Inst |-> b[i]]
    BY <2>2, OneEachType
  <2>9. /\ c[v] = [b[v] EXCEPT !.block_table = T]
        /\ \A i \in Inst \ {v} : c[i] = b[i]
        /\ c = [i \in Inst |-> c[i]]
    BY <2>1, <2>8
  <2>10. \A s \in Req : Extend \cap T[s] = {}
    <3>1. \A s \in Req : Extend \cap b[v].block_table[s] = {}
      BY <2>5, NoLoan
    <3>2. Extend \cap step[v].fresh = {}
      BY <1>1, Regions
    <3>3. QED
      BY <3>1, <3>2
  <2> HIDE DEF T
  <2>11. PoolOK(c[v], phase)
    <3>1. PoolOK(b[v], phase) /\ b[v].max_extend = 0 /\ b[v].free_extend = {}
      BY <2>5, NoLoan
    <3>2. c[v] \in Manager
      BY <2>6, <2>7, <2>9 DEF Manager
    <3>3. /\ c[v].block_table = T
          /\ c[v].free_extend = b[v].free_extend /\ c[v].max_extend = b[v].max_extend
          /\ c[v].is_fusion_state = b[v].is_fusion_state
          /\ c[v].max_gpu = b[v].max_gpu /\ c[v].max_reserved = b[v].max_reserved
          /\ c[v].max_fusion = b[v].max_fusion /\ c[v].free_fusion = b[v].free_fusion
      BY <2>6, <2>9 DEF Manager
    <3>4. Loan(c[v]) = {}
      BY <2>10, <3>1, <3>3 DEF Loan
    <3>5. ExtendCounted(c[v])
      <4>1. Cardinality(Loan(c[v])) = c[v].max_extend
        BY <3>1, <3>3, <3>4, FS_EmptySet
      <4>2. QED
        BY <2>10, <3>1, <3>3, <4>1 DEF ExtendCounted
    <3>6. QED
      BY <3>1, <3>2, <3>3, <3>5 DEF PoolOK, Counted
  <2>12. \A i \in Inst : PoolOK(c[i], phase)
    BY <2>5, <2>9, <2>11
  <2>13. \A i \in Inst, s \in Req : Extend \cap c[i].block_table[s] = {}
    <3>1. \A i \in Inst : c[i].max_extend = 0
      BY <2>4, <2>12 DEF PoolOK
    <3>2. QED
      BY <2>12, <3>1, NoLoan
  <2>14. QED
    BY <2>9, <2>12, <2>13 DEF PoolOK
<1>4. QED
  BY <1>2, <1>3

LEMMA EndPipeStep ==
  ASSUME IInv, NEW v \in Inst, EndPipe(v)
  PROVE  IInv'
<1> DEFINE moved == step[v].moved
           pipe  == step[v].pipe
           packing == phase = "reclaiming" /\ step[v].pipe # {}
           next == IF step[v].repl # {} /\ ~ stopped[Engine(v)] THEN "repl"
                   ELSE IF packing THEN "pack" ELSE "grow"
           st   == [NoStep EXCEPT
                      !.pc = next,
                      !.repl = IF next = "repl" THEN step[v].repl ELSE {},
                      !.pack = [i \in Inst |-> IF next = "pack" THEN step[v].pipe
                                               ELSE {}]]
<1>1. PICK g \in Advanced(pipe) :
        req' = [r \in Req |-> IF r \in moved
                              THEN [g[r] EXCEPT !.fx = FALSE, !.home = v]
                              ELSE IF r \in pipe THEN g[r] ELSE req[r]]
  BY DEF EndPipe
<1>2. /\ step[v].pc = "pipe" /\ bm' \in Restored(v)
      /\ step' = [step EXCEPT ![v] = st]
      /\ UNCHANGED <<phase, stopped, resharding, remaining>>
  BY DEF EndPipe
<1>3. /\ TypeOK /\ Owners /\ remaining = {} /\ phase # "handling"
      /\ step \in [Inst -> Step] /\ step[v] \in Step
      /\ pipe \in SUBSET Req /\ moved \subseteq pipe
      /\ moved # {} => phase \in {"restore", "stopping_init"}
  BY <1>2, Serving DEF IInv, TypeOK, Step, Control
<1>4. st \in Step /\ st.shard = {} /\ st.moved = {}
  <2>1. next \in Pc
    BY DEF Pc
  <2>2. step[v].repl \in SUBSET Req
    BY <1>3 DEF Step
  <2> HIDE DEF next
  <2>3. QED
    BY <1>3, <2>1, <2>2 DEF NoStep, Step
<1> HIDE DEF st
<1>5. /\ step' \in [Inst -> Step]
      /\ \A u \in Inst \ {v} : step'[u] = step[u]
      /\ step'[v].shard = {} /\ step'[v].moved = {}
  BY <1>2, <1>3, <1>4
<1>6. /\ bm' \in [Inst -> Manager] /\ \A i \in Inst : PoolOK(bm'[i], phase)
      /\ \A i \in Inst, s \in Req :
           Extend \cap bm'[i].block_table[s] \subseteq bm[i].block_table[s]
  BY <1>2, RestoredStep
<1>7. ASSUME NEW s \in Req
      PROVE  /\ req'[s] \in Request /\ req'[s].q = req[s].q
             /\ s \notin moved => req'[s].fx = req[s].fx /\ req'[s].home = req[s].home
             /\ s \in moved => ~ req'[s].fx
  <2>1. req[s] \in Request
    BY <1>3 DEF TypeOK
  <2>2. s \in pipe => /\ g[s] \in Request
                      /\ g[s].q = req[s].q /\ g[s].fx = req[s].fx
                      /\ g[s].home = req[s].home
    BY <1>3, AdvanceStep
  <2>3. CASE s \in moved
    <3>1. req'[s] = [g[s] EXCEPT !.fx = FALSE, !.home = v] /\ g[s] \in Request
      BY <1>1, <1>3, <2>2, <2>3
    <3>2. QED
      BY <1>3, <2>2, <2>3, <3>1 DEF Request
  <2>4. CASE s \notin moved
    BY <1>1, <2>1, <2>2, <2>4
  <2>5. QED
    BY <2>3, <2>4
<1>8. TypeOK'
  <2>1. req' \in [Req -> Request]
    BY <1>1, <1>7
  <2>2. QED
    BY <1>2, <1>3, <1>5, <1>6, <2>1 DEF TypeOK
<1>9. Control'
  BY <1>2, <1>3, <1>5, ControlKept
<1>10. RequestsOK /\ ExchangesOK
  <2>1. moved # {} => Sharding = {}
    BY <1>3, NotExchanged
  <2>2. RequestsOK
    BY <1>3, <1>7, <2>1 DEF RequestsOK
  <2>3. \A s \in remaining \cup Sharding : s \in Req
    BY <1>3 DEF Sharding, Step
  <2>4. \A u \in Inst : step'[u].shard \subseteq step[u].shard
    BY <1>5
  <2>5. QED
    BY <1>2, <1>6, <2>2, <2>3, <2>4 DEF ExchangesOK
<1>11. Pools' /\ Right(bm)'
  <2>1. ASSUME NEW i \in Inst, NEW s \in Req, Extend \cap bm'[i].block_table[s] # {}
        PROVE  req'[s].fx /\ req'[s].q \in {"running", "waiting"}
    <3>1. Extend \cap bm[i].block_table[s] # {}
      BY <1>6, <2>1
    <3>2. s \notin moved
      <4>1. PoolOK(bm[i], phase) /\ bm[i].max_extend # 0
        BY <3>1, NoLoan DEF IInv, Pools
      <4>2. QED
        BY <1>3, <4>1 DEF PoolOK, LoanPhases
    <3>3. QED
      BY <1>3, <1>7, <3>1, <3>2 DEF Owners
  <2>2. QED
    BY <1>2, <1>6, <2>1 DEF Pools, Right
<1>12. Marked' /\ Owners'
  BY <1>2, <1>10, <1>11, MarkedKept, OwnersKept
<1>13. QED
  BY <1>8, <1>9, <1>11, <1>12 DEF IInv

LEMMA PackStep ==
  ASSUME IInv, NEW v \in Inst, Pack(v)
  PROVE  IInv'
<1>1. /\ step[v].pc = "pack"
      /\ UNCHANGED <<phase, req, stopped, resharding, remaining>>
  BY DEF Pack
<1>2. PICK i \in Inst, r \in Req :
       LET packed == PackOne(bm[i], r)
           left == [step[v].pack EXCEPT ![i] = IF packed = {} THEN {}
                                               ELSE @ \ {r}]
       IN  /\ bm' \in {[bm EXCEPT ![i] = m] :
                         m \in IF packed = {} THEN {bm[i]} ELSE packed}
           /\ step' = [step EXCEPT
                         ![v].pack = left,
                         ![v].pc = IF \A j \in Inst : left[j] = {}
                                   THEN "grow" ELSE "pack"]
  BY DEF Pack
<1> DEFINE packed == PackOne(bm[i], r)
           left == [step[v].pack EXCEPT ![i] = IF packed = {} THEN {} ELSE @ \ {r}]
           pc == IF \A j \in Inst : left[j] = {} THEN "grow" ELSE "pack"
<1>3. /\ TypeOK /\ Control /\ Owners /\ remaining = {} /\ phase # "handling"
      /\ bm \in [Inst -> Manager] /\ \A j \in Inst : PoolOK(bm[j], phase)
      /\ step \in [Inst -> Step] /\ step[v] \in Step
      /\ step[v].shard = {} /\ step[v].moved = {}
  BY <1>1, Serving DEF IInv, TypeOK, Pools, Control
<1>4. PICK m \in IF packed = {} THEN {bm[i]} ELSE packed : bm' = [bm EXCEPT ![i] = m]
  BY <1>2
<1>5. /\ PoolOK(m, phase)
      /\ \A s \in Req : Extend \cap m.block_table[s] \subseteq bm[i].block_table[s]
  <2>1. PoolOK(bm[i], phase)
    BY <1>3
  <2>2. CASE m \in PackOne(bm[i], r)
    <3>1. /\ m \in Manager
          /\ Keeps(bm[i], m, r)
          /\ Extend \cap m.block_table[r] = {}
          /\ ExtendCounted(m) /\ Counted(m)
      BY <2>1, <2>2, PackOneStep DEF PoolOK
    <3>2. m.free_fusion \subseteq bm[i].free_fusion
          /\ m.max_gpu = bm[i].max_gpu /\ m.max_reserved = bm[i].max_reserved
      <4>1. CASE m = bm[i]
        BY <4>1
      <4>2. CASE m # bm[i]
        <5> DEFINE ext == bm[i].block_table[r] \cap Extend
        <5>1. m \in {[bm[i] EXCEPT !.block_table[r] = (@ \ ext) \cup S,
                                  !.free_fusion = @ \ S,
                                  !.free_extend = @ \cup ext] :
                     S \in kSubset(Cardinality(ext), bm[i].free_fusion)}
          BY <2>2, <4>2 DEF PackOne
        <5>2. PICK S \in kSubset(Cardinality(ext), bm[i].free_fusion) :
                m = [bm[i] EXCEPT !.block_table[r] = (@ \ ext) \cup S,
                                  !.free_fusion = @ \ S,
                                  !.free_extend = @ \cup ext]
          BY <5>1
        <5>3. bm[i] \in Manager
          BY <2>1 DEF PoolOK
        <5>4. QED
          BY <5>2, <5>3 DEF Manager
      <4>3. QED
        BY <4>1, <4>2
    <3>3. PoolOK(m, phase)
      BY <2>1, <3>1, <3>2 DEF PoolOK, Keeps
    <3>4. QED
      BY <3>1, <3>3 DEF Keeps
  <2>3. CASE m = bm[i]
    BY <2>1, <2>3
  <2>4. QED
    BY <1>4, <2>2, <2>3
<1>6. /\ bm' \in [Inst -> Manager] /\ \A j \in Inst : PoolOK(bm'[j], phase)
      /\ \A j \in Inst, s \in Req :
           Extend \cap bm'[j].block_table[s] \subseteq bm[j].block_table[s]
  <2>1. bm'[i] = m /\ \A j \in Inst \ {i} : bm'[j] = bm[j]
    BY <1>3, <1>4
  <2>2. m \in Manager
    BY <1>5 DEF PoolOK
  <2>3. QED
    BY <1>3, <1>4, <1>5, <2>1, <2>2
<1>7. left \in [Inst -> SUBSET Req] /\ pc \in {"grow", "pack"}
  <2>1. step[v].pack \in [Inst -> SUBSET Req]
    BY <1>3 DEF Step
  <2>2. QED
    BY <2>1
<1>8. step' = [step EXCEPT ![v] = [step[v] EXCEPT !.pack = left, !.pc = pc]]
  BY <1>2, <1>3
<1> HIDE DEF left, pc
<1>9. /\ step' \in [Inst -> Step]
      /\ \A u \in Inst \ {v} : step'[u] = step[u]
      /\ step'[v].shard = {} /\ step'[v].moved = {}
  <2>1. /\ [step[v] EXCEPT !.pack = left, !.pc = pc] \in Step
        /\ [step[v] EXCEPT !.pack = left, !.pc = pc].shard = {}
        /\ [step[v] EXCEPT !.pack = left, !.pc = pc].moved = {}
    BY <1>3, <1>7 DEF Step, Pc
  <2>2. QED
    BY <1>3, <1>8, <2>1
<1>10. TypeOK'
  BY <1>1, <1>3, <1>6, <1>9 DEF TypeOK
<1>11. Control'
  BY <1>1, <1>3, <1>9, ControlKept
<1>12. RequestsOK /\ ExchangesOK
  <2>1. \A s \in remaining \cup Sharding : s \in Req
    BY <1>3 DEF Sharding, Step
  <2>2. \A u \in Inst : step'[u].shard \subseteq step[u].shard
    BY <1>9
  <2>3. QED
    BY <1>1, <1>6, <2>1, <2>2 DEF RequestsOK, ExchangesOK
<1>13. Pools' /\ Right(bm)'
  <2>1. ASSUME NEW j \in Inst, NEW s \in Req, Extend \cap bm'[j].block_table[s] # {}
        PROVE  req'[s].fx /\ req'[s].q \in {"running", "waiting"}
    <3>1. Extend \cap bm[j].block_table[s] # {}
      BY <1>6, <2>1
    <3>2. QED
      BY <1>1, <1>3, <3>1 DEF Owners
  <2>2. QED
    BY <1>1, <1>6, <2>1 DEF Pools, Right
<1>14. Marked' /\ Owners'
  BY <1>1, <1>12, <1>13, MarkedKept, OwnersKept
<1>15. QED
  BY <1>10, <1>11, <1>13, <1>14 DEF IInv

-----------------------------------------------------------------------------
(* INITIAL -> BALLOON.                                                     *)

\* What the phase excludes.
LEMMA Excluded ==
  ASSUME IInv
  PROVE  /\ phase # "handling" => remaining = {}
         /\ phase # "balloon" \/ AllIdle => \A v \in Inst : step[v].shard = {}
         /\ phase \notin {"restore", "stopping_init"} \/ AllIdle =>
              \A v \in Inst : step[v].moved = {}
  BY DEF IInv, Control, AllIdle, Idle

\* A change of phase during which nothing is being exchanged.
LEMMA NewPhase ==
  ASSUME TypeOK', Control', remaining' = {}, \A v \in Inst : step'[v].shard = {},
         phase' \in InitialPhases \cup {"stopping_init"} =>
           \A r \in Req : req'[r].q = "running" => ~ req'[r].fx,
         \A i \in Inst : PoolOK(bm'[i], phase'),
         \A i \in Inst, r \in Req :
           Extend \cap bm'[i].block_table[r] # {} =>
             req'[r].fx /\ req'[r].q \in {"running", "waiting"}
  PROVE  IInv'
<1>1. Pools'
  BY DEF Pools
<1>2. Marked'
  BY DEF Marked
<1>3. Owners'
  BY DEF Owners
<1>4. QED
  BY <1>1, <1>2, <1>3 DEF IInv

LEMMA VoteBalloonStep ==
  ASSUME IInv, NEW S \in SUBSET Inst, VoteBalloon(S)
  PROVE  IInv'
<1>1. /\ phase = "initial" /\ phase' \in InitialPhases
      /\ stopped' = [v \in Inst |->
                       \/ stopped[v]
                       \/ v \in S
                       \/ phase' = "stopping_followers" /\ v # 0]
      /\ UNCHANGED <<bm, req, step, resharding, remaining>>
  BY DEF VoteBalloon, InitialPhases
<1>2. TypeOK /\ Control /\ Marked /\ Pools /\ Owners
  BY DEF IInv
<1>3. stopped' \in [Inst -> BOOLEAN] /\ phase' \in Phase
  BY <1>1 DEF InitialPhases, Phase
<1>4. TypeOK'
  BY <1>1, <1>2, <1>3 DEF TypeOK
<1>5. remaining = {} /\ \A v \in Inst : step[v].shard = {} /\ step[v].moved = {}
  BY <1>1, Excluded
<1>6. Control'
  <2>1. \A v \in Inst : ~ resharding[v]
    BY <1>1, <1>2 DEF Control
  <2>2. phase' \in {"initial", "stopping_followers"}
    BY <1>1 DEF InitialPhases
  <2>3. QED
    BY <1>1, <1>2, <1>5, <2>1, <2>2 DEF Control, RestorePhases
<1>7. \A i \in Inst : PoolOK(bm'[i], phase')
  BY <1>1, <1>2 DEF Pools, PoolOK, InitialPhases, FusedPhases, LoanPhases
<1>8. QED
  <2>1. \A r \in Req : req'[r].q = "running" => ~ req'[r].fx
    BY <1>1, <1>2 DEF Marked, InitialPhases
  <2>2. \A i \in Inst, r \in Req : Extend \cap bm'[i].block_table[r] # {} =>
             req'[r].fx /\ req'[r].q \in {"running", "waiting"}
    BY <1>1, <1>2 DEF Owners
  <2>3. QED
    BY <1>1, <1>4, <1>5, <1>6, <1>7, <2>1, <2>2, NewPhase

\* A manager that changes hands keeps what it accounts for.
LEMMA GivenStep ==
  ASSUME NEW i, NEW m \in Manager, m.max_gpu = N
  PROVE  /\ Reformatted(m, Given(i, m))
         /\ Given(i, m).is_fusion_state = m.is_fusion_state
         /\ Given(i, m).free_fusion = m.free_fusion
         /\ Given(i, m).max_gpu = N /\ Given(i, m).max_reserved = m.max_reserved
<1>1. CASE i = 0
  BY <1>1 DEF Given, Reformatted
<1>2. CASE i # 0
  BY <1>2, HandedStep DEF Given
<1>3. QED
  BY <1>1, <1>2

LEMMA MergeStep ==
  ASSUME IInv, Merge
  PROVE  IInv'
<1>1. /\ phase = "stopping_followers" /\ phase' = "dropping"
      /\ stopped' = [stopped EXCEPT ![0] = TRUE]
      /\ req' = [r \in Req |-> IF req[r].q = "running"
                               THEN [req[r] EXCEPT !.home = req[r].ve] ELSE req[r]]
      /\ bm' = [i \in Inst |-> ConvertToPipeline(Given(i, bm[i]))]
      /\ UNCHANGED <<step, resharding, remaining>>
  BY DEF Merge
<1>2. TypeOK /\ Control /\ Pools /\ Owners
  BY DEF IInv
<1>3. remaining = {} /\ \A v \in Inst : step[v].shard = {} /\ step[v].moved = {}
  BY <1>1, Excluded
<1>4. ASSUME NEW i \in Inst
      PROVE  /\ bm'[i] \in Manager /\ PoolOK(bm'[i], phase')
             /\ \A r \in Req : Extend \cap bm'[i].block_table[r] = {}
  <2>1. /\ bm[i] \in Manager /\ bm[i].max_gpu = N /\ bm[i].free_fusion = {}
        /\ bm[i].max_extend = 0 /\ ExtendCounted(bm[i])
        /\ PoolOK(bm[i], phase)
    BY <1>1, <1>2 DEF Pools, PoolOK, InitialPhases, FusedPhases, LoanPhases
  <2>2. bm'[i] = ConvertToPipeline(Given(i, bm[i]))
    BY <1>1
  <2>g. /\ Reformatted(bm[i], Given(i, bm[i])) /\ Given(i, bm[i]) \in Manager
        /\ Given(i, bm[i]).max_gpu = N /\ Given(i, bm[i]).free_fusion = {}
    BY <2>1, GivenStep DEF Reformatted
  <2>3. /\ Reformatted(bm[i], bm'[i]) /\ bm'[i].is_fusion_state /\ Counted(bm'[i])
    BY <2>2, <2>g, ConvertToPipelineStep DEF Reformatted
  <2>4. ExtendCounted(bm'[i])
    BY <2>1, <2>3, ReformattedCounted
  <2>5. /\ bm'[i] \in Manager /\ bm'[i].block_table = bm[i].block_table
        /\ bm'[i].max_extend = bm[i].max_extend
    BY <2>3 DEF Reformatted
  <2>6. PoolOK(bm'[i], phase')
    BY <1>1, <2>1, <2>3, <2>4, <2>5
       DEF PoolOK, InitialPhases, FusedPhases, LoanPhases, Manager
  <2>7. QED
    BY <2>1, <2>5, <2>6, NoLoan
<1>5. req' \in [Req -> Request]
  <2>1. \A r \in Req : req[r] \in Request
    BY <1>2 DEF TypeOK
  <2>2. \A r \in Req : [req[r] EXCEPT !.home = req[r].ve] \in Request
    BY <2>1 DEF Request
  <2>3. QED
    BY <1>1, <2>1, <2>2
<1>6. stopped' \in [Inst -> BOOLEAN] /\ stopped'[0]
  BY <1>1, <1>2, StageType DEF TypeOK
<1>7. TypeOK'
  <2>1. bm' \in [Inst -> Manager] /\ phase' \in Phase
    BY <1>1, <1>4 DEF Phase
  <2>2. QED
    BY <1>1, <1>2, <1>5, <1>6, <2>1 DEF TypeOK
<1>8. Control'
  <2>1. \A v \in Inst : ~ resharding[v]
    BY <1>1, <1>2 DEF Control
  <2>2. QED
    BY <1>1, <1>2, <1>3, <1>6, <2>1 DEF Control, RestorePhases
<1>9. phase' \notin InitialPhases \cup {"stopping_init"}
  BY <1>1 DEF InitialPhases
<1>10. QED
  BY <1>1, <1>3, <1>4, <1>7, <1>8, <1>9, NewPhase

LEMMA DropParametersStep ==
  ASSUME IInv, DropParameters
  PROVE  IInv'
<1> DEFINE stale == UNION {Stale(v) : v \in Inst}
           early == IF Mode = "reshard" THEN stale ELSE {}
<1>1. /\ phase = "dropping" /\ phase' = "handling" /\ AllIdle
      /\ bm' = [i \in Inst |-> AddExtend(bm[i])]
      /\ remaining' = early
      /\ req' = [r \in Req |-> [req[r] EXCEPT !.fx = @ \/ r \in early]]
      /\ resharding' = [v \in Inst |-> Mode = "livereshard"]
      /\ UNCHANGED <<stopped, step>>
  BY DEF DropParameters
<1>2. TypeOK /\ Control /\ Pools /\ Owners
  BY DEF IInv
<1>3. \A v \in Inst : step[v].shard = {} /\ step[v].moved = {}
  BY <1>1, Excluded
<1>4. early \in SUBSET Req /\ \A r \in early : req[r].q = "running"
  BY DEF Stale, Running
<1> HIDE DEF early
<1>5. ASSUME NEW i \in Inst
      PROVE  /\ bm'[i] \in Manager /\ PoolOK(bm'[i], phase')
             /\ \A r \in Req : Extend \cap bm'[i].block_table[r] = {}
  <2>1. /\ PoolOK(bm[i], phase) /\ bm[i].max_extend = 0
        /\ bm[i] \in Manager /\ Counted(bm[i]) /\ bm[i].is_fusion_state
    BY <1>1, <1>2 DEF Pools, PoolOK, FusedPhases, LoanPhases
  <2>2. bm[i].free_extend = {} /\ \A r \in Req : Extend \cap bm[i].block_table[r] = {}
    BY <2>1, NoLoan
  <2>3. bm'[i] = AddExtend(bm[i])
    BY <1>1
  <2>4. /\ bm'[i] \in Manager
        /\ bm'[i].block_table = bm[i].block_table
        /\ bm'[i].is_fusion_state = bm[i].is_fusion_state
        /\ ExtendCounted(bm'[i]) /\ Counted(bm'[i])
    BY <2>1, <2>2, <2>3, AddExtendStep
  <2>5. PoolOK(bm'[i], phase')
    BY <1>1, <2>1, <2>4 DEF PoolOK, InitialPhases, FusedPhases, LoanPhases
  <2>6. QED
    BY <2>2, <2>4, <2>5
<1>6. ASSUME NEW r \in Req
      PROVE  /\ req'[r] \in Request /\ req'[r].q = req[r].q
             /\ req'[r].home = req[r].home /\ (r \in early => req'[r].fx)
  <2>1. req'[r] = [req[r] EXCEPT !.fx = @ \/ r \in early] /\ req[r] \in Request
    BY <1>1, <1>2 DEF TypeOK
  <2> DEFINE x == req[r].fx \/ r \in early
  <2>2. x \in BOOLEAN /\ (r \in early => x)
    OBVIOUS
  <2>3. req'[r] = [req[r] EXCEPT !.fx = x]
    BY <2>1
  <2> HIDE DEF x
  <2>4. QED
    BY <2>1, <2>2, <2>3 DEF Request
<1>7. resharding' \in [Inst -> BOOLEAN]
      /\ \A v \in Inst : resharding'[v] => Mode = "livereshard"
  BY <1>1
<1>8. TypeOK'
  <2>1. req' = [r \in Req |-> req'[r]] /\ bm' = [i \in Inst |-> bm'[i]]
    BY <1>1
  <2>2. req' \in [Req -> Request] /\ bm' \in [Inst -> Manager] /\ phase' \in Phase
    BY <1>1, <1>5, <1>6, <2>1 DEF Phase
  <2>3. QED
    BY <1>1, <1>2, <1>4, <1>7, <2>2 DEF TypeOK
<1>9. Control'
  <2>1. AllIdle' /\ stopped'[0]
    BY <1>1, <1>2 DEF Control, AllIdle, Idle
  <2>2. \A v \in Inst : step'[v].shard = {} /\ step'[v].moved = {}
    BY <1>1, <1>3
  <2>3. QED
    BY <1>1, <1>7, <2>1, <2>2 DEF Control, RestorePhases
<1>10. Marked'
  <2>1. phase' \notin InitialPhases \cup {"stopping_init"}
    BY <1>1 DEF InitialPhases
  <2>2. \A r \in remaining' : req'[r].q = "running" /\ req'[r].fx
    BY <1>1, <1>4, <1>6
  <2>3. QED
    BY <1>1, <1>3, <2>1, <2>2 DEF Marked
<1>11. Pools'
  BY <1>5 DEF Pools
<1>12. Owners'
  <2>1. \A r \in remaining' : Local0(bm, r)'
    <3>1. \A r \in remaining' : r \in Req /\ req'[r].home \in Inst
      BY <1>1, <1>4, <1>6 DEF Request
    <3>2. QED
      BY <1>5, <3>1 DEF Local0
  <2>2. QED
    BY <1>1, <1>3, <1>5, <2>1 DEF Owners
<1>13. QED
  BY <1>8, <1>9, <1>10, <1>11, <1>12 DEF IInv

LEMMA ReshardStep ==
  ASSUME IInv, NEW r \in Req, Reshard(r)
  PROVE  IInv'
<1>1. PICK b \in OneEach(OnPeers(r)) :
        bm' = [b EXCEPT ![req[r].home] = FreeIntoFusionExcept(@, r, req[r].home)]
  BY DEF Reshard
<1>2. /\ phase = "handling" /\ r \in remaining /\ remaining' = remaining \ {r}
      /\ UNCHANGED <<phase, req, stopped, step, resharding>>
  BY DEF Reshard
<1>3. /\ TypeOK /\ Control /\ Marked /\ Owners
      /\ phase \in FusedPhases /\ req[r].home \in Inst
  BY <1>2 DEF IInv, FusedPhases, TypeOK, Request
<1>4. /\ b \in [Inst -> Manager] /\ \A i \in Inst : PoolOK(b[i], phase)
      /\ OthersKeep(bm, b, r) /\ b[req[r].home] = bm[req[r].home]
  BY <1>1, OnPeersStep
<1>5. Local0(b, r)
  BY <1>2, <1>3, <1>4 DEF Owners, Local0
<1>6. /\ bm' \in [Inst -> Manager] /\ \A i \in Inst : PoolOK(bm'[i], phase)
      /\ OthersKeep(b, bm', r)
  BY <1>1, <1>3, <1>4, <1>5, ExchangeHome
<1>7. \A s \in Req \ {r}, i \in Inst : bm'[i].block_table[s] = bm[i].block_table[s]
  BY <1>4, <1>6 DEF OthersKeep
<1>8. TypeOK'
  BY <1>2, <1>3, <1>6 DEF TypeOK
<1>9. Control'
  BY <1>2, <1>3 DEF Control, AllIdle, Idle
<1>10. RequestsOK /\ ExchangesOK
  <2>1. Sharding = {}
    BY <1>2, NotExchanged
  <2>2. \A s \in remaining' : s \in Req \ {r}
    BY <1>2, <1>3 DEF TypeOK
  <2>3. QED
    BY <1>2, <1>7, <2>1, <2>2 DEF RequestsOK, ExchangesOK
<1>11. Pools' /\ Right(bm)'
  <2>1. ASSUME NEW i \in Inst, NEW s \in Req, Extend \cap bm'[i].block_table[s] # {}
        PROVE  req'[s].fx /\ req'[s].q \in {"running", "waiting"}
    <3>1. CASE s = r
      BY <1>2, <1>3, <3>1 DEF Marked
    <3>2. CASE s # r
      BY <1>2, <1>3, <1>7, <2>1, <3>2 DEF Owners
    <3>3. QED
      BY <3>1, <3>2
  <2>2. QED
    BY <1>2, <1>6, <2>1 DEF Pools, Right
<1>12. Marked' /\ Owners'
  BY <1>2, <1>10, <1>11, MarkedKept, OwnersKept
<1>13. QED
  BY <1>8, <1>9, <1>11, <1>12 DEF IInv

LEMMA GiveUpReshardStep ==
  ASSUME IInv, GiveUpReshard
  PROVE  IInv'
<1>1. /\ remaining' = {}
      /\ UNCHANGED <<phase, bm, req, stopped, step, resharding>>
  BY DEF GiveUpReshard
<1>2. TypeOK'
  BY <1>1 DEF IInv, TypeOK
<1>3. Control'
  BY <1>1 DEF IInv, Control, AllIdle, Idle
<1>4. RequestsOK /\ ExchangesOK
  BY <1>1 DEF RequestsOK, ExchangesOK
<1>5. Pools' /\ Right(bm)'
  BY <1>1, RightNow DEF IInv, Pools, Right
<1>6. Marked' /\ Owners'
  BY <1>1, <1>4, <1>5, MarkedKept, OwnersKept
<1>7. QED
  BY <1>2, <1>3, <1>5, <1>6 DEF IInv

LEMMA EnterBalloonStep ==
  ASSUME IInv, EnterBalloon
  PROVE  IInv'
<1> DEFINE load(v) == Cardinality(Running(v))
<1>1. PICK busiest \in Inst : \E laziest \in Inst :
        \E S \in kSubset((load(busiest) - load(laziest)) \div 2, Running(busiest)) :
          req' = [r \in Req |-> IF r \in S THEN [req[r] EXCEPT !.ve = laziest]
                                ELSE req[r]]
  BY DEF EnterBalloon
<1>2. PICK laziest \in Inst :
        \E S \in kSubset((load(busiest) - load(laziest)) \div 2, Running(busiest)) :
          req' = [r \in Req |-> IF r \in S THEN [req[r] EXCEPT !.ve = laziest]
                                ELSE req[r]]
  BY <1>1
<1>3. PICK S \in kSubset((load(busiest) - load(laziest)) \div 2, Running(busiest)) :
        req' = [r \in Req |-> IF r \in S THEN [req[r] EXCEPT !.ve = laziest]
                              ELSE req[r]]
  BY <1>2
<1>4. /\ phase = "handling" /\ phase' = "balloon" /\ remaining = {}
      /\ bm' = [i \in Inst |-> ConvertReserved(bm[i])]
      /\ stopped' = [stopped EXCEPT ![0] = FALSE]
      /\ step' = FirstBatch
      /\ UNCHANGED <<resharding, remaining>>
  BY DEF EnterBalloon
<1>5. TypeOK /\ Control /\ Pools /\ Owners
  BY DEF IInv
<1>6. ASSUME NEW r \in Req
      PROVE  req'[r] \in Request /\ req'[r].q = req[r].q /\ req'[r].fx = req[r].fx
  <2>1. req[r] \in Request
    BY <1>5 DEF TypeOK
  <2>2. [req[r] EXCEPT !.ve = laziest] \in Request
    BY <2>1 DEF Request
  <2>3. req'[r] = req[r] \/ req'[r] = [req[r] EXCEPT !.ve = laziest]
    BY <1>3
  <2>4. QED
    BY <2>1, <2>2, <2>3 DEF Request
<1>7. ASSUME NEW i \in Inst
      PROVE  /\ bm'[i] \in Manager /\ PoolOK(bm'[i], phase')
             /\ bm'[i].block_table = bm[i].block_table
  <2>1. /\ PoolOK(bm[i], phase)
        /\ bm[i] \in Manager /\ Counted(bm[i]) /\ bm[i].is_fusion_state
        /\ ExtendCounted(bm[i])
    BY <1>4, <1>5 DEF Pools, PoolOK, FusedPhases
  <2>2. bm'[i] = ConvertReserved(bm[i])
    BY <1>4
  <2>3. /\ Reformatted(bm[i], bm'[i]) /\ bm'[i].is_fusion_state /\ Counted(bm'[i])
    BY <2>1, <2>2, ConvertReservedStep
  <2>4. ExtendCounted(bm'[i])
    BY <2>1, <2>3, ReformattedCounted
  <2>5. bm'[i] \in Manager /\ bm'[i].block_table = bm[i].block_table
    BY <2>3 DEF Reformatted
  <2>6. PoolOK(bm'[i], phase')
    BY <1>4, <2>3, <2>4, <2>5 DEF PoolOK, InitialPhases, FusedPhases, LoanPhases
  <2>7. QED
    BY <2>5, <2>6
<1>8. /\ step' \in [Inst -> Step]
      /\ \A v \in Inst : step'[v].shard = {} /\ step'[v].moved = {}
  <2>1. [NoStep EXCEPT !.pc = "grow"] \in Step
    BY DEF NoStep, Step, Pc
  <2>2. QED
    BY <1>4, <2>1 DEF FirstBatch, NoStep
<1>9. TypeOK'
  <2>1. req' = [r \in Req |-> req'[r]] /\ bm' = [i \in Inst |-> bm'[i]]
    BY <1>3, <1>4
  <2>2. req' \in [Req -> Request] /\ bm' \in [Inst -> Manager] /\ phase' \in Phase
    BY <1>4, <1>6, <1>7, <2>1 DEF Phase
  <2>3. stopped' \in [Inst -> BOOLEAN]
    BY <1>4, <1>5 DEF TypeOK
  <2>4. QED
    BY <1>4, <1>5, <1>8, <2>2, <2>3 DEF TypeOK
<1>10. Control'
  <2>1. \A v \in Inst : resharding'[v] => Mode = "livereshard"
    BY <1>4, <1>5 DEF Control
  <2>2. QED
    BY <1>4, <1>8, <2>1 DEF Control, RestorePhases
<1>11. phase' \notin InitialPhases \cup {"stopping_init"}
  BY <1>4 DEF InitialPhases
<1>12. ASSUME NEW i \in Inst, NEW r \in Req, Extend \cap bm'[i].block_table[r] # {}
       PROVE  req'[r].fx /\ req'[r].q \in {"running", "waiting"}
  BY <1>5, <1>6, <1>7, <1>12 DEF Owners
<1>13. QED
  BY <1>4, <1>7, <1>8, <1>9, <1>10, <1>11, <1>12, NewPhase

-----------------------------------------------------------------------------
(* BALLOON -> RESTORE -> INITIAL.                                          *)

LEMMA StartReclaimStep ==
  ASSUME NoLiveRestore, IInv, StartReclaim
  PROVE  IInv'
<1>1. /\ AllowRestore /\ phase = "balloon" /\ phase' = "reclaiming"
      /\ UNCHANGED <<bm, req, stopped, step, resharding, remaining>>
  BY DEF StartReclaim
<1>2. /\ TypeOK /\ Control /\ Pools /\ Owners /\ remaining = {}
      /\ \A v \in Inst : step[v].moved = {}
  BY <1>1, Excluded DEF IInv
<1>3. \A v \in Inst : step[v].shard = {} /\ ~ resharding[v]
  BY <1>1, <1>2 DEF NoLiveRestore, Control
<1>4. TypeOK'
  BY <1>1, <1>2 DEF TypeOK, Phase
<1>5. Control'
  BY <1>1, <1>2, <1>3 DEF Control
<1>6. \A i \in Inst : PoolOK(bm'[i], phase')
  BY <1>1, <1>2 DEF Pools, PoolOK, InitialPhases, FusedPhases, LoanPhases
<1>7. phase' \notin InitialPhases \cup {"stopping_init"}
  BY <1>1 DEF InitialPhases
<1>8. \A i \in Inst, r \in Req : Extend \cap bm'[i].block_table[r] # {} =>
             req'[r].fx /\ req'[r].q \in {"running", "waiting"}
  BY <1>1, <1>2 DEF Owners
<1>9. QED
  BY <1>1, <1>2, <1>3, <1>4, <1>5, <1>6, <1>7, <1>8, NewPhase

LEMMA ReclaimStep ==
  ASSUME IInv, NEW i \in Inst, Reclaim(i)
  PROVE  IInv'
<1>1. /\ phase = "reclaiming" /\ bm' = [bm EXCEPT ![i] = PollExtend(@)]
      /\ UNCHANGED <<phase, req, stopped, step, resharding, remaining>>
  BY DEF Reclaim
<1>2. /\ TypeOK /\ Control /\ Pools /\ Owners /\ remaining = {}
      /\ bm \in [Inst -> Manager]
      /\ \A v \in Inst : step[v].moved = {} /\ step[v].shard = {}
  BY <1>1, Excluded DEF IInv, TypeOK
<1>3. /\ bm'[i] = PollExtend(bm[i]) /\ \A j \in Inst \ {i} : bm'[j] = bm[j]
      /\ bm' = [j \in Inst |-> bm'[j]]
  BY <1>1, <1>2
<1>4. PoolOK(bm[i], phase)
  BY <1>2 DEF Pools
<1>5. /\ bm'[i] \in Manager /\ bm'[i].block_table = bm[i].block_table
      /\ bm'[i].is_fusion_state = bm[i].is_fusion_state
      /\ ExtendCounted(bm'[i]) /\ Counted(bm'[i])
  BY <1>3, <1>4, PollExtendStep DEF PoolOK
<1>6. PoolOK(bm'[i], phase')
  BY <1>1, <1>4, <1>5 DEF PoolOK, InitialPhases, FusedPhases, LoanPhases
<1>7. \A j \in Inst : PoolOK(bm'[j], phase') /\ bm'[j] \in Manager
                      /\ bm'[j].block_table = bm[j].block_table
  BY <1>1, <1>2, <1>3, <1>5, <1>6 DEF Pools
<1>8. TypeOK'
  BY <1>1, <1>2, <1>3, <1>7 DEF TypeOK
<1>9. Control'
  BY <1>1, <1>2 DEF Control, AllIdle, Idle
<1>10. phase' \notin InitialPhases \cup {"stopping_init"}
  BY <1>1 DEF InitialPhases
<1>11. \A j \in Inst, r \in Req : Extend \cap bm'[j].block_table[r] # {} =>
             req'[r].fx /\ req'[r].q \in {"running", "waiting"}
  BY <1>1, <1>2, <1>7 DEF Owners
<1>12. QED
  BY <1>1, <1>2, <1>7, <1>8, <1>9, <1>10, <1>11, NewPhase

LEMMA EndReclaimStep ==
  ASSUME IInv, EndReclaim
  PROVE  IInv'
<1>1. /\ phase = "reclaiming" /\ phase' = "reloading"
      /\ \A i \in Inst : bm[i].max_extend <= 0
      /\ UNCHANGED <<bm, req, stopped, step, resharding, remaining>>
  BY DEF EndReclaim
<1>2. /\ TypeOK /\ Control /\ Pools /\ Owners /\ remaining = {}
      /\ \A v \in Inst : step[v].moved = {} /\ step[v].shard = {}
  BY <1>1, Excluded DEF IInv
<1>3. ASSUME NEW i \in Inst PROVE PoolOK(bm'[i], phase')
  <2>1. PoolOK(bm[i], phase)
    BY <1>2 DEF Pools
  <2>2. Loan(bm[i]) \subseteq Extend
    BY <2>1 DEF PoolOK, Loan, Manager
  <2>3. Cardinality(Loan(bm[i])) \in Nat
    BY <2>2, BlockSets
  <2>4. bm[i].max_extend = 0
    BY <1>1, <2>1, <2>3 DEF PoolOK, ExtendCounted
  <2>5. QED
    BY <1>1, <2>1, <2>4 DEF PoolOK, InitialPhases, FusedPhases, LoanPhases
<1>4. TypeOK'
  BY <1>1, <1>2 DEF TypeOK, Phase
<1>5. Control'
  BY <1>1, <1>2 DEF Control, RestorePhases
<1>6. phase' \notin InitialPhases \cup {"stopping_init"}
  BY <1>1 DEF InitialPhases
<1>7. \A i \in Inst, r \in Req : Extend \cap bm'[i].block_table[r] # {} =>
             req'[r].fx /\ req'[r].q \in {"running", "waiting"}
  BY <1>1, <1>2 DEF Owners
<1>8. QED
  BY <1>1, <1>2, <1>3, <1>4, <1>5, <1>6, <1>7, NewPhase

LEMMA ReloadedStep ==
  ASSUME IInv, Reloaded
  PROVE  IInv'
<1>1. /\ phase = "reloading" /\ phase' = "stopping"
      /\ stopped' = [v \in Inst |-> TRUE]
      /\ UNCHANGED <<bm, req, step, resharding, remaining>>
  BY DEF Reloaded
<1>2. /\ TypeOK /\ Control /\ Pools /\ Owners /\ remaining = {}
      /\ \A v \in Inst : step[v].moved = {} /\ step[v].shard = {}
  BY <1>1, Excluded DEF IInv
<1>3. \A i \in Inst : PoolOK(bm'[i], phase')
  BY <1>1, <1>2 DEF Pools, PoolOK, InitialPhases, FusedPhases, LoanPhases
<1>4. TypeOK'
  BY <1>1, <1>2 DEF TypeOK, Phase
<1>5. Control'
  BY <1>1, <1>2 DEF Control, RestorePhases
<1>6. phase' \notin InitialPhases \cup {"stopping_init"}
  BY <1>1 DEF InitialPhases
<1>7. \A i \in Inst, r \in Req : Extend \cap bm'[i].block_table[r] # {} =>
             req'[r].fx /\ req'[r].q \in {"running", "waiting"}
  BY <1>1, <1>2 DEF Owners
<1>8. QED
  BY <1>1, <1>2, <1>3, <1>4, <1>5, <1>6, <1>7, NewPhase

LEMMA RestoreInstanceStep ==
  ASSUME IInv, RestoreInstance
  PROVE  IInv'
<1>1. /\ phase = "stopping" /\ phase' = "restore" /\ AllIdle
      /\ bm' \in OneEach([i \in Inst |-> RestoreKv(bm[i])])
      /\ stopped' = [stopped EXCEPT ![0] = FALSE]
      /\ UNCHANGED <<req, step, resharding, remaining>>
  BY DEF RestoreInstance
<1>2. /\ TypeOK /\ Control /\ Pools /\ Owners /\ remaining = {}
      /\ \A v \in Inst : step[v].moved = {} /\ step[v].shard = {}
  BY <1>1, Excluded DEF IInv
<1>3. ASSUME NEW i \in Inst
      PROVE  /\ bm'[i] \in Manager /\ PoolOK(bm'[i], phase')
             /\ bm'[i].block_table = bm[i].block_table
  <2>1. /\ PoolOK(bm[i], phase) /\ bm[i] \in Manager /\ Counted(bm[i])
        /\ bm[i].is_fusion_state /\ ExtendCounted(bm[i]) /\ bm[i].max_extend = 0
    BY <1>1, <1>2 DEF Pools, PoolOK, FusedPhases, LoanPhases
  <2>2. bm'[i] \in RestoreKv(bm[i])
    BY <1>1, OneEachType
  <2>3. /\ Reformatted(bm[i], bm'[i]) /\ ~ bm'[i].is_fusion_state
        /\ bm'[i].free_fusion = {} /\ Counted(bm'[i])
    BY <2>1, <2>2, RestoreKvStep
  <2>4. ExtendCounted(bm'[i])
    BY <2>1, <2>3, ReformattedCounted
  <2>5. /\ bm'[i] \in Manager /\ bm'[i].block_table = bm[i].block_table
        /\ bm'[i].max_extend = bm[i].max_extend
    BY <2>3 DEF Reformatted
  <2>6. bm'[i].is_fusion_state = (phase' \in FusedPhases)
    <3>1. phase' \notin FusedPhases
      BY <1>1 DEF FusedPhases
    <3>2. bm'[i].is_fusion_state \in BOOLEAN
      BY <2>5 DEF Manager
    <3>3. QED
      BY <2>3, <3>1, <3>2
  <2>7. PoolOK(bm'[i], phase')
    BY <1>1, <2>1, <2>3, <2>4, <2>5, <2>6
       DEF PoolOK, InitialPhases, LoanPhases
  <2>8. QED
    BY <2>5, <2>7
<1>4. TypeOK'
  <2>1. bm' \in [Inst -> Manager]
    BY <1>1, <1>3, OneEachType
  <2>2. stopped' \in [Inst -> BOOLEAN] /\ phase' \in Phase
    BY <1>1, <1>2 DEF TypeOK, Phase
  <2>3. QED
    BY <1>1, <1>2, <2>1, <2>2 DEF TypeOK
<1>5. Control'
  BY <1>1, <1>2 DEF Control, RestorePhases
<1>6. phase' \notin InitialPhases \cup {"stopping_init"}
  BY <1>1 DEF InitialPhases
<1>7. \A i \in Inst, r \in Req : Extend \cap bm'[i].block_table[r] # {} =>
             req'[r].fx /\ req'[r].q \in {"running", "waiting"}
  BY <1>1, <1>2, <1>3 DEF Owners
<1>8. QED
  BY <1>1, <1>2, <1>3, <1>4, <1>5, <1>6, <1>7, NewPhase

LEMMA VoteInitStep ==
  ASSUME IInv, VoteInit
  PROVE  IInv'
<1>1. /\ phase = "restore" /\ phase' = "stopping_init"
      /\ \A r \in Req : req[r].q \in {"running", "waiting", "queued"} => ~ req[r].fx
      /\ stopped' = [v \in Inst |-> TRUE]
      /\ UNCHANGED <<bm, req, step, resharding, remaining>>
  BY DEF VoteInit
<1>2. /\ TypeOK /\ Control /\ Pools /\ Owners /\ remaining = {}
      /\ \A v \in Inst : step[v].shard = {}
  BY <1>1, Excluded DEF IInv
<1>3. \A i \in Inst : PoolOK(bm'[i], phase')
  BY <1>1, <1>2 DEF Pools, PoolOK, InitialPhases, FusedPhases, LoanPhases
<1>4. TypeOK'
  BY <1>1, <1>2 DEF TypeOK, Phase
<1>5. Control'
  BY <1>1, <1>2 DEF Control, RestorePhases
<1>6. \A r \in Req : req'[r].q = "running" => ~ req'[r].fx
  BY <1>1
<1>7. \A i \in Inst, r \in Req : Extend \cap bm'[i].block_table[r] # {} =>
             req'[r].fx /\ req'[r].q \in {"running", "waiting"}
  BY <1>1, <1>2 DEF Owners
<1>8. QED
  BY <1>1, <1>2, <1>3, <1>4, <1>5, <1>6, <1>7, NewPhase

LEMMA SplitStep ==
  ASSUME IInv, Split
  PROVE  IInv'
<1>1. /\ phase = "stopping_init" /\ phase' = "initial" /\ AllIdle
      /\ bm' \in OneEach([i \in Inst |-> {Given(i, m) : m \in RestoreFromFusion(bm[i])}])
      /\ req' = [r \in Req |->
                   IF req[r].ve = 0 THEN req[r]
                   ELSE IF req[r].q = "running" THEN [req[r] EXCEPT !.home = req[r].ve]
                   ELSE IF req[r].q = "waiting" THEN [req[r] EXCEPT !.q = "lost"]
                   ELSE req[r]]
      /\ stopped' = [v \in Inst |-> FALSE]
      /\ UNCHANGED <<step, resharding, remaining>>
  BY DEF Split
<1>2. /\ TypeOK /\ Control /\ Marked /\ Pools /\ Owners /\ remaining = {}
      /\ \A v \in Inst : step[v].moved = {} /\ step[v].shard = {}
  BY <1>1, Excluded DEF IInv
<1>3. ASSUME NEW i \in Inst
      PROVE  /\ bm'[i] \in Manager /\ PoolOK(bm'[i], phase')
             /\ \A r \in Req : Extend \cap bm'[i].block_table[r] = {}
  <2>1. /\ PoolOK(bm[i], phase) /\ bm[i] \in Manager /\ Counted(bm[i])
        /\ ~ bm[i].is_fusion_state /\ ExtendCounted(bm[i])
        /\ bm[i].free_fusion = {} /\ bm[i].max_extend = 0
    BY <1>1, <1>2 DEF Pools, PoolOK, FusedPhases, LoanPhases
  <2>2. PICK m \in RestoreFromFusion(bm[i]) : bm'[i] = Given(i, m)
    <3>1. bm'[i] \in {Given(i, m) : m \in RestoreFromFusion(bm[i])}
      BY <1>1, OneEachType
    <3>2. QED
      BY <3>1
  <2>g. /\ Reformatted(bm[i], m) /\ m \in Manager /\ ~ m.is_fusion_state
        /\ m.free_fusion = {} /\ m.max_gpu = N /\ m.max_reserved = 0
    BY <2>1, RestoreFromFusionStep DEF Reformatted
  <2>3. /\ Reformatted(bm[i], bm'[i]) /\ ~ bm'[i].is_fusion_state
        /\ bm'[i].free_fusion = {} /\ bm'[i].max_gpu = N /\ bm'[i].max_reserved = 0
    BY <2>2, <2>g, GivenStep DEF Reformatted
  <2>4. ExtendCounted(bm'[i])
    BY <2>1, <2>3, ReformattedCounted
  <2>5. /\ bm'[i] \in Manager /\ bm'[i].max_extend = bm[i].max_extend
    BY <2>3 DEF Reformatted
  <2>6. bm'[i].is_fusion_state = (phase' \in FusedPhases)
    <3>1. phase' \notin FusedPhases
      BY <1>1 DEF FusedPhases
    <3>2. bm'[i].is_fusion_state \in BOOLEAN
      BY <2>5 DEF Manager
    <3>3. QED
      BY <2>3, <3>1, <3>2
  <2>7. Counted(bm'[i])
    BY <2>3, PoolAssumption DEF Counted
  <2>8. PoolOK(bm'[i], phase')
    BY <1>1, <2>1, <2>3, <2>4, <2>5, <2>6, <2>7
       DEF PoolOK, InitialPhases, LoanPhases
  <2>9. QED
    BY <2>1, <2>5, <2>8, NoLoan
<1>4. ASSUME NEW r \in Req
      PROVE  /\ req'[r] \in Request
             /\ req'[r].q = "running" => req[r].q = "running"
             /\ req'[r].fx = req[r].fx
  <2>1. req[r] \in Request
    BY <1>2 DEF TypeOK
  <2>2. /\ [req[r] EXCEPT !.home = req[r].ve] \in Request
        /\ [req[r] EXCEPT !.q = "lost"] \in Request
    BY <2>1 DEF Request, Queue
  <2>3. \/ req'[r] = req[r]
        \/ req[r].q = "running" /\ req'[r] = [req[r] EXCEPT !.home = req[r].ve]
        \/ req'[r] = [req[r] EXCEPT !.q = "lost"]
    BY <1>1
  <2>4. QED
    BY <2>1, <2>2, <2>3 DEF Request
<1>5. TypeOK'
  <2>1. bm' \in [Inst -> Manager]
    BY <1>1, <1>3, OneEachType
  <2>2. req' \in [Req -> Request]
    BY <1>1, <1>4
  <2>3. stopped' \in [Inst -> BOOLEAN] /\ phase' \in Phase
    BY <1>1 DEF Phase
  <2>4. QED
    BY <1>1, <1>2, <2>1, <2>2, <2>3 DEF TypeOK
<1>6. Control'
  BY <1>1, <1>2 DEF Control, RestorePhases
<1>7. \A r \in Req : req'[r].q = "running" => ~ req'[r].fx
  BY <1>1, <1>2, <1>4 DEF Marked
<1>8. QED
  BY <1>1, <1>2, <1>3, <1>5, <1>6, <1>7, NewPhase

-----------------------------------------------------------------------------
(* The invariant, and what follows from it.                                *)

LEMMA InitIInv == Init => IInv
<1> SUFFICES ASSUME Init PROVE IInv
  OBVIOUS
<1>1. /\ phase = "initial" /\ bm = [i \in Inst |-> InitManager]
      /\ req = [r \in Req |-> NewRequest]
      /\ stopped = [v \in Inst |-> FALSE]
      /\ step = [v \in Inst |-> NoStep]
      /\ resharding = [v \in Inst |-> FALSE]
      /\ remaining = {}
  BY DEF Init
<1>2. InitManager \in Manager
  <2>1. N \in Int /\ 0 \in Int /\ 0 \in Nat
    BY PoolAssumption
  <2>2. Local \in SUBSET Pipeline
    BY Regions
  <2>3. QED
    BY <2>1, <2>2 DEF InitManager, Manager
<1>3. PoolOK(InitManager, "initial")
  <2>1. Loan(InitManager) = {}
    BY DEF Loan, InitManager
  <2>2. ExtendCounted(InitManager)
    <3>1. Cardinality(Loan(InitManager)) = 0
      BY <2>1, FS_EmptySet
    <3>2. QED
      BY <3>1 DEF ExtendCounted, InitManager
  <2>3. Counted(InitManager)
    BY PoolAssumption DEF Counted, InitManager
  <2>4. /\ InitManager.is_fusion_state = FALSE /\ InitManager.free_fusion = {}
        /\ InitManager.max_gpu = N /\ InitManager.max_reserved = 0
        /\ InitManager.max_extend = 0
    BY DEF InitManager
  <2>5. FALSE = ("initial" \in FusedPhases)
    <3>1. "initial" \notin FusedPhases
      BY DEF FusedPhases
    <3>2. QED
      BY <3>1
  <2>6. QED
    BY <1>2, <2>2, <2>3, <2>4, <2>5 DEF PoolOK
<1>4. NewRequest \in Request
  <2>1. 1 \in 1 .. MaxLen
    BY GroupAssumption
  <2>2. QED
    BY <2>1, StageType DEF NewRequest, Request, Queue
<1>5. NoStep \in Step /\ NoStep.shard = {} /\ NoStep.moved = {}
  BY DEF NoStep, Step, Pc
<1>6. TypeOK
  BY <1>1, <1>2, <1>4, <1>5 DEF TypeOK, Phase
<1>7. Control
  BY <1>1, <1>5 DEF Control, RestorePhases
<1>8. Marked /\ Pools /\ Owners
  BY <1>1, <1>3, <1>5 DEF Marked, Pools, Owners, NewRequest, InitManager
<1>9. QED
  BY <1>6, <1>7, <1>8 DEF IInv

LEMMA StepOfIInv ==
  ASSUME IInv, NEW v \in Inst, StepOf(v)
  PROVE  IInv'
<1>1. CASE StartStep(v)
  BY <1>1, StartStepStep
<1>2. CASE FinishReshard(v)
  BY <1>2, FinishReshardStep
<1>3. CASE EndPipe(v)
  BY <1>3, EndPipeStep
<1>4. CASE EndRepl(v)
  BY <1>4, EndReplStep
<1>5. CASE Pack(v)
  BY <1>5, PackStep
<1>6. CASE NextStopped(v)
  BY <1>6, NextStoppedStep
<1>7. CASE Grown(v)
  BY <1>7, GrownStep
<1>8. ASSUME NEW r \in Req,
             \/ StartReshard(v, r)
             \/ FreeFinished(v, r) \/ Grow(v, r) \/ Preempt(v, r)
             \/ Adopt(v, r) \/ Admit(v, r) \/ Refuse(v, r)
      PROVE  IInv'
  BY <1>8, StartReshardStep, FreeFinishedStep, GrowStep, PreemptStep, AdoptStep,
     AdmitStep, RefuseStep
<1>9. QED
  BY <1>1, <1>2, <1>3, <1>4, <1>5, <1>6, <1>7, <1>8 DEF StepOf

LEMMA NextIInv ==
  ASSUME NoLiveRestore, IInv, [Next]_vars
  PROVE  IInv'
<1>1. ASSUME NEW r \in Req, Arrive(r) PROVE IInv'
  BY <1>1, ArriveStep
<1>2. ASSUME NEW v \in Inst, StepOf(v) PROVE IInv'
  BY <1>2, StepOfIInv
<1>3. CASE Balloon
  <2>1. ASSUME NEW S \in SUBSET Inst, VoteBalloon(S) PROVE IInv'
    BY <2>1, VoteBalloonStep
  <2>2. ASSUME NEW r \in Req, RecomputeStale(r) \/ Reshard(r) PROVE IInv'
    BY <2>2, RecomputeStaleStep, ReshardStep
  <2>3. QED
    BY <1>3, <2>1, <2>2, MergeStep, DropParametersStep, GiveUpReshardStep,
       EnterBalloonStep DEF Balloon
<1>4. CASE Restore
  <2>1. ASSUME NEW i \in Inst, Reclaim(i) PROVE IInv'
    BY <2>1, ReclaimStep
  <2>2. QED
    BY <1>4, <2>1, StartReclaimStep, EndReclaimStep, ReloadedStep,
       RestoreInstanceStep, VoteInitStep, SplitStep DEF Restore
<1>5. CASE UNCHANGED vars
  <2>1. UNCHANGED <<phase, bm, req, stopped, step, resharding, remaining>>
    BY <1>5 DEF vars
  <2>2. TypeOK' /\ Control' /\ Marked'
    BY <2>1 DEF IInv, TypeOK, Control, AllIdle, Idle, Marked
  <2>3. Pools' /\ Owners'
    BY <2>1 DEF IInv, Pools, Owners, Local0
  <2>4. QED
    BY <2>2, <2>3 DEF IInv
<1>6. QED
  BY <1>1, <1>2, <1>3, <1>4, <1>5 DEF Next

\* The inductive invariant holds of every behaviour of the group, for any
\* number of instances, blocks and requests, any quota, and every mode except
\* live reshard together with restore.
THEOREM Invariance == NoLiveRestore => (Spec => []IInv)
<1> SUFFICES ASSUME NoLiveRestore PROVE Spec => []IInv
  OBVIOUS
<1>1. Init => IInv
  BY InitIInv
<1>2. IInv /\ [Next]_vars => IInv'
  BY NextIInv
<1>3. QED
  BY <1>1, <1>2, PTL DEF Spec

\* Every variable keeps its type; in particular no extended block ever gets
\* into a list of blocks of the base region (allocate_fusion_blocks,
\* free_blocks and pack_blocks_into_base_region keep the regions apart).
THEOREM TypeCorrect == NoLiveRestore => (Spec => []TypeOK)
<1>1. IInv => TypeOK
  BY DEF IInv
<1>2. QED
  BY <1>1, Invariance, PTL

\* The counters of every block manager add up to the memory of its instance
\* through every change of format, so that the assertion of
\* restore_from_fusion cannot fail.
THEOREM CapacityTheorem == NoLiveRestore => (Spec => []CapacityConserved)
<1>1. IInv => CapacityConserved
  BY DEF IInv, Pools, PoolOK, Counted, CapacityConserved
<1>2. QED
  BY <1>1, Invariance, PTL

\* wait_for_ex_blocks_to_return ends only when every extended block is back:
\* while the parameters are reloaded and afterwards nobody refers to one.
THEOREM ReclaimTheorem == NoLiveRestore => (Spec => []ExtendReclaimed)
<1>1. IInv => ExtendReclaimed
  <2> SUFFICES ASSUME IInv, NEW i \in Inst,
                      phase \in {"reloading", "stopping", "restore",
                                 "stopping_init", "initial"}
               PROVE  /\ bm[i].free_extend = {}
                      /\ \A r \in Req : bm[i].block_table[r] \cap Extend = {}
    BY DEF ExtendReclaimed
  <2>1. PoolOK(bm[i], phase)
    BY DEF IInv, Pools
  <2>2. bm[i].max_extend = 0
    BY <2>1 DEF PoolOK, LoanPhases
  <2>3. QED
    BY <2>1, <2>2, NoLoan
<1>2. QED
  BY <1>1, Invariance, PTL

\* No extended block gets lost or has two owners: in every manager those on
\* loan are free or in the table of one request, and max_extend counts them,
\* so that the loop of wait_for_ex_blocks_to_return waits for all of them.
THEOREM ExtendTheorem == NoLiveRestore => (Spec => []ExtendAccounted)
<1>1. IInv => ExtendAccounted
  <2> SUFFICES ASSUME IInv, NEW i \in Inst
               PROVE  ExtendCounted(bm[i])
    BY DEF ExtendAccounted, ExtendCounted, Loan
  <2>1. QED
    BY DEF IInv, Pools, PoolOK
<1>2. QED
  BY <1>1, Invariance, PTL

=============================================================================
