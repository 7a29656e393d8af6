------------------------- MODULE RMACRegionsProofs -------------------------
(***************************************************************************)
(* Proof that the shared-buffer round trip of RMACRegionsKernel is safe    *)
(* (RegionWritesSafe) for every block size, grid cap and input: no thread  *)
(* writes outside the N x 5 output and no cell gets another region's       *)
(* coordinate.  The argument is the one the two __syncthreads carry: the   *)
(* threads of a block go through the rounds of the grid-stride loop in     *)
(* lock step, a buffer slot is only stored between the first and the       *)
(* second barrier and only read after the second, and the threads that     *)
(* have left the loop own no slot that the others still read.              *)
(***************************************************************************)
EXTENDS RMACRegions, FiniteSetTheorems, TLAPS

(* The loop stride of the region kernel, and thread t's round base:        *)
(* offset = index - hipThreadIdx_x.                                        *)
S == LoopStride(Grid)
Off(t) == idx[t] - Tid(t)

SameBlock(u, v) == BlockOf(u) = BlockOf(v)

(* Before the region kernel no device thread runs and the output has no    *)
(* cell; once it is launched the output has N x 5 cells.                   *)
HostPhase ==
    /\ status # "kernel" => /\ \A t \in Threads : pc[t] = "idle"
                            /\ DOMAIN out = {}
    /\ status = "kernel" => /\ \A t \in Threads : pc[t] # "idle"
                            /\ DOMAIN out = 0 .. n * RoiWidth - 1

(* The count kernel only runs on a non-empty input.                       *)
CountPhase == status = "counting" => BatchSize * H * W # 0

(* A thread inside the loop body has an index below N and a round base    *)
(* that is not negative.                                                   *)
InLoop ==
    \A t \in Threads :
        /\ pc[t] # "idle" => idx[t] >= Tid(t)
        /\ pc[t] \in {"sync1", "store", "sync2", "copy"} => idx[t] < n

(* Between the first and the second barrier of a round no thread of the   *)
(* block is anywhere but at the store, at the second barrier, or ended.    *)
PhaseSep ==
    \A u, v \in Threads :
        SameBlock(u, v) /\ pc[u] \in {"store", "sync2"}
            => pc[v] \in {"store", "sync2", "exited"}

(* The threads of a block share their round base; a thread still at the   *)
(* copy is one stride behind those that have copied and gone on.          *)
SameRound ==
    \A u, v \in Threads :
        SameBlock(u, v) =>
            /\ pc[u] \in {"top", "sync1"} /\ pc[v] \in {"top", "sync1"}
                   => Off(u) = Off(v)
            /\ pc[u] \in {"store", "sync2"} /\ pc[v] \in {"store", "sync2"}
                   => Off(u) = Off(v)
            /\ pc[u] = "copy" /\ pc[v] = "copy" => Off(u) = Off(v)
            /\ pc[u] = "copy" /\ pc[v] \in {"top", "sync1"}
                   => Off(u) + S = Off(v)

(* A thread that has left the loop has a thread id past the active        *)
(* threads of every round its block still runs.                            *)
ExitedBeyond ==
    \A w, u \in Threads :
        SameBlock(w, u) /\ pc[w] = "exited" =>
            /\ pc[u] \in {"top", "sync1", "store", "sync2"}
                   => Off(u) + Tid(w) >= n
            /\ pc[u] = "copy" => Off(u) + S + Tid(w) >= n

(* A thread at the second barrier has its five coordinates in its slots. *)
Stored ==
    \A w \in Threads :
        pc[w] = "sync2" =>
            \A c \in 0 .. RoiWidth - 1 :
                shared[BlockOf(w)][Tid(w) * RoiWidth + c] = <<idx[w], c>>

(* A thread at the copy finds the whole round of its block in the buffer. *)
CopyReady ==
    \A u \in Threads :
        pc[u] = "copy" =>
            \A s \in 0 .. ActiveThreads(u) * RoiWidth - 1 :
                shared[BlockOf(u)][s] =
                    <<Off(u) + s \div RoiWidth, s % RoiWidth>>

(* The inductive invariant.                                                *)
IInv ==
    /\ TypeOK
    /\ RegionWritesSafe
    /\ HostPhase
    /\ CountPhase
    /\ InLoop
    /\ PhaseSep
    /\ SameRound
    /\ ExitedBeyond
    /\ Stored
    /\ CopyReady
-----------------------------------------------------------------------------
(* Thread numbering: global id = block * blockDim + thread id.            *)
LEMMA ThreadFacts ==
    ASSUME NEW t \in Threads
    PROVE  /\ Tid(t) \in 0 .. BlockDim - 1
           /\ BlockOf(t) \in 0 .. MaxBlocks - 1
           /\ t = BlockOf(t) * BlockDim + Tid(t)
  BY GeometryAssumption DEF Threads, Tid, BlockOf

LEMMA ThreadAt ==
    ASSUME NEW b \in 0 .. MaxBlocks - 1, NEW r \in 0 .. BlockDim - 1
    PROVE  /\ b * BlockDim + r \in Threads
           /\ BlockOf(b * BlockDim + r) = b
           /\ Tid(b * BlockDim + r) = r
  BY GeometryAssumption DEF Threads, Tid, BlockOf

LEMMA SameThread ==
    ASSUME NEW u \in Threads, NEW v \in Threads, SameBlock(u, v),
           Tid(u) = Tid(v)
    PROVE  u = v
  BY ThreadFacts DEF SameBlock

(* The launch gives whole blocks: thread t runs iff its block does.        *)
LEMMA LaunchedBlock ==
    ASSUME NEW t \in Threads, NEW g \in Nat
    PROVE  t < g * BlockDim <=> BlockOf(t) < g
  BY ThreadFacts, GeometryAssumption

LEMMA GridNat ==
    ASSUME NEW m \in Nat
    PROVE  GetBlocks(m) \in Nat
  BY GeometryAssumption DEF GetBlocks

-----------------------------------------------------------------------------
(* The count kernel writes naturals: the arg-min over the steps exists,   *)
(* because KVLess is a strict total order on them, and the roi count is    *)
(* the size of a finite set.                                               *)
LEMMA FracLe ==
    ASSUME NEW a1 \in Int, NEW a2 \in Int, NEW a3 \in Int,
           NEW d1 \in Nat \ {0}, NEW d2 \in Nat \ {0}, NEW d3 \in Nat \ {0},
           a1 * d2 <= a2 * d1, a2 * d3 <= a3 * d2
    PROVE  /\ a1 * d3 <= a3 * d1
           /\ (a1 * d2 < a2 * d1 \/ a2 * d3 < a3 * d2) => a1 * d3 < a3 * d1
  BY SMT

LEMMA ValueType ==
    ASSUME H \in Nat, W \in Nat, MinW > 0, NEW k \in Steps
    PROVE  /\ ValueNum(k) \in Int
           /\ ValueDen(k) \in Nat \ {0}
  BY RMACAssumption DEF ValueNum, ValueDen, MinW, Diff, MinOf, MaxOf, Steps,
                        MinStep, MaxStep

LEMMA KVOrder ==
    ASSUME H \in Nat, W \in Nat, MinW > 0,
           NEW a \in Steps, NEW b \in Steps, NEW c \in Steps
    PROVE  /\ ~KVLess(a, a)
           /\ a # b => KVLess(a, b) \/ KVLess(b, a)
           /\ KVLess(a, b) /\ KVLess(b, c) => KVLess(a, c)
<1> DEFINE na == ValueNum(a)  nb == ValueNum(b)  nc == ValueNum(c)
           da == ValueDen(a)  db == ValueDen(b)  dc == ValueDen(c)
<1>1. /\ na \in Int /\ nb \in Int /\ nc \in Int
      /\ da \in Nat \ {0} /\ db \in Nat \ {0} /\ dc \in Nat \ {0}
  BY ValueType
<1>2. ~KVLess(a, a)
  BY <1>1 DEF KVLess, Steps, MinStep, MaxStep
<1>3. a # b => KVLess(a, b) \/ KVLess(b, a)
  BY <1>1 DEF KVLess, Steps, MinStep, MaxStep
<1>4. KVLess(a, b) /\ KVLess(b, c) => KVLess(a, c)
  <2> SUFFICES ASSUME KVLess(a, b), KVLess(b, c) PROVE KVLess(a, c)
    OBVIOUS
  <2>1. na * db <= nb * da /\ nb * dc <= nc * db
    BY <1>1 DEF KVLess
  <2>2. /\ na * dc <= nc * da
        /\ (na * db < nb * da \/ nb * dc < nc * db) => na * dc < nc * da
    BY <1>1, <2>1, FracLe
  <2>3. (na * db = nb * da /\ nb * dc = nc * db) => na * dc = nc * da
    <3> SUFFICES ASSUME na * db = nb * da, nb * dc = nc * db
                 PROVE  na * dc = nc * da
      OBVIOUS
    <3>1. nc * da <= na * dc
      BY <1>1, FracLe
    <3> QED
      BY <1>1, <2>2, <3>1
  <2> QED
    BY <1>1, <2>2, <2>3 DEF KVLess, Steps, MinStep, MaxStep
<1> QED
  BY <1>2, <1>3, <1>4

(* One step of the arg-min scan: the smaller of the minimum so far and a   *)
(* new key is a minimum of the keys seen and the new one.                  *)
ArgMin2(m, x) == IF KVLess(x, m) THEN x ELSE m

LEMMA ArgMinStep ==
    ASSUME H \in Nat, W \in Nat, MinW > 0, NEW m \in Steps, NEW x \in Steps
    PROVE  /\ ArgMin2(m, x) \in Steps
           /\ ~KVLess(x, ArgMin2(m, x))
           /\ \A k2 \in Steps : ~KVLess(k2, m) => ~KVLess(k2, ArgMin2(m, x))
<1> USE DEF ArgMin2
<1>1. CASE KVLess(x, m)
  BY <1>1, KVOrder
<1>2. CASE ~KVLess(x, m)
  BY <1>2
<1> QED
  BY <1>1, <1>2

LEMMA StepType ==
    ASSUME H \in Nat, W \in Nat, MinW > 0
    PROVE  Step \in Steps
<1> DEFINE m2 == ArgMin2(1, 2)  m3 == ArgMin2(m2, 3)  m4 == ArgMin2(m3, 4)
           m5 == ArgMin2(m4, 5)  m6 == ArgMin2(m5, 6)
<1>0. Steps = {1, 2, 3, 4, 5, 6}
  BY DEF Steps, MinStep, MaxStep
<1>1. \A k2 \in {1} : ~KVLess(k2, 1)
  BY <1>0, KVOrder
<1>2. m2 \in Steps /\ \A k2 \in {1, 2} : ~KVLess(k2, m2)
  <2>1. /\ ArgMin2(1, 2) \in Steps
        /\ ~KVLess(2, ArgMin2(1, 2))
        /\ \A k2 \in Steps : ~KVLess(k2, 1) => ~KVLess(k2, ArgMin2(1, 2))
    BY <1>0, <1>1, ArgMinStep
  <2> QED
    BY <1>0, <1>1, <2>1 DEF m2
<1>3. m3 \in Steps /\ \A k2 \in {1, 2, 3} : ~KVLess(k2, m3)
  <2>1. /\ ArgMin2(m2, 3) \in Steps
        /\ ~KVLess(3, ArgMin2(m2, 3))
        /\ \A k2 \in Steps : ~KVLess(k2, m2) => ~KVLess(k2, ArgMin2(m2, 3))
    BY <1>0, <1>2, ArgMinStep
  <2> QED
    BY <1>0, <1>2, <2>1 DEF m3
<1>4. m4 \in Steps /\ \A k2 \in {1, 2, 3, 4} : ~KVLess(k2, m4)
  <2>1. /\ ArgMin2(m3, 4) \in Steps
        /\ ~KVLess(4, ArgMin2(m3, 4))
        /\ \A k2 \in Steps : ~KVLess(k2, m3) => ~KVLess(k2, ArgMin2(m3, 4))
    BY <1>0, <1>3, ArgMinStep
  <2> QED
    BY <1>0, <1>3, <2>1 DEF m4
<1>5. m5 \in Steps /\ \A k2 \in {1, 2, 3, 4, 5} : ~KVLess(k2, m5)
  <2>1. /\ ArgMin2(m4, 5) \in Steps
        /\ ~KVLess(5, ArgMin2(m4, 5))
        /\ \A k2 \in Steps : ~KVLess(k2, m4) => ~KVLess(k2, ArgMin2(m4, 5))
    BY <1>0, <1>4, ArgMinStep
  <2> QED
    BY <1>0, <1>4, <2>1 DEF m5
<1>6. m6 \in Steps /\ \A k2 \in Steps : ~KVLess(k2, m6)
  <2>1. /\ ArgMin2(m5, 6) \in Steps
        /\ ~KVLess(6, ArgMin2(m5, 6))
        /\ \A k2 \in Steps : ~KVLess(k2, m5) => ~KVLess(k2, ArgMin2(m5, 6))
    BY <1>0, <1>5, ArgMinStep
  <2> QED
    BY <1>0, <1>5, <2>1 DEF m6
<1> QED
  BY <1>6 DEF Step

LEMMA CountType ==
    ASSUME scales \in Nat, NEW wd \in Nat, NEW hd \in Nat
    PROVE  CountRois(wd, hd) \in Nat
<1> DEFINE U == UNION {RoisAtScale(l, wd, hd) : l \in 1 .. scales}
           Box == (1 .. scales) \X ((0 .. scales + wd) \X (0 .. scales + hd))
<1>1. U \subseteq Box
  BY DEF RoisAtScale
<1>2. /\ IsFiniteSet(1 .. scales)
      /\ IsFiniteSet(0 .. scales + wd)
      /\ IsFiniteSet(0 .. scales + hd)
  BY FS_Interval
<1>3. IsFiniteSet(Box)
  <2>1. IsFiniteSet((0 .. scales + wd) \X (0 .. scales + hd))
    BY <1>2, FS_Product
  <2> QED
    BY <1>2, <2>1, FS_Product
<1>4. IsFiniteSet(U)
  BY <1>1, <1>3, FS_Subset
<1> QED
  BY <1>4, FS_CardinalityType DEF CountRois

-----------------------------------------------------------------------------
(* The inductive invariant holds initially and is kept by the host steps. *)
LEMMA IInvInit == Init => IInv
  BY GeometryAssumption, RMACAssumption
  DEF Init, IInv, TypeOK, RegionWritesSafe, HostPhase, CountPhase, InLoop,
      PhaseSep, SameRound, ExitedBeyond, Stored, CopyReady, SharedCells,
      Unset, RoiWidth

LEMMA ImageType ==
    ASSUME TypeOK
    PROVE  BatchSize \in Nat /\ H \in Nat /\ W \in Nat
  BY RMACAssumption DEF TypeOK, BatchSize, H, W

LEMMA EmptyInputInv ==
    ASSUME IInv, EmptyInput PROVE IInv'
  BY DEF EmptyInput, IInv, TypeOK, RegionWritesSafe, HostPhase, CountPhase,
         InLoop, PhaseSep, SameRound, ExitedBeyond, Stored, CopyReady,
         BatchSize, H, W

LEMMA LaunchCountInv ==
    ASSUME IInv, LaunchCount PROVE IInv'
  BY DEF LaunchCount, IInv, TypeOK, RegionWritesSafe, HostPhase, CountPhase,
         InLoop, PhaseSep, SameRound, ExitedBeyond, Stored, CopyReady,
         BatchSize, H, W

LEMMA NumRMACRegionsKernelInv ==
    ASSUME IInv, NumRMACRegionsKernel PROVE IInv'
<1>1. H \in Nat /\ W \in Nat /\ MinW > 0
  <2>1. BatchSize * H * W # 0 /\ BatchSize \in Nat /\ H \in Nat /\ W \in Nat
    BY ImageType DEF NumRMACRegionsKernel, IInv, CountPhase
  <2> QED
    BY <2>1 DEF MinW, MinOf
<1>2. Wd \in Nat /\ Hd \in Nat
  BY <1>1, StepType DEF Wd, Hd, Steps, MinStep, MaxStep
<1>3. scales \in Nat
  BY RMACAssumption DEF IInv, TypeOK
<1>4. numRoisData' \in Nat \X Nat \X Nat
  BY <1>2, <1>3, CountType DEF NumRMACRegionsKernel
<1> QED
  BY <1>4 DEF NumRMACRegionsKernel, IInv, TypeOK, RegionWritesSafe,
         HostPhase, CountPhase, InLoop, PhaseSep, SameRound, ExitedBeyond,
         Stored, CopyReady, ActiveThreads, Off, S, Grid

LEMMA LaunchRegionsInv ==
    ASSUME IInv, LaunchRegions PROVE IInv'
<1> DEFINE N == BatchSize * numRoisData[1]
           G == GetBlocks(N)
<1>1. N \in Nat /\ G \in Nat
  <2>1. N \in Nat
    BY ImageType DEF IInv, TypeOK
  <2> QED
    BY <2>1, GridNat
<1>2. /\ n' = N
      /\ DOMAIN out' = 0 .. N * RoiWidth - 1
      /\ \A k \in DOMAIN out' : out'[k] = Unset
      /\ idx' = [t \in Threads |-> t]
      /\ pc' = [t \in Threads |-> IF t < G * BlockDim THEN "top" ELSE "exited"]
      /\ status' = "kernel"
      /\ UNCHANGED <<image, scales, numRoisData, stray, shared>>
  BY DEF LaunchRegions, LoopStart
<1>3. TypeOK'
  BY <1>1, <1>2 DEF IInv, TypeOK, Threads
(* Each launched thread starts at its global id: the round base of its  *)
(* block, plus its thread id.                                            *)
<1>4. ASSUME NEW u \in Threads
      PROVE  /\ Off(u)' = BlockOf(u) * BlockDim
             /\ idx'[u] >= Tid(u)
  <2>1. /\ Tid(u) \in 0 .. BlockDim - 1
        /\ BlockOf(u) \in 0 .. MaxBlocks - 1
        /\ u = BlockOf(u) * BlockDim + Tid(u)
    BY ThreadFacts
  <2> QED
    BY <1>2, <2>1, GeometryAssumption DEF Off
<1>5. SameRound'
  BY <1>2, <1>4 DEF SameRound, SameBlock
<1>6. ExitedBeyond'
  <2> SUFFICES ASSUME NEW w \in Threads, NEW u \in Threads, SameBlock(w, u),
                      pc'[w] = "exited", pc'[u] # "exited"
               PROVE  FALSE
    BY <1>2 DEF ExitedBeyond
  <2>1. ~(w < G * BlockDim) /\ u < G * BlockDim
    BY <1>2
  <2> QED
    BY <1>1, <2>1, LaunchedBlock DEF SameBlock
<1>7. InLoop'
  BY <1>2, <1>4 DEF InLoop
<1> QED
  BY <1>1, <1>2, <1>3, <1>5, <1>6, <1>7
  DEF IInv, RegionWritesSafe, HostPhase, CountPhase, PhaseSep, Stored,
      CopyReady

-----------------------------------------------------------------------------
(* The thread steps.  A thread that runs has been launched, so the output  *)
(* has its N x 5 cells.                                                    *)
LEMMA Running ==
    ASSUME IInv, NEW t \in Threads, pc[t] # "idle"
    PROVE  status = "kernel" /\ DOMAIN out = 0 .. n * RoiWidth - 1
  BY DEF IInv, HostPhase

LEMMA NumTypes ==
    ASSUME TypeOK
    PROVE  /\ S \in Nat
           /\ \A t \in Threads : /\ Off(t) \in Int
                                 /\ Off(t) + Tid(t) = idx[t]
                                 /\ Tid(t) \in 0 .. BlockDim - 1
<1>1. Grid \in Nat
  BY GridNat DEF TypeOK, Grid
<1>2. S \in Nat
  BY <1>1, GeometryAssumption DEF S, LoopStride
<1> QED
  BY <1>2, ThreadFacts DEF TypeOK, Off

LEMMA LoopEnterInv ==
    ASSUME IInv, NEW t \in Threads, LoopEnter(t) PROVE IInv'
<1>1. pc' = [pc EXCEPT ![t] = "sync1"] /\ pc[t] = "top" /\ idx[t] < n
  BY DEF LoopEnter
<1>2. UNCHANGED <<image, scales, numRoisData, n, out, stray, shared, idx, status>>
  BY DEF LoopEnter
<1>3. PhaseSep'
  BY <1>1, <1>2 DEF IInv, PhaseSep, SameBlock
<1> QED
  BY <1>1, <1>2, <1>3
  DEF IInv, TypeOK, RegionWritesSafe, HostPhase, CountPhase, InLoop, SameRound,
      ExitedBeyond, Stored, CopyReady, Off, S, Grid, ActiveThreads, SameBlock

LEMMA LoopExitInv ==
    ASSUME IInv, NEW t \in Threads, LoopExit(t) PROVE IInv'
<1>1. pc' = [pc EXCEPT ![t] = "exited"] /\ pc[t] = "top" /\ idx[t] >= n
  BY DEF LoopExit
<1>2. UNCHANGED <<image, scales, numRoisData, n, out, stray, shared, idx, status>>
  BY DEF LoopExit
<1>3. ExitedBeyond'
  <2> SUFFICES ASSUME NEW w \in Threads, NEW u \in Threads, SameBlock(w, u),
                      pc'[w] = "exited"
               PROVE  /\ pc'[u] \in {"top", "sync1", "store", "sync2"}
                             => Off(u)' + Tid(w) >= n'
                      /\ pc'[u] = "copy" => Off(u)' + S' + Tid(w) >= n'
    BY DEF ExitedBeyond
  <2>1. CASE w # t
    BY <1>1, <1>2, <2>1 DEF IInv, ExitedBeyond, Off, S, Grid
  <2>2. CASE w = t
    <3>1. pc[u] \notin {"store", "sync2"}
      BY <1>1, <2>2 DEF IInv, PhaseSep, SameBlock
    <3>2. pc[u] \in {"top", "sync1"} => Off(u) = Off(t)
      BY <1>1, <2>2 DEF IInv, SameRound, SameBlock
    <3>3. pc[u] = "copy" => Off(u) + S = Off(t)
      BY <1>1, <2>2 DEF IInv, SameRound, SameBlock
    <3>4. TypeOK
      BY DEF IInv
    <3>5. CASE u = t
      BY <1>1, <3>4, <3>5 DEF TypeOK
    <3>6. CASE u # t
      <4>1. pc'[u] = pc[u] /\ Off(u)' = Off(u) /\ S' = S
        BY <1>1, <1>2, <3>4, <3>6 DEF TypeOK, Off, S, Grid
      <4>2. Off(t) + Tid(t) >= n /\ Off(u) \in Int /\ S \in Int
        BY <1>1, <3>4, NumTypes
      <4> QED
        BY <1>2, <2>2, <3>1, <3>2, <3>3, <4>1, <4>2
    <3> QED
      BY <3>5, <3>6
  <2> QED
    BY <2>1, <2>2
<1> QED
  BY <1>1, <1>2, <1>3
  DEF IInv, TypeOK, RegionWritesSafe, HostPhase, CountPhase, InLoop, PhaseSep,
      SameRound, Stored, CopyReady, Off, S, Grid, ActiveThreads, SameBlock

(* The barriers.  Both move every thread of the block that is at the      *)
(* barrier and leave the others, all ended, where they are.               *)
LEMMA SyncFacts ==
    ASSUME IInv, NEW b \in 0 .. MaxBlocks - 1, NEW at, NEW next,
           Sync(b, at, next)
    PROVE  /\ \A t \in BlockThreads(b) : pc[t] \in {at, "exited"}
           /\ pc' \in [Threads -> {next} \cup Range(pc)]
           /\ \A t \in Threads :
                 pc'[t] = IF BlockOf(t) = b /\ pc[t] = at THEN next ELSE pc[t]
           /\ UNCHANGED <<image, scales, numRoisData, n, out, stray, shared,
                          idx, status>>
  BY DEF Sync, Arrived, BlockThreads, IInv, TypeOK, Range

LEMMA SyncBeforeStoreInv ==
    ASSUME IInv, NEW b \in 0 .. MaxBlocks - 1, SyncBeforeStore(b)
    PROVE  IInv'
<1>1. /\ \A t \in BlockThreads(b) : pc[t] \in {"sync1", "exited"}
      /\ pc' \in [Threads -> {"store"} \cup Range(pc)]
      /\ \A t \in Threads :
            pc'[t] = IF BlockOf(t) = b /\ pc[t] = "sync1" THEN "store" ELSE pc[t]
      /\ UNCHANGED <<image, scales, numRoisData, n, out, stray, shared,
                     idx, status>>
  BY SyncFacts DEF SyncBeforeStore
<1>2. \A t \in Threads : BlockOf(t) = b => pc[t] \in {"sync1", "exited"}
  BY <1>1 DEF BlockThreads
<1>3. \E t \in Threads : pc[t] = "sync1"
  BY DEF SyncBeforeStore, Sync, BlockThreads
<1>4. status = "kernel"
  BY <1>3, Running
<1>5. TypeOK'
  BY <1>1 DEF IInv, TypeOK, Range
<1>6. PhaseSep'
  BY <1>1, <1>2 DEF IInv, PhaseSep, SameBlock
<1>7. SameRound'
  BY <1>1, <1>2 DEF IInv, SameRound, SameBlock, Off, S, Grid
<1>8. ExitedBeyond'
  BY <1>1, <1>2 DEF IInv, ExitedBeyond, SameBlock, Off, S, Grid
<1>9. InLoop' /\ HostPhase'
  BY <1>1, <1>4 DEF IInv, InLoop, HostPhase
<1>10. RegionWritesSafe' /\ CountPhase'
  BY <1>1 DEF IInv, RegionWritesSafe, CountPhase, BatchSize, H, W
<1>11. Stored'
  BY <1>1 DEF IInv, Stored
<1>12. CopyReady'
  BY <1>1 DEF IInv, CopyReady, ActiveThreads, Off
<1> QED
  BY <1>5, <1>6, <1>7, <1>8, <1>9, <1>10, <1>11, <1>12 DEF IInv

LEMMA SyncBeforeCopyInv ==
    ASSUME IInv, NEW b \in 0 .. MaxBlocks - 1, SyncBeforeCopy(b)
    PROVE  IInv'
<1>1. /\ \A t \in BlockThreads(b) : pc[t] \in {"sync2", "exited"}
      /\ pc' \in [Threads -> {"copy"} \cup Range(pc)]
      /\ \A t \in Threads :
            pc'[t] = IF BlockOf(t) = b /\ pc[t] = "sync2" THEN "copy" ELSE pc[t]
      /\ UNCHANGED <<image, scales, numRoisData, n, out, stray, shared,
                     idx, status>>
  BY SyncFacts DEF SyncBeforeCopy
<1>2. \A t \in Threads : BlockOf(t) = b => pc[t] \in {"sync2", "exited"}
  BY <1>1 DEF BlockThreads
<1>3. \E t \in Threads : pc[t] = "sync2"
  BY DEF SyncBeforeCopy, Sync, BlockThreads
<1>4. status = "kernel"
  BY <1>3, Running
<1>0. TypeOK /\ S \in Nat
  BY NumTypes DEF IInv
<1>5. TypeOK'
  BY <1>1 DEF IInv, TypeOK, Range
<1>6. PhaseSep'
  BY <1>1, <1>2 DEF IInv, PhaseSep, SameBlock
<1>7. SameRound'
  BY <1>1, <1>2 DEF IInv, SameRound, SameBlock, Off, S, Grid
<1>8. ExitedBeyond'
  <2> SUFFICES ASSUME NEW w \in Threads, NEW u \in Threads, SameBlock(w, u),
                      pc'[w] = "exited"
               PROVE  /\ pc'[u] \in {"top", "sync1", "store", "sync2"}
                             => Off(u)' + Tid(w) >= n'
                      /\ pc'[u] = "copy" => Off(u)' + S' + Tid(w) >= n'
    BY DEF ExitedBeyond
  <2>1. pc[w] = "exited" /\ Off(u)' = Off(u) /\ S' = S /\ n' = n
    BY <1>1 DEF Off, S, Grid
  <2>2. /\ pc[u] \in {"top", "sync1", "store", "sync2"} => Off(u) + Tid(w) >= n
        /\ pc[u] = "copy" => Off(u) + S + Tid(w) >= n
    BY <2>1 DEF IInv, ExitedBeyond
  <2>3. Off(u) \in Int /\ Tid(w) \in Int /\ n \in Nat
    BY <1>0, NumTypes DEF TypeOK
  <2>4. CASE pc[u] = "sync2" /\ BlockOf(u) = b
    BY <1>0, <1>1, <2>1, <2>2, <2>3, <2>4
  <2>5. CASE ~(pc[u] = "sync2" /\ BlockOf(u) = b)
    BY <1>1, <2>1, <2>2, <2>5
  <2> QED
    BY <2>4, <2>5
<1>9. InLoop' /\ HostPhase'
  BY <1>1, <1>4 DEF IInv, InLoop, HostPhase
<1>10. RegionWritesSafe' /\ CountPhase'
  BY <1>1 DEF IInv, RegionWritesSafe, CountPhase, BatchSize, H, W
<1>11. Stored'
  BY <1>1 DEF IInv, Stored
(* The heart of the proof: the second barrier finds every active thread   *)
(* of the round at it with its coordinates stored.                         *)
<1>12. CopyReady'
  <2> SUFFICES ASSUME NEW u \in Threads, pc'[u] = "copy",
                      NEW s \in 0 .. ActiveThreads(u) * RoiWidth - 1
               PROVE  shared'[BlockOf(u)][s] =
                          <<Off(u)' + s \div RoiWidth, s % RoiWidth>>
    BY <1>1 DEF CopyReady, ActiveThreads, Off
  <2>1. CASE pc[u] = "copy"
    BY <1>1, <2>1 DEF IInv, CopyReady, ActiveThreads, Off
  <2>2. CASE pc[u] # "copy"
    <3>1. BlockOf(u) = b /\ pc[u] = "sync2"
      BY <1>1, <2>2
    <3> DEFINE r == s \div RoiWidth
               c == s % RoiWidth
               w == b * BlockDim + r
    <3>2. /\ idx[u] < n /\ n \in Nat
          /\ Off(u) \in Int /\ Tid(u) \in 0 .. BlockDim - 1
      BY <1>0, <3>1, NumTypes DEF IInv, InLoop, TypeOK
    <3>3. r \in 0 .. BlockDim - 1 /\ r < n - Off(u) /\ c \in 0 .. RoiWidth - 1
          /\ s = r * RoiWidth + c
      <4>1. /\ ActiveThreads(u) \in Int
            /\ ActiveThreads(u) <= BlockDim
            /\ ActiveThreads(u) <= n - Off(u)
        BY <3>2, GeometryAssumption DEF ActiveThreads, MinOf, Off
      <4>2. /\ r \in 0 .. ActiveThreads(u) - 1
            /\ c \in 0 .. RoiWidth - 1
            /\ s = r * RoiWidth + c
        BY <4>1 DEF RoiWidth
      <4> QED
        BY <3>2, <4>1, <4>2, GeometryAssumption
    <3>4. w \in Threads /\ BlockOf(w) = b /\ Tid(w) = r
      BY <3>3, ThreadAt
    <3>5. pc[w] # "exited"
      <4>1. pc[w] = "exited" => Off(u) + Tid(w) >= n
        BY <3>1, <3>4 DEF IInv, ExitedBeyond, SameBlock
      <4> QED
        BY <3>2, <3>3, <3>4, <4>1
    <3>6. pc[w] = "sync2"
      BY <3>4, <3>5, <1>2
    <3>7. shared[b][r * RoiWidth + c] = <<idx[w], c>>
      BY <3>3, <3>4, <3>6 DEF IInv, Stored
    <3>8. Off(w) = Off(u)
      BY <3>1, <3>4, <3>6 DEF IInv, SameRound, SameBlock
    <3>9. idx[w] = Off(u) + r
      BY <1>0, <3>4, <3>8, NumTypes
    <3> QED
      BY <1>1, <3>1, <3>3, <3>7, <3>9 DEF Off
  <2> QED
    BY <2>1, <2>2
<1> QED
  BY <1>5, <1>6, <1>7, <1>8, <1>9, <1>10, <1>11, <1>12 DEF IInv

(* The store: thread t fills its own five slots of its block's buffer.    *)
LEMMA StoreRoiInv ==
    ASSUME IInv, NEW t \in Threads, StoreRoi(t) PROVE IInv'
<1> DEFINE b == BlockOf(t)
           row == [k \in SharedCells |->
                      IF k \div RoiWidth = Tid(t)
                      THEN <<idx[t], k % RoiWidth>> ELSE shared[b][k]]
<1>0. TypeOK /\ t = BlockOf(t) * BlockDim + Tid(t)
      /\ Tid(t) \in 0 .. BlockDim - 1 /\ b \in 0 .. MaxBlocks - 1
  BY ThreadFacts DEF IInv
<1>1. /\ pc[t] = "store"
      /\ pc' = [pc EXCEPT ![t] = "sync2"]
      /\ shared' = [shared EXCEPT ![b] = row]
      /\ UNCHANGED <<image, scales, numRoisData, n, out, stray, idx, status>>
  BY DEF StoreRoi
<1>2. TypeOK'
  <2>1. row \in [SharedCells -> (Nat \X (0 .. RoiWidth - 1)) \cup {Unset}]
    <3>1. idx[t] \in Nat /\ shared[b] \in [SharedCells -> (Nat \X (0 .. RoiWidth - 1)) \cup {Unset}]
      BY <1>0 DEF TypeOK
    <3>2. \A k \in SharedCells : k % RoiWidth \in 0 .. RoiWidth - 1
      BY DEF SharedCells, RoiWidth
    <3> QED
      BY <3>1, <3>2
  <2>2. shared' \in [0 .. MaxBlocks - 1 ->
                     [SharedCells -> (Nat \X (0 .. RoiWidth - 1)) \cup {Unset}]]
    BY <1>0, <1>1, <2>1 DEF TypeOK
  <2> QED
    BY <1>0, <1>1, <2>2 DEF TypeOK
<1>3. PhaseSep' /\ SameRound' /\ ExitedBeyond' /\ InLoop' /\ HostPhase'
      /\ CountPhase' /\ RegionWritesSafe'
  BY <1>0, <1>1
  DEF IInv, TypeOK, PhaseSep, SameRound, ExitedBeyond, InLoop, HostPhase,
      CountPhase, RegionWritesSafe, SameBlock, Off, S, Grid, BatchSize, H, W
(* Other threads' slots are not touched: in the same block they have     *)
(* another thread id.                                                      *)
<1>4. Stored'
  <2> SUFFICES ASSUME NEW w \in Threads, pc'[w] = "sync2",
                      NEW c \in 0 .. RoiWidth - 1
               PROVE  shared'[BlockOf(w)][Tid(w) * RoiWidth + c] = <<idx'[w], c>>
    BY DEF Stored
  <2>1. Tid(w) \in 0 .. BlockDim - 1 /\ BlockOf(w) \in 0 .. MaxBlocks - 1
    BY ThreadFacts
  <2>2. Tid(w) * RoiWidth + c \in SharedCells
    BY <2>1, GeometryAssumption DEF SharedCells, RoiWidth
  <2>3. (Tid(w) * RoiWidth + c) \div RoiWidth = Tid(w)
        /\ (Tid(w) * RoiWidth + c) % RoiWidth = c
    BY <2>1 DEF RoiWidth
  <2>4. CASE w = t
    BY <1>0, <1>1, <2>2, <2>3, <2>4 DEF TypeOK
  <2>5. CASE w # t /\ BlockOf(w) = b
    <3>1. Tid(w) # Tid(t)
      BY <2>5, SameThread DEF SameBlock
    <3>2. pc[w] = "sync2"
      BY <1>0, <1>1, <2>5 DEF TypeOK
    <3> QED
      BY <1>0, <1>1, <2>2, <2>3, <2>5, <3>1, <3>2 DEF IInv, Stored, TypeOK
  <2>6. CASE BlockOf(w) # b
    <3>1. pc[w] = "sync2"
      BY <1>0, <1>1, <2>6 DEF TypeOK
    <3> QED
      BY <1>0, <1>1, <2>1, <2>6, <3>1 DEF IInv, Stored, TypeOK
  <2> QED
    BY <2>4, <2>5, <2>6
(* No thread of the block is at the copy while one stores.                *)
<1>5. CopyReady'
  <2> SUFFICES ASSUME NEW u \in Threads, pc'[u] = "copy"
               PROVE  \A s \in 0 .. ActiveThreads(u)' * RoiWidth - 1 :
                          shared'[BlockOf(u)][s] =
                              <<Off(u)' + s \div RoiWidth, s % RoiWidth>>
    BY DEF CopyReady
  <2>1. u # t /\ pc[u] = "copy"
    BY <1>0, <1>1 DEF TypeOK
  <2>2. BlockOf(u) # b
    BY <1>1, <2>1 DEF IInv, PhaseSep, SameBlock
  <2>3. BlockOf(u) \in 0 .. MaxBlocks - 1
    BY ThreadFacts
  <2> QED
    BY <1>0, <1>1, <2>1, <2>2, <2>3 DEF IInv, CopyReady, TypeOK, ActiveThreads, Off
<1> QED
  BY <1>2, <1>3, <1>4, <1>5 DEF IInv

(* The copy: thread t writes its five cells of the round from the buffer  *)
(* and moves on by the stride.                                             *)
LEMMA CopyRoiWrites ==
    ASSUME IInv, NEW t \in Threads, CopyRoi(t)
    PROVE  /\ stray' = {}
           /\ DOMAIN out' = DOMAIN out
           /\ \A k \in DOMAIN out : out'[k] = out[k] \/ out'[k] = RegionValue(k)
<1> DEFINE b == BlockOf(t)
           o == Off(t)
           nt == ActiveThreads(t)
           Slots == {nt * i + Tid(t) : i \in 0 .. RoiWidth - 1}
<1> USE DEF b, o, nt, Slots
<1>0. /\ TypeOK /\ S \in Nat /\ n \in Nat /\ idx[t] \in Nat
      /\ o \in Nat /\ Tid(t) \in 0 .. BlockDim - 1 /\ idx[t] < n
      /\ b \in 0 .. MaxBlocks - 1
  <2>1. TypeOK /\ S \in Nat
    BY NumTypes DEF IInv
  <2>2. Tid(t) \in 0 .. BlockDim - 1 /\ b \in 0 .. MaxBlocks - 1
    BY ThreadFacts
  <2>3. pc[t] = "copy"
    BY DEF CopyRoi
  <2>4. idx[t] >= Tid(t) /\ idx[t] < n
    BY <2>3 DEF IInv, InLoop
  <2>5. n \in Nat /\ idx[t] \in Nat
    BY <2>1 DEF TypeOK
  <2> QED
    BY <2>1, <2>2, <2>4, <2>5 DEF Off
<1>1. /\ pc[t] = "copy"
      /\ out' = [k \in DOMAIN out |->
                    IF k - o * RoiWidth \in Slots
                    THEN shared[b][k - o * RoiWidth] ELSE out[k]]
      /\ stray' = stray \cup ({o * RoiWidth + s : s \in Slots} \ DOMAIN out)
      /\ idx' = [idx EXCEPT ![t] = @ + S]
      /\ pc' = [pc EXCEPT ![t] = "top"]
      /\ UNCHANGED <<image, scales, numRoisData, n, shared, status>>
  BY DEF CopyRoi, Off, S
<1>2. DOMAIN out = 0 .. n * RoiWidth - 1
  BY <1>0, <1>1, Running
(* The slots t copies are in the round's part of the buffer.              *)
<1>3. Slots \subseteq 0 .. nt * RoiWidth - 1 /\ nt <= n - o /\ nt \in Nat
  <2>1. nt \in Nat /\ Tid(t) < nt /\ nt <= n - o
    BY <1>0, GeometryAssumption DEF ActiveThreads, MinOf, Off
  <2>2. \A i \in 0 .. RoiWidth - 1 : nt * i + Tid(t) \in 0 .. nt * RoiWidth - 1
    <3> SUFFICES ASSUME NEW i \in 0 .. RoiWidth - 1
                 PROVE  nt * i + Tid(t) \in 0 .. nt * RoiWidth - 1
      OBVIOUS
    <3>1. i \in {0, 1, 2, 3, 4}
      BY DEF RoiWidth
    <3> QED
      BY <1>0, <2>1, <3>1 DEF RoiWidth
  <2> QED
    BY <2>1, <2>2
<1>4. \A s \in Slots : o * RoiWidth + s \in DOMAIN out
  <2> SUFFICES ASSUME NEW s \in Slots PROVE o * RoiWidth + s \in DOMAIN out
    OBVIOUS
  <2>1. s \in 0 .. nt * RoiWidth - 1
    BY <1>3
  <2>2. nt * RoiWidth <= (n - o) * RoiWidth /\ nt * RoiWidth \in Int
    BY <1>0, <1>3 DEF RoiWidth
  <2>3. o * RoiWidth + s \in 0 .. n * RoiWidth - 1
    BY <1>0, <2>1, <2>2 DEF RoiWidth
  <2> QED
    BY <1>2, <2>3
<1>5. stray' = {}
  BY <1>1, <1>4 DEF IInv, RegionWritesSafe
(* A cell t writes gets the coordinate that belongs to it.                 *)
<1>6. ASSUME NEW k \in DOMAIN out, k - o * RoiWidth \in Slots
      PROVE  shared[b][k - o * RoiWidth] = RegionValue(k)
  <2> DEFINE s == k - o * RoiWidth
  <2>1. shared[b][s] = <<o + s \div RoiWidth, s % RoiWidth>>
    BY <1>1, <1>3, <1>6 DEF IInv, CopyReady
  <2>2. k \in Int
    BY <1>0, <1>2
  <2>3. o + s \div RoiWidth = k \div RoiWidth /\ s % RoiWidth = k % RoiWidth
    BY <1>0, <2>2 DEF RoiWidth
  <2> QED
    BY <2>1, <2>3 DEF RegionValue
<1> QED
  BY <1>1, <1>5, <1>6

LEMMA CopyRoiInv ==
    ASSUME IInv, NEW t \in Threads, CopyRoi(t) PROVE IInv'
<1> DEFINE b == BlockOf(t)
           o == Off(t)
<1> USE DEF b, o
<1>0. /\ TypeOK /\ S \in Nat /\ n \in Nat /\ idx[t] \in Nat
      /\ o \in Nat /\ Tid(t) \in 0 .. BlockDim - 1 /\ idx[t] < n
      /\ b \in 0 .. MaxBlocks - 1
  <2>1. TypeOK /\ S \in Nat
    BY NumTypes DEF IInv
  <2>2. Tid(t) \in 0 .. BlockDim - 1 /\ b \in 0 .. MaxBlocks - 1
    BY ThreadFacts
  <2>3. pc[t] = "copy"
    BY DEF CopyRoi
  <2>4. idx[t] >= Tid(t) /\ idx[t] < n
    BY <2>3 DEF IInv, InLoop
  <2>5. n \in Nat /\ idx[t] \in Nat
    BY <2>1 DEF TypeOK
  <2> QED
    BY <2>1, <2>2, <2>4, <2>5 DEF Off
<1>1. /\ pc[t] = "copy"
      /\ idx' = [idx EXCEPT ![t] = @ + S]
      /\ pc' = [pc EXCEPT ![t] = "top"]
      /\ UNCHANGED <<image, scales, numRoisData, n, shared, status>>
  BY DEF CopyRoi, Off, S
<1>4. RegionWritesSafe'
  BY <1>1, CopyRoiWrites DEF IInv, RegionWritesSafe
<1>5. /\ Off(t)' = o + S /\ pc'[t] = "top" /\ S' = S
      /\ \A v \in Threads \ {t} : Off(v)' = Off(v) /\ pc'[v] = pc[v]
  BY <1>0, <1>1 DEF Off, TypeOK, S, Grid
<1>6. TypeOK'
  <2>1. idx' \in [Threads -> Nat]
    BY <1>0, <1>1 DEF TypeOK
  <2>2. stray' = {}
    BY <1>4 DEF RegionWritesSafe
  <2> QED
    BY <1>0, <1>1, <2>1, <2>2 DEF TypeOK
<1>7. HostPhase'
  <2>1. DOMAIN out' = DOMAIN out
    BY CopyRoiWrites
  <2> QED
    BY <1>0, <1>1, <2>1 DEF IInv, HostPhase, TypeOK
<1>8. CountPhase' /\ InLoop' /\ Stored' /\ PhaseSep'
  BY <1>0, <1>1
  DEF IInv, CountPhase, InLoop, Stored, PhaseSep, SameBlock, TypeOK,
      BatchSize, H, W, Off
(* t joins the threads that have copied, one stride ahead of those still  *)
(* at the copy.                                                            *)
<1>9. SameRound'
  <2> SUFFICES ASSUME NEW u \in Threads, NEW v \in Threads, SameBlock(u, v)
               PROVE  /\ pc'[u] \in {"top", "sync1"} /\ pc'[v] \in {"top", "sync1"}
                             => Off(u)' = Off(v)'
                      /\ pc'[u] \in {"store", "sync2"} /\ pc'[v] \in {"store", "sync2"}
                             => Off(u)' = Off(v)'
                      /\ pc'[u] = "copy" /\ pc'[v] = "copy" => Off(u)' = Off(v)'
                      /\ pc'[u] = "copy" /\ pc'[v] \in {"top", "sync1"}
                             => Off(u)' + S' = Off(v)'
    BY DEF SameRound
  <2>1. \A x \in Threads : SameBlock(t, x) => pc[x] \notin {"store", "sync2"}
    BY <1>1 DEF IInv, PhaseSep, SameBlock
  <2>2. \A x \in Threads : SameBlock(t, x) =>
            /\ pc[x] \in {"top", "sync1"} => Off(x) = o + S
            /\ pc[x] = "copy" => Off(x) = o
    BY <1>1 DEF IInv, SameRound, SameBlock
  <2>3. CASE u = t /\ v = t
    BY <1>5, <2>3
  <2>4. CASE u = t /\ v # t
    BY <1>5, <2>1, <2>2, <2>4 DEF SameBlock
  <2>5. CASE u # t /\ v = t
    BY <1>5, <2>1, <2>2, <2>5 DEF SameBlock
  <2>6. CASE u # t /\ v # t
    BY <1>5, <2>6 DEF IInv, SameRound
  <2> QED
    BY <2>3, <2>4, <2>5, <2>6
<1>10. ExitedBeyond'
  BY <1>0, <1>1, <1>5 DEF IInv, ExitedBeyond, SameBlock, TypeOK
<1>11. CopyReady'
  BY <1>0, <1>1 DEF IInv, CopyReady, TypeOK, ActiveThreads, Off
<1> QED
  BY <1>4, <1>6, <1>7, <1>8, <1>9, <1>10, <1>11 DEF IInv

-----------------------------------------------------------------------------
LEMMA IInvNext == IInv /\ [Next]_vars => IInv'
<1> SUFFICES ASSUME IInv, [Next]_vars PROVE IInv'
  OBVIOUS
<1>1. CASE HostStep
  BY <1>1, EmptyInputInv, LaunchCountInv, NumRMACRegionsKernelInv,
     LaunchRegionsInv DEF HostStep
<1>2. CASE \E t \in Threads : ThreadStep(t)
  BY <1>2, LoopEnterInv, LoopExitInv, StoreRoiInv, CopyRoiInv DEF ThreadStep
<1>3. CASE \E b \in 0 .. MaxBlocks - 1 : BlockStep(b)
  BY <1>3, SyncBeforeStoreInv, SyncBeforeCopyInv DEF BlockStep
<1>4. CASE UNCHANGED vars
  BY <1>4
  DEF vars, IInv, TypeOK, RegionWritesSafe, HostPhase, CountPhase, InLoop,
      PhaseSep, SameRound, ExitedBeyond, Stored, CopyReady, ActiveThreads, Off,
      S, Grid, BatchSize, H, W
<1> QED
  BY <1>1, <1>2, <1>3, <1>4 DEF Next

(* RMACRegionsKernel never writes outside the N x 5 output, and no output *)
(* cell ever holds another region's coordinate, for every block size,     *)
(* grid cap, input shape and scale count: the two __syncthreads keep a    *)
(* block's buffer from being overwritten by the next round before the     *)
(* copy and from being read before the store, also in the last round,     *)
(* where the threads past N have left the loop.                            *)
THEOREM RegionWritesSafety == Spec => []RegionWritesSafe
<1>1. IInv => RegionWritesSafe
  BY DEF IInv
<1> QED
  BY <1>1, IInvInit, IInvNext, PTL DEF Spec

-----------------------------------------------------------------------------
(* The refinement: every step of the kernel is a step of RegionOutput or  *)
(* leaves the output alone.                                                *)
LEMMA LaunchRegionsResizes ==
    ASSUME IInv, LaunchRegions PROVE Output!Resize
<1> DEFINE N == BatchSize * numRoisData[1]
<1>1. N * RoiWidth \in Nat
  <2>1. N \in Nat
    BY ImageType DEF IInv, TypeOK
  <2> QED
    BY <2>1 DEF RoiWidth
<1>2. DOMAIN out = {}
  BY DEF LaunchRegions, IInv, HostPhase
<1>3. DOMAIN out' = 0 .. N * RoiWidth - 1 /\ \A k \in DOMAIN out' : out'[k] = Unset
  BY DEF LaunchRegions
<1>5. DOMAIN out' \subseteq Nat /\ \A k \in DOMAIN out' : 0 .. k \subseteq DOMAIN out'
  BY <1>1, <1>3
<1> QED
  BY <1>2, <1>3, <1>5 DEF Output!Resize

LEMMA CopyRoiWritesOnce ==
    ASSUME IInv, NEW t \in Threads, CopyRoi(t) PROVE Output!Write
<1>1. /\ DOMAIN out' = DOMAIN out
      /\ \A k \in DOMAIN out : out'[k] = out[k] \/ out'[k] = RegionValue(k)
  BY CopyRoiWrites
<1>2. \A k \in DOMAIN out : out[k] \in {Unset, RegionValue(k)}
  BY DEF IInv, RegionWritesSafe
<1> QED
  BY <1>1, <1>2 DEF Output!Write

(* RMACRegionsKernel implements the safety part of RegionOutput (OutputSpec *)
(* without its fairness): the host sizes the output once, and afterwards  *)
(* a cell only ever goes from unwritten to its own value, for every block *)
(* size, grid cap and input.  That every cell is written in the end is   *)
(* checked by TLC.                                                         *)
THEOREM OutputRefinement == Spec => Output!Init /\ [][Output!Next]_out
<1>1. Init => Output!Init
  BY DEF Init, Output!Init
<1>2. IInv /\ [Next]_vars => [Output!Next]_out
  <2> SUFFICES ASSUME IInv, [Next]_vars PROVE [Output!Next]_out
    OBVIOUS
  <2>1. CASE LaunchRegions
    BY <2>1, LaunchRegionsResizes DEF Output!Next
  <2>2. CASE \E t \in Threads : CopyRoi(t)
    BY <2>2, CopyRoiWritesOnce DEF Output!Next
  <2>3. CASE EmptyInput \/ LaunchCount \/ NumRMACRegionsKernel
    BY <2>3 DEF EmptyInput, LaunchCount, NumRMACRegionsKernel
  <2>4. CASE \E t \in Threads : LoopEnter(t) \/ LoopExit(t) \/ StoreRoi(t)
    BY <2>4 DEF LoopEnter, LoopExit, StoreRoi
  <2>5. CASE \E b \in 0 .. MaxBlocks - 1 : BlockStep(b)
    BY <2>5 DEF BlockStep, SyncBeforeStore, SyncBeforeCopy, Sync
  <2>6. CASE UNCHANGED vars
    BY <2>6 DEF vars
  <2> QED
    BY <2>1, <2>2, <2>3, <2>4, <2>5, <2>6 DEF Next, HostStep, ThreadStep
<1> QED
  BY <1>1, <1>2, IInvInit, IInvNext, PTL DEF Spec
=============================================================================
