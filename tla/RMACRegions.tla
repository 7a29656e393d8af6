---------------------------- MODULE RMACRegions ----------------------------
(***************************************************************************)
(* RMACRegionsOp<HIPContext>::RunOnDevice (operators/rmac_regions_op_hip. *)
(* cc).  The host returns at once for an empty input.  Otherwise it        *)
(* launches NumRMACRegionsKernel (one block) on its stream, copies the     *)
(* region count back to the host, resizes the output to N x 5 with         *)
(* N = batch_size * num_rois, and launches RMACRegionsKernel with          *)
(* CAFFE_GET_BLOCKS(N) blocks.  Each thread of that kernel walks the       *)
(* grid-stride loop over the N regions; per iteration it computes its      *)
(* region, meets its block at __syncthreads, stores the five coordinates   *)
(* in the block's shared buffer, meets the block again, and copies five    *)
(* values of the buffer to the output in the transposed, coalesced order.  *)
(*                                                                         *)
(* The count kernel only talks to itself (a block reduction and a          *)
(* barrier-guarded shared step), so it is one step that computes its       *)
(* result; the float arithmetic of both kernels is done exactly over the   *)
(* rationals.  Data abstraction: coordinate c of region n is the pair      *)
(* <<n, c>>; the region itself is computed separately as Region(n).        *)
(***************************************************************************)
EXTENDS Integers, FiniteSets, HipKernelLoop

CONSTANTS
    Images,      \* possible inputs X: <<batch_size, H, W>> (channels >= 1)
    ScaleArgs,   \* values of the "scales" argument
    OverlapNum,  \* the "overlap" argument is OverlapNum / OverlapDen
    OverlapDen

ASSUME RMACAssumption ==
    /\ Images \subseteq Nat \X Nat \X Nat
    /\ ScaleArgs \subseteq Nat
    /\ OverlapNum \in Nat /\ OverlapDen \in Nat \ {0}

Unset == <<>>
RoiWidth == 5                     \* [batch_id x1 y1 x2 y2]
MinStep == 1                      \* min_step
MaxStep == 6                      \* max_step
Steps == MinStep .. MaxStep

MinOf(a, b) == IF a < b THEN a ELSE b
MaxOf(a, b) == IF a < b THEN b ELSE a

Threads == 0 .. MaxBlocks * BlockDim - 1
BlockOf(t) == t \div BlockDim
Tid(t) == t % BlockDim
BlockThreads(b) == {t \in Threads : BlockOf(t) = b}
SharedCells == 0 .. BlockDim * RoiWidth - 1

VARIABLES
    image,       \* X's <<batch_size, H, W>>
    scales,      \* scales_
    numRoisData, \* num_rois_: <<num_rois, Wd, Hd>> as the count kernel wrote it
    n,           \* the host's N = batch_size * num_rois
    out,         \* the output tensor, flattened; [k \in {} |-> Unset] before Resize
    stray,       \* flat offsets written outside the output tensor
    shared,      \* shared[b]: block b's output_shared buffer
    idx,         \* idx[t]: the loop index of device thread t
    pc,          \* pc[t]: where thread t is in the loop body
    status       \* "idle", "counting", "counted", "kernel" or "done"

vars == <<image, scales, numRoisData, n, out, stray, shared, idx, pc, status>>

BatchSize == image[1]
H == image[2]
W == image[3]
MinW == MinOf(H, W)
Diff == MaxOf(H, W) - MinW

(* kv.value = fabsf((minW * minW - minW * b) / (minW * minW) - overlap)    *)
(* with b = diff / key, as the fraction ValueNum(key) / ValueDen(key).     *)
ValueNum(key) ==
    LET v == OverlapDen * (key * MinW - Diff) - OverlapNum * key * MinW
    IN  IF v < 0 THEN -v ELSE v
ValueDen(key) == OverlapDen * key * MinW

(* cub::operator< on KeyValuePair: the smaller value, on a tie the larger  *)
(* key.                                                                    *)
KVLess(k1, k2) ==
    \/ ValueNum(k1) * ValueDen(k2) < ValueNum(k2) * ValueDen(k1)
    \/ /\ ValueNum(k1) * ValueDen(k2) = ValueNum(k2) * ValueDen(k1)
       /\ k2 < k1

(* The block-wide arg-min of NumRMACRegionsKernel.                         *)
Step == CHOOSE k \in Steps : \A k2 \in Steps : ~KVLess(k2, k)
Wd == IF W > H THEN Step ELSE 0
Hd == IF H > W THEN Step ELSE 0

RegionSize(l) == (2 * MinW) \div (l + 1)

(* Mutation: every scale counted, empty regions included.                 *)
RoisAtScaleAll(l, wd, hd) == {l} \X ((0 .. l + wd - 1) \X (0 .. l + hd - 1))

(* The rois at scale l = index + 1, as the <<l, <<i, j>>>> naming them:  *)
(* (l + Wd) * (l + Hd) of them when the region is not empty, none else.   *)
RoisAtScale(l, wd, hd) ==
    IF RegionSize(l) > 0 THEN {l} \X ((0 .. l + wd - 1) \X (0 .. l + hd - 1))
                         ELSE {}

(* The grid-stride loop over the scales and the BlockReduce Sum of the    *)
(* per-thread counts: the number of rois over all scales, whatever thread *)
(* counted which scale.                                                    *)
CountRois(wd, hd) ==
    Cardinality(UNION {RoisAtScale(l, wd, hd) : l \in 1 .. scales})

Init ==
    /\ image \in Images
    /\ scales \in ScaleArgs
    /\ numRoisData = <<0, 0, 0>>
    /\ n = 0
    /\ out = [k \in {} |-> Unset]
    /\ stray = {}
    /\ shared = [b \in 0 .. MaxBlocks - 1 |-> [k \in SharedCells |-> Unset]]
    /\ idx = [t \in Threads |-> 0]
    /\ pc = [t \in Threads |-> "idle"]
    /\ status = "idle"

(* if (X.size() == 0) return true;                                         *)
EmptyInput ==
    /\ status = "idle"
    /\ BatchSize * H * W = 0
    /\ status' = "done"
    /\ UNCHANGED <<image, scales, numRoisData, n, out, stray, shared, idx, pc>>

(* num_rois_.Resize(3) and the launch of NumRMACRegionsKernel.             *)
LaunchCount ==
    /\ status = "idle"
    /\ BatchSize * H * W # 0
    /\ status' = "counting"
    /\ UNCHANGED <<image, scales, numRoisData, n, out, stray, shared, idx, pc>>

(* NumRMACRegionsKernel: arg-min step, overplus Wd/Hd, the summed count,   *)
(* written by thread 0.                                                    *)
NumRMACRegionsKernel ==
    /\ status = "counting"
    /\ numRoisData' = <<CountRois(Wd, Hd), Wd, Hd>>
    /\ status' = "counted"
    /\ UNCHANGED <<image, scales, n, out, stray, shared, idx, pc>>

(* CopyBytes of num_rois to the host (ordered after the count kernel on   *)
(* the stream), output->Resize(N, 5), and the launch of RMACRegionsKernel *)
(* with CAFFE_GET_BLOCKS(N) blocks.                                        *)
LaunchRegions ==
    LET N == BatchSize * numRoisData[1]
    IN  /\ status = "counted"
        /\ n' = N
        /\ out' = [k \in 0 .. N * RoiWidth - 1 |-> Unset]
        /\ idx' = [t \in Threads |-> LoopStart(t)]
        /\ pc' = [t \in Threads |->
                     IF t < GetBlocks(N) * BlockDim THEN "top" ELSE "exited"]
        /\ status' = "kernel"
        /\ UNCHANGED <<image, scales, numRoisData, stray, shared>>

Grid == GetBlocks(n)

(* HIP_1D_KERNEL_LOOP(index, N): the loop test, entering the body ...      *)
LoopEnter(t) ==
    /\ pc[t] = "top"
    /\ idx[t] < n
    /\ pc' = [pc EXCEPT ![t] = "sync1"]
    /\ UNCHANGED <<image, scales, numRoisData, n, out, stray, shared, idx, status>>

(* ... or leaving the loop, which ends the thread.                         *)
LoopExit(t) ==
    /\ pc[t] = "top"
    /\ idx[t] >= n
    /\ pc' = [pc EXCEPT ![t] = "exited"]
    /\ UNCHANGED <<image, scales, numRoisData, n, out, stray, shared, idx, status>>

(* Mutation: a barrier that waits for the threads that have ended too.    *)
ArrivedAll(b, at) == \A t \in BlockThreads(b) : pc[t] = at

(* A barrier of block b is passed once every thread of the block is at it *)
(* or has ended: the hardware barrier counts only waves still running,    *)
(* and in the last round the threads past N have left the loop.            *)
Arrived(b, at) == \A t \in BlockThreads(b) : pc[t] \in {at, "exited"}

Sync(b, at, next) ==
    /\ \E t \in BlockThreads(b) : pc[t] = at
    /\ Arrived(b, at)
    /\ pc' = [t \in Threads |->
                 IF t \in BlockThreads(b) /\ pc[t] = at THEN next ELSE pc[t]]
    /\ UNCHANGED <<image, scales, numRoisData, n, out, stray, shared, idx, status>>

(* Mutation: the first __syncthreads left out, each thread going on alone. *)
SyncBeforeStoreMissing(b) ==
    \E t \in BlockThreads(b) :
        /\ pc[t] = "sync1"
        /\ pc' = [pc EXCEPT ![t] = "store"]
        /\ UNCHANGED <<image, scales, numRoisData, n, out, stray, shared, idx, status>>

(* __syncthreads() before the store: output_shared is reused across loop  *)
(* iterations.                                                             *)
SyncBeforeStore(b) == Sync(b, "sync1", "store")

(* __syncthreads() before the coalesced copy.                              *)
SyncBeforeCopy(b) == Sync(b, "sync2", "copy")

(* output_shared[hipThreadIdx_x * 5 + i] = roi[i] for i in 0..4.           *)
StoreRoi(t) ==
    /\ pc[t] = "store"
    /\ shared' = [shared EXCEPT ![BlockOf(t)] =
                     [k \in SharedCells |->
                         IF k \div RoiWidth = Tid(t)
                         THEN <<idx[t], k % RoiWidth>> ELSE @[k]]]
    /\ pc' = [pc EXCEPT ![t] = "sync2"]
    /\ UNCHANGED <<image, scales, numRoisData, n, out, stray, idx, status>>

(* num_threads = min(hipBlockDim_x, N - offset): active threads of the    *)
(* block in this round.                                                    *)
ActiveThreads(t) == MinOf(BlockDim, n - (idx[t] - Tid(t)))

(* output_offset[num_threads * i + tid] = output_shared[num_threads * i + *)
(* tid] for i in 0..4, with output_offset = output + (index - tid) * 5;   *)
(* then index += blockDim * gridDim.                                       *)
CopyRoi(t) ==
    LET offset == idx[t] - Tid(t)
        nt == ActiveThreads(t)
        Slots == {nt * i + Tid(t) : i \in 0 .. RoiWidth - 1}
    IN  /\ pc[t] = "copy"
        /\ out' = [k \in DOMAIN out |->
                      IF k - offset * RoiWidth \in Slots
                      THEN shared[BlockOf(t)][k - offset * RoiWidth]
                      ELSE out[k]]
        /\ stray' = stray \cup ({offset * RoiWidth + s : s \in Slots} \ DOMAIN out)
        /\ idx' = [idx EXCEPT ![t] = @ + LoopStride(Grid)]
        /\ pc' = [pc EXCEPT ![t] = "top"]
        /\ UNCHANGED <<image, scales, numRoisData, n, shared, status>>

ThreadStep(t) ==
    LoopEnter(t) \/ LoopExit(t) \/ StoreRoi(t) \/ CopyRoi(t)

BlockStep(b) == SyncBeforeStore(b) \/ SyncBeforeCopy(b)

HostStep == EmptyInput \/ LaunchCount \/ NumRMACRegionsKernel \/ LaunchRegions

Next ==
    \/ HostStep
    \/ \E t \in Threads : ThreadStep(t)
    \/ \E b \in 0 .. MaxBlocks - 1 : BlockStep(b)

(* The host thread, the device's stream and every wave of a launched      *)
(* kernel make progress while they can: weak fairness per thread and per  *)
(* block barrier.                                                          *)
Fairness ==
    /\ WF_vars(HostStep)
    /\ \A t \in Threads : WF_vars(ThreadStep(t))
    /\ \A b \in 0 .. MaxBlocks - 1 : WF_vars(BlockStep(b))

Spec == Init /\ [][Next]_vars /\ Fairness

-----------------------------------------------------------------------------
(* The region that RMACRegionsKernel computes for output row `index`.      *)

(* The do/while that finds the scale l of roi_id and its rank inside the  *)
(* scale: returns <<l, roi_id>>.                                           *)
ScaleWalk[rid \in Int, l \in Nat] ==
    LET atScale == (l + 1 + numRoisData[2]) * (l + 1 + numRoisData[3])
    IN  IF rid - atScale >= 0 THEN ScaleWalk[rid - atScale, l + 1]
                              ELSE <<l + 1, rid>>

(* roi[1] = bw * i and roi[2] = bh * j, moved back inside at the borders. *)
Corner(extent, size, k, over) ==
    LET c == IF over - 1 > 0 THEN ((extent - size) * k) \div (over - 1) ELSE 0
    IN  IF c + size > extent THEN extent - size ELSE c

(* <<batch_id, l, i, j, x1, y1, x2, y2>> of output row `index`.            *)
Region(index) ==
    LET numRois == numRoisData[1]
        wd == numRoisData[2]
        hd == numRoisData[3]
        walk == ScaleWalk[index % numRois, 0]
        l == walk[1]
        size == RegionSize(l)
        i == walk[2] \div (l + hd)
        j == walk[2] % (l + hd)
        x1 == Corner(W, size, i, l + wd)
        y1 == Corner(H, size, j, l + hd)
    IN  <<index \div numRois, l, i, j, x1, y1, x1 + size - 1, y1 + size - 1>>

-----------------------------------------------------------------------------
(* What output cell k must hold: coordinate k % 5 of region k \div 5.      *)
RegionValue(k) == <<k \div RoiWidth, k % RoiWidth>>

TypeOK ==
    /\ image \in Images
    /\ scales \in ScaleArgs
    /\ numRoisData \in Nat \X Nat \X Nat
    /\ n \in Nat
    /\ stray \subseteq Int
    /\ shared \in [0 .. MaxBlocks - 1 ->
                    [SharedCells -> (Nat \X (0 .. RoiWidth - 1)) \cup {Unset}]]
    /\ idx \in [Threads -> Nat]
    /\ pc \in [Threads -> {"idle", "top", "sync1", "store", "sync2", "copy",
                           "exited"}]
    /\ status \in {"idle", "counting", "counted", "kernel", "done"}

(* The shared-buffer round trip of RMACRegionsKernel is right at every    *)
(* step: no thread writes outside the N x 5 output, and no output cell     *)
(* ever holds another region's coordinate (a buffer slot overwritten by    *)
(* the next round before it was copied, or read before it was stored).     *)
(* That every cell is written in the end is part of OutputSpec.           *)
RegionWritesSafe ==
    /\ stray = {}
    /\ \A k \in DOMAIN out : out[k] \in {Unset, RegionValue(k)}

(* The count kernel and the region kernel agree: the N output rows are    *)
(* the regions of every image of the batch at every scale whose region is *)
(* not empty, (l + Wd) x (l + Hd) of them at scale l, each exactly once,  *)
(* and every region is a non-empty square inside the H x W image.         *)
RegionsCoverImage ==
    status = "kernel" =>
        LET wd == numRoisData[2]
            hd == numRoisData[3]
            Rows == 0 .. n - 1
            Scales == {s \in 1 .. scales : RegionSize(s) > 0}
            Expected == UNION {{<<b, l, i, j>> : b \in 0 .. BatchSize - 1,
                                                 i \in 0 .. l + wd - 1,
                                                 j \in 0 .. l + hd - 1}
                               : l \in Scales}
            Key(r) == <<Region(r)[1], Region(r)[2], Region(r)[3], Region(r)[4]>>
        IN  /\ \A r1, r2 \in Rows : r1 # r2 => Key(r1) # Key(r2)
            /\ {Key(r) : r \in Rows} = Expected
            /\ \A r \in Rows :
                   /\ 0 <= Region(r)[5] /\ Region(r)[5] <= Region(r)[7]
                   /\ Region(r)[7] < W
                   /\ 0 <= Region(r)[6] /\ Region(r)[6] <= Region(r)[8]
                   /\ Region(r)[8] < H

(* RMACRegionsKernel implements the output contract of RegionOutput: each *)
(* output cell is written once with its own value, nothing else changes   *)
(* it, and under the fairness of the GPU scheduler every cell is written  *)
(* in the end (no wave is left waiting at a barrier).                      *)
Output == INSTANCE RegionOutput WITH Value <- RegionValue

OutputSpec == Output!Spec
=============================================================================
