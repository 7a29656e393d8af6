--------------------------- MODULE BooleanUnmask ---------------------------
(***************************************************************************)
(* BooleanUnmaskOp<HIPContext> (operators/boolean_unmask_ops_hip.cc).      *)
(*                                                                         *)
(* The host copies the mask and value pointers to the device, resizes the  *)
(* scratch tensor indices_ without initialising it, and enqueues two       *)
(* kernels on one stream.  ComputeIndicesKernel runs with                  *)
(* min(maskSize, MAXIMUM_NUM_BLOCKS) blocks; each thread walks the         *)
(* grid-stride loop over the mask positions, stores in indices[i] the      *)
(* first mask j that is true at i, and then returns from the kernel.       *)
(* FillValuesKernel, which the stream starts only after the first kernel   *)
(* has finished, walks the masks: thread j scans every position i with     *)
(* indices[i] = j and copies the k-th value of mask j into dest[i].        *)
(*                                                                         *)
(* Data abstraction: value k of mask j is the pair <<j, k>>; a position or *)
(* output cell that was never written holds a nondeterministic garbage     *)
(* value.  HIP_KERNEL_ASSERT is recorded in kernelAssert; the loop goes on.*)
(***************************************************************************)
EXTENDS Integers, FiniteSets, HipKernelLoop

CONSTANTS
    MaskSize,    \* maskSize = Input(0).size()
    NumMasks     \* numMasks = InputSize() / 2

ASSUME BooleanUnmaskAssumption ==
    /\ MaskSize \in Nat \ {0}
    /\ NumMasks \in Nat \ {0}

Positions == 0 .. MaskSize - 1
MaskIds == 0 .. NumMasks - 1

(* Uninitialised device memory: an int that names no mask, or one that     *)
(* does; every int outside MaskIds behaves like -1 in FillValuesKernel.    *)
(* Garbage in the output is one value NoValue: no unmasked value equals it.*)
Garbage == -1
IndexContents == MaskIds \cup {Garbage}
Values == MaskIds \X Positions
NoValue == <<Garbage, Garbage>>
DestContents == Values \cup {NoValue}

(* The two launches: dim3(min(maskSize, ...)) and dim3(min(numMasks, ...)) *)
(* blocks of CAFFE_HIP_NUM_THREADS threads.                                *)
Min2(a, b) == IF a < b THEN a ELSE b
ComputeGrid == Min2(MaskSize, MaxBlocks)
FillGrid == Min2(NumMasks, MaxBlocks)
ComputeThreads == LaunchThreads(ComputeGrid)
FillThreads == LaunchThreads(FillGrid)

VARIABLES
    masks,        \* masks[j][i]: the bool tensor Input(2 j) at position i
    valueSizes,   \* valueSizes[j]: Input(2 j + 1).size()
    indices,      \* the device scratch tensor indices_
    dest,         \* the output tensor
    itC,          \* itC[t]: loop variable of ComputeIndicesKernel thread t
    itF,          \* itF[t]: loop variable of FillValuesKernel thread t
    phase,        \* the kernel the stream is running: "compute", "fill", "done"
    kernelAssert  \* some HIP_KERNEL_ASSERT has failed

vars == <<masks, valueSizes, indices, dest, itC, itF, phase, kernelAssert>>

(* Positions where mask j is true.                                         *)
TrueAt(j) == {i \in Positions : masks[j][i]}

(* RunOnDevice: any bool masks and value tensors; Resize leaves indices_   *)
(* and the output with whatever the allocator hands back; both kernels are *)
(* enqueued.                                                               *)
Init ==
    /\ masks \in [MaskIds -> [Positions -> BOOLEAN]]
    /\ valueSizes \in [MaskIds -> 0 .. MaskSize]
    /\ indices \in [Positions -> IndexContents]
    /\ dest = [i \in Positions |-> NoValue]
    /\ itC = [t \in ComputeThreads |-> LoopStart(t)]
    /\ itF = [t \in FillThreads |-> LoopStart(t)]
    /\ phase = "compute"
    /\ kernelAssert = FALSE

(* The inner loop of ComputeIndicesKernel finds the first true mask.       *)
FirstMask(i) == CHOOSE j \in MaskIds :
                    masks[j][i] /\ \A j2 \in 0 .. j - 1 : ~masks[j2][i]

(* Position i has a true mask: indices[i] = j; return ends the thread.     *)
ComputeIndicesFound(t) ==
    /\ phase = "compute"
    /\ itC[t] < MaskSize
    /\ \E j \in MaskIds : masks[j][itC[t]]
    /\ indices' = [indices EXCEPT ![itC[t]] = FirstMask(itC[t])]
    /\ itC' = [itC EXCEPT ![t] = MaskSize]
    /\ UNCHANGED <<masks, valueSizes, dest, itF, phase, kernelAssert>>

(* No mask is true at position i: HIP_KERNEL_ASSERT(false), next item.     *)
ComputeIndicesNone(t) ==
    /\ phase = "compute"
    /\ itC[t] < MaskSize
    /\ \A j \in MaskIds : ~masks[j][itC[t]]
    /\ kernelAssert' = TRUE
    /\ itC' = [itC EXCEPT ![t] = @ + LoopStride(ComputeGrid)]
    /\ UNCHANGED <<masks, valueSizes, indices, dest, itF, phase>>

(* Mutation: FillValuesKernel started without waiting for the first kernel *)
(* (as if it were enqueued on another stream).                             *)
StartFillUnordered ==
    /\ phase = "compute"
    /\ phase' = "fill"
    /\ UNCHANGED <<masks, valueSizes, indices, dest, itC, itF, kernelAssert>>

(* The stream starts FillValuesKernel when every thread of the first has   *)
(* left it.                                                                *)
StartFill ==
    /\ phase = "compute"
    /\ \A t \in ComputeThreads : itC[t] >= MaskSize
    /\ phase' = "fill"
    /\ UNCHANGED <<masks, valueSizes, indices, dest, itC, itF, kernelAssert>>

(* Mutation: k counting position i itself.                               *)
RankInclusive(j, i) == Cardinality({i2 \in 0 .. i : indices[i2] = j})

(* k of FillValuesKernel when it reaches position i of mask j.             *)
Rank(j, i) == Cardinality({i2 \in 0 .. i - 1 : indices[i2] = j})

(* One iteration j of FillValuesKernel: scan every position, copy the k-th *)
(* value of mask j where indices[i] == j, then assert valueSizes[j] == k.  *)
(* No other thread writes these cells or indices, so the scan is one step. *)
FillValues(t) ==
    /\ phase = "fill"
    /\ itF[t] < NumMasks
    /\ LET j == itF[t]
           mine == {i \in Positions : indices[i] = j}
       IN  /\ dest' = [i \in Positions |->
                          IF i \in mine THEN <<j, Rank(j, i)>> ELSE dest[i]]
           /\ kernelAssert' = (kernelAssert \/ valueSizes[j] # Cardinality(mine))
    /\ itF' = [itF EXCEPT ![t] = @ + LoopStride(FillGrid)]
    /\ UNCHANGED <<masks, valueSizes, indices, itC, phase>>

(* The second kernel ends; the operator's output is complete.              *)
FinishFill ==
    /\ phase = "fill"
    /\ \A t \in FillThreads : itF[t] >= NumMasks
    /\ phase' = "done"
    /\ UNCHANGED <<masks, valueSizes, indices, dest, itC, itF, kernelAssert>>

Next ==
    \/ StartFill
    \/ FinishFill
    \/ \E t \in ComputeThreads : ComputeIndicesFound(t) \/ ComputeIndicesNone(t)
    \/ \E t \in FillThreads : FillValues(t)

Spec == Init /\ [][Next]_vars

-----------------------------------------------------------------------------
TypeOK ==
    /\ masks \in [MaskIds -> [Positions -> BOOLEAN]]
    /\ valueSizes \in [MaskIds -> 0 .. MaskSize]
    /\ indices \in [Positions -> IndexContents]
    /\ dest \in [Positions -> DestContents]
    /\ itC \in [ComputeThreads -> Nat]
    /\ itF \in [FillThreads -> Nat]
    /\ phase \in {"compute", "fill", "done"}
    /\ kernelAssert \in BOOLEAN

(* The inputs BooleanUnmask is defined for: the masks partition the        *)
(* positions and value j has one entry per true position of mask j.        *)
ValidInput ==
    /\ \A i \in Positions : \E j \in MaskIds :
           /\ masks[j][i]
           /\ \A j2 \in MaskIds \ {j} : ~masks[j2][i]
    /\ \A j \in MaskIds : valueSizes[j] = Cardinality(TrueAt(j))

(* The unmasked tensor: position i holds the value of the mask true at i,  *)
(* taken in order, the k-th true position of mask j holding value k.       *)
Unmasked(i) ==
    LET j == FirstMask(i)
    IN  <<j, Cardinality({i2 \in TrueAt(j) : i2 < i})>>

(* On a valid input, when the second kernel has finished every output      *)
(* position holds its unmasked value and no kernel assertion failed: the   *)
(* early return inside ComputeIndicesKernel's grid-stride loop must not    *)
(* leave a position of indices_ unwritten.                                 *)
UnmaskCorrect ==
    phase = "done" /\ ValidInput =>
        /\ \A i \in Positions : dest[i] = Unmasked(i)
        /\ ~kernelAssert
=============================================================================
