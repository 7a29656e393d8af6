--------------------------- MODULE SequenceMask ---------------------------
(***************************************************************************)
(* SequenceMaskOp<HIPContext> (operators/boolean_mask_ops_hip.cc).         *)
(*                                                                         *)
(* The host views the input as a [left, right] matrix, or as a             *)
(* [batch_dim, left, right] tensor when the "batch" argument is given,     *)
(* and launches the kernel of the mode.  Each device thread walks the      *)
(* grid-stride loop over the flattened tensor, recovers the coordinates of *)
(* its index by division and remainder, and writes either the fill value   *)
(* or the input element.  The operator is defined (as its CPU version      *)
(* computes it) by the coordinates: entry (i, j, k) of batch i is masked   *)
(* when fn(j, k) holds, entry (i, j) of the matrix when fn(i, j) holds.    *)
(*                                                                         *)
(* Data abstraction: input element x is the number x and the fill value is *)
(* -1; an output cell not yet written holds -2.                            *)
(***************************************************************************)
EXTENDS Integers, Sequences, Folds, HipKernelLoop

CONSTANTS
    Dims,        \* input->dims()
    Axes,        \* values the "axis" argument may have
    Batches,     \* values of the "batch" argument, NoArg when it is absent
    RepeatFroms, \* values of the "repeat_from_axis" argument, or NoArg
    Radius,      \* radius_ of the "window" mode
    Modes,       \* the values of mode_ the operator may be given
    NoArg

ASSUME SequenceMaskAssumption ==
    /\ Dims \in Seq(Nat \ {0}) /\ Len(Dims) >= 1
    /\ Axes \subseteq -Len(Dims) .. Len(Dims) - 1
    /\ Batches \subseteq (-Len(Dims) .. Len(Dims) - 1) \cup {NoArg}
    /\ RepeatFroms \subseteq (-Len(Dims) .. Len(Dims) - 1) \cup {NoArg}
    /\ Radius \in Nat
    /\ Modes \subseteq {"sequence", "window", "upper", "lower", "upperdiag",
                        "lowerdiag", "unknown"}

Fill == -1
Unset == -2

(* The tensor shape helpers of the host code, 0-based like Caffe2's.       *)
Dim(k) == Dims[k + 1]
ProdOf(S) == MapThenFoldSet(LAMBDA x, y : x * y, 1, LAMBDA k : Dim(k),
                            LAMBDA S2 : CHOOSE x \in S2 : TRUE, S)
SizeToDim(k) == ProdOf(0 .. k - 1)
SizeFromDim(k) == ProdOf(k .. Len(Dims) - 1)
SizeBetweenDim(k, l) == ProdOf(k + 1 .. l - 1)
CanonicalAxis(a) == IF a < 0 THEN a + Len(Dims) ELSE a

Size == ProdOf(0 .. Len(Dims) - 1)
Cells == 0 .. Size - 1

VARIABLES
    mode,        \* mode_
    axis,        \* axis_
    batch,       \* batch_, or NoArg when HasArgument("batch") is false
    repeatFrom,  \* repeat_from_, or NoArg
    lengths,     \* sequence_lengths (mode "sequence") or window_centers
    out,         \* the output tensor
    it,          \* it[t]: loop variable of device thread t
    status       \* "host", "kernel", or "rejected" (CAFFE_ENFORCE threw)

vars == <<mode, axis, batch, repeatFrom, lengths, out, it, status>>

CanonicalBatch == IF batch = NoArg THEN -1 ELSE CanonicalAxis(batch)
Left == IF CanonicalBatch >= 0
        THEN SizeBetweenDim(CanonicalBatch, CanonicalAxis(axis))
        ELSE SizeToDim(CanonicalAxis(axis))
Right == SizeFromDim(CanonicalAxis(axis))
BatchDim == IF CanonicalBatch >= 0
            THEN SizeToDim(CanonicalBatch) * Dim(CanonicalBatch)
            ELSE -1
RepeatedDims == SizeFromDim(CanonicalAxis(repeatFrom))

Grid == GetBlocks(Left * Right)
Threads == LaunchThreads(Grid)

(* The kernel's matrix: rows N and columns M, and in repeated mode D.      *)
IsRepeated == mode = "sequence" /\ repeatFrom # NoArg
KN == Left
KM == IF IsRepeated THEN Right \div RepeatedDims ELSE Right
KD == RepeatedDims
LengthRows == 0 .. KN - 1

(* The arguments and inputs of one call, every combination included.      *)
Init ==
    /\ mode \in Modes
    /\ axis \in Axes
    /\ batch \in Batches
    /\ repeatFrom \in RepeatFroms
    /\ lengths \in [LengthRows -> 0 .. KM]
    /\ out = [x \in Cells |-> Unset]
    /\ it = [t \in Threads |-> LoopStart(t)]
    /\ status = "host"

(* The per-mode predicates fn(row, col) of the kernels: lengths[row] is    *)
(* the sequence length or the window centre of the row.                    *)
Masked(row, col) ==
    CASE mode = "sequence" -> col >= lengths[row]
      [] mode = "window" -> col < lengths[row] - Radius
                              \/ col > lengths[row] + Radius
      [] mode = "upper" -> col > row
      [] mode = "lower" -> col < row
      [] mode = "upperdiag" -> col >= row
      [] mode = "lowerdiag" -> col <= row

(* The items of the kernel loop: B * N * M batched, N * M otherwise, and   *)
(* N * M * D for repeatedSequenceMaskKernel.                               *)
LoopItems ==
    IF IsRepeated THEN KN * KM * KD
    ELSE IF BatchDim >= 0 THEN BatchDim * KN * KM ELSE KN * KM

(* Mutation: the repeated view's column taken without dividing out the   *)
(* repeat factor.                                                          *)
RepeatedCoordsFlat(index) ==
    [cell |-> index, masked |-> Masked(index \div (KD * KM), index % KM)]

(* One loop iteration: the index arithmetic of the kernel for this mode,   *)
(* the cell it writes and whether that cell is masked.                     *)
BatchedCoords(index) ==
    LET k == index % KM
        j == ((index - k) \div KM) % KN
        i == (index - KM * j - k) \div (KN * KM)
    IN  [cell |-> KN * KM * i + KM * j + k, masked |-> Masked(j, k)]
PlainCoords(index) ==
    [cell |-> index, masked |-> Masked(index \div KM, index % KM)]
RepeatedCoords(index) ==
    [cell |-> index, masked |-> Masked(index \div (KD * KM), (index \div KD) % KM)]
Coords(index) ==
    IF IsRepeated THEN RepeatedCoords(index)
    ELSE IF BatchDim >= 0 THEN BatchedCoords(index) ELSE PlainCoords(index)

(* DoRunWithType: ResizeLike, CAFFE_ENFORCE_LT(batch, axis), the mode      *)
(* dispatch and the launch, or the enforce for an unknown mode.            *)
RunOnDevice ==
    /\ status = "host"
    /\ IF (CanonicalBatch >= 0 => CanonicalBatch < CanonicalAxis(axis))
          /\ mode # "unknown"
       THEN status' = "kernel"
       ELSE status' = "rejected"
    /\ UNCHANGED <<mode, axis, batch, repeatFrom, lengths, out, it>>

(* out[ind] = fn(...) ? fill_val : in[ind], then the next item.            *)
MaskKernel(t) ==
    /\ status = "kernel"
    /\ it[t] < LoopItems
    /\ LET c == Coords(it[t])
       IN  out' = [out EXCEPT ![c.cell] = IF c.masked THEN Fill ELSE c.cell]
    /\ it' = [it EXCEPT ![t] = @ + LoopStride(Grid)]
    /\ UNCHANGED <<mode, axis, batch, repeatFrom, lengths, status>>

Next ==
    \/ RunOnDevice
    \/ \E t \in Threads : MaskKernel(t)

Spec == Init /\ [][Next]_vars

-----------------------------------------------------------------------------
KernelDone == status = "kernel" /\ \A t \in Threads : it[t] >= LoopItems

TypeOK ==
    /\ mode \in Modes
    /\ axis \in Axes /\ batch \in Batches /\ repeatFrom \in RepeatFroms
    /\ lengths \in [LengthRows -> 0 .. KM]
    /\ out \in [Cells -> Cells \cup {Fill, Unset}]
    /\ it \in [Threads -> Nat]
    /\ status \in {"host", "kernel", "rejected"}

(* The CPU definition, from the coordinates of each cell of the view.      *)
Reference(x) ==
    LET masked ==
          IF IsRepeated
          THEN Masked(x \div (KD * KM), (x \div KD) % KM)
          ELSE IF BatchDim >= 0
          THEN Masked((x % (KN * KM)) \div KM, x % KM)
          ELSE Masked(x \div KM, x % KM)
    IN  IF masked THEN Fill ELSE x

(* "batch" and "repeat_from_axis" both given: the host takes left between *)
(* the batch and the axis, and repeatedSequenceMaskKernel, which has no    *)
(* batch parameter, walks only left * right cells of the output.           *)
BatchIgnored == IsRepeated /\ CanonicalBatch >= 0

(* In every combination of the arguments, every cell the kernel has       *)
(* written holds what the masking of its coordinates gives; and when the   *)
(* kernel has finished, every cell is written, except when the repeated    *)
(* kernel ignores the batch (BatchIgnored), where the cells past           *)
(* left * right keep what ResizeLike allocated.  The grid-stride loop over *)
(* B * N * M with a grid sized for N * M, and the coordinate recovery by   *)
(* division and remainder, must write each cell, once or more, and right.  *)
MaskCorrect ==
    /\ \A x \in Cells : out[x] # Unset => out[x] = Reference(x)
    /\ KernelDone /\ ~BatchIgnored => \A x \in Cells : out[x] = Reference(x)
=============================================================================
