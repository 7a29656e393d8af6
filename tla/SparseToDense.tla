--------------------------- MODULE SparseToDense ---------------------------
(***************************************************************************)
(* SparseToDenseOp<HIPContext> (operators/sparse_to_dense_op_hip.cc).      *)
(*                                                                         *)
(* The host sizes the output from the indices, zeroes it and launches      *)
(* SparseToDenseKernel; every device thread then walks the grid-stride     *)
(* loop over the N = block_nitems * len flattened values and atomically    *)
(* adds value i into output cell block_nitems * indices[i / block_nitems]  *)
(* + i % block_nitems.                                                     *)
(*                                                                         *)
(* Data abstraction: a float cell is represented by how many times each    *)
(* flattened value has been added into it (dst[c][i]); its float content  *)
(* is the sum of vals[i] weighted by those counts, so a lost, doubled or   *)
(* misdirected addition is visible and nothing else is kept.               *)
(***************************************************************************)
EXTENDS Naturals, HipKernelLoop

CONSTANTS
    Len,         \* sparse_indices_len = sparse_values.dim(0)
    BlockItems,  \* block_nitems = sparse_values.size_from_dim(1)
    MaxIndex,    \* indices take values in 0..MaxIndex
    GivenDims    \* output_first_dim argument / data_to_infer_dim.dim(0)

ASSUME SparseToDenseAssumption ==
    /\ Len \in Nat \ {0}
    /\ BlockItems \in Nat \ {0}
    /\ MaxIndex \in Nat
    /\ GivenDims \subseteq Nat

(* N: the number of flattened values, one kernel loop item each.           *)
N == BlockItems * Len
Items == 0 .. N - 1
Rows == 0 .. Len - 1
IndexValues == 0 .. MaxIndex

(* The device memory the kernel can reach: every cell an index can name.   *)
Cells == 0 .. (MaxIndex + 1) * BlockItems - 1

Grid == GetBlocks(N)
Threads == LaunchThreads(Grid)
Stride == LoopStride(Grid)

VARIABLES
    indices,     \* the sparse indices input, fixed for the run
    firstDim,    \* output_first_dim chosen by GetOutputFirstDim
    dst,         \* dst[c][i]: times value i was added into output cell c
    it,          \* it[t]: the loop variable of device thread t
    launched     \* the host has run RunOnDevice and enqueued the kernel

vars == <<indices, firstDim, dst, it, launched>>

NoWrites == [c \in Cells |-> [i \in Items |-> 0]]

Init ==
    /\ indices \in [Rows -> IndexValues]
    /\ firstDim = 0
    /\ dst = NoWrites
    /\ it = [t \in Threads |-> LoopStart(t)]
    /\ launched = FALSE

(* Mutation: the inferred first dimension is the largest index itself.    *)
InferredDimMaxOnly == CHOOSE m \in IndexValues :
                          /\ \E r \in Rows : indices[r] = m
                          /\ \A r \in Rows : indices[r] <= m

(* GetOutputFirstDim (sparse_to_dense_op.h): the given first dimension if  *)
(* the operator has one, otherwise one more than the largest index.        *)
InferredDim == 1 + (CHOOSE m \in IndexValues :
                        /\ \E r \in Rows : indices[r] = m
                        /\ \A r \in Rows : indices[r] <= m)
OutputFirstDims == {InferredDim} \cup GivenDims

(* DoRunWithType2: size the output, math::Set it to zero, launch.          *)
RunOnDevice ==
    /\ ~launched
    /\ \E d \in OutputFirstDims : firstDim' = d
    /\ dst' = NoWrites
    /\ launched' = TRUE
    /\ UNCHANGED <<indices, it>>

(* The cell SparseToDenseKernel adds flattened value i into.               *)
DstIdx(i) == BlockItems * indices[i \div BlockItems] + (i % BlockItems)

(* One iteration of thread t's loop: atomicAdd(&dst[dst_idx], vals[i]).    *)
SparseToDenseKernel(t) ==
    /\ launched
    /\ it[t] < N
    /\ dst' = [dst EXCEPT ![DstIdx(it[t])][it[t]] = @ + 1]
    /\ it' = [it EXCEPT ![t] = @ + Stride]
    /\ UNCHANGED <<indices, firstDim, launched>>

Next ==
    \/ RunOnDevice
    \/ \E t \in Threads : SparseToDenseKernel(t)

Spec == Init /\ [][Next]_vars

-----------------------------------------------------------------------------
KernelDone == launched /\ \A t \in Threads : it[t] >= N

TypeOK ==
    /\ indices \in [Rows -> IndexValues]
    /\ firstDim \in OutputFirstDims \cup {0}
    /\ dst \in [Cells -> [Items -> Nat]]
    /\ it \in [Threads -> Nat]
    /\ launched \in BOOLEAN

(* Once the kernel has finished, output row indices[r] holds value k of    *)
(* sparse row r exactly once, for every r and k, and nothing else: the     *)
(* flattened grid-stride loop of SparseToDenseKernel, with its atomicAdd,  *)
(* computes the row-wise scatter-add the operator is defined by, also when *)
(* several sparse rows name the same output row.                           *)
ScatterAddCorrect ==
    KernelDone =>
        \A c \in Cells, r \in Rows, k \in 0 .. BlockItems - 1 :
            dst[c][r * BlockItems + k] =
                IF c = indices[r] * BlockItems + k THEN 1 ELSE 0

(* Every cell the kernel writes lies inside the output tensor of           *)
(* firstDim * block_nitems cells that RunOnDevice allocated.               *)
WritesInBounds ==
    \A c \in Cells, i \in Items : dst[c][i] > 0 => c < firstDim * BlockItems
=============================================================================
