----------------------- MODULE RowWiseSparseAdagrad -----------------------
(***************************************************************************)
(* RowWiseSparseAdagradOp<float, HIPContext> (sgd/adagrad_op_hip.cc): one *)
(* launch of RowWiseSparseAdagradKernel with min(M, MAXIMUM_NUM_BLOCKS)    *)
(* blocks.  Block b takes gradient rows b, b + gridDim, ...; for row i its *)
(* threads block-reduce the squared gradient, thread 0 adds the row        *)
(* average into param_mom[indices[i]], all threads meet at __syncthreads,  *)
(* each reads param_mom[indices[i]] to compute its step, and each thread   *)
(* updates the parameter columns j = tid, tid + blockDim, ... of row       *)
(* indices[i].  Every global access is a plain load or store.              *)
(*                                                                         *)
(* Data abstraction: a moment or parameter cell records how many times the *)
(* contribution of each gradient row has been folded into it; a thread's   *)
(* step records the moment content it was computed from.                   *)
(***************************************************************************)
EXTENDS Naturals, HipKernelLoop

CONSTANTS
    M,           \* GRAD_M = Input(GRAD).dim32(0): gradient rows
    NCols,       \* GRAD_N = N / GRAD_M: columns per row
    MaxIndex     \* indices take values in 0..MaxIndex

ASSUME RowWiseAssumption ==
    /\ M \in Nat \ {0}
    /\ NCols \in Nat \ {0}
    /\ MaxIndex \in Nat

Rows == 0 .. M - 1
ParamRows == 0 .. MaxIndex
ParamCells == 0 .. (MaxIndex + 1) * NCols - 1

(* dim3(min(GRAD_M, CAFFE_MAXIMUM_NUM_BLOCKS)) blocks of BlockDim threads. *)
Grid == IF M < MaxBlocks THEN M ELSE MaxBlocks
Blocks == 0 .. Grid - 1
Tids == 0 .. BlockDim - 1
Threads == Blocks \X Tids

PCs == {"reduce", "momLoad", "momStore", "sync", "step",
        "paramLoad", "paramStore", "done"}

VARIABLES
    indices,     \* the INDICES input, fixed for the run
    mom,         \* mom[p][i]: contributions of gradient row i in param_mom[p]
    param,       \* param[c][i]: contributions of gradient row i in param[c]
    row,         \* row[th]: the outer loop variable i of thread th
    col,         \* col[th]: the inner loop variable j of thread th
    pc,          \* pc[th]: where thread th is in the loop body
    reg,         \* reg[th]: the cell content thread th loaded last
    stepMom      \* stepMom[th]: the moment content thread th's step used

vars == <<indices, mom, param, row, col, pc, reg, stepMom>>

NoRows == [i \in Rows |-> 0]

Init ==
    /\ indices \in [Rows -> ParamRows]
    /\ mom = [p \in ParamRows |-> NoRows]
    /\ param = [c \in ParamCells |-> NoRows]
    /\ row = [th \in Threads |-> th[1]]
    /\ col = [th \in Threads |-> 0]
    /\ pc = [th \in Threads |-> "reduce"]
    /\ reg = [th \in Threads |-> NoRows]
    /\ stepMom = [th \in Threads |-> NoRows]

Block(b) == {b} \X Tids
Index(th) == indices[row[th]]
Cell(th) == Index(th) * NCols + col[th]

(* BlockReduce(temp_storage).Sum(sum_squares): a collective of the whole   *)
(* block, after which only thread 0 holds the row sum.                     *)
BlockReduceSum(b) ==
    /\ \A th \in Block(b) : pc[th] = "reduce"
    /\ pc' = [th \in Threads |->
                 IF th \in Block(b)
                 THEN IF th[2] = 0 THEN "momLoad" ELSE "sync"
                 ELSE pc[th]]
    /\ UNCHANGED <<indices, mom, param, row, col, reg, stepMom>>

(* Thread 0: param_mom[index] += row_sum_squares_avg, a load ...           *)
MomLoad(th) ==
    /\ pc[th] = "momLoad"
    /\ reg' = [reg EXCEPT ![th] = mom[Index(th)]]
    /\ pc' = [pc EXCEPT ![th] = "momStore"]
    /\ UNCHANGED <<indices, mom, param, row, col, stepMom>>

(* ... and a store.                                                        *)
MomStore(th) ==
    /\ pc[th] = "momStore"
    /\ mom' = [mom EXCEPT ![Index(th)] = [reg[th] EXCEPT ![row[th]] = @ + 1]]
    /\ pc' = [pc EXCEPT ![th] = "sync"]
    /\ UNCHANGED <<indices, param, row, col, reg, stepMom>>

(* Mutations: the barrier left out, each thread passing on its own; and   *)
(* the column loop stepping by one instead of blockDim.                    *)
SyncThreadsMissing(b) ==
    /\ \E th \in Block(b) : pc[th] = "sync"
    /\ pc' = [th \in Threads |->
                 IF th \in Block(b) /\ pc[th] = "sync" THEN "step" ELSE pc[th]]
    /\ UNCHANGED <<indices, mom, param, row, col, reg, stepMom>>

ParamStoreStepOne(th) ==
    /\ pc[th] = "paramStore"
    /\ param' = [param EXCEPT ![Cell(th)] = [reg[th] EXCEPT ![row[th]] = @ + 1]]
    /\ col' = [col EXCEPT ![th] = @ + 1]
    /\ pc' = [pc EXCEPT ![th] = "paramLoad"]
    /\ UNCHANGED <<indices, mom, row, reg, stepMom>>

(* __syncthreads(): no thread of the block passes before all arrive.       *)
SyncThreads(b) ==
    /\ \A th \in Block(b) : pc[th] = "sync"
    /\ pc' = [th \in Threads |-> IF th \in Block(b) THEN "step" ELSE pc[th]]
    /\ UNCHANGED <<indices, mom, param, row, col, reg, stepMom>>

(* step = lr[0] / (sqrtf(param_mom[index]) + epsilon); j = tid.            *)
ReadStep(th) ==
    /\ pc[th] = "step"
    /\ stepMom' = [stepMom EXCEPT ![th] = mom[Index(th)]]
    /\ col' = [col EXCEPT ![th] = th[2]]
    /\ pc' = [pc EXCEPT ![th] = "paramLoad"]
    /\ UNCHANGED <<indices, mom, param, row, reg>>

(* param[index * N + j] + grad[i * N + j] * step: the load ...             *)
ParamLoad(th) ==
    /\ pc[th] = "paramLoad"
    /\ col[th] < NCols
    /\ reg' = [reg EXCEPT ![th] = param[Cell(th)]]
    /\ pc' = [pc EXCEPT ![th] = "paramStore"]
    /\ UNCHANGED <<indices, mom, param, row, col, stepMom>>

(* ... the store, and j += blockDim.                                       *)
ParamStore(th) ==
    /\ pc[th] = "paramStore"
    /\ param' = [param EXCEPT ![Cell(th)] = [reg[th] EXCEPT ![row[th]] = @ + 1]]
    /\ col' = [col EXCEPT ![th] = @ + BlockDim]
    /\ pc' = [pc EXCEPT ![th] = "paramLoad"]
    /\ UNCHANGED <<indices, mom, row, reg, stepMom>>

(* Mutation: the row loop stepping by one instead of gridDim.              *)
NextRowStepOne(th) ==
    /\ pc[th] = "paramLoad"
    /\ col[th] >= NCols
    /\ row' = [row EXCEPT ![th] = @ + 1]
    /\ pc' = [pc EXCEPT ![th] = IF row[th] + 1 < M THEN "reduce" ELSE "done"]
    /\ UNCHANGED <<indices, mom, param, col, reg, stepMom>>

(* The column loop ends: i += gridDim, and the row loop goes on or ends.   *)
NextRow(th) ==
    /\ pc[th] = "paramLoad"
    /\ col[th] >= NCols
    /\ row' = [row EXCEPT ![th] = @ + Grid]
    /\ pc' = [pc EXCEPT ![th] = IF row[th] + Grid < M THEN "reduce" ELSE "done"]
    /\ UNCHANGED <<indices, mom, param, col, reg, stepMom>>

Next ==
    \/ \E b \in Blocks : BlockReduceSum(b) \/ SyncThreads(b)
    \/ \E th \in Threads :
           \/ MomLoad(th)
           \/ MomStore(th)
           \/ ReadStep(th)
           \/ ParamLoad(th)
           \/ ParamStore(th)
           \/ NextRow(th)

Spec == Init /\ [][Next]_vars

-----------------------------------------------------------------------------
KernelDone == \A th \in Threads : pc[th] = "done"

DistinctIndices == \A i1, i2 \in Rows : i1 # i2 => indices[i1] # indices[i2]

TypeOK ==
    /\ indices \in [Rows -> ParamRows]
    /\ mom \in [ParamRows -> [Rows -> Nat]]
    /\ param \in [ParamCells -> [Rows -> Nat]]
    /\ row \in [Threads -> Nat]
    /\ col \in [Threads -> Nat]
    /\ pc \in [Threads -> PCs]
    /\ reg \in [Threads -> [Rows -> Nat]]
    /\ stepMom \in [Threads -> [Rows -> Nat]]

(* The __syncthreads() after thread 0's moment update is what makes every  *)
(* thread of the block compute its step from a moment that already holds   *)
(* the current gradient row: no thread updates a parameter column of row i *)
(* with a step read before thread 0 stored row i's average.  Stated for    *)
(* pairwise distinct indices: with a repeated index another block's plain  *)
(* store can erase the average (the lost update RowUpdatesApplied shows).  *)
StepSeesRowMoment ==
    DistinctIndices =>
    \A th \in Threads :
        pc[th] \in {"paramLoad", "paramStore"} /\ row[th] < M
            => stepMom[th][row[th]] >= 1

(* When the kernel has finished, param_mom[indices[i]] has taken in the    *)
(* average of gradient row i once, and each column j of parameter row      *)
(* indices[i] has taken in gradient row i once, for every row i.           *)
RowUpdatesApplied ==
    KernelDone =>
        /\ \A p \in ParamRows, i \in Rows :
               mom[p][i] = IF p = indices[i] THEN 1 ELSE 0
        /\ \A c \in ParamCells, i \in Rows :
               param[c][i] =
                   IF c \div NCols = indices[i] THEN 1 ELSE 0

(* No moment or parameter cell has, at any point of the kernel, taken in  *)
(* a gradient row more than once or a row that does not belong to it.     *)
RowUpdatesAtMostOnce ==
    /\ \A p \in ParamRows, i \in Rows :
           mom[p][i] <= IF p = indices[i] THEN 1 ELSE 0
    /\ \A c \in ParamCells, i \in Rows :
           param[c][i] <= IF c \div NCols = indices[i] THEN 1 ELSE 0

(* For inputs whose indices are pairwise distinct, the blocks and threads  *)
(* never apply a row twice or to the wrong cells, and when the kernel has  *)
(* finished every row has been applied once.                               *)
RowUpdatesAppliedDistinct ==
    DistinctIndices => RowUpdatesAtMostOnce /\ RowUpdatesApplied

(* With distinct indices the block's plain loads and stores of param_mom  *)
(* and param behave as atomic adds: row i's average reaches                *)
(* param_mom[indices[i]] once, and its update reaches each column of       *)
(* parameter row indices[i] once, and no contribution is ever overwritten. *)
RowMomScatter == INSTANCE ScatterAdd
    WITH Items <- Rows, Cells <- ParamRows,
         targets <- [i \in Rows |-> {indices[i]}], acc <- mom
RowParamScatter == INSTANCE ScatterAdd
    WITH Items <- Rows, Cells <- ParamCells,
         targets <- [i \in Rows |-> {c \in ParamCells : c \div NCols = indices[i]}],
         acc <- param

(* The refinement: with distinct indices, MomStore and every ParamStore is *)
(* an atomic add of one new contribution, and every other step leaves the  *)
(* two tensors alone, whatever the interleaving of blocks and threads.     *)
RowAtomicScatter == RowMomScatter!Spec /\ RowParamScatter!Spec
=============================================================================
