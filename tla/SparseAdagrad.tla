--------------------------- MODULE SparseAdagrad ---------------------------
(***************************************************************************)
(* HIPSparseAdagradOp (sgd/adagrad_op_hip.cc): one launch of              *)
(* SparseAdagradKernel.  Every device thread walks the grid-stride loop    *)
(* over the N flattened gradient values; for value i it reads the moment   *)
(* cell paramIdx = indices[i / grad_slice_sz] * grad_slice_sz +            *)
(* i % grad_slice_sz, stores moment + g_i^2 back, then reads the parameter *)
(* cell and stores parameter + lr * g_i / (sqrt(moment) + eps) back.  The  *)
(* four memory accesses are plain loads and stores (mixed_add,             *)
(* mixed_store), not atomics, so threads interleave between them.          *)
(*                                                                         *)
(* Data abstraction: a moment or parameter cell is represented by how many *)
(* times the contribution of each gradient value has been folded into it;  *)
(* the float values are functions of those contributions.  A thread's      *)
(* register holds the cell content it loaded.                              *)
(***************************************************************************)
EXTENDS Naturals, HipKernelLoop

CONSTANTS
    Len,         \* Input(INDICES).size(): the number of updated rows
    SliceSize,   \* grad_slice_sz = GRAD.size_from_dim(INDICES.ndim())
    MaxIndex     \* indices take values in 0..MaxIndex

ASSUME SparseAdagradAssumption ==
    /\ Len \in Nat \ {0}
    /\ SliceSize \in Nat \ {0}
    /\ MaxIndex \in Nat

N == SliceSize * Len
Items == 0 .. N - 1
Rows == 0 .. Len - 1
Cells == 0 .. (MaxIndex + 1) * SliceSize - 1

Grid == GetBlocks(N)
Threads == LaunchThreads(Grid)
Stride == LoopStride(Grid)

(* The program points of one loop iteration, in the order of the code.     *)
PCs == {"loadMom", "storeMom", "loadParam", "storeParam"}

VARIABLES
    indices,     \* the INDICES input, fixed for the run
    mom,         \* mom[c][i]: contributions of value i in moment cell c
    param,       \* param[c][i]: contributions of value i in parameter cell c
    it,          \* it[t]: the loop variable of thread t
    pc,          \* pc[t]: the next access thread t performs
    reg          \* reg[t]: the cell content thread t loaded last

vars == <<indices, mom, param, it, pc, reg>>

Empty == [i \in Items |-> 0]
Untouched == [c \in Cells |-> Empty]

(* DoRunWithType2 launches the kernel on inputs it has checked for shape.  *)
Init ==
    /\ indices \in [Rows -> 0 .. MaxIndex]
    /\ mom = Untouched
    /\ param = Untouched
    /\ it = [t \in Threads |-> LoopStart(t)]
    /\ pc = [t \in Threads |-> "loadMom"]
    /\ reg = [t \in Threads |-> Empty]

(* paramIdx of SparseAdagradKernel for flattened gradient value i.         *)
ParamIdx(i) == indices[i \div SliceSize] * SliceSize + (i % SliceSize)

Running(t, at) == it[t] < N /\ pc[t] = at

(* Mutation: the parameter update loads the moment cell, a copy-paste slip.*)
LoadParamFromMoment(t) ==
    /\ Running(t, "loadParam")
    /\ reg' = [reg EXCEPT ![t] = mom[ParamIdx(it[t])]]
    /\ pc' = [pc EXCEPT ![t] = "storeParam"]
    /\ UNCHANGED <<indices, mom, param, it>>

(* mom_new = mixed_add(grad^2, param_mom[paramIdx]): load the moment.      *)
LoadMoment(t) ==
    /\ Running(t, "loadMom")
    /\ reg' = [reg EXCEPT ![t] = mom[ParamIdx(it[t])]]
    /\ pc' = [pc EXCEPT ![t] = "storeMom"]
    /\ UNCHANGED <<indices, mom, param, it>>

(* mixed_store(&mom_new, &param_mom[paramIdx]).                            *)
StoreMoment(t) ==
    /\ Running(t, "storeMom")
    /\ mom' = [mom EXCEPT ![ParamIdx(it[t])] =
                   [reg[t] EXCEPT ![it[t]] = @ + 1]]
    /\ pc' = [pc EXCEPT ![t] = "loadParam"]
    /\ UNCHANGED <<indices, param, it, reg>>

(* param_new = mixed_add(LR * g / (sqrtf(mom_new) + eps), param[...]).     *)
LoadParam(t) ==
    /\ Running(t, "loadParam")
    /\ reg' = [reg EXCEPT ![t] = param[ParamIdx(it[t])]]
    /\ pc' = [pc EXCEPT ![t] = "storeParam"]
    /\ UNCHANGED <<indices, mom, param, it>>

(* Mutation: the loop steps to the next value instead of a stride on.     *)
StoreParamStepOne(t) ==
    /\ Running(t, "storeParam")
    /\ param' = [param EXCEPT ![ParamIdx(it[t])] =
                     [reg[t] EXCEPT ![it[t]] = @ + 1]]
    /\ pc' = [pc EXCEPT ![t] = "loadMom"]
    /\ it' = [it EXCEPT ![t] = @ + 1]
    /\ UNCHANGED <<indices, mom, reg>>

(* mixed_store(&param_new, &param[paramIdx]), then the next loop item.     *)
StoreParam(t) ==
    /\ Running(t, "storeParam")
    /\ param' = [param EXCEPT ![ParamIdx(it[t])] =
                     [reg[t] EXCEPT ![it[t]] = @ + 1]]
    /\ pc' = [pc EXCEPT ![t] = "loadMom"]
    /\ it' = [it EXCEPT ![t] = @ + Stride]
    /\ UNCHANGED <<indices, mom, reg>>

Next ==
    \E t \in Threads :
        \/ LoadMoment(t)
        \/ StoreMoment(t)
        \/ LoadParam(t)
        \/ StoreParam(t)

Spec == Init /\ [][Next]_vars

-----------------------------------------------------------------------------
KernelDone == \A t \in Threads : it[t] >= N

DistinctIndices == \A r1, r2 \in Rows : r1 # r2 => indices[r1] # indices[r2]

TypeOK ==
    /\ indices \in [Rows -> 0 .. MaxIndex]
    /\ mom \in [Cells -> [Items -> Nat]]
    /\ param \in [Cells -> [Items -> Nat]]
    /\ it \in [Threads -> Nat]
    /\ pc \in [Threads -> PCs]
    /\ reg \in [Threads -> [Items -> Nat]]

(* The update the operator is defined by (and the CPU loop performs): when *)
(* the kernel has finished, the moment and the parameter of row indices[r] *)
(* have taken in gradient value k of row r exactly once, for every r and k.*)
UpdatesApplied ==
    KernelDone =>
        \A c \in Cells, r \in Rows, k \in 0 .. SliceSize - 1 :
            LET want == IF c = indices[r] * SliceSize + k THEN 1 ELSE 0
            IN  /\ mom[c][r * SliceSize + k] = want
                /\ param[c][r * SliceSize + k] = want

(* The same, for inputs whose indices are pairwise distinct.               *)
UpdatesAppliedDistinct == DistinctIndices => UpdatesApplied

(* With distinct indices the kernel's plain loads and stores of            *)
(* param_mom and param behave as atomic adds: each value's contribution    *)
(* reaches its cell once and no contribution is ever overwritten.          *)
MomScatter == INSTANCE ScatterAdd
    WITH Cells <- Cells, targets <- [i \in Items |-> {ParamIdx(i)}], acc <- mom
ParamScatter == INSTANCE ScatterAdd
    WITH Cells <- Cells, targets <- [i \in Items |-> {ParamIdx(i)}], acc <- param

(* The refinement: with distinct indices, every store of StoreMoment and   *)
(* StoreParam is an atomic add of one new contribution, and every load is  *)
(* invisible, whatever the interleaving of the threads' four accesses.     *)
AtomicScatter == MomScatter!Spec /\ ParamScatter!Spec
=============================================================================
