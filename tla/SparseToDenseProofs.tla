------------------------- MODULE SparseToDenseProofs -------------------------
(***************************************************************************)
(* Proofs about SparseToDense, for every launch geometry, number and width *)
(* of sparse rows and range of indices.                                    *)
(*                                                                         *)
(* The heart of the argument is the cover of HIP_1D_KERNEL_LOOP: thread t  *)
(* visits the items t, t + Stride, t + 2 * Stride, ... in that order, so   *)
(* item i belongs to thread i % Stride and has been added exactly once     *)
(* when that thread's loop variable has passed it, and not at all before.  *)
(***************************************************************************)
EXTENDS SparseToDense, HipKernelLoopProofs, WellFoundedInduction

USE SparseToDenseAssumption, GeometryAssumption

(* The item i has been visited by its thread.                              *)
Visited(i) == i < it[i % Stride]

(* Each thread's loop variable lies on its own residue class.              *)
OnResidue ==
    \A t \in Threads : it[t] >= t /\ it[t] % Stride = t

(* A cell holds item i once if the kernel has visited i and i belongs to   *)
(* the cell, and not at all otherwise.                                     *)
AddedOnce ==
    \A c \in Cells, i \in Items :
        dst[c][i] = IF c = DstIdx(i) /\ Visited(i) THEN 1 ELSE 0

(* Before the launch no thread has moved and nothing was written; after   *)
(* it the output has one of the first dimensions RunOnDevice may pick.     *)
HostPhase ==
    /\ ~launched => it = [t \in Threads |-> LoopStart(t)]
    /\ launched => firstDim \in OutputFirstDims

(* The inductive invariant.                                                *)
IInv == TypeOK /\ OnResidue /\ AddedOnce /\ HostPhase
-----------------------------------------------------------------------------
(* The launch of CAFFE_GET_BLOCKS(N) blocks has at least one thread, and   *)
(* its threads are exactly the residues of the loop stride.                *)
LEMMA Geometry ==
    /\ N \in Nat \ {0}
    /\ Grid \in Nat \ {0}
    /\ Stride \in Nat \ {0}
    /\ Threads = 0 .. Stride - 1
<1>1. N \in Nat \ {0}
  BY DEF N
<1>2. QED
  BY <1>1, LaunchGeometry DEF Grid, Stride, Threads

(* Item i of the flattened loop is value i % block_nitems of sparse row    *)
(* i \div block_nitems, and the kernel adds it into a cell of the memory   *)
(* the indices can name.                                                   *)
LEMMA ItemCell ==
    ASSUME indices \in [Rows -> IndexValues], NEW i \in Items
    PROVE  /\ i \div BlockItems \in Rows
           /\ DstIdx(i) \in Cells
<1>1. i \div BlockItems \in Rows
  BY DEF Items, Rows, N
<1>2. indices[i \div BlockItems] \in 0 .. MaxIndex
  BY <1>1 DEF IndexValues
<1>3. i % BlockItems \in 0 .. BlockItems - 1
  BY DEF Items
<1>4. \A x \in 0 .. MaxIndex, y \in 0 .. BlockItems - 1 :
          BlockItems * x + y \in Cells
  BY DEF Cells
<1>5. QED
  BY <1>1, <1>2, <1>3, <1>4 DEF DstIdx

(* Value k of sparse row r is the item r * block_nitems + k.               *)
LEMMA RowItem ==
    ASSUME indices \in [Rows -> IndexValues],
           NEW r \in Rows, NEW k \in 0 .. BlockItems - 1
    PROVE  /\ r * BlockItems + k \in Items
           /\ DstIdx(r * BlockItems + k) = indices[r] * BlockItems + k
<1>1. r * BlockItems + k \in Items
  BY DEF Rows, Items, N
<1>2. (r * BlockItems + k) \div BlockItems = r
      /\ (r * BlockItems + k) % BlockItems = k
  BY DEF Rows
<1>3. indices[r] \in Nat
  BY DEF IndexValues
<1>4. QED
  BY <1>1, <1>2, <1>3 DEF DstIdx

(* The indices have a largest value, so GetOutputFirstDim's inferred       *)
(* dimension is one more than an index that bounds them all: the least     *)
(* upper bound of the indices is one of them.                              *)
LEMMA LargestIndex ==
    ASSUME indices \in [Rows -> IndexValues]
    PROVE  \E m \in IndexValues : /\ \E r \in Rows : indices[r] = m
                                  /\ \A r \in Rows : indices[r] <= m
<1> DEFINE Bounds == {u \in IndexValues : \A r \in Rows : indices[r] <= u}
<1>1. Bounds \subseteq Nat /\ Bounds # {}
  <2>1. MaxIndex \in Bounds
    BY DEF Bounds, IndexValues
  <2>2. Bounds \subseteq Nat
    BY DEF Bounds, IndexValues
  <2>3. QED
    BY <2>1, <2>2
<1>2. IsWellFoundedOn(OpToRel(<, Nat), Nat)
  BY NatLessThanWellFounded, Zenon
<1>3. PICK m \in Bounds : \A y \in Bounds : ~(<<y, m>> \in OpToRel(<, Nat))
  BY <1>1, <1>2, WFMin, Zenon
<1>4. \A y \in Bounds : ~(y < m)
  <2>1. \A y \in Bounds : <<y, m>> \in Nat \X Nat
    BY <1>1
  <2>2. QED
    BY <1>3, <2>1, Zenon DEF OpToRel
<1>5. \E r \in Rows : indices[r] = m
  <2>1. SUFFICES ASSUME \A r \in Rows : indices[r] # m PROVE FALSE
    OBVIOUS
  <2>2. CASE m = 0
    <3>1. 0 \in Rows /\ indices[0] \in Nat
      BY DEF Rows, IndexValues
    <3>2. QED
      BY <2>1, <2>2, <3>1 DEF Bounds
  <2>3. CASE m # 0
    <3>1. m - 1 \in Bounds
      BY <2>1, <2>3 DEF Bounds, IndexValues
    <3>2. QED
      BY <1>4, <3>1, <1>1
  <2>4. QED
    BY <2>2, <2>3
<1>6. QED
  BY <1>5 DEF Bounds

(* Every index lies below the inferred first dimension.                    *)
LEMMA InferredDimBound ==
    ASSUME indices \in [Rows -> IndexValues]
    PROVE  /\ InferredDim \in Nat \ {0}
           /\ \A r \in Rows : indices[r] < InferredDim
<1>1. PICK m \in IndexValues : /\ \E r \in Rows : indices[r] = m
                               /\ \A r \in Rows : indices[r] <= m
  BY LargestIndex
<1>2. (CHOOSE m2 \in IndexValues :
           /\ \E r \in Rows : indices[r] = m2
           /\ \A r \in Rows : indices[r] <= m2) \in IndexValues
      /\ \A r \in Rows :
           indices[r] <= (CHOOSE m2 \in IndexValues :
                              /\ \E r2 \in Rows : indices[r2] = m2
                              /\ \A r2 \in Rows : indices[r2] <= m2)
  BY <1>1
<1>3. QED
  BY <1>2 DEF InferredDim, IndexValues
-----------------------------------------------------------------------------
(* Before the launch every thread's loop variable is its global id, which  *)
(* is below the stride, so no item counts as visited.                      *)
LEMMA NothingVisited ==
    ASSUME it = [t \in Threads |-> LoopStart(t)], NEW i \in Items
    PROVE  ~Visited(i)
<1>1. i % Stride \in Threads /\ i % Stride <= i
  BY Geometry DEF Items
<1>2. it[i % Stride] = i % Stride
  BY <1>1 DEF LoopStart
<1>3. i \in Nat /\ i % Stride \in Nat
  BY Geometry DEF Items
<1>4. QED
  BY <1>1, <1>2, <1>3 DEF Visited

LEMMA IInvInit == Init => IInv
<1> SUFFICES ASSUME Init PROVE IInv
  OBVIOUS
<1>1. TypeOK
  <2>1. it \in [Threads -> Nat]
    BY Geometry DEF Init, LoopStart
  <2>2. dst \in [Cells -> [Items -> Nat]]
    BY DEF Init, NoWrites
  <2>3. QED
    BY <2>1, <2>2 DEF Init, TypeOK
<1>2. OnResidue
  BY Geometry DEF Init, OnResidue, LoopStart
<1>3. AddedOnce
  BY NothingVisited DEF Init, AddedOnce, NoWrites
<1>4. HostPhase
  BY DEF Init, HostPhase
<1>5. QED
  BY <1>1, <1>2, <1>3, <1>4 DEF IInv

(* RunOnDevice starts from threads that have not moved, so the zeroed      *)
(* output still holds every item as often as it has been visited.          *)
LEMMA RunOnDeviceInv ==
    ASSUME IInv, RunOnDevice PROVE IInv'
<1> USE DEF IInv
<1>1. it = [t \in Threads |-> LoopStart(t)]
  BY DEF RunOnDevice, HostPhase
<1>2. OutputFirstDims' = OutputFirstDims
  BY DEF RunOnDevice, OutputFirstDims, InferredDim
<1>3. TypeOK'
  BY <1>2 DEF RunOnDevice, TypeOK, NoWrites
<1>4. OnResidue'
  BY DEF RunOnDevice, OnResidue
<1>5. AddedOnce'
  <2>1. \A i \in Items : ~Visited(i)'
    BY <1>1, NothingVisited DEF RunOnDevice, Visited
  <2>2. QED
    BY <2>1 DEF RunOnDevice, AddedOnce, NoWrites
<1>6. HostPhase'
  BY <1>1, <1>2 DEF RunOnDevice, HostPhase
<1>7. QED
  BY <1>3, <1>4, <1>5, <1>6

(* One loop iteration of thread t adds its current item once into its     *)
(* cell and moves the thread a whole stride on; the items the thread       *)
(* has passed are then exactly those it had passed plus the current one.   *)
LEMMA KernelStepInv ==
    ASSUME IInv, NEW t \in Threads, SparseToDenseKernel(t) PROVE IInv'
<1> USE DEF IInv
<1> DEFINE i0 == it[t]
<1>1. /\ i0 \in Items
      /\ i0 % Stride = t
      /\ Stride \in Nat \ {0}
      /\ t \in Nat
  BY Geometry DEF SparseToDenseKernel, TypeOK, OnResidue, Items
<1>2. DstIdx(i0) \in Cells
  BY <1>1, ItemCell DEF TypeOK
<1>3. dst' = [dst EXCEPT ![DstIdx(i0)][i0] = @ + 1]
      /\ it' = [it EXCEPT ![t] = i0 + Stride]
      /\ UNCHANGED <<indices, firstDim, launched>>
  BY DEF SparseToDenseKernel
<1>4. TypeOK'
  BY <1>1, <1>2, <1>3 DEF TypeOK, OutputFirstDims, InferredDim
<1>5. OnResidue'
  <2>1. i0 \in Nat
    BY <1>1 DEF Items
  <2>2. (i0 + Stride) % Stride = i0 % Stride
    BY <1>1, <2>1, ResidueShift
  <2>3. (i0 + Stride) % Stride = t /\ i0 + Stride >= t
    BY <1>1, <2>1, <2>2 DEF OnResidue, TypeOK
  <2>4. QED
    BY <1>3, <2>3 DEF OnResidue, TypeOK
<1>6. AddedOnce'
  <2> SUFFICES ASSUME NEW c \in Cells, NEW i \in Items
               PROVE  dst'[c][i] =
                          IF c = DstIdx(i)' /\ Visited(i)' THEN 1 ELSE 0
    BY DEF AddedOnce
  <2>1. DstIdx(i)' = DstIdx(i)
    BY <1>3 DEF DstIdx
  <2>2. i % Stride \in Threads /\ i \in Nat
    BY Geometry DEF Items
  <2>3. CASE i % Stride # t
    <3>1. Visited(i)' = Visited(i)
      BY <1>3, <2>2, <2>3 DEF Visited
    <3>2. dst'[c][i] = dst[c][i]
      BY <1>1, <1>2, <1>3, <2>3 DEF TypeOK
    <3>3. QED
      BY <2>1, <3>1, <3>2 DEF AddedOnce
  <2>4. CASE i = i0
    <3>1. ~Visited(i) /\ Visited(i)'
      BY <1>1, <1>3, <2>4 DEF Visited, TypeOK
    <3>2. dst'[c][i] = IF c = DstIdx(i) THEN dst[c][i] + 1 ELSE dst[c][i]
      BY <1>2, <1>3, <2>4 DEF TypeOK
    <3>3. QED
      BY <2>1, <3>1, <3>2 DEF AddedOnce
  <2>5. CASE i % Stride = t /\ i # i0
    <3>1. i < i0 <=> i < i0 + Stride
      <4>1. CASE i0 < i
        BY <1>1, <2>2, <2>5, <4>1, ResidueGap DEF Items
      <4>2. QED
        BY <4>1, <2>2, <1>1, <2>5 DEF Items
    <3>2. Visited(i)' = Visited(i)
      BY <1>3, <2>5, <3>1 DEF Visited, TypeOK
    <3>3. dst'[c][i] = dst[c][i]
      BY <1>1, <1>2, <1>3, <2>5 DEF TypeOK
    <3>4. QED
      BY <2>1, <3>2, <3>3 DEF AddedOnce
  <2>6. QED
    BY <2>3, <2>4, <2>5
<1>7. HostPhase'
  BY <1>3 DEF SparseToDenseKernel, HostPhase, OutputFirstDims, InferredDim
<1>8. QED
  BY <1>4, <1>5, <1>6, <1>7

LEMMA IInvNext == IInv /\ [Next]_vars => IInv'
<1> SUFFICES ASSUME IInv, [Next]_vars PROVE IInv'
  OBVIOUS
<1>1. CASE RunOnDevice
  BY <1>1, RunOnDeviceInv
<1>2. CASE \E t \in Threads : SparseToDenseKernel(t)
  BY <1>2, KernelStepInv
<1>3. CASE UNCHANGED vars
  BY <1>3 DEF vars, IInv, TypeOK, OnResidue, AddedOnce, HostPhase, Visited,
              DstIdx, OutputFirstDims, InferredDim
<1>4. QED
  BY <1>1, <1>2, <1>3 DEF Next
-----------------------------------------------------------------------------
(* The output, the loop variables and the chosen first dimension keep      *)
(* their types whatever the launch geometry (TypeOK of run std).           *)
THEOREM TypeCorrect == Spec => []TypeOK
<1>1. IInv => TypeOK
  BY DEF IInv
<1>2. QED
  BY <1>1, IInvInit, IInvNext, PTL DEF Spec

(* Once every thread has left HIP_1D_KERNEL_LOOP, SparseToDenseKernel has  *)
(* added value k of sparse row r into output row indices[r] exactly once   *)
(* and into no other cell, for every geometry, number and width of rows   *)
(* and range of indices, repeated indices included (ScatterAddCorrect of   *)
(* run std): a thread that has left the loop has passed every item of its *)
(* residue class.                                                          *)
THEOREM ScatterAddCorrectness == Spec => []ScatterAddCorrect
<1>1. IInv => ScatterAddCorrect
  <2> SUFFICES ASSUME IInv, KernelDone,
                      NEW c \in Cells, NEW r \in Rows,
                      NEW k \in 0 .. BlockItems - 1
               PROVE  dst[c][r * BlockItems + k] =
                          IF c = indices[r] * BlockItems + k THEN 1 ELSE 0
    BY DEF ScatterAddCorrect
  <2> DEFINE j == r * BlockItems + k
  <2>1. j \in Items /\ DstIdx(j) = indices[r] * BlockItems + k
    BY RowItem DEF IInv, TypeOK
  <2>2. j % Stride \in Threads /\ j < N
    BY <2>1, Geometry DEF Items
  <2>3. it[j % Stride] \in Nat /\ it[j % Stride] >= N
    BY <2>2 DEF KernelDone, IInv, TypeOK
  <2>4. j < it[j % Stride]
    BY <2>1, <2>2, <2>3, Geometry DEF Items
  <2>5. Visited(j)
    BY <2>4 DEF Visited
  <2>6. QED
    BY <2>1, <2>5 DEF IInv, AddedOnce
<1>2. QED
  BY <1>1, IInvInit, IInvNext, PTL DEF Spec

(* When every output_first_dim the operator may be given exceeds every     *)
(* index (the precondition of the operator's schema, which the kernel     *)
(* does not check), every cell SparseToDenseKernel's atomicAdd touches lies *)
(* inside the output RunOnDevice allocated, for an inferred first          *)
(* dimension always (WritesInBounds of run std).  Run std_given_dim shows  *)
(* the hypothesis cannot be dropped.                                       *)
THEOREM WritesInBoundsSafety ==
    ASSUME \A d \in GivenDims : d > MaxIndex
    PROVE  Spec => []WritesInBounds
<1>1. IInv => WritesInBounds
  <2> SUFFICES ASSUME IInv, NEW c \in Cells, NEW i \in Items, dst[c][i] > 0
               PROVE  c < firstDim * BlockItems
    BY DEF WritesInBounds
  <2>1. c = DstIdx(i) /\ Visited(i)
    BY DEF IInv, AddedOnce
  <2>2. launched
    BY <2>1, NothingVisited DEF IInv, HostPhase, TypeOK
  <2>3. firstDim \in OutputFirstDims
    BY <2>2 DEF IInv, HostPhase
  <2> DEFINE row == i \div BlockItems
  <2>4. row \in Rows /\ indices[row] \in IndexValues
    BY ItemCell DEF IInv, TypeOK
  <2>5. indices[row] < firstDim
    <3>1. CASE firstDim = InferredDim
      BY <2>4, <3>1, InferredDimBound DEF IInv, TypeOK
    <3>2. CASE firstDim \in GivenDims
      <4>1. firstDim \in Nat /\ firstDim > MaxIndex
        BY <3>2
      <4>2. QED
        BY <2>4, <4>1 DEF IndexValues
    <3>3. QED
      BY <2>3, <3>1, <3>2 DEF OutputFirstDims
  <2>6. firstDim \in Nat
    BY <2>3, InferredDimBound DEF OutputFirstDims, IInv, TypeOK
  <2>7. i % BlockItems \in 0 .. BlockItems - 1
    BY DEF Items
  <2>8. BlockItems * indices[row] + BlockItems <= BlockItems * firstDim
    BY <2>4, <2>5, <2>6 DEF IndexValues
  <2>9. QED
    BY <2>1, <2>7, <2>8, <2>4, <2>6 DEF DstIdx, IndexValues
<1>2. QED
  BY <1>1, IInvInit, IInvNext, PTL DEF Spec
=============================================================================
