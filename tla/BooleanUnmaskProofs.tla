------------------------- MODULE BooleanUnmaskProofs -------------------------
(***************************************************************************)
(* Proofs about BooleanUnmask, for every launch geometry, mask size and    *)
(* number of masks.                                                        *)
(*                                                                         *)
(* ComputeIndicesKernel returns from the kernel at the first position it   *)
(* finds a true mask for, so it is correct only if no thread has a second  *)
(* position: the grid-stride loop must not need a second iteration.  When  *)
(* the compute launch has at least maskSize threads, thread i handles      *)
(* position i alone; FillValuesKernel then sees every indices[i] written,  *)
(* and its thread for mask j fills exactly the positions of mask j, in     *)
(* order.  The inductive invariant says which positions hold their index   *)
(* and which output cells hold their unmasked value at each point.         *)
(***************************************************************************)
EXTENDS BooleanUnmask, HipKernelLoopProofs, FiniteSetTheorems,
        WellFoundedInduction

USE BooleanUnmaskAssumption, GeometryAssumption

(* The strides of the two launches.                                        *)
CStride == LoopStride(ComputeGrid)
FStride == LoopStride(FillGrid)

(* Mask j has been copied out by its FillValuesKernel thread.              *)
Filled(j) == j < itF[j % FStride]

(* Each fill thread's loop variable stays on its own residue class.        *)
OnResidueF ==
    \A t \in FillThreads : itF[t] >= t /\ itF[t] % FStride = t

(* A compute thread is at its only position or has left the kernel.       *)
ComputeProgress ==
    \A t \in ComputeThreads : itC[t] = LoopStart(t) \/ itC[t] >= MaskSize

(* The stream order: the fill kernel starts after every compute thread has *)
(* left, no fill thread moves before it starts, and it ends after every    *)
(* fill thread has left.                                                   *)
PhaseOrder ==
    /\ phase # "compute" => \A t \in ComputeThreads : itC[t] >= MaskSize
    /\ phase = "compute" => itF = [t \in FillThreads |-> LoopStart(t)]
    /\ phase = "done" => \A t \in FillThreads : itF[t] >= NumMasks

(* On a valid input, a position whose thread has left holds its mask.      *)
IndicesHold ==
    ValidInput =>
        \A i \in Positions : itC[i] >= MaskSize => indices[i] = FirstMask(i)

(* On a valid input, an output cell holds its unmasked value once its mask *)
(* is filled and garbage before, and no assertion has failed.              *)
DestHold ==
    ValidInput =>
        /\ \A i \in Positions :
               dest[i] = IF Filled(FirstMask(i)) THEN Unmasked(i) ELSE NoValue
        /\ ~kernelAssert

(* The inductive invariant, for launches with CStride >= MaskSize.         *)
IInv ==
    /\ TypeOK
    /\ OnResidueF
    /\ ComputeProgress
    /\ PhaseOrder
    /\ IndicesHold
    /\ DestHold
-----------------------------------------------------------------------------
LEMMA Geometry ==
    /\ ComputeGrid \in Nat \ {0} /\ FillGrid \in Nat \ {0}
    /\ CStride \in Nat \ {0} /\ FStride \in Nat \ {0}
    /\ ComputeThreads = 0 .. CStride - 1
    /\ FillThreads = 0 .. FStride - 1
<1>1. ComputeGrid \in Nat \ {0} /\ FillGrid \in Nat \ {0}
  BY DEF ComputeGrid, FillGrid, Min2
<1>2. QED
  BY <1>1 DEF CStride, FStride, LoopStride, ComputeThreads, FillThreads,
              LaunchThreads

(* The inner loop of ComputeIndicesKernel finds a true mask when there is *)
(* one: the least true mask satisfies FirstMask's condition.               *)
LEMMA FirstMaskFound ==
    ASSUME masks \in [MaskIds -> [Positions -> BOOLEAN]],
           NEW i \in Positions, \E j \in MaskIds : masks[j][i]
    PROVE  FirstMask(i) \in MaskIds /\ masks[FirstMask(i)][i]
<1> DEFINE S == {j \in MaskIds : masks[j][i]}
<1>1. S \subseteq Nat /\ S # {}
  BY DEF MaskIds
<1>2. IsWellFoundedOn(OpToRel(<, Nat), Nat)
  BY NatLessThanWellFounded, Zenon
<1>3. PICK m \in S : \A y \in S : ~(<<y, m>> \in OpToRel(<, Nat))
  BY <1>1, <1>2, WFMin, Zenon
<1>4. \A y \in S : ~(y < m)
  <2>1. \A y \in S : <<y, m>> \in Nat \X Nat
    BY <1>1
  <2>2. QED
    BY <1>3, <2>1, Zenon DEF OpToRel
<1>5. m \in MaskIds /\ masks[m][i] /\ \A j2 \in 0 .. m - 1 : ~masks[j2][i]
  BY <1>4 DEF MaskIds
<1>6. QED
  BY <1>5 DEF FirstMask

(* On a valid input FirstMask(i) is the one mask true at i.                *)
LEMMA FirstMaskValid ==
    ASSUME masks \in [MaskIds -> [Positions -> BOOLEAN]], ValidInput,
           NEW i \in Positions
    PROVE  /\ FirstMask(i) \in MaskIds
           /\ \A j \in MaskIds : FirstMask(i) = j <=> masks[j][i]
<1>1. PICK k \in MaskIds : masks[k][i] /\ \A j2 \in MaskIds \ {k} : ~masks[j2][i]
  BY DEF ValidInput
<1>2. \A j2 \in 0 .. k - 1 : ~masks[j2][i]
  BY <1>1 DEF MaskIds
<1>3. FirstMask(i) \in MaskIds /\ masks[FirstMask(i)][i]
  BY <1>1, <1>2 DEF FirstMask
<1>4. FirstMask(i) = k
  BY <1>1, <1>3
<1>5. QED
  BY <1>1, <1>3, <1>4

(* FillValuesKernel's count k at position i never exceeds i.               *)
LEMMA RankBound ==
    ASSUME indices \in [Positions -> IndexContents], NEW j, NEW i \in Positions
    PROVE  Rank(j, i) \in Positions
<1> DEFINE Below == 0 .. i - 1
           T == {i2 \in Below : indices[i2] = j}
<1>1. i \in Nat /\ i <= MaskSize - 1
  BY DEF Positions
<1>2. IsFiniteSet(Below) /\ Cardinality(Below) = i
  <2>1. 0 \in Int /\ i - 1 \in Int
    BY <1>1
  <2>2. /\ IsFiniteSet(0 .. i - 1)
        /\ Cardinality(0 .. i - 1) = IF 0 > i - 1 THEN 0 ELSE (i - 1) - 0 + 1
    BY <2>1, FS_Interval, Zenon
  <2>3. QED
    BY <1>1, <2>2
<1>3. IsFiniteSet(T) /\ Cardinality(T) <= i
  <2>1. T \in SUBSET Below
    OBVIOUS
  <2>2. QED
    BY <1>2, <2>1, FS_Subset, Zenon
<1>4. Cardinality(T) \in Nat
  BY <1>3, FS_CardinalityType
<1>5. QED
  BY <1>1, <1>3, <1>4 DEF Rank, Positions

LEMMA TypeInit == Init => TypeOK
<1> SUFFICES ASSUME Init PROVE TypeOK
  OBVIOUS
<1>1. itC \in [ComputeThreads -> Nat] /\ itF \in [FillThreads -> Nat]
  BY Geometry DEF Init, LoopStart
<1>2. dest \in [Positions -> DestContents]
  BY DEF Init, DestContents
<1>3. QED
  BY <1>1, <1>2 DEF Init, TypeOK

LEMMA TypeNext == TypeOK /\ [Next]_vars => TypeOK'
<1> SUFFICES ASSUME TypeOK, [Next]_vars PROVE TypeOK'
  OBVIOUS
<1>1. CASE StartFill \/ FinishFill
  BY <1>1 DEF StartFill, FinishFill, TypeOK
<1>2. ASSUME NEW t \in ComputeThreads, ComputeIndicesFound(t) PROVE TypeOK'
  <2>1. itC[t] \in Positions
    BY <1>2 DEF ComputeIndicesFound, TypeOK, Positions
  <2>2. FirstMask(itC[t]) \in MaskIds
    BY <1>2, <2>1, FirstMaskFound DEF ComputeIndicesFound, TypeOK
  <2>3. QED
    BY <1>2, <2>1, <2>2 DEF ComputeIndicesFound, TypeOK, IndexContents
<1>3. ASSUME NEW t \in ComputeThreads, ComputeIndicesNone(t) PROVE TypeOK'
  <2>1. LoopStride(ComputeGrid) \in Nat
    BY Geometry DEF CStride
  <2>2. itC' \in [ComputeThreads -> Nat]
    BY <1>3, <2>1 DEF ComputeIndicesNone, TypeOK
  <2>3. QED
    BY <1>3, <2>2 DEF ComputeIndicesNone, TypeOK
<1>4. ASSUME NEW t \in FillThreads, FillValues(t) PROVE TypeOK'
  <2> DEFINE j == itF[t]
  <2>1. j \in MaskIds
    BY <1>4 DEF FillValues, TypeOK, MaskIds
  <2>2. \A i \in Positions : <<j, Rank(j, i)>> \in DestContents
    BY <2>1, RankBound DEF TypeOK, DestContents, Values
  <2>3. dest' \in [Positions -> DestContents]
    BY <1>4, <2>2 DEF FillValues, TypeOK
  <2>4. QED
    <3>1. LoopStride(FillGrid) \in Nat
      BY Geometry DEF FStride
    <3>2. itF' \in [FillThreads -> Nat]
      BY <1>4, <3>1 DEF FillValues, TypeOK
    <3>3. kernelAssert' \in BOOLEAN
      BY <1>4 DEF FillValues
    <3>4. QED
      BY <1>4, <2>3, <3>2, <3>3 DEF FillValues, TypeOK
<1>5. CASE UNCHANGED vars
  BY <1>5 DEF vars, TypeOK
<1>6. QED
  BY <1>1, <1>2, <1>3, <1>4, <1>5 DEF Next
(* With at least maskSize compute threads, position i has thread i.       *)
LEMMA PositionThreads ==
    ASSUME CStride >= MaskSize
    PROVE  Positions \subseteq ComputeThreads
  BY Geometry DEF Positions

(* A fill thread's residue is a fill thread, and lies below the mask.      *)
LEMMA MaskResidue ==
    ASSUME NEW j \in MaskIds
    PROVE  /\ j \in Nat
           /\ j % FStride \in FillThreads
           /\ j % FStride <= j
<1>1. j \in Nat
  BY DEF MaskIds
<1>2. j % FStride \in 0 .. FStride - 1 /\ j % FStride <= j
  BY <1>1, Geometry, ResidueBound, Zenon
<1>3. QED
  BY <1>1, <1>2, Geometry

(* Steps that leave the masks, indices_ and the compute loop alone keep    *)
(* IndicesHold; steps that leave the masks and the fill state alone keep   *)
(* DestHold.                                                               *)
LEMMA IndicesHoldUnchanged ==
    ASSUME IndicesHold, UNCHANGED <<masks, valueSizes, indices, itC>>
    PROVE  IndicesHold'
  BY DEF IndicesHold, ValidInput, TrueAt, FirstMask

LEMMA DestHoldUnchanged ==
    ASSUME DestHold, UNCHANGED <<masks, valueSizes, dest, itF, kernelAssert>>
    PROVE  DestHold'
<1>1. ValidInput' = ValidInput
  BY DEF ValidInput, TrueAt
<1>2. \A i \in Positions : FirstMask(i)' = FirstMask(i)
  BY DEF FirstMask
<1>3. \A i \in Positions : Unmasked(i)' = Unmasked(i)
  BY <1>2 DEF Unmasked, TrueAt
<1>4. \A j : Filled(j)' <=> Filled(j)
  BY DEF Filled
<1>5. QED
  BY <1>1, <1>2, <1>3, <1>4 DEF DestHold

LEMMA IInvInit ==
    ASSUME CStride >= MaskSize
    PROVE  Init => IInv
<1> SUFFICES ASSUME Init PROVE IInv
  OBVIOUS
<1>1. TypeOK
  BY TypeInit
<1>2. OnResidueF
  <2> SUFFICES ASSUME NEW t \in FillThreads PROVE itF[t] >= t /\ itF[t] % FStride = t
    BY DEF OnResidueF
  <2>1. t \in Nat /\ t < FStride
    BY Geometry
  <2>2. QED
    BY <2>1, Geometry, ResidueBound DEF Init, LoopStart
<1>3. ComputeProgress /\ PhaseOrder
  BY DEF Init, ComputeProgress, PhaseOrder
<1>4. IndicesHold
  BY PositionThreads, Geometry DEF Init, IndicesHold, LoopStart, Positions
<1>5. DestHold
  <2> SUFFICES ASSUME ValidInput, NEW i \in Positions
               PROVE  dest[i] = IF Filled(FirstMask(i)) THEN Unmasked(i) ELSE NoValue
    BY DEF Init, DestHold
  <2>1. FirstMask(i) \in MaskIds
    BY FirstMaskValid DEF Init
  <2>2. ~Filled(FirstMask(i))
    <3>1. /\ FirstMask(i) \in Nat
          /\ FirstMask(i) % FStride \in FillThreads
          /\ FirstMask(i) % FStride <= FirstMask(i)
      BY <2>1, MaskResidue
    <3>2. itF[FirstMask(i) % FStride] = FirstMask(i) % FStride
      BY <3>1 DEF Init, LoopStart
    <3>3. QED
      BY <3>1, <3>2, Geometry DEF Filled
  <2>3. QED
    BY <2>2 DEF Init
<1>6. QED
  BY <1>1, <1>2, <1>3, <1>4, <1>5 DEF IInv

(* The stream starts the fill kernel only after the compute kernel.        *)
LEMMA StartFillInv ==
    ASSUME IInv, TypeOK', StartFill PROVE IInv'
<1>1. OnResidueF' /\ ComputeProgress'
  BY DEF IInv, StartFill, OnResidueF, ComputeProgress
<1>2. PhaseOrder'
  BY DEF StartFill, PhaseOrder
<1>3. IndicesHold' /\ DestHold'
  BY IndicesHoldUnchanged, DestHoldUnchanged DEF IInv, StartFill
<1>4. QED
  BY <1>1, <1>2, <1>3 DEF IInv

LEMMA FinishFillInv ==
    ASSUME IInv, TypeOK', FinishFill PROVE IInv'
<1>1. OnResidueF' /\ ComputeProgress'
  BY DEF IInv, FinishFill, OnResidueF, ComputeProgress
<1>2. PhaseOrder'
  BY DEF IInv, FinishFill, PhaseOrder
<1>3. IndicesHold' /\ DestHold'
  BY IndicesHoldUnchanged, DestHoldUnchanged DEF IInv, FinishFill
<1>4. QED
  BY <1>1, <1>2, <1>3 DEF IInv

(* A compute thread below maskSize is at its own position.                *)
LEMMA ComputeAtOwn ==
    ASSUME ComputeProgress, itC \in [ComputeThreads -> Nat],
           NEW t \in ComputeThreads, itC[t] < MaskSize
    PROVE  itC[t] = t /\ t \in Positions
  BY Geometry DEF ComputeProgress, LoopStart, Positions

(* Position t has a true mask: thread t stores the first one and returns.  *)
LEMMA ComputeFoundInv ==
    ASSUME CStride >= MaskSize, IInv, TypeOK',
           NEW t \in ComputeThreads, ComputeIndicesFound(t)
    PROVE  IInv'
<1>1. itC[t] = t /\ t \in Positions
  BY ComputeAtOwn DEF IInv, TypeOK, ComputeIndicesFound
<1>2. /\ indices' = [indices EXCEPT ![t] = FirstMask(t)]
      /\ itC' = [itC EXCEPT ![t] = MaskSize]
      /\ UNCHANGED <<masks, valueSizes, dest, itF, phase, kernelAssert>>
  BY <1>1 DEF ComputeIndicesFound
<1>3. OnResidueF' /\ PhaseOrder'
  BY <1>2 DEF IInv, OnResidueF, PhaseOrder, ComputeIndicesFound
<1>4. ComputeProgress'
  BY <1>2 DEF IInv, TypeOK, ComputeProgress
<1>5. IndicesHold'
  <2> SUFFICES ASSUME ValidInput', NEW i \in Positions, itC'[i] >= MaskSize
               PROVE  indices'[i] = FirstMask(i)'
    BY DEF IndicesHold
  <2>1. ValidInput /\ FirstMask(i)' = FirstMask(i)
    BY <1>2 DEF ValidInput, TrueAt, FirstMask
  <2>2. i \in ComputeThreads
    BY PositionThreads
  <2>3. CASE i = t
    BY <1>2, <2>1, <2>3 DEF IInv, TypeOK
  <2>4. CASE i # t
    BY <1>2, <2>1, <2>2, <2>4 DEF IInv, TypeOK, IndicesHold
  <2>5. QED
    BY <2>3, <2>4
<1>6. DestHold'
  BY <1>2, DestHoldUnchanged DEF IInv
<1>7. QED
  BY <1>3, <1>4, <1>5, <1>6 DEF IInv

(* Position t has no true mask: the input is not valid, so nothing more    *)
(* than the loop variable's progress is claimed.                           *)
LEMMA ComputeNoneInv ==
    ASSUME CStride >= MaskSize, IInv, TypeOK',
           NEW t \in ComputeThreads, ComputeIndicesNone(t)
    PROVE  IInv'
<1>1. itC[t] = t /\ t \in Positions
  BY ComputeAtOwn DEF IInv, TypeOK, ComputeIndicesNone
<1>2. /\ itC' = [itC EXCEPT ![t] = t + CStride]
      /\ UNCHANGED <<masks, valueSizes, indices, dest, itF, phase>>
  BY <1>1 DEF ComputeIndicesNone, CStride
<1>3. OnResidueF' /\ PhaseOrder'
  BY <1>2 DEF IInv, OnResidueF, PhaseOrder, ComputeIndicesNone
<1>4. ComputeProgress'
  BY <1>1, <1>2, Geometry DEF IInv, TypeOK, ComputeProgress, Positions
<1>5. ~ValidInput /\ ~ValidInput'
  <2>1. ~ValidInput
    BY <1>1 DEF ComputeIndicesNone, ValidInput
  <2>2. ValidInput' = ValidInput
    BY <1>2 DEF ValidInput, TrueAt
  <2>3. QED
    BY <2>1, <2>2
<1>6. IndicesHold' /\ DestHold'
  BY <1>5 DEF IndicesHold, DestHold
<1>7. QED
  BY <1>3, <1>4, <1>6 DEF IInv

(* Fill thread t copies mask j0 = itF[t].  Every indices[i] holds its mask *)
(* by now, so the positions it scans are exactly those of mask j0; the     *)
(* k it counts at position i is the number of earlier positions of mask    *)
(* j0, which is position i's place in the unmasked order; its assertion    *)
(* holds; and its next mask is a stride on, so no mask of its class is     *)
(* skipped.                                                                *)
LEMMA FillInv ==
    ASSUME CStride >= MaskSize, IInv, TypeOK',
           NEW t \in FillThreads, FillValues(t)
    PROVE  IInv'
<1> DEFINE j0 == itF[t]
           Mine == {i \in Positions : indices[i] = j0}
<1>1. /\ j0 \in MaskIds /\ j0 \in Nat /\ j0 >= t /\ j0 % FStride = t
      /\ phase = "fill"
  BY DEF FillValues, IInv, TypeOK, OnResidueF, MaskIds
<1>2. /\ dest' = [i \in Positions |->
                    IF i \in Mine THEN <<j0, Rank(j0, i)>> ELSE dest[i]]
      /\ kernelAssert' = (kernelAssert \/ valueSizes[j0] # Cardinality(Mine))
      /\ itF' = [itF EXCEPT ![t] = j0 + FStride]
      /\ UNCHANGED <<masks, valueSizes, indices, itC, phase>>
  BY DEF FillValues, FStride
<1>3. OnResidueF'
  <2>1. (j0 + FStride) % FStride = t
    BY <1>1, Geometry, ResidueShift
  <2>2. itF'[t] >= t /\ itF'[t] % FStride = t
    BY <1>1, <1>2, <2>1, Geometry DEF IInv, TypeOK
  <2>3. \A u \in FillThreads \ {t} : itF'[u] = itF[u]
    BY <1>2 DEF IInv, TypeOK
  <2>4. QED
    BY <2>2, <2>3 DEF IInv, OnResidueF
<1>4. ComputeProgress' /\ PhaseOrder'
  BY <1>1, <1>2 DEF IInv, ComputeProgress, PhaseOrder
<1>5. IndicesHold'
  BY <1>2, IndicesHoldUnchanged DEF IInv
<1>6. DestHold'
  <2>1. /\ ValidInput' = ValidInput
        /\ \A i \in Positions : FirstMask(i)' = FirstMask(i)
        /\ \A i \in Positions : Unmasked(i)' = Unmasked(i)
    BY <1>2 DEF ValidInput, TrueAt, FirstMask, Unmasked
  <2>2. SUFFICES ASSUME ValidInput
                 PROVE  /\ \A i \in Positions :
                              dest'[i] = IF FirstMask(i) < itF'[FirstMask(i) % FStride]
                                         THEN Unmasked(i) ELSE NoValue
                        /\ ~kernelAssert'
    BY <2>1 DEF DestHold, Filled
  <2>0. /\ DestHold /\ IndicesHold /\ PhaseOrder /\ TypeOK
        /\ ValidInput
    BY <2>2 DEF IInv
  <2>3. \A i \in Positions : indices[i] = FirstMask(i)
    <3>1. Positions \subseteq ComputeThreads
      BY PositionThreads
    <3>2. \A u \in ComputeThreads : itC[u] >= MaskSize
      BY <1>1, <2>0 DEF PhaseOrder
    <3>3. QED
      BY <2>0, <3>1, <3>2 DEF IndicesHold
  <2>4. \A i \in Positions : /\ FirstMask(i) \in MaskIds
                             /\ (i \in Mine <=> FirstMask(i) = j0)
                             /\ (FirstMask(i) = j0 <=> masks[j0][i])
    <3> SUFFICES ASSUME NEW i \in Positions
                 PROVE  /\ FirstMask(i) \in MaskIds
                        /\ (i \in Mine <=> FirstMask(i) = j0)
                        /\ (FirstMask(i) = j0 <=> masks[j0][i])
      OBVIOUS
    <3>1. /\ FirstMask(i) \in MaskIds
          /\ \A j \in MaskIds : FirstMask(i) = j <=> masks[j][i]
      BY <2>0, FirstMaskValid, Zenon DEF TypeOK
    <3>2. i \in Mine <=> FirstMask(i) = j0
      BY <2>3
    <3>3. QED
      BY <1>1, <3>1, <3>2
  <2>5. Mine = TrueAt(j0)
    BY <2>4 DEF TrueAt
  <2>6. ~kernelAssert'
    <3>1. ~kernelAssert
      BY <2>0 DEF DestHold
    <3>2. valueSizes[j0] = Cardinality(TrueAt(j0))
      BY <1>1, <2>0 DEF ValidInput
    <3>3. QED
      BY <1>2, <2>5, <3>1, <3>2
  <2>7. \A k \in MaskIds : (k < itF'[k % FStride]) <=> (Filled(k) \/ k = j0)
    <3> SUFFICES ASSUME NEW k \in MaskIds
                 PROVE  (k < itF'[k % FStride]) <=> (Filled(k) \/ k = j0)
      OBVIOUS
    <3>1. k \in Nat /\ k % FStride \in FillThreads
      BY MaskResidue
    <3>2. CASE k % FStride = t
      <4>1. itF'[k % FStride] = j0 + FStride /\ itF[k % FStride] = j0
        BY <1>2, <3>2 DEF IInv, TypeOK
      <4>2. j0 < k => j0 + FStride <= k
        BY <1>1, <3>1, <3>2, Geometry, ResidueGap
      <4>3. QED
        BY <1>1, <3>1, <4>1, <4>2, Geometry DEF Filled
    <3>3. CASE k % FStride # t
      BY <1>1, <1>2, <3>1, <3>3 DEF IInv, TypeOK, Filled
    <3>4. QED
      BY <3>2, <3>3
  <2>8. ASSUME NEW i \in Positions
        PROVE  dest'[i] = IF FirstMask(i) < itF'[FirstMask(i) % FStride]
                          THEN Unmasked(i) ELSE NoValue
    <3>1. FirstMask(i) \in MaskIds
      BY <2>4
    <3>2. CASE FirstMask(i) = j0
      <4>1. {i2 \in 0 .. i - 1 : indices[i2] = j0} = {i2 \in TrueAt(j0) : i2 < i}
        BY <2>3, <2>4 DEF TrueAt, Positions
      <4>2. Unmasked(i) = <<j0, Rank(j0, i)>>
        BY <3>2, <4>1 DEF Unmasked, Rank
      <4>3. dest'[i] = <<j0, Rank(j0, i)>>
        BY <1>2, <2>4, <3>2
      <4>4. QED
        BY <2>7, <3>1, <3>2, <4>2, <4>3
    <3>3. CASE FirstMask(i) # j0
      <4>1. dest'[i] = dest[i]
        BY <1>2, <2>4, <3>3
      <4>2. dest[i] = IF Filled(FirstMask(i)) THEN Unmasked(i) ELSE NoValue
        BY <2>0 DEF DestHold
      <4>3. QED
        BY <2>7, <3>1, <3>3, <4>1, <4>2
    <3>4. QED
      BY <3>2, <3>3
  <2>9. QED
    BY <2>6, <2>8
<1>7. QED
  BY <1>3, <1>4, <1>5, <1>6 DEF IInv

-----------------------------------------------------------------------------
(* Type correctness of the two launches: masks, indices_, the output, the *)
(* loop variables, the stream phase and the assertion flag keep their      *)
(* types, for every launch geometry, mask size and number of masks.        *)
THEOREM TypeCorrect == Spec => []TypeOK
  BY TypeInit, TypeNext, PTL DEF Spec

LEMMA IInvNext ==
    ASSUME CStride >= MaskSize
    PROVE  IInv /\ [Next]_vars => IInv'
<1> SUFFICES ASSUME IInv, [Next]_vars PROVE IInv'
  OBVIOUS
<1>1. TypeOK'
  BY TypeNext DEF IInv
<1>2. CASE StartFill
  BY <1>1, <1>2, StartFillInv
<1>3. CASE FinishFill
  BY <1>1, <1>3, FinishFillInv
<1>4. ASSUME NEW t \in ComputeThreads,
             ComputeIndicesFound(t) \/ ComputeIndicesNone(t)
      PROVE  IInv'
  BY <1>1, <1>4, ComputeFoundInv, ComputeNoneInv
<1>5. ASSUME NEW t \in FillThreads, FillValues(t) PROVE IInv'
  BY <1>1, <1>5, FillInv
<1>6. CASE UNCHANGED vars
  <2>1. OnResidueF' /\ ComputeProgress' /\ PhaseOrder'
    BY <1>6 DEF vars, IInv, OnResidueF, ComputeProgress, PhaseOrder
  <2>2. IndicesHold' /\ DestHold'
    BY <1>6, IndicesHoldUnchanged, DestHoldUnchanged DEF vars, IInv
  <2>3. QED
    BY <1>1, <2>1, <2>2 DEF IInv
<1>7. QED
  BY <1>2, <1>3, <1>4, <1>5, <1>6 DEF Next

(* When the compute launch has at least maskSize threads                   *)
(* (min(maskSize, CAFFE_MAXIMUM_NUM_BLOCKS) * CAFFE_HIP_NUM_THREADS >=     *)
(* maskSize), the return inside ComputeIndicesKernel's grid-stride loop    *)
(* loses nothing: on every valid input, once FillValuesKernel has finished *)
(* every output position holds its unmasked value and no HIP_KERNEL_ASSERT *)
(* has failed, for every block size, block cap, mask size and number of    *)
(* masks.  Run unmask_early_return shows the hypothesis is needed.         *)
THEOREM UnmaskSafety ==
    ASSUME LoopStride(ComputeGrid) >= MaskSize
    PROVE  Spec => []UnmaskCorrect
<1>1. CStride >= MaskSize
  BY DEF CStride
<1>2. IInv => UnmaskCorrect
  <2> SUFFICES ASSUME IInv, phase = "done", ValidInput
               PROVE  /\ \A i \in Positions : dest[i] = Unmasked(i)
                      /\ ~kernelAssert
    BY DEF UnmaskCorrect
  <2>1. ~kernelAssert
    BY DEF IInv, DestHold
  <2>2. ASSUME NEW i \in Positions PROVE dest[i] = Unmasked(i)
    <3>1. FirstMask(i) \in MaskIds
      BY FirstMaskValid DEF IInv, TypeOK
    <3>2. /\ FirstMask(i) \in Nat
          /\ FirstMask(i) % FStride \in FillThreads
          /\ FirstMask(i) < NumMasks
      BY <3>1, MaskResidue DEF MaskIds
    <3>3. itF[FirstMask(i) % FStride] >= NumMasks
          /\ itF[FirstMask(i) % FStride] \in Nat
      BY <3>2 DEF IInv, PhaseOrder, TypeOK
    <3>4. Filled(FirstMask(i))
      BY <3>2, <3>3 DEF Filled
    <3>5. QED
      BY <3>4 DEF IInv, DestHold
  <2>3. QED
    BY <2>1, <2>2
<1>3. QED
  BY <1>1, <1>2, IInvInit, IInvNext, PTL DEF Spec
=============================================================================
