------------------------- MODULE SparseAdagradProofs -------------------------
(***************************************************************************)
(* Proofs about SparseAdagrad, for every launch geometry, number and width *)
(* of rows and range of indices.                                           *)
(*                                                                         *)
(* The kernel's four plain accesses are safe when the indices are          *)
(* pairwise distinct because every cell is then the cell of one loop item  *)
(* only, and the grid-stride loop gives that item to one thread only: no   *)
(* other thread stores into the cell between a thread's load and its       *)
(* store.  The inductive invariant says what each cell holds at each       *)
(* program point of the item's thread, and that a loaded register is still *)
(* the content of its cell when it is stored back.                         *)
(***************************************************************************)
EXTENDS SparseAdagrad, HipKernelLoopProofs

USE SparseAdagradAssumption, GeometryAssumption

(* The thread that owns item i in the grid-stride loop.                    *)
Owner(i) == i % Stride

(* Item i has been completed by its thread (both stores done).             *)
ParamDone(i) == i < it[Owner(i)]

(* Item i's moment has been stored.                                        *)
MomDone(i) ==
    \/ ParamDone(i)
    \/ i = it[Owner(i)] /\ pc[Owner(i)] \in {"loadParam", "storeParam"}

(* Each thread's loop variable lies on its own residue class, and a thread *)
(* inside the loop body works on an item below N.                          *)
OnResidue ==
    \A t \in Threads :
        /\ it[t] >= t
        /\ it[t] % Stride = t
        /\ pc[t] # "loadMom" => it[t] < N

(* A moment or parameter cell holds item i once if its update is stored    *)
(* and the cell is i's, and nothing else.                                  *)
CellsHold ==
    \A c \in Cells, i \in Items :
        /\ mom[c][i] = IF c = ParamIdx(i) /\ MomDone(i) THEN 1 ELSE 0
        /\ param[c][i] = IF c = ParamIdx(i) /\ ParamDone(i) THEN 1 ELSE 0

(* A register loaded and not yet stored still equals the cell it came      *)
(* from: no other thread has stored into that cell in between.             *)
RegsFresh ==
    \A t \in Threads :
        /\ pc[t] = "storeMom" => reg[t] = mom[ParamIdx(it[t])]
        /\ pc[t] = "storeParam" => reg[t] = param[ParamIdx(it[t])]

(* The inductive invariant.                                                *)
IInv ==
    /\ TypeOK
    /\ OnResidue
    /\ DistinctIndices => CellsHold /\ RegsFresh
-----------------------------------------------------------------------------
LEMMA Geometry ==
    /\ N \in Nat \ {0}
    /\ Stride \in Nat \ {0}
    /\ Threads = 0 .. Stride - 1
<1>1. N \in Nat \ {0}
  BY DEF N
<1>2. QED
  BY <1>1, LaunchGeometry DEF Grid, Stride, Threads

(* Item i is value i % grad_slice_sz of row i \div grad_slice_sz, its     *)
(* owner is a thread of the launch, and its paramIdx is a cell of the     *)
(* memory the indices can name.                                            *)
LEMMA ItemFacts ==
    ASSUME indices \in [Rows -> 0 .. MaxIndex], NEW i \in Items
    PROVE  /\ i \in Nat
           /\ i \div SliceSize \in Rows
           /\ i % SliceSize \in 0 .. SliceSize - 1
           /\ i = (i \div SliceSize) * SliceSize + (i % SliceSize)
           /\ Owner(i) \in Threads
           /\ ParamIdx(i) \in Cells
<1>1. i \in Nat /\ i \div SliceSize \in Rows
  BY DEF Items, Rows, N
<1>2. i % SliceSize \in 0 .. SliceSize - 1
      /\ i = (i \div SliceSize) * SliceSize + (i % SliceSize)
  BY <1>1
<1>3. Owner(i) \in Threads
  BY <1>1, Geometry DEF Owner
<1>4. \A x \in 0 .. MaxIndex, y \in 0 .. SliceSize - 1 :
          x * SliceSize + y \in Cells
  BY DEF Cells
<1>5. ParamIdx(i) \in Cells
  BY <1>1, <1>2, <1>4 DEF ParamIdx
<1>6. QED
  BY <1>1, <1>2, <1>3, <1>5

(* With pairwise distinct indices no two items share a cell.               *)
LEMMA ParamIdxInjective ==
    ASSUME indices \in [Rows -> 0 .. MaxIndex], DistinctIndices,
           NEW i \in Items, NEW j \in Items, ParamIdx(i) = ParamIdx(j)
    PROVE  i = j
<1> DEFINE a == indices[i \div SliceSize]
           b == indices[j \div SliceSize]
<1>0. /\ a \in Int /\ b \in Int
      /\ i % SliceSize \in 0 .. SliceSize - 1
      /\ j % SliceSize \in 0 .. SliceSize - 1
      /\ a * SliceSize + (i % SliceSize) = b * SliceSize + (j % SliceSize)
  BY ItemFacts DEF ParamIdx
<1>1. a = b /\ i % SliceSize = j % SliceSize
  BY <1>0, DivUnique
<1>2. i \div SliceSize = j \div SliceSize
  BY <1>1, ItemFacts DEF DistinctIndices
<1>3. QED
  BY <1>1, <1>2, ItemFacts

(* Value k of row r is the item r * grad_slice_sz + k.                     *)
LEMMA RowItem ==
    ASSUME indices \in [Rows -> 0 .. MaxIndex],
           NEW r \in Rows, NEW k \in 0 .. SliceSize - 1
    PROVE  /\ r * SliceSize + k \in Items
           /\ ParamIdx(r * SliceSize + k) = indices[r] * SliceSize + k
<1>1. r * SliceSize + k \in Items
  BY DEF Rows, Items, N
<1>2. (r * SliceSize + k) \div SliceSize = r
      /\ (r * SliceSize + k) % SliceSize = k
  BY DEF Rows
<1>3. QED
  BY <1>1, <1>2 DEF ParamIdx

(* Two threads of the launch work on different items.                      *)
LEMMA OwnItems ==
    ASSUME OnResidue, it \in [Threads -> Nat],
           NEW t \in Threads, NEW u \in Threads, t # u
    PROVE  it[t] # it[u]
  BY DEF OnResidue
-----------------------------------------------------------------------------
LEMMA IInvInit == Init => IInv
<1> SUFFICES ASSUME Init PROVE IInv
  OBVIOUS
<1>1. TypeOK
  BY Geometry DEF Init, TypeOK, Untouched, Empty, LoopStart, PCs
<1>2. OnResidue
  <2> SUFFICES ASSUME NEW t \in Threads PROVE it[t] >= t /\ it[t] % Stride = t
    BY DEF Init, OnResidue
  <2>1. t \in Nat /\ t < Stride
    BY Geometry
  <2>2. QED
    BY <2>1, Geometry, ResidueBound DEF Init, LoopStart
<1>3. \A i \in Items : ~MomDone(i) /\ ~ParamDone(i)
  <2> SUFFICES ASSUME NEW i \in Items PROVE ~MomDone(i) /\ ~ParamDone(i)
    OBVIOUS
  <2>0. i \in Nat /\ Owner(i) \in Threads
    BY ItemFacts DEF Init
  <2>a. i % Stride \in 0 .. Stride - 1 /\ i % Stride <= i
    BY <2>0, Geometry, ResidueBound, Zenon
  <2>1. Owner(i) \in Threads /\ Owner(i) \in Nat /\ Owner(i) <= i /\ i \in Nat
    BY <2>0, <2>a, Geometry DEF Owner
  <2>2. it[Owner(i)] = Owner(i) /\ pc[Owner(i)] = "loadMom"
    BY <2>1 DEF Init, LoopStart
  <2>3. ~ParamDone(i)
    BY <2>1, <2>2 DEF ParamDone
  <2>4. ~MomDone(i)
    BY <2>2, <2>3 DEF MomDone
  <2>5. QED
    BY <2>3, <2>4
<1>4. CellsHold
  BY <1>3 DEF Init, CellsHold, Untouched, Empty
<1>5. RegsFresh
  BY DEF Init, RegsFresh
<1>6. QED
  BY <1>1, <1>2, <1>4, <1>5 DEF IInv

(* A load changes no cell and no loop variable, and keeps the thread on   *)
(* the same side of its moment store.                                      *)
LEMMA LoadMomentInv ==
    ASSUME IInv, NEW t \in Threads, LoadMoment(t) PROVE IInv'
<1> USE DEF IInv
<1>1. ParamIdx(it[t]) \in Cells /\ it[t] \in Items
  <2>1. it[t] \in Items
    BY Geometry DEF LoadMoment, Running, TypeOK, Items
  <2>2. QED
    BY <2>1, ItemFacts DEF TypeOK
<1>2. TypeOK'
  BY <1>1 DEF LoadMoment, TypeOK, PCs
<1>3. OnResidue'
  BY DEF LoadMoment, Running, OnResidue
<1>4. \A i \in Items : MomDone(i)' = MomDone(i) /\ ParamDone(i)' = ParamDone(i)
  BY DEF LoadMoment, Running, MomDone, ParamDone, Owner
<1>5. (DistinctIndices => CellsHold /\ RegsFresh)'
  <2>1. CellsHold' = CellsHold
    BY <1>4 DEF LoadMoment, CellsHold, ParamIdx
  <2>2. RegsFresh => RegsFresh'
    BY <1>1 DEF LoadMoment, RegsFresh, ParamIdx, TypeOK
  <2>3. QED
    BY <2>1, <2>2 DEF LoadMoment, DistinctIndices
<1>6. QED
  BY <1>2, <1>3, <1>5

LEMMA LoadParamInv ==
    ASSUME IInv, NEW t \in Threads, LoadParam(t) PROVE IInv'
<1> USE DEF IInv
<1>1. ParamIdx(it[t]) \in Cells /\ it[t] \in Items
  <2>1. it[t] \in Items
    BY Geometry DEF LoadParam, Running, TypeOK, Items
  <2>2. QED
    BY <2>1, ItemFacts DEF TypeOK
<1>2. TypeOK'
  BY <1>1 DEF LoadParam, TypeOK, PCs
<1>3. OnResidue'
  BY DEF LoadParam, Running, OnResidue
<1>4. \A i \in Items : MomDone(i)' = MomDone(i) /\ ParamDone(i)' = ParamDone(i)
  BY DEF LoadParam, Running, MomDone, ParamDone, Owner
<1>5. (DistinctIndices => CellsHold /\ RegsFresh)'
  <2>1. CellsHold' = CellsHold
    BY <1>4 DEF LoadParam, CellsHold, ParamIdx
  <2>2. RegsFresh => RegsFresh'
    BY <1>1 DEF LoadParam, RegsFresh, ParamIdx, TypeOK
  <2>3. QED
    BY <2>1, <2>2 DEF LoadParam, DistinctIndices
<1>6. QED
  BY <1>2, <1>3, <1>5

(* The moment store writes back the register it loaded, plus the item:    *)
(* since the register is still the cell's content, the cell gains exactly *)
(* this item, and no other thread's register is of that cell.              *)
LEMMA StoreMomentInv ==
    ASSUME IInv, NEW t \in Threads, StoreMoment(t) PROVE IInv'
<1> USE DEF IInv
<1> DEFINE i0 == it[t]
           c0 == ParamIdx(i0)
<1> USE DEF i0, c0
<1>1. /\ i0 \in Items /\ c0 \in Cells
      /\ Owner(i0) = t
  <2>1. i0 \in Items
    BY Geometry DEF StoreMoment, Running, TypeOK, Items
  <2>2. QED
    BY <2>1, ItemFacts DEF TypeOK, OnResidue, Owner
<1>2. /\ mom' = [mom EXCEPT ![c0] = [reg[t] EXCEPT ![i0] = @ + 1]]
      /\ pc' = [pc EXCEPT ![t] = "loadParam"]
      /\ UNCHANGED <<indices, param, it, reg>>
  BY DEF StoreMoment
<1>3. TypeOK'
  <2>1. mom' \in [Cells -> [Items -> Nat]]
    BY <1>1, <1>2 DEF TypeOK
  <2>2. pc' \in [Threads -> PCs]
    BY <1>2 DEF TypeOK, PCs
  <2>3. QED
    BY <1>2, <2>1, <2>2 DEF TypeOK
<1>4. OnResidue'
  BY <1>2 DEF StoreMoment, Running, OnResidue
<1>5. ASSUME DistinctIndices PROVE CellsHold' /\ RegsFresh'
  <2>1. reg[t] = mom[c0]
    BY <1>5 DEF StoreMoment, Running, RegsFresh
  <2>2. mom' = [mom EXCEPT ![c0][i0] = @ + 1]
    BY <1>1, <1>2, <2>1 DEF TypeOK
  <2>3. \A i \in Items :
          /\ ParamDone(i)' = ParamDone(i)
          /\ MomDone(i)' = (MomDone(i) \/ i = i0)
    <3> SUFFICES ASSUME NEW i \in Items
                 PROVE  /\ ParamDone(i)' = ParamDone(i)
                        /\ MomDone(i)' = (MomDone(i) \/ i = i0)
      OBVIOUS
    <3>1. Owner(i) \in Threads
      BY ItemFacts DEF TypeOK
    <3>2. ParamDone(i)' = ParamDone(i)
      BY <1>2 DEF ParamDone, Owner
    <3>3. CASE Owner(i) = t
      <4>1. pc[t] = "storeMom" /\ pc'[t] = "loadParam"
        BY <1>2 DEF StoreMoment, Running, TypeOK
      <4>2. QED
        BY <1>2, <3>2, <3>3, <4>1 DEF MomDone, Owner
    <3>4. CASE Owner(i) # t
      <4>1. i # i0
        BY <1>1, <3>4
      <4>2. QED
        BY <1>2, <3>1, <3>2, <3>4, <4>1 DEF MomDone, Owner, TypeOK
    <3>5. QED
      BY <3>2, <3>3, <3>4
  <2>4. ~MomDone(i0)
    BY <1>1 DEF StoreMoment, Running, MomDone, ParamDone, TypeOK, Items
  <2>5. CellsHold'
    <3> SUFFICES ASSUME NEW c \in Cells, NEW i \in Items
                 PROVE  /\ mom'[c][i] =
                               IF c = ParamIdx(i)' /\ MomDone(i)' THEN 1 ELSE 0
                        /\ param'[c][i] =
                               IF c = ParamIdx(i)' /\ ParamDone(i)' THEN 1 ELSE 0
      BY DEF CellsHold
    <3>1. ParamIdx(i)' = ParamIdx(i)
      BY <1>2 DEF ParamIdx
    <3>2. CASE c = c0 /\ i = i0
      <4>1. mom[c0][i0] = 0 /\ mom'[c0][i0] = mom[c0][i0] + 1
        BY <1>1, <1>5, <2>2, <2>4 DEF CellsHold, TypeOK
      <4>2. MomDone(i0)' /\ param' = param
        BY <1>1, <1>2, <2>3
      <4>3. mom'[c][i] = 1
        BY <3>2, <4>1
      <4>4. c = ParamIdx(i)' /\ MomDone(i)'
        BY <1>1, <2>3, <3>1, <3>2
      <4>5. param'[c][i] = IF c = ParamIdx(i)' /\ ParamDone(i)' THEN 1 ELSE 0
        BY <1>5, <2>3, <3>1, <4>2 DEF CellsHold
      <4>6. QED
        BY <4>3, <4>4, <4>5
    <3>3. CASE ~(c = c0 /\ i = i0)
      <4>1. mom'[c][i] = mom[c][i]
        BY <1>1, <2>2, <3>3 DEF TypeOK
      <4>2. i = i0 => c # ParamIdx(i)
        BY <3>3
      <4>3. QED
        BY <1>2, <1>5, <2>3, <3>1, <4>1, <4>2 DEF CellsHold
    <3>4. QED
      BY <3>2, <3>3
  <2>6. RegsFresh'
    <3> SUFFICES ASSUME NEW u \in Threads
                 PROVE  /\ pc'[u] = "storeMom" => reg'[u] = mom'[ParamIdx(it[u])']
                        /\ pc'[u] = "storeParam" =>
                               reg'[u] = param'[ParamIdx(it[u])']
      BY DEF RegsFresh
    <3>1. CASE u = t
      BY <1>2, <3>1 DEF TypeOK
    <3>2. CASE u # t
      <4>1. pc[u] = "storeMom" => ParamIdx(it[u]) # c0
        <5>1. SUFFICES ASSUME pc[u] = "storeMom" PROVE ParamIdx(it[u]) # c0
          OBVIOUS
        <5>2. it[u] \in Items
          <6>1. it[u] \in Nat /\ it[u] < N /\ N \in Nat
            BY <5>1, Geometry DEF OnResidue, TypeOK
          <6>2. QED
            BY <6>1 DEF Items
        <5>3. it[u] # i0
          BY <3>2, OwnItems DEF TypeOK
        <5>4. QED
          BY <1>1, <1>5, <5>2, <5>3, ParamIdxInjective DEF TypeOK
      <4>2. /\ ParamIdx(it[u])' = ParamIdx(it[u])
            /\ pc'[u] = pc[u] /\ reg'[u] = reg[u] /\ param' = param
        BY <1>2, <3>2 DEF ParamIdx, TypeOK
      <4>3. pc[u] = "storeMom" => mom'[ParamIdx(it[u])] = mom[ParamIdx(it[u])]
        BY <1>1, <2>2, <4>1 DEF TypeOK
      <4>4. QED
        BY <1>5, <4>2, <4>3 DEF RegsFresh
    <3>3. QED
      BY <3>1, <3>2
  <2>7. QED
    BY <2>5, <2>6
<1>6. QED
  BY <1>2, <1>3, <1>4, <1>5 DEF DistinctIndices

(* The parameter store writes back the loaded parameter register plus the *)
(* item and moves the thread a stride on: the item becomes done, the next  *)
(* item of the same residue is a stride away, so no item in between is     *)
(* skipped and no moment changes its state.                                *)
LEMMA StoreParamInv ==
    ASSUME IInv, NEW t \in Threads, StoreParam(t) PROVE IInv'
<1> USE DEF IInv
<1> DEFINE i0 == it[t]
           c0 == ParamIdx(i0)
<1> USE DEF i0, c0
<1>1. /\ i0 \in Items /\ c0 \in Cells
      /\ Owner(i0) = t
      /\ pc[t] = "storeParam"
  <2>1. i0 \in Items
    BY Geometry DEF StoreParam, Running, TypeOK, Items
  <2>2. QED
    BY <2>1, ItemFacts DEF StoreParam, Running, TypeOK, OnResidue, Owner
<1>2. /\ param' = [param EXCEPT ![c0] = [reg[t] EXCEPT ![i0] = @ + 1]]
      /\ pc' = [pc EXCEPT ![t] = "loadMom"]
      /\ it' = [it EXCEPT ![t] = i0 + Stride]
      /\ UNCHANGED <<indices, mom, reg>>
  BY DEF StoreParam
<1>3. TypeOK'
  <2>1. i0 + Stride \in Nat
    BY <1>1, Geometry DEF Items
  <2>2. it' \in [Threads -> Nat]
    BY <1>2, <2>1 DEF TypeOK
  <2>3. param' \in [Cells -> [Items -> Nat]]
    BY <1>1, <1>2 DEF TypeOK
  <2>4. pc' \in [Threads -> PCs]
    BY <1>2 DEF TypeOK, PCs
  <2>5. QED
    BY <1>2, <2>2, <2>3, <2>4 DEF TypeOK
<1>4. OnResidue'
  <2> SUFFICES ASSUME NEW u \in Threads
               PROVE  /\ it'[u] >= u
                      /\ it'[u] % Stride = u
                      /\ pc'[u] # "loadMom" => it'[u] < N
    BY DEF OnResidue
  <2>1. CASE u = t
    <3>1. i0 \in Nat /\ i0 >= t /\ i0 % Stride = t
      BY <1>1 DEF TypeOK, OnResidue, Items
    <3>2. (i0 + Stride) % Stride = t
      BY <3>1, Geometry, ResidueShift
    <3>3. QED
      BY <1>2, <2>1, <3>1, <3>2, Geometry DEF TypeOK
  <2>2. CASE u # t
    BY <1>2, <2>2 DEF TypeOK, OnResidue
  <2>3. QED
    BY <2>1, <2>2
<1>5. ASSUME DistinctIndices PROVE CellsHold' /\ RegsFresh'
  <2>1. reg[t] = param[c0]
    BY <1>1, <1>5 DEF RegsFresh
  <2>2. param' = [param EXCEPT ![c0][i0] = @ + 1]
    BY <1>1, <1>2, <2>1 DEF TypeOK
  <2>3. \A i \in Items :
          /\ ParamDone(i)' <=> (ParamDone(i) \/ i = i0)
          /\ MomDone(i)' <=> MomDone(i)
    <3> SUFFICES ASSUME NEW i \in Items
                 PROVE  /\ ParamDone(i)' <=> (ParamDone(i) \/ i = i0)
                        /\ MomDone(i)' <=> MomDone(i)
      OBVIOUS
    <3>1. Owner(i) \in Threads /\ i \in Nat
      BY ItemFacts DEF TypeOK
    <3>2. CASE Owner(i) = t
      <4>1. i0 \in Nat /\ i % Stride = i0 % Stride
        BY <1>1, <3>2 DEF Items, Owner
      <4>2. i0 < i => i0 + Stride <= i
        BY <3>1, <4>1, Geometry, ResidueGap
      <4>3. (i < i0 + Stride) <=> (i < i0 \/ i = i0)
        BY <3>1, <4>1, <4>2, Geometry
      <4>4. (ParamDone(i)' <=> i < i0 + Stride) /\ (ParamDone(i) <=> i < i0)
        BY <1>2, <3>2 DEF ParamDone, TypeOK
      <4>5. MomDone(i) <=> (i < i0 \/ i = i0)
        BY <1>1, <3>2 DEF MomDone, ParamDone
      <4>6. MomDone(i)' <=> (i < i0 + Stride)
        <5>1. pc'[t] = "loadMom"
          BY <1>2 DEF TypeOK
        <5>2. ~(pc'[Owner(i)] \in {"loadParam", "storeParam"})
          BY <3>2, <5>1
        <5>3. MomDone(i)' <=> (ParamDone(i)' \/
                             (i = it'[Owner(i)] /\ pc'[Owner(i)] \in {"loadParam", "storeParam"}))
          BY DEF MomDone
        <5>4. MomDone(i)' <=> ParamDone(i)'
          BY <5>2, <5>3
        <5>5. QED
          BY <4>4, <5>4
      <4>7. QED
        BY <4>3, <4>4, <4>5, <4>6, Zenon
    <3>3. CASE Owner(i) # t
      <4>1. i # i0
        BY <1>1, <3>3
      <4>2. QED
        BY <1>2, <3>1, <3>3, <4>1 DEF MomDone, ParamDone, TypeOK
    <3>4. QED
      BY <3>2, <3>3
  <2>4. ~ParamDone(i0)
    BY <1>1 DEF ParamDone, TypeOK, Items
  <2>5. CellsHold'
    <3> SUFFICES ASSUME NEW c \in Cells, NEW i \in Items
                 PROVE  /\ mom'[c][i] =
                               IF c = ParamIdx(i)' /\ MomDone(i)' THEN 1 ELSE 0
                        /\ param'[c][i] =
                               IF c = ParamIdx(i)' /\ ParamDone(i)' THEN 1 ELSE 0
      BY DEF CellsHold
    <3>1. ParamIdx(i)' = ParamIdx(i)
      BY <1>2 DEF ParamIdx
    <3>2. mom'[c][i] = IF c = ParamIdx(i)' /\ MomDone(i)' THEN 1 ELSE 0
      BY <1>2, <1>5, <2>3, <3>1 DEF CellsHold
    <3>3. CASE c = c0 /\ i = i0
      <4>1. param[c0][i0] = 0 /\ param'[c0][i0] = param[c0][i0] + 1
        BY <1>1, <1>5, <2>2, <2>4 DEF CellsHold, TypeOK
      <4>2. param'[c][i] = 1
        BY <3>3, <4>1
      <4>3. c = ParamIdx(i)' /\ ParamDone(i)'
        BY <1>1, <2>3, <3>1, <3>3
      <4>4. QED
        BY <3>2, <4>2, <4>3
    <3>4. CASE ~(c = c0 /\ i = i0)
      <4>1. param'[c][i] = param[c][i]
        BY <1>1, <2>2, <3>4 DEF TypeOK
      <4>2. ParamDone(i)' <=> (ParamDone(i) \/ i = i0)
        BY <2>3
      <4>3. param[c][i] = IF c = ParamIdx(i) /\ ParamDone(i) THEN 1 ELSE 0
        BY <1>5 DEF CellsHold
      <4>4. CASE i = i0
        <5>1. c # ParamIdx(i)
          BY <3>4, <4>4
        <5>2. param'[c][i] = IF c = ParamIdx(i)' /\ ParamDone(i)' THEN 1 ELSE 0
          BY <3>1, <4>1, <4>3, <5>1
        <5>3. QED
          BY <3>2, <5>2
      <4>5. CASE i # i0
        <5>1. param'[c][i] = IF c = ParamIdx(i)' /\ ParamDone(i)' THEN 1 ELSE 0
          BY <3>1, <4>1, <4>2, <4>3, <4>5
        <5>2. QED
          BY <3>2, <5>1
      <4>6. QED
        BY <4>4, <4>5
    <3>5. QED
      BY <3>3, <3>4
  <2>6. RegsFresh'
    <3> SUFFICES ASSUME NEW u \in Threads
                 PROVE  /\ pc'[u] = "storeMom" => reg'[u] = mom'[ParamIdx(it[u])']
                        /\ pc'[u] = "storeParam" =>
                               reg'[u] = param'[ParamIdx(it[u])']
      BY DEF RegsFresh
    <3>1. CASE u = t
      BY <1>2, <3>1 DEF TypeOK
    <3>2. CASE u # t
      <4>1. pc[u] = "storeParam" => ParamIdx(it[u]) # c0
        <5>1. SUFFICES ASSUME pc[u] = "storeParam" PROVE ParamIdx(it[u]) # c0
          OBVIOUS
        <5>2. it[u] \in Items
          <6>1. it[u] \in Nat /\ it[u] < N /\ N \in Nat
            BY <5>1, Geometry DEF OnResidue, TypeOK
          <6>2. QED
            BY <6>1 DEF Items
        <5>3. it[u] # i0
          BY <3>2, OwnItems DEF TypeOK
        <5>4. QED
          BY <1>1, <1>5, <5>2, <5>3, ParamIdxInjective DEF TypeOK
      <4>2. /\ ParamIdx(it[u])' = ParamIdx(it[u])
            /\ pc'[u] = pc[u] /\ reg'[u] = reg[u] /\ mom' = mom
        BY <1>2, <3>2 DEF ParamIdx, TypeOK
      <4>3. pc[u] = "storeParam" =>
                param'[ParamIdx(it[u])] = param[ParamIdx(it[u])]
        BY <1>1, <2>2, <4>1 DEF TypeOK
      <4>4. QED
        BY <1>5, <4>2, <4>3 DEF RegsFresh
    <3>3. QED
      BY <3>1, <3>2
  <2>7. QED
    BY <2>5, <2>6
<1>6. QED
  BY <1>2, <1>3, <1>4, <1>5 DEF DistinctIndices

LEMMA IInvNext == IInv /\ [Next]_vars => IInv'
<1> SUFFICES ASSUME IInv, [Next]_vars PROVE IInv'
  OBVIOUS
<1>1. CASE UNCHANGED vars
  BY <1>1 DEF vars, IInv, TypeOK, OnResidue, CellsHold, RegsFresh,
              DistinctIndices, MomDone, ParamDone, Owner, ParamIdx
<1>2. CASE Next
  BY <1>2, LoadMomentInv, StoreMomentInv, LoadParamInv, StoreParamInv DEF Next
<1>3. QED
  BY <1>1, <1>2
-----------------------------------------------------------------------------
(* Type correctness of the kernel launch: loop variables, program points,  *)
(* registers and the moment and parameter buffers keep their types through *)
(* every interleaving of the threads' loads and stores.                    *)
THEOREM TypeCorrect == Spec => []TypeOK
<1>1. Init => IInv
  BY IInvInit
<1>2. IInv /\ [Next]_vars => IInv'
  BY IInvNext
<1>3. IInv => TypeOK
  BY DEF IInv
<1>4. QED
  BY <1>1, <1>2, <1>3, PTL DEF Spec

(* With pairwise distinct indices, SparseAdagradKernel's plain loads and   *)
(* stores lose no update: when every thread has left the grid-stride loop, *)
(* the moment and the parameter of row indices[r] have taken gradient      *)
(* value k of row r exactly once, for every launch geometry, every number  *)
(* and width of rows and every range of indices.                           *)
THEOREM UpdatesSafety == Spec => []UpdatesAppliedDistinct
<1>1. IInv => UpdatesAppliedDistinct
  <2> SUFFICES ASSUME IInv, DistinctIndices, KernelDone,
                      NEW c \in Cells, NEW r \in Rows,
                      NEW k \in 0 .. SliceSize - 1
               PROVE  LET want == IF c = indices[r] * SliceSize + k THEN 1 ELSE 0
                      IN  /\ mom[c][r * SliceSize + k] = want
                          /\ param[c][r * SliceSize + k] = want
    BY DEF UpdatesAppliedDistinct, UpdatesApplied
  <2> DEFINE j == r * SliceSize + k
  <2> USE DEF j
  <2>1. j \in Items /\ ParamIdx(j) = indices[r] * SliceSize + k
    BY RowItem DEF IInv, TypeOK
  <2>2. Owner(j) \in Threads /\ j \in Nat
    BY <2>1, ItemFacts DEF IInv, TypeOK
  <2>3. ParamDone(j)
    <3>1. it[Owner(j)] \in Nat /\ it[Owner(j)] >= N /\ N \in Nat
      BY <2>2, Geometry DEF KernelDone, IInv, TypeOK
    <3>2. j < N
      BY <2>1, <3>1 DEF Items
    <3>3. QED
      BY <2>2, <3>1, <3>2 DEF ParamDone
  <2>4. MomDone(j)
    BY <2>3 DEF MomDone
  <2>5. QED
    BY <2>1, <2>3, <2>4 DEF IInv, CellsHold
<1>2. QED
  BY <1>1, IInvInit, IInvNext, PTL DEF Spec
-----------------------------------------------------------------------------
(* The refinement of ScatterAdd.                                           *)

MomVars == <<[i \in Items |-> {ParamIdx(i)}], mom>>
ParamVars == <<[i \in Items |-> {ParamIdx(i)}], param>>

(* Repeated indices make two gradient values share a cell: the first      *)
(* values of the two rows.                                                 *)
LEMMA SharedCell ==
    ASSUME indices \in [Rows -> 0 .. MaxIndex], ~DistinctIndices
    PROVE  \E i, j \in Items : i # j /\ ParamIdx(i) = ParamIdx(j)
<1>1. PICK r1, r2 \in Rows : r1 # r2 /\ indices[r1] = indices[r2]
  BY DEF DistinctIndices
<1>2. /\ r1 * SliceSize + 0 \in Items
      /\ ParamIdx(r1 * SliceSize + 0) = indices[r1] * SliceSize + 0
      /\ r2 * SliceSize + 0 \in Items
      /\ ParamIdx(r2 * SliceSize + 0) = indices[r2] * SliceSize + 0
  BY <1>1, RowItem
<1>3. r1 * SliceSize + 0 # r2 * SliceSize + 0
  BY <1>1 DEF Rows
<1>4. QED
  BY <1>1, <1>2, <1>3

(* Every step leaves the indices, so the targets, alone.                   *)
LEMMA IndicesFixed ==
    ASSUME [Next]_vars
    PROVE  indices' = indices
  BY DEF Next, vars, LoadMoment, StoreMoment, LoadParam, StoreParam

(* The item and the cell of a thread inside the loop body.                *)
LEMMA BodyItem ==
    ASSUME IInv, NEW t \in Threads, pc[t] # "loadMom"
    PROVE  /\ it[t] \in Items /\ ParamIdx(it[t]) \in Cells
           /\ Owner(it[t]) = t
<1>1. it[t] \in Items
  BY Geometry DEF IInv, OnResidue, TypeOK, Items
<1>2. QED
  BY <1>1, ItemFacts DEF IInv, TypeOK, OnResidue, Owner

(* Each step is a step of the moment's ScatterAdd: a stutter, an atomic    *)
(* add of one new contribution (StoreMoment), or, with repeated indices,   *)
(* a step the contract leaves free.                                        *)
LEMMA MomStep ==
    ASSUME IInv, [Next]_vars
    PROVE  [MomScatter!Next]_MomVars
<1>0. indices' = indices /\ indices \in [Rows -> 0 .. MaxIndex]
  BY IndicesFixed DEF IInv, TypeOK
<1>1. [i \in Items |-> {ParamIdx(i)}]' = [i \in Items |-> {ParamIdx(i)}]
  BY <1>0 DEF ParamIdx
<1>2. CASE ~DistinctIndices
  <2>1. \E i, j \in Items : i # j /\ ParamIdx(i) = ParamIdx(j)
    BY <1>0, <1>2, SharedCell
  <2>2. MomScatter!Unpromised
    BY <2>1, <1>1 DEF MomScatter!Unpromised, MomScatter!Disjoint
  <2>3. QED
    BY <2>2 DEF MomScatter!Next
<1>3. CASE DistinctIndices
  <2>1. CellsHold /\ RegsFresh
    BY <1>3 DEF IInv
  <2>2. CASE \E t \in Threads : StoreMoment(t)
    <3>1. PICK t \in Threads : StoreMoment(t)
      BY <2>2
    <3> DEFINE i0 == it[t]
               c0 == ParamIdx(i0)
    <3>2. i0 \in Items /\ c0 \in Cells /\ Owner(i0) = t /\ pc[t] = "storeMom"
      BY <3>1, BodyItem DEF StoreMoment, Running
    <3>3. reg[t] = mom[c0]
      BY <3>2, <2>1 DEF RegsFresh
    <3>4. mom[c0][i0] = 0
      <4>1. ~MomDone(i0)
        BY <3>2 DEF MomDone, ParamDone, Items
      <4>2. QED
        BY <4>1, <3>2, <2>1 DEF CellsHold
    <3>5. mom' = [mom EXCEPT ![c0][i0] = 1]
      BY <3>1, <3>2, <3>3, <3>4 DEF StoreMoment, IInv, TypeOK
    <3>6. MomScatter!Add(i0, c0)
      BY <3>2, <3>4, <3>5, <1>1 DEF MomScatter!Add
    <3>7. QED
      BY <3>2, <3>6 DEF MomScatter!Next
  <2>3. CASE ~\E t \in Threads : StoreMoment(t)
    <3>1. mom' = mom
      BY <2>3 DEF Next, vars, LoadMoment, LoadParam, StoreParam
    <3>2. QED
      BY <3>1, <1>1 DEF MomVars
  <2>4. QED
    BY <2>2, <2>3
<1>4. QED
  BY <1>2, <1>3

(* Each step is a step of the parameter's ScatterAdd; StoreParam is the    *)
(* atomic add.                                                             *)
LEMMA ParamStep ==
    ASSUME IInv, [Next]_vars
    PROVE  [ParamScatter!Next]_ParamVars
<1>0. indices' = indices /\ indices \in [Rows -> 0 .. MaxIndex]
  BY IndicesFixed DEF IInv, TypeOK
<1>1. [i \in Items |-> {ParamIdx(i)}]' = [i \in Items |-> {ParamIdx(i)}]
  BY <1>0 DEF ParamIdx
<1>2. CASE ~DistinctIndices
  <2>1. \E i, j \in Items : i # j /\ ParamIdx(i) = ParamIdx(j)
    BY <1>0, <1>2, SharedCell
  <2>2. ParamScatter!Unpromised
    BY <2>1, <1>1 DEF ParamScatter!Unpromised, ParamScatter!Disjoint
  <2>3. QED
    BY <2>2 DEF ParamScatter!Next
<1>3. CASE DistinctIndices
  <2>1. CellsHold /\ RegsFresh
    BY <1>3 DEF IInv
  <2>2. CASE \E t \in Threads : StoreParam(t)
    <3>1. PICK t \in Threads : StoreParam(t)
      BY <2>2
    <3> DEFINE i0 == it[t]
               c0 == ParamIdx(i0)
    <3>2. i0 \in Items /\ c0 \in Cells /\ Owner(i0) = t /\ pc[t] = "storeParam"
      BY <3>1, BodyItem DEF StoreParam, Running
    <3>3. reg[t] = param[c0]
      BY <3>2, <2>1 DEF RegsFresh
    <3>4. param[c0][i0] = 0
      <4>1. ~ParamDone(i0)
        BY <3>2 DEF ParamDone, Items
      <4>2. QED
        BY <4>1, <3>2, <2>1 DEF CellsHold
    <3>5. param' = [param EXCEPT ![c0][i0] = 1]
      BY <3>1, <3>2, <3>3, <3>4 DEF StoreParam, IInv, TypeOK
    <3>6. ParamScatter!Add(i0, c0)
      BY <3>2, <3>4, <3>5, <1>1 DEF ParamScatter!Add
    <3>7. QED
      BY <3>2, <3>6 DEF ParamScatter!Next
  <2>3. CASE ~\E t \in Threads : StoreParam(t)
    <3>1. param' = param
      BY <2>3 DEF Next, vars, LoadMoment, StoreMoment, LoadParam
    <3>2. QED
      BY <3>1, <1>1 DEF ParamVars
  <2>4. QED
    BY <2>2, <2>3
<1>4. QED
  BY <1>2, <1>3

(* The kernel starts both tensors as ScatterAdd starts them: untouched,    *)
(* with the targets the indices name.                                      *)
LEMMA ScatterInit ==
    Init => MomScatter!Init /\ ParamScatter!Init
<1> SUFFICES ASSUME Init PROVE MomScatter!Init /\ ParamScatter!Init
  OBVIOUS
<1>1. [i \in Items |-> {ParamIdx(i)}] \in [Items -> SUBSET Cells]
  BY ItemFacts DEF Init
<1>2. QED
  BY <1>1 DEF Init, Untouched, Empty, MomScatter!Init, ParamScatter!Init

(* SparseAdagradKernel implements ScatterAdd for both tensors: with        *)
(* pairwise distinct indices its plain loads and stores of param_mom and   *)
(* param behave, under every interleaving of the threads, as atomic adds   *)
(* that bring each gradient value's contribution into its cell once and    *)
(* never lose one, for every launch geometry and input size.               *)
THEOREM AtomicRefinement == Spec => AtomicScatter
<1>1. Init => MomScatter!Init /\ ParamScatter!Init
  BY ScatterInit
<1>2. Init => IInv
  BY IInvInit
<1>3. IInv /\ [Next]_vars => IInv'
  BY IInvNext
<1>4. IInv /\ [Next]_vars => [MomScatter!Next]_MomVars
  BY MomStep
<1>5. IInv /\ [Next]_vars => [ParamScatter!Next]_ParamVars
  BY ParamStep
<1>6. QED
  BY <1>1, <1>2, <1>3, <1>4, <1>5, PTL
     DEF Spec, AtomicScatter, MomScatter!Spec, ParamScatter!Spec, MomVars, ParamVars
=============================================================================
