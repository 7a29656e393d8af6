-------------------- MODULE RowWiseSparseAdagradProofs --------------------
(***************************************************************************)
(* Proofs about RowWiseSparseAdagrad, for every launch geometry, number    *)
(* and width of gradient rows and range of indices.                        *)
(*                                                                         *)
(* Block b takes the gradient rows of residue b modulo gridDim, so two     *)
(* blocks never work on the same row; the block reduction and the          *)
(* __syncthreads() keep the threads of a block within one row of each      *)
(* other; and within a row, thread tid owns the columns of residue tid     *)
(* modulo blockDim.  With pairwise distinct indices every moment and       *)
(* parameter cell therefore belongs to one thread at a time, and a loaded  *)
(* register is still its cell's content when it is stored back.           *)
(***************************************************************************)
EXTENDS RowWiseSparseAdagrad, HipKernelLoopProofs

USE RowWiseAssumption, GeometryAssumption

(* Where a thread is relative to the block's two collectives: before the   *)
(* reduction (or finished), between the reduction and the barrier, after   *)
(* the barrier.                                                            *)
APh == {"reduce", "done"}
BPh == {"momLoad", "momStore", "sync"}
CPh == {"step", "paramLoad", "paramStore"}

(* Thread 0 of the block that takes gradient row i updates its moment.     *)
Lead(i) == <<i % Grid, 0>>

(* The thread that updates column j of gradient row i.                     *)
Worker(i, j) == <<i % Grid, j % BlockDim>>

(* Row i's average has been stored into param_mom[indices[i]].             *)
MomDone(i) ==
    \/ i < row[Lead(i)]
    \/ i = row[Lead(i)] /\ pc[Lead(i)] \in {"sync"} \cup CPh

(* Column j of row indices[i] has taken in gradient row i.                 *)
ColDone(i, j) ==
    \/ i < row[Worker(i, j)]
    \/ /\ i = row[Worker(i, j)]
       /\ pc[Worker(i, j)] \in {"paramLoad", "paramStore"}
       /\ j < col[Worker(i, j)]

(* Block b's threads walk rows b, b + gridDim, ...; a thread has finished  *)
(* exactly when its row is past the last.                                  *)
RowResidue ==
    \A th \in Threads :
        /\ row[th] >= th[1]
        /\ row[th] % Grid = th[1]
        /\ (pc[th] = "done" <=> row[th] >= M)

(* Thread tid walks columns tid, tid + blockDim, ... of its row; only      *)
(* thread 0 is between the reduction and the moment store.                 *)
ColResidue ==
    \A th \in Threads :
        /\ pc[th] \in {"paramLoad", "paramStore"} =>
               col[th] >= th[2] /\ col[th] % BlockDim = th[2]
        /\ pc[th] = "paramStore" => col[th] < NCols
        /\ pc[th] \in {"momLoad", "momStore"} => th[2] = 0

(* The two collectives keep a block in step: between them every thread of  *)
(* the block is between them on the same row; after the barrier the others *)
(* are after it on the same row or already waiting on the next; and the    *)
(* threads waiting at the reduction wait on the same row.                  *)
Lockstep ==
    \A th \in Threads, th2 \in Threads :
        th2[1] = th[1] =>
            /\ pc[th] \in BPh => row[th2] = row[th] /\ pc[th2] \in BPh
            /\ pc[th] \in CPh =>
                   \/ row[th2] = row[th] /\ pc[th2] \in CPh
                   \/ row[th2] = row[th] + Grid /\ pc[th2] \in APh
            /\ pc[th] \in APh /\ pc[th2] \in APh => row[th2] = row[th]

(* Each moment and parameter cell holds a row once if the row's update of *)
(* it is stored and the cell is the row's, and nothing else.               *)
CellsHold ==
    /\ \A p \in ParamRows, i \in Rows :
           mom[p][i] = IF p = indices[i] /\ MomDone(i) THEN 1 ELSE 0
    /\ \A c \in ParamCells, i \in Rows :
           param[c][i] =
               IF c \div NCols = indices[i] /\ ColDone(i, c % NCols)
               THEN 1 ELSE 0

(* A loaded register still equals the cell it came from.                   *)
RegsFresh ==
    \A th \in Threads :
        /\ pc[th] = "momStore" => reg[th] = mom[Index(th)]
        /\ pc[th] = "paramStore" => reg[th] = param[Cell(th)]

(* A thread updating parameters computed its step from a moment that       *)
(* holds its row.                                                          *)
StepsFresh ==
    \A th \in Threads :
        pc[th] \in {"paramLoad", "paramStore"} => stepMom[th][row[th]] = 1

(* The inductive invariant.                                                *)
IInv ==
    /\ TypeOK
    /\ RowResidue
    /\ ColResidue
    /\ Lockstep
    /\ DistinctIndices => CellsHold /\ RegsFresh /\ StepsFresh
-----------------------------------------------------------------------------
LEMMA Geometry ==
    /\ Grid \in Nat \ {0}
    /\ Grid <= M
    /\ Blocks = 0 .. Grid - 1
    /\ Tids = 0 .. BlockDim - 1
  BY DEF Grid, Blocks, Tids

(* A thread is the pair of its block and its thread id.                    *)
LEMMA ThreadFacts ==
    ASSUME NEW th \in Threads
    PROVE  /\ th = <<th[1], th[2]>>
           /\ th[1] \in Nat /\ th[1] < Grid
           /\ th[2] \in Nat /\ th[2] < BlockDim
  BY Geometry DEF Threads

(* The thread of a row's moment and of a row's column are threads.        *)
LEMMA OwnersAreThreads ==
    ASSUME NEW i \in Nat, NEW j \in Nat
    PROVE  /\ Lead(i) \in Threads
           /\ Worker(i, j) \in Threads
           /\ i % Grid <= i
           /\ j % BlockDim <= j
<1>1. i % Grid \in 0 .. Grid - 1 /\ i % Grid <= i
  BY Geometry, ResidueBound, Zenon
<1>2. j % BlockDim \in 0 .. BlockDim - 1 /\ j % BlockDim <= j
  BY ResidueBound, Zenon
<1>3. QED
  BY <1>1, <1>2, Geometry DEF Lead, Worker, Threads

(* A thread is the moment thread of its row when it is thread 0, and the  *)
(* worker of its row and column when the column is on its residue.        *)
LEMMA OwnThread ==
    ASSUME RowResidue, NEW th \in Threads
    PROVE  /\ th[2] = 0 => Lead(row[th]) = th
           /\ \A j \in Nat : j % BlockDim = th[2] => Worker(row[th], j) = th
  BY ThreadFacts DEF RowResidue, Lead, Worker

(* Row i's cells of parameter row indices[i] are cells, and a cell is    *)
(* recovered from its row and column.                                      *)
LEMMA CellFacts ==
    ASSUME indices \in [Rows -> ParamRows], NEW i \in Rows,
           NEW j \in 0 .. NCols - 1
    PROVE  /\ indices[i] * NCols + j \in ParamCells
           /\ (indices[i] * NCols + j) \div NCols = indices[i]
           /\ (indices[i] * NCols + j) % NCols = j
  BY DEF ParamCells, ParamRows

LEMMA IInvInit == Init => IInv
<1> SUFFICES ASSUME Init PROVE IInv
  OBVIOUS
<1>1. TypeOK
  BY ThreadFacts DEF Init, TypeOK, NoRows, PCs
<1>2. RowResidue
  <2> SUFFICES ASSUME NEW th \in Threads
               PROVE  /\ row[th] >= th[1]
                      /\ row[th] % Grid = th[1]
                      /\ (pc[th] = "done" <=> row[th] >= M)
    BY DEF RowResidue
  <2>1. th[1] \in Nat /\ th[1] < Grid
    BY ThreadFacts
  <2>2. th[1] % Grid = th[1]
    BY <2>1, Geometry, ResidueBound
  <2>3. QED
    BY <2>1, <2>2, Geometry DEF Init
<1>3. ColResidue /\ Lockstep
  BY DEF Init, ColResidue, Lockstep, APh, BPh, CPh
<1>4. \A i \in Rows : \A j \in Nat : ~MomDone(i) /\ ~ColDone(i, j)
  <2> SUFFICES ASSUME NEW i \in Rows, NEW j \in Nat
               PROVE  ~MomDone(i) /\ ~ColDone(i, j)
    OBVIOUS
  <2>1. i \in Nat
    BY DEF Rows
  <2>2. Lead(i) \in Threads /\ Worker(i, j) \in Threads /\ i % Grid <= i
    BY <2>1, OwnersAreThreads
  <2>3. row[Lead(i)] = i % Grid /\ row[Worker(i, j)] = i % Grid
    BY <2>2 DEF Init, Lead, Worker
  <2>4. pc[Lead(i)] = "reduce" /\ pc[Worker(i, j)] = "reduce"
    BY <2>2 DEF Init
  <2>5. QED
    BY <2>1, <2>2, <2>3, <2>4, Geometry DEF MomDone, ColDone, CPh
<1>5. CellsHold
  <2>1. \A p \in ParamRows, i \in Rows :
            mom[p][i] = IF p = indices[i] /\ MomDone(i) THEN 1 ELSE 0
    BY <1>4 DEF Init, NoRows
  <2>2. \A c \in ParamCells, i \in Rows :
            param[c][i] =
                IF c \div NCols = indices[i] /\ ColDone(i, c % NCols)
                THEN 1 ELSE 0
    <3> SUFFICES ASSUME NEW c \in ParamCells, NEW i \in Rows
                 PROVE  param[c][i] = 0 /\ ~ColDone(i, c % NCols)
      OBVIOUS
    <3>1. c % NCols \in Nat
      BY DEF ParamCells
    <3>2. QED
      BY <1>4, <3>1 DEF Init, NoRows
  <2>3. QED
    BY <2>1, <2>2 DEF CellsHold
<1>6. RegsFresh /\ StepsFresh
  BY DEF Init, RegsFresh, StepsFresh
<1>7. QED
  BY <1>1, <1>2, <1>3, <1>5, <1>6 DEF IInv

(* Block b's threads are the threads whose block index is b.               *)
LEMMA BlockMember ==
    ASSUME NEW b \in Blocks, NEW th \in Threads
    PROVE  th \in Block(b) <=> th[1] = b
  BY ThreadFacts DEF Block, Threads

(* Two threads of one block are equal when their thread ids are, and two   *)
(* threads on the same row are in the same block.                          *)
LEMMA SameThread ==
    ASSUME RowResidue, NEW th \in Threads, NEW u \in Threads
    PROVE  /\ th[1] = u[1] /\ th[2] = u[2] => th = u
           /\ row[th] = row[u] => th[1] = u[1]
<1>1. th = <<th[1], th[2]>> /\ u = <<u[1], u[2]>>
  BY ThreadFacts
<1>2. QED
  BY <1>1 DEF RowResidue

(* A step that leaves the cells alone and does not move any row's moment  *)
(* or column past or back over its store keeps CellsHold.                  *)
LEMMA CellsTransfer ==
    ASSUME TypeOK, CellsHold,
           mom' = mom, param' = param, indices' = indices,
           \A i \in Rows : MomDone(i)' <=> MomDone(i),
           \A i \in Rows, j \in 0 .. NCols - 1 : ColDone(i, j)' <=> ColDone(i, j)
    PROVE  CellsHold'
<1>1. \A c \in ParamCells : c % NCols \in 0 .. NCols - 1
  BY DEF ParamCells
<1>2. QED
  BY <1>1 DEF CellsHold

(* A thread that takes no part in the moment or column updates, and a     *)
(* moment or column owner whose row, column and pc class stay, leave the  *)
(* progress of every row alone.                                            *)
LEMMA DoneTransfer ==
    ASSUME NEW i \in Nat, NEW j \in Nat
    PROVE  /\ row'[Lead(i)] = row[Lead(i)]
              /\ (pc'[Lead(i)] \in {"sync"} \cup CPh <=> pc[Lead(i)] \in {"sync"} \cup CPh)
              => (MomDone(i)' <=> MomDone(i))
           /\ row'[Worker(i, j)] = row[Worker(i, j)]
              /\ col'[Worker(i, j)] = col[Worker(i, j)]
              /\ (pc'[Worker(i, j)] \in {"paramLoad", "paramStore"}
                    <=> pc[Worker(i, j)] \in {"paramLoad", "paramStore"})
              => (ColDone(i, j)' <=> ColDone(i, j))
  BY DEF MomDone, ColDone

(* BlockReduceSum keeps the invariant: the block was waiting on one row.   *)
LEMMA BlockReduceInv ==
    ASSUME IInv, NEW b \in Blocks, BlockReduceSum(b)
    PROVE  IInv'
<1>0. TypeOK /\ RowResidue /\ ColResidue /\ Lockstep
  BY DEF IInv
<1>1. \A th \in Threads :
          /\ th[1] = b => pc[th] = "reduce" /\ pc'[th] \in BPh
          /\ th[1] = b /\ th[2] = 0 => pc'[th] = "momLoad"
          /\ th[1] # b => pc'[th] = pc[th]
  BY BlockMember DEF BlockReduceSum, BPh
<1>2. TypeOK'
  BY <1>0, <1>1 DEF TypeOK, BlockReduceSum, PCs, BPh
<1>3. RowResidue'
  BY <1>0, <1>1 DEF RowResidue, BlockReduceSum, BPh
<1>4. ColResidue'
  BY <1>0, <1>1 DEF ColResidue, BlockReduceSum, BPh
<1>5. Lockstep'
  <2> SUFFICES ASSUME NEW th \in Threads, NEW th2 \in Threads, th2[1] = th[1]
               PROVE  /\ pc'[th] \in BPh => row'[th2] = row'[th] /\ pc'[th2] \in BPh
                      /\ pc'[th] \in CPh =>
                             \/ row'[th2] = row'[th] /\ pc'[th2] \in CPh
                             \/ row'[th2] = row'[th] + Grid /\ pc'[th2] \in APh
                      /\ pc'[th] \in APh /\ pc'[th2] \in APh => row'[th2] = row'[th]
    BY DEF Lockstep
  <2>1. CASE th[1] = b
    BY <2>1, <1>0, <1>1 DEF Lockstep, BlockReduceSum, APh, BPh, CPh
  <2>2. CASE th[1] # b
    BY <2>2, <1>0, <1>1 DEF Lockstep, BlockReduceSum
  <2>3. QED
    BY <2>1, <2>2
<1>6. ASSUME DistinctIndices PROVE CellsHold' /\ RegsFresh' /\ StepsFresh'
  <2>1. CellsHold /\ RegsFresh /\ StepsFresh
    BY <1>6 DEF IInv
  <2>2. \A i \in Rows : MomDone(i)' <=> MomDone(i)
    <3> SUFFICES ASSUME NEW i \in Rows PROVE MomDone(i)' <=> MomDone(i)
      OBVIOUS
    <3>1. i \in Nat /\ Lead(i) \in Threads /\ Lead(i)[2] = 0
      BY OwnersAreThreads DEF Rows, Lead
    <3>2. QED
      BY <3>1, <1>1, DoneTransfer DEF BlockReduceSum, CPh
  <2>3. \A i \in Rows, j \in 0 .. NCols - 1 : ColDone(i, j)' <=> ColDone(i, j)
    <3> SUFFICES ASSUME NEW i \in Rows, NEW j \in 0 .. NCols - 1
                 PROVE  ColDone(i, j)' <=> ColDone(i, j)
      OBVIOUS
    <3>1. i \in Nat /\ j \in Nat /\ Worker(i, j) \in Threads
      BY OwnersAreThreads DEF Rows
    <3>2. QED
      BY <3>1, <1>1, DoneTransfer DEF BlockReduceSum, BPh
  <2>4. CellsHold'
    BY <1>0, <2>1, <2>2, <2>3, CellsTransfer DEF BlockReduceSum
  <2>5. RegsFresh'
    BY <2>1, <1>1 DEF RegsFresh, BlockReduceSum, BPh, Index, Cell
  <2>7. StepsFresh'
    BY <2>1, <1>1 DEF StepsFresh, BlockReduceSum, BPh
  <2>6. QED
    BY <2>4, <2>5, <2>7
<1>7. DistinctIndices' <=> DistinctIndices
  BY DEF DistinctIndices, BlockReduceSum
<1>8. QED
  BY <1>2, <1>3, <1>4, <1>5, <1>6, <1>7 DEF IInv

(* A thread that has not finished is on a gradient row.                    *)
LEMMA RowBelow ==
    ASSUME TypeOK, RowResidue, NEW th \in Threads, pc[th] # "done"
    PROVE  row[th] \in Rows /\ Index(th) \in ParamRows
<1>1. row[th] \in Nat /\ ~(row[th] >= M)
  BY DEF TypeOK, RowResidue
<1>2. row[th] \in Rows
  BY <1>1 DEF Rows
<1>3. QED
  BY <1>2 DEF TypeOK, Index

(* A step that moves no thread to another row or across a collective, nor *)
(* into or out of "done", keeps RowResidue and Lockstep.                   *)
LEMMA ClassTransfer ==
    ASSUME RowResidue, Lockstep, row' = row,
           \A u \in Threads :
               /\ pc'[u] \in APh <=> pc[u] \in APh
               /\ pc'[u] \in BPh <=> pc[u] \in BPh
               /\ pc'[u] \in CPh <=> pc[u] \in CPh
               /\ pc'[u] = "done" <=> pc[u] = "done"
    PROVE  RowResidue' /\ Lockstep'
<1>1. RowResidue'
  BY DEF RowResidue
<1>2. Lockstep'
  BY DEF Lockstep
<1>3. QED
  BY <1>1, <1>2

(* SyncThreads keeps the invariant: the whole block passes together.       *)
LEMMA SyncInv ==
    ASSUME IInv, NEW b \in Blocks, SyncThreads(b)
    PROVE  IInv'
<1>0. TypeOK /\ RowResidue /\ ColResidue /\ Lockstep
  BY DEF IInv
<1>1. \A th \in Threads :
          /\ th[1] = b => pc[th] = "sync" /\ pc'[th] = "step"
          /\ th[1] # b => pc'[th] = pc[th]
  BY BlockMember DEF SyncThreads
<1>2. TypeOK'
  BY <1>0, <1>1 DEF TypeOK, SyncThreads, PCs
<1>3. RowResidue' /\ ColResidue'
  BY <1>0, <1>1 DEF RowResidue, ColResidue, SyncThreads
<1>5. Lockstep'
  <2> SUFFICES ASSUME NEW th \in Threads, NEW th2 \in Threads, th2[1] = th[1]
               PROVE  /\ pc'[th] \in BPh => row'[th2] = row'[th] /\ pc'[th2] \in BPh
                      /\ pc'[th] \in CPh =>
                             \/ row'[th2] = row'[th] /\ pc'[th2] \in CPh
                             \/ row'[th2] = row'[th] + Grid /\ pc'[th2] \in APh
                      /\ pc'[th] \in APh /\ pc'[th2] \in APh => row'[th2] = row'[th]
    BY DEF Lockstep
  <2>1. CASE th[1] = b
    BY <2>1, <1>0, <1>1 DEF Lockstep, SyncThreads, APh, BPh, CPh
  <2>2. CASE th[1] # b
    BY <2>2, <1>0, <1>1 DEF Lockstep, SyncThreads
  <2>3. QED
    BY <2>1, <2>2
<1>6. ASSUME DistinctIndices PROVE CellsHold' /\ RegsFresh' /\ StepsFresh'
  <2>1. CellsHold /\ RegsFresh /\ StepsFresh
    BY <1>6 DEF IInv
  <2>2. \A i \in Rows : MomDone(i)' <=> MomDone(i)
    <3> SUFFICES ASSUME NEW i \in Rows PROVE MomDone(i)' <=> MomDone(i)
      OBVIOUS
    <3>1. i \in Nat /\ Lead(i) \in Threads
      BY OwnersAreThreads DEF Rows
    <3>2. QED
      BY <3>1, <1>1, DoneTransfer DEF SyncThreads, CPh
  <2>3. \A i \in Rows, j \in 0 .. NCols - 1 : ColDone(i, j)' <=> ColDone(i, j)
    <3> SUFFICES ASSUME NEW i \in Rows, NEW j \in 0 .. NCols - 1
                 PROVE  ColDone(i, j)' <=> ColDone(i, j)
      OBVIOUS
    <3>1. i \in Nat /\ j \in Nat /\ Worker(i, j) \in Threads
      BY OwnersAreThreads DEF Rows
    <3>2. QED
      BY <3>1, <1>1, DoneTransfer DEF SyncThreads
  <2>4. CellsHold'
    BY <1>0, <2>1, <2>2, <2>3, CellsTransfer DEF SyncThreads
  <2>5. RegsFresh'
    BY <2>1, <1>1 DEF RegsFresh, SyncThreads, Index, Cell
  <2>6. StepsFresh'
    BY <2>1, <1>1 DEF StepsFresh, SyncThreads
  <2>7. QED
    BY <2>4, <2>5, <2>6
<1>7. DistinctIndices' <=> DistinctIndices
  BY DEF DistinctIndices, SyncThreads
<1>8. QED
  BY <1>2, <1>3, <1>5, <1>6, <1>7 DEF IInv

(* MomLoad keeps the invariant: the register is the moment it read.        *)
LEMMA MomLoadInv ==
    ASSUME IInv, NEW th \in Threads, MomLoad(th)
    PROVE  IInv'
<1>0. TypeOK /\ RowResidue /\ ColResidue /\ Lockstep
  BY DEF IInv
<1>1. \A u \in Threads :
          /\ u = th => pc[u] = "momLoad" /\ pc'[u] = "momStore"
          /\ u # th => pc'[u] = pc[u] /\ reg'[u] = reg[u]
  BY <1>0 DEF MomLoad, TypeOK
<1>2. Index(th) \in ParamRows
  BY <1>0, RowBelow DEF MomLoad
<1>3. TypeOK'
  BY <1>0, <1>1, <1>2 DEF TypeOK, MomLoad, PCs
<1>4. RowResidue' /\ Lockstep'
  BY <1>0, <1>1, ClassTransfer DEF MomLoad, APh, BPh, CPh
<1>5. ColResidue'
  BY <1>0, <1>1 DEF ColResidue, MomLoad
<1>6. ASSUME DistinctIndices PROVE CellsHold' /\ RegsFresh' /\ StepsFresh'
  <2>1. CellsHold /\ RegsFresh /\ StepsFresh
    BY <1>6 DEF IInv
  <2>2. \A i \in Rows : MomDone(i)' <=> MomDone(i)
    <3> SUFFICES ASSUME NEW i \in Rows PROVE MomDone(i)' <=> MomDone(i)
      OBVIOUS
    <3>1. i \in Nat /\ Lead(i) \in Threads
      BY OwnersAreThreads DEF Rows
    <3>2. QED
      BY <3>1, <1>1, DoneTransfer DEF MomLoad, CPh
  <2>3. \A i \in Rows, j \in 0 .. NCols - 1 : ColDone(i, j)' <=> ColDone(i, j)
    <3> SUFFICES ASSUME NEW i \in Rows, NEW j \in 0 .. NCols - 1
                 PROVE  ColDone(i, j)' <=> ColDone(i, j)
      OBVIOUS
    <3>1. i \in Nat /\ j \in Nat /\ Worker(i, j) \in Threads
      BY OwnersAreThreads DEF Rows
    <3>2. QED
      BY <3>1, <1>1, DoneTransfer DEF MomLoad
  <2>4. CellsHold'
    BY <1>0, <2>1, <2>2, <2>3, CellsTransfer DEF MomLoad
  <2>5. RegsFresh'
    <3> SUFFICES ASSUME NEW u \in Threads
                 PROVE  /\ pc'[u] = "momStore" => reg'[u] = mom'[Index(u)']
                        /\ pc'[u] = "paramStore" => reg'[u] = param'[Cell(u)']
      BY DEF RegsFresh
    <3>1. CASE u = th
      BY <3>1, <1>0, <1>1 DEF MomLoad, TypeOK, Index, Cell
    <3>2. CASE u # th
      BY <3>2, <1>1, <2>1 DEF RegsFresh, MomLoad, Index, Cell
    <3>3. QED
      BY <3>1, <3>2
  <2>6. StepsFresh'
    BY <2>1, <1>1 DEF StepsFresh, MomLoad
  <2>7. QED
    BY <2>4, <2>5, <2>6
<1>7. DistinctIndices' <=> DistinctIndices
  BY DEF DistinctIndices, MomLoad
<1>8. QED
  BY <1>3, <1>4, <1>5, <1>6, <1>7 DEF IInv

(* ParamLoad keeps the invariant: the register is the cell it read.        *)
LEMMA ParamLoadInv ==
    ASSUME IInv, NEW th \in Threads, ParamLoad(th)
    PROVE  IInv'
<1>0. TypeOK /\ RowResidue /\ ColResidue /\ Lockstep
  BY DEF IInv
<1>1. \A u \in Threads :
          /\ u = th => pc[u] = "paramLoad" /\ pc'[u] = "paramStore"
          /\ u # th => pc'[u] = pc[u] /\ reg'[u] = reg[u]
  BY <1>0 DEF ParamLoad, TypeOK
<1>2. Cell(th) \in ParamCells
  <2>1. Index(th) \in ParamRows /\ row[th] \in Rows
    BY <1>0, RowBelow DEF ParamLoad
  <2>2. col[th] \in 0 .. NCols - 1
    BY <1>0 DEF ParamLoad, TypeOK
  <2>3. QED
    BY <2>1, <2>2, <1>0, CellFacts DEF Cell, Index, TypeOK
<1>3. TypeOK'
  BY <1>0, <1>1, <1>2 DEF TypeOK, ParamLoad, PCs
<1>4. RowResidue' /\ Lockstep'
  BY <1>0, <1>1, ClassTransfer DEF ParamLoad, APh, BPh, CPh
<1>5. ColResidue'
  BY <1>0, <1>1 DEF ColResidue, ParamLoad
<1>6. ASSUME DistinctIndices PROVE CellsHold' /\ RegsFresh' /\ StepsFresh'
  <2>1. CellsHold /\ RegsFresh /\ StepsFresh
    BY <1>6 DEF IInv
  <2>2. \A i \in Rows : MomDone(i)' <=> MomDone(i)
    <3> SUFFICES ASSUME NEW i \in Rows PROVE MomDone(i)' <=> MomDone(i)
      OBVIOUS
    <3>1. i \in Nat /\ Lead(i) \in Threads
      BY OwnersAreThreads DEF Rows
    <3>2. QED
      BY <3>1, <1>1, DoneTransfer DEF ParamLoad, CPh
  <2>3. \A i \in Rows, j \in 0 .. NCols - 1 : ColDone(i, j)' <=> ColDone(i, j)
    <3> SUFFICES ASSUME NEW i \in Rows, NEW j \in 0 .. NCols - 1
                 PROVE  ColDone(i, j)' <=> ColDone(i, j)
      OBVIOUS
    <3>1. i \in Nat /\ j \in Nat /\ Worker(i, j) \in Threads
      BY OwnersAreThreads DEF Rows
    <3>2. QED
      BY <3>1, <1>1, DoneTransfer DEF ParamLoad
  <2>4. CellsHold'
    BY <1>0, <2>1, <2>2, <2>3, CellsTransfer DEF ParamLoad
  <2>5. RegsFresh'
    <3> SUFFICES ASSUME NEW u \in Threads
                 PROVE  /\ pc'[u] = "momStore" => reg'[u] = mom'[Index(u)']
                        /\ pc'[u] = "paramStore" => reg'[u] = param'[Cell(u)']
      BY DEF RegsFresh
    <3>1. CASE u = th
      BY <3>1, <1>0, <1>1 DEF ParamLoad, TypeOK, Index, Cell
    <3>2. CASE u # th
      BY <3>2, <1>1, <2>1 DEF RegsFresh, ParamLoad, Index, Cell
    <3>3. QED
      BY <3>1, <3>2
  <2>6. StepsFresh'
    BY <2>1, <1>1 DEF StepsFresh, ParamLoad
  <2>7. QED
    BY <2>4, <2>5, <2>6
<1>7. DistinctIndices' <=> DistinctIndices
  BY DEF DistinctIndices, ParamLoad
<1>8. QED
  BY <1>3, <1>4, <1>5, <1>6, <1>7 DEF IInv

(* MomStore keeps the invariant: thread 0 stores its row's average over   *)
(* a register that no other block's store has made stale, since no other  *)
(* block is on a row with the same index.                                  *)
LEMMA MomStoreInv ==
    ASSUME IInv, NEW th \in Threads, MomStore(th)
    PROVE  IInv'
<1>0. TypeOK /\ RowResidue /\ ColResidue /\ Lockstep
  BY DEF IInv
<1>1. /\ pc[th] = "momStore" /\ th[2] = 0
      /\ row[th] \in Rows /\ Index(th) \in ParamRows
      /\ Lead(row[th]) = th
  BY <1>0, RowBelow, OwnThread DEF MomStore, ColResidue
<1>2. \A u \in Threads :
          /\ u = th => pc'[u] = "sync"
          /\ u # th => pc'[u] = pc[u]
  BY <1>0 DEF MomStore, TypeOK
<1>3. TypeOK'
  <2>1. mom' \in [ParamRows -> [Rows -> Nat]]
    BY <1>0, <1>1 DEF MomStore, TypeOK
  <2>2. QED
    BY <2>1, <1>0, <1>2 DEF TypeOK, MomStore, PCs
<1>4. RowResidue' /\ Lockstep'
  BY <1>0, <1>1, <1>2, ClassTransfer DEF MomStore, APh, BPh, CPh
<1>5. ColResidue'
  BY <1>0, <1>2 DEF ColResidue, MomStore
<1>6. ASSUME DistinctIndices PROVE CellsHold' /\ RegsFresh' /\ StepsFresh'
  <2>1. CellsHold /\ RegsFresh /\ StepsFresh
    BY <1>6 DEF IInv
  <2>2. \A i \in Rows : MomDone(i)' <=> MomDone(i) \/ i = row[th]
    <3> SUFFICES ASSUME NEW i \in Rows
                 PROVE  MomDone(i)' <=> MomDone(i) \/ i = row[th]
      OBVIOUS
    <3>1. i \in Nat /\ Lead(i) \in Threads
      BY OwnersAreThreads DEF Rows
    <3>2. CASE Lead(i) = th
      BY <3>2, <1>1, <1>2 DEF MomDone, MomStore, CPh
    <3>3. CASE Lead(i) # th
      <4>1. i # row[th]
        BY <3>3, <1>1
      <4>2. QED
        BY <4>1, <3>1, <3>3, <1>2, DoneTransfer DEF MomStore
    <3>4. QED
      BY <3>2, <3>3
  <2>3. ~MomDone(row[th])
    BY <1>1 DEF MomDone, CPh, Rows
  <2>4. \A i \in Rows, j \in 0 .. NCols - 1 : ColDone(i, j)' <=> ColDone(i, j)
    <3> SUFFICES ASSUME NEW i \in Rows, NEW j \in 0 .. NCols - 1
                 PROVE  ColDone(i, j)' <=> ColDone(i, j)
      OBVIOUS
    <3>1. i \in Nat /\ j \in Nat /\ Worker(i, j) \in Threads
      BY OwnersAreThreads DEF Rows
    <3>2. QED
      BY <3>1, <1>1, <1>2, DoneTransfer DEF MomStore
  <2>5. reg[th] = mom[Index(th)]
    BY <2>1, <1>1 DEF RegsFresh
  <2>6. \A p \in ParamRows, i \in Rows :
            mom'[p][i] = IF p = indices'[i] /\ MomDone(i)' THEN 1 ELSE 0
    <3> SUFFICES ASSUME NEW p \in ParamRows, NEW i \in Rows
                 PROVE  mom'[p][i] = IF p = indices'[i] /\ MomDone(i)' THEN 1 ELSE 0
      OBVIOUS
    <3>1. mom[p][i] = IF p = indices[i] /\ MomDone(i) THEN 1 ELSE 0
      BY <2>1 DEF CellsHold
    <3>2. CASE p = Index(th) /\ i = row[th]
      BY <3>1, <3>2, <2>2, <2>3, <2>5, <1>0, <1>1 DEF MomStore, TypeOK, Index
    <3>3. CASE p = Index(th) /\ i # row[th]
      BY <3>1, <3>3, <2>2, <2>5, <1>0, <1>1 DEF MomStore, TypeOK
    <3>4. CASE p # Index(th)
      BY <3>1, <3>4, <2>2, <1>0 DEF MomStore, TypeOK, Index
    <3>5. QED
      BY <3>2, <3>3, <3>4
  <2>7. CellsHold'
    <3>1. \A c \in ParamCells : c % NCols \in 0 .. NCols - 1
      BY DEF ParamCells
    <3>2. QED
      BY <2>1, <2>4, <2>6, <3>1 DEF CellsHold, MomStore
  <2>8. RegsFresh'
    <3> SUFFICES ASSUME NEW u \in Threads
                 PROVE  /\ pc'[u] = "momStore" => reg'[u] = mom'[Index(u)']
                        /\ pc'[u] = "paramStore" => reg'[u] = param'[Cell(u)']
      BY DEF RegsFresh
    <3>1. CASE u = th
      BY <3>1, <1>2
    <3>2. ASSUME u # th, pc[u] = "momStore"
          PROVE  Index(u) # Index(th)
      <4>1. u[2] = 0 /\ row[u] \in Rows
        BY <3>2, <1>0, RowBelow DEF ColResidue
      <4>2. row[u] # row[th]
        BY <4>1, <3>2, <1>0, <1>1, SameThread
      <4>3. QED
        BY <4>1, <4>2, <1>1, <1>6 DEF DistinctIndices, Index
    <3>3. CASE u # th
      BY <3>2, <3>3, <2>1, <1>0, <1>2 DEF RegsFresh, MomStore, Index, Cell, TypeOK
    <3>4. QED
      BY <3>1, <3>3
  <2>9. StepsFresh'
    BY <2>1, <1>2 DEF StepsFresh, MomStore
  <2>10. QED
    BY <2>7, <2>8, <2>9
<1>7. DistinctIndices' <=> DistinctIndices
  BY DEF DistinctIndices, MomStore
<1>8. QED
  BY <1>3, <1>4, <1>5, <1>6, <1>7 DEF IInv

(* ReadStep keeps the invariant: the barrier has let the thread pass only  *)
(* after thread 0 of its block stored the row's average, so the step reads *)
(* a moment that holds the row.                                            *)
LEMMA ReadStepInv ==
    ASSUME IInv, NEW th \in Threads, ReadStep(th)
    PROVE  IInv'
<1>0. TypeOK /\ RowResidue /\ ColResidue /\ Lockstep
  BY DEF IInv
<1>1. /\ pc[th] = "step"
      /\ row[th] \in Rows /\ Index(th) \in ParamRows
      /\ th[2] \in Nat /\ th[2] < BlockDim
  BY <1>0, RowBelow, ThreadFacts DEF ReadStep
<1>2. \A u \in Threads :
          /\ u = th => pc'[u] = "paramLoad" /\ col'[u] = th[2]
          /\ u # th => pc'[u] = pc[u] /\ col'[u] = col[u] /\ stepMom'[u] = stepMom[u]
  BY <1>0 DEF ReadStep, TypeOK
<1>3. TypeOK'
  BY <1>0, <1>1, <1>2 DEF TypeOK, ReadStep, PCs
<1>4. RowResidue' /\ Lockstep'
  BY <1>0, <1>1, <1>2, ClassTransfer DEF ReadStep, APh, BPh, CPh
<1>5. ColResidue'
  <2>1. th[2] % BlockDim = th[2]
    BY <1>1, ResidueBound
  <2>2. QED
    BY <2>1, <1>0, <1>1, <1>2 DEF ColResidue, ReadStep
<1>6. ASSUME DistinctIndices PROVE CellsHold' /\ RegsFresh' /\ StepsFresh'
  <2>1. CellsHold /\ RegsFresh /\ StepsFresh
    BY <1>6 DEF IInv
  <2>2. \A i \in Rows : MomDone(i)' <=> MomDone(i)
    <3> SUFFICES ASSUME NEW i \in Rows PROVE MomDone(i)' <=> MomDone(i)
      OBVIOUS
    <3>1. i \in Nat /\ Lead(i) \in Threads
      BY OwnersAreThreads DEF Rows
    <3>2. QED
      BY <3>1, <1>1, <1>2, DoneTransfer DEF ReadStep, CPh
  <2>3. \A i \in Rows, j \in 0 .. NCols - 1 : ColDone(i, j)' <=> ColDone(i, j)
    <3> SUFFICES ASSUME NEW i \in Rows, NEW j \in 0 .. NCols - 1
                 PROVE  ColDone(i, j)' <=> ColDone(i, j)
      OBVIOUS
    <3>1. i \in Nat /\ j \in Nat /\ Worker(i, j) \in Threads
      BY OwnersAreThreads DEF Rows
    <3>2. CASE Worker(i, j) # th
      BY <3>1, <3>2, <1>2, DoneTransfer DEF ReadStep
    <3>3. CASE Worker(i, j) = th
      <4>1. j % BlockDim = th[2] /\ j % BlockDim <= j
        BY <3>1, <3>3, OwnersAreThreads DEF Worker
      <4>2. ~(j < col'[th])
        BY <4>1, <1>1, <1>2
      <4>3. QED
        BY <4>2, <3>3, <1>1, <1>2 DEF ColDone, ReadStep
    <3>4. QED
      BY <3>2, <3>3
  <2>4. CellsHold'
    BY <1>0, <2>1, <2>2, <2>3, CellsTransfer DEF ReadStep
  <2>5. RegsFresh'
    BY <2>1, <1>2 DEF RegsFresh, ReadStep, Index, Cell
  <2>6. MomDone(row[th])
    <3>1. Lead(row[th]) = <<th[1], 0>> /\ Lead(row[th]) \in Threads
      BY <1>0, <1>1, OwnersAreThreads DEF RowResidue, Lead, Rows
    <3>2. \/ row[Lead(row[th])] = row[th] /\ pc[Lead(row[th])] \in CPh
          \/ row[Lead(row[th])] = row[th] + Grid
      BY <3>1, <1>0, <1>1 DEF Lockstep, CPh
    <3>3. QED
      BY <3>2, <1>1, Geometry DEF MomDone, Rows
  <2>7. StepsFresh'
    <3> SUFFICES ASSUME NEW u \in Threads,
                        pc'[u] \in {"paramLoad", "paramStore"}
                 PROVE  stepMom'[u][row'[u]] = 1
      BY DEF StepsFresh
    <3>1. CASE u = th
      <4>1. mom[Index(th)][row[th]] = 1
        BY <2>1, <2>6, <1>1 DEF CellsHold, Index
      <4>2. QED
        BY <4>1, <3>1, <1>0 DEF ReadStep, TypeOK
    <3>2. CASE u # th
      BY <3>2, <2>1, <1>2 DEF StepsFresh, ReadStep
    <3>3. QED
      BY <3>1, <3>2
  <2>8. QED
    BY <2>4, <2>5, <2>7
<1>7. DistinctIndices' <=> DistinctIndices
  BY DEF DistinctIndices, ReadStep
<1>8. QED
  BY <1>3, <1>4, <1>5, <1>6, <1>7 DEF IInv

(* ParamStore keeps the invariant: the thread stores column col of its     *)
(* row over a register no other thread's store has made stale, since the   *)
(* threads of its block are on other columns of the row and the other      *)
(* blocks on rows with other indices; and the next column it owns is col + *)
(* blockDim, so exactly column col has become done.                       *)
LEMMA ParamStoreInv ==
    ASSUME IInv, NEW th \in Threads, ParamStore(th)
    PROVE  IInv'
<1>0. TypeOK /\ RowResidue /\ ColResidue /\ Lockstep
  BY DEF IInv
<1>1. /\ pc[th] = "paramStore"
      /\ row[th] \in Rows /\ Index(th) \in ParamRows
      /\ col[th] \in 0 .. NCols - 1
      /\ col[th] % BlockDim = th[2] /\ col[th] >= th[2]
  BY <1>0, RowBelow DEF ParamStore, ColResidue, TypeOK
<1>2. /\ Cell(th) \in ParamCells
      /\ Cell(th) \div NCols = Index(th)
      /\ Cell(th) % NCols = col[th]
  BY <1>0, <1>1, CellFacts DEF Cell, Index, TypeOK
<1>3. \A u \in Threads :
          /\ u = th => pc'[u] = "paramLoad" /\ col'[u] = col[th] + BlockDim
          /\ u # th => pc'[u] = pc[u] /\ col'[u] = col[u]
  BY <1>0 DEF ParamStore, TypeOK
<1>4. TypeOK'
  <2>1. param' \in [ParamCells -> [Rows -> Nat]]
    BY <1>0, <1>1, <1>2 DEF ParamStore, TypeOK
  <2>2. QED
    BY <2>1, <1>0, <1>3 DEF TypeOK, ParamStore, PCs
<1>5. RowResidue' /\ Lockstep'
  BY <1>0, <1>1, <1>3, ClassTransfer DEF ParamStore, APh, BPh, CPh
<1>6. ColResidue'
  <2>0. col[th] \in Nat
    BY <1>1
  <2>1. (col[th] + BlockDim) % BlockDim = th[2]
    BY <2>0, <1>1, ResidueShift
  <2>2. QED
    BY <2>1, <1>0, <1>1, <1>3 DEF ColResidue, ParamStore
<1>7. ASSUME DistinctIndices PROVE CellsHold' /\ RegsFresh' /\ StepsFresh'
  <2>1. CellsHold /\ RegsFresh /\ StepsFresh
    BY <1>7 DEF IInv
  <2>2. \A i \in Rows : MomDone(i)' <=> MomDone(i)
    <3> SUFFICES ASSUME NEW i \in Rows PROVE MomDone(i)' <=> MomDone(i)
      OBVIOUS
    <3>1. i \in Nat /\ Lead(i) \in Threads
      BY OwnersAreThreads DEF Rows
    <3>2. QED
      BY <3>1, <1>1, <1>3, DoneTransfer DEF ParamStore, CPh
  <2>3. Worker(row[th], col[th]) = th
    BY <1>0, <1>1, OwnThread
  <2>4. \A i \in Rows, j \in 0 .. NCols - 1 :
            ColDone(i, j)' <=> ColDone(i, j) \/ (i = row[th] /\ j = col[th])
    <3> SUFFICES ASSUME NEW i \in Rows, NEW j \in 0 .. NCols - 1
                 PROVE  ColDone(i, j)' <=> ColDone(i, j) \/ (i = row[th] /\ j = col[th])
      OBVIOUS
    <3>1. i \in Nat /\ j \in Nat /\ Worker(i, j) \in Threads
      BY OwnersAreThreads DEF Rows
    <3>2. CASE Worker(i, j) # th
      <4>1. ~(i = row[th] /\ j = col[th])
        BY <3>2, <2>3
      <4>2. QED
        BY <4>1, <3>1, <3>2, <1>3, DoneTransfer DEF ParamStore
    <3>3. CASE Worker(i, j) = th
      <4>1. j % BlockDim = col[th] % BlockDim
        BY <3>3, <1>1 DEF Worker
      <4>2. j < col[th] + BlockDim <=> j < col[th] \/ j = col[th]
        <5>1. ASSUME j > col[th] PROVE col[th] + BlockDim <= j
          BY <5>1, <4>1, <3>1, <1>1, ResidueGap
        <5>2. QED
          BY <5>1, <3>1, <1>1
      <4>3. QED
        BY <4>2, <3>3, <1>1, <1>3 DEF ColDone, ParamStore
    <3>4. QED
      BY <3>2, <3>3
  <2>5. ~ColDone(row[th], col[th])
    BY <2>3, <1>1 DEF ColDone, Rows
  <2>6. reg[th] = param[Cell(th)]
    BY <2>1, <1>1 DEF RegsFresh
  <2>7. \A c \in ParamCells, i \in Rows :
            param'[c][i] =
                IF c \div NCols = indices'[i] /\ ColDone(i, c % NCols)'
                THEN 1 ELSE 0
    <3> SUFFICES ASSUME NEW c \in ParamCells, NEW i \in Rows
                 PROVE  param'[c][i] =
                            IF c \div NCols = indices'[i] /\ ColDone(i, c % NCols)'
                            THEN 1 ELSE 0
      OBVIOUS
    <3>1. param[c][i] = IF c \div NCols = indices[i] /\ ColDone(i, c % NCols)
                        THEN 1 ELSE 0
      BY <2>1 DEF CellsHold
    <3>2. c % NCols \in 0 .. NCols - 1 /\ c = (c \div NCols) * NCols + (c % NCols)
      BY DEF ParamCells
    <3>3. CASE c = Cell(th) /\ i = row[th]
      BY <3>1, <3>2, <3>3, <2>4, <2>5, <2>6, <1>0, <1>1, <1>2
         DEF ParamStore, TypeOK, Index
    <3>4. CASE c = Cell(th) /\ i # row[th]
      BY <3>1, <3>2, <3>4, <2>4, <2>6, <1>0, <1>1, <1>2 DEF ParamStore, TypeOK
    <3>5. CASE c # Cell(th)
      <4>1. ~(c \div NCols = indices[i] /\ i = row[th] /\ c % NCols = col[th])
        BY <3>2, <3>5 DEF Cell, Index
      <4>2. QED
        BY <4>1, <3>1, <3>2, <3>5, <2>4, <1>0 DEF ParamStore, TypeOK
    <3>6. QED
      BY <3>3, <3>4, <3>5
  <2>8. CellsHold'
    <3>1. \A p \in ParamRows, i \in Rows :
              mom'[p][i] = IF p = indices'[i] /\ MomDone(i)' THEN 1 ELSE 0
      BY <2>1, <2>2 DEF CellsHold, ParamStore
    <3>2. QED
      BY <3>1, <2>7 DEF CellsHold
  <2>9. RegsFresh'
    <3> SUFFICES ASSUME NEW u \in Threads
                 PROVE  /\ pc'[u] = "momStore" => reg'[u] = mom'[Index(u)']
                        /\ pc'[u] = "paramStore" => reg'[u] = param'[Cell(u)']
      BY DEF RegsFresh
    <3>1. CASE u = th
      BY <3>1, <1>3
    <3>2. ASSUME u # th, pc[u] = "paramStore"
          PROVE  Cell(u) # Cell(th)
      <4>1. row[u] \in Rows /\ Index(u) \in ParamRows
            /\ col[u] \in 0 .. NCols - 1 /\ col[u] % BlockDim = u[2]
        BY <3>2, <1>0, RowBelow DEF ColResidue, TypeOK
      <4>2. CASE u[1] = th[1]
        <5>1. row[u] = row[th]
          BY <4>2, <3>2, <1>0, <1>1 DEF Lockstep, CPh, APh
        <5>2. u[2] # th[2]
          BY <4>2, <3>2, <1>0, SameThread
        <5>3. col[u] # col[th]
          BY <5>2, <4>1, <1>1
        <5>4. Index(u) = Index(th) /\ Index(th) \in Nat
          BY <5>1, <1>1 DEF Index, ParamRows
        <5>5. QED
          BY <5>3, <5>4, <4>1, <1>1 DEF Cell
      <4>3. CASE u[1] # th[1]
        <5>1. row[u] # row[th]
          BY <4>3, <1>0, SameThread
        <5>2. Index(u) # Index(th)
          BY <5>1, <4>1, <1>1, <1>7 DEF DistinctIndices, Index
        <5>3. SUFFICES ASSUME Index(u) * NCols + col[u] = Index(th) * NCols + col[th]
                       PROVE  FALSE
          BY DEF Cell
        <5>4. Index(u) \in Int /\ Index(th) \in Int
          BY <4>1, <1>1 DEF ParamRows
        <5>5. Index(u) = Index(th)
          BY <5>3, <5>4, <4>1, <1>1, DivUnique, Zenon
        <5>6. QED
          BY <5>2, <5>5
      <4>4. QED
        BY <4>2, <4>3
    <3>3. CASE u # th
      BY <3>2, <3>3, <2>1, <1>0, <1>3 DEF RegsFresh, ParamStore, Index, Cell, TypeOK
    <3>4. QED
      BY <3>1, <3>3
  <2>10. StepsFresh'
    BY <2>1, <1>3 DEF StepsFresh, ParamStore
  <2>11. QED
    BY <2>8, <2>9, <2>10
<1>8. DistinctIndices' <=> DistinctIndices
  BY DEF DistinctIndices, ParamStore
<1>9. QED
  BY <1>4, <1>5, <1>6, <1>7, <1>8 DEF IInv

(* No row of the same residue lies strictly between a row and the next one *)
(* its block takes.                                                        *)
LEMMA NextRowGap ==
    ASSUME NEW r \in Nat, NEW i \in Nat, i % Grid = r % Grid
    PROVE  i <= r <=> i < r + Grid
<1>1. ASSUME r < i PROVE r + Grid <= i
  BY <1>1, Geometry, ResidueGap
<1>2. QED
  BY <1>1, Geometry

(* NextRow keeps the invariant: the thread has stored all its columns of   *)
(* the row and waits at the next row's reduction, where the threads of its *)
(* block that are already there wait too.                                  *)
LEMMA NextRowInv ==
    ASSUME IInv, NEW th \in Threads, NextRow(th)
    PROVE  IInv'
<1>0. TypeOK /\ RowResidue /\ ColResidue /\ Lockstep
  BY DEF IInv
<1>1. /\ pc[th] = "paramLoad" /\ col[th] \in Nat /\ col[th] >= NCols
      /\ row[th] \in Rows /\ row[th] % Grid = th[1]
  BY <1>0, RowBelow DEF NextRow, RowResidue, TypeOK
<1>2. \A u \in Threads :
          /\ u = th => /\ row'[u] = row[th] + Grid
                       /\ pc'[u] = IF row[th] + Grid < M THEN "reduce" ELSE "done"
                       /\ pc'[u] \in APh
          /\ u # th => pc'[u] = pc[u] /\ row'[u] = row[u]
  BY <1>0 DEF NextRow, TypeOK, APh
<1>3. TypeOK'
  <2>1. row' \in [Threads -> Nat]
    BY <1>0, <1>1, Geometry DEF NextRow, TypeOK
  <2>2. pc' \in [Threads -> PCs]
    BY <1>0 DEF NextRow, TypeOK, PCs
  <2>3. QED
    BY <2>1, <2>2, <1>0 DEF TypeOK, NextRow
<1>4. RowResidue'
  <2> SUFFICES ASSUME NEW u \in Threads
               PROVE  /\ row'[u] >= u[1]
                      /\ row'[u] % Grid = u[1]
                      /\ (pc'[u] = "done" <=> row'[u] >= M)
    BY DEF RowResidue
  <2>1. CASE u = th
    <3>1. row[th] \in Nat
      BY <1>1 DEF Rows
    <3>2. (row[th] + Grid) % Grid = th[1]
      BY <3>1, <1>1, Geometry, ResidueShift
    <3>3. row[th] + Grid >= th[1]
      BY <3>1, <1>0, Geometry DEF RowResidue
    <3>4. QED
      BY <2>1, <3>1, <3>2, <3>3, <1>2, Geometry
  <2>2. CASE u # th
    BY <2>2, <1>0, <1>2 DEF RowResidue
  <2>3. QED
    BY <2>1, <2>2
<1>5. ColResidue'
  BY <1>0, <1>2 DEF ColResidue, NextRow, APh
<1>6. Lockstep'
  <2> SUFFICES ASSUME NEW u \in Threads, NEW u2 \in Threads, u2[1] = u[1]
               PROVE  /\ pc'[u] \in BPh => row'[u2] = row'[u] /\ pc'[u2] \in BPh
                      /\ pc'[u] \in CPh =>
                             \/ row'[u2] = row'[u] /\ pc'[u2] \in CPh
                             \/ row'[u2] = row'[u] + Grid /\ pc'[u2] \in APh
                      /\ pc'[u] \in APh /\ pc'[u2] \in APh => row'[u2] = row'[u]
    BY DEF Lockstep
  <2>1. CASE u # th /\ u2 # th
    BY <2>1, <1>0, <1>2 DEF Lockstep
  <2>2. CASE u = th /\ u2 = th
    BY <2>2, <1>2 DEF APh, BPh, CPh
  <2>3. CASE u = th /\ u2 # th
    BY <2>3, <1>0, <1>1, <1>2 DEF Lockstep, APh, BPh, CPh
  <2>4. CASE u # th /\ u2 = th
    <3>1. pc[u] \notin BPh
      BY <2>4, <1>0, <1>1 DEF Lockstep, BPh, CPh
    <3>2. pc[u] \in CPh => row[u] = row[th]
      BY <2>4, <1>0, <1>1 DEF Lockstep, APh, CPh
    <3>3. pc[u] \in APh => row[u] = row[th] + Grid
      BY <2>4, <1>0, <1>1 DEF Lockstep, APh, CPh
    <3>4. QED
      BY <3>1, <3>2, <3>3, <2>4, <1>2 DEF APh, BPh, CPh
  <2>5. QED
    BY <2>1, <2>2, <2>3, <2>4
<1>7. ASSUME DistinctIndices PROVE CellsHold' /\ RegsFresh' /\ StepsFresh'
  <2>1. CellsHold /\ RegsFresh /\ StepsFresh
    BY <1>7 DEF IInv
  <2>2. \A i \in Rows : MomDone(i)' <=> MomDone(i)
    <3> SUFFICES ASSUME NEW i \in Rows PROVE MomDone(i)' <=> MomDone(i)
      OBVIOUS
    <3>1. i \in Nat /\ Lead(i) \in Threads
      BY OwnersAreThreads DEF Rows
    <3>2. CASE Lead(i) # th
      BY <3>1, <3>2, <1>2, DoneTransfer
    <3>3. CASE Lead(i) = th
      <4>1. i % Grid = row[th] % Grid
        BY <3>3, <1>1 DEF Lead
      <4>2. i <= row[th] <=> i < row[th] + Grid
        BY <4>1, <3>1, <1>1, NextRowGap DEF Rows
      <4>3. QED
        BY <4>2, <3>3, <3>1, <1>1, <1>2 DEF MomDone, APh, CPh, Rows
    <3>4. QED
      BY <3>2, <3>3
  <2>3. \A i \in Rows, j \in 0 .. NCols - 1 : ColDone(i, j)' <=> ColDone(i, j)
    <3> SUFFICES ASSUME NEW i \in Rows, NEW j \in 0 .. NCols - 1
                 PROVE  ColDone(i, j)' <=> ColDone(i, j)
      OBVIOUS
    <3>1. i \in Nat /\ j \in Nat /\ Worker(i, j) \in Threads
      BY OwnersAreThreads DEF Rows
    <3>2. CASE Worker(i, j) # th
      BY <3>1, <3>2, <1>2, DoneTransfer DEF NextRow
    <3>3. CASE Worker(i, j) = th
      <4>1. i % Grid = row[th] % Grid
        BY <3>3, <1>1 DEF Worker
      <4>2. i <= row[th] <=> i < row[th] + Grid
        BY <4>1, <3>1, <1>1, NextRowGap DEF Rows
      <4>3. QED
        BY <4>2, <3>3, <3>1, <1>1, <1>2 DEF ColDone, NextRow, APh, Rows
    <3>4. QED
      BY <3>2, <3>3
  <2>4. CellsHold'
    BY <1>0, <2>1, <2>2, <2>3, CellsTransfer DEF NextRow
  <2>5. RegsFresh'
    BY <2>1, <1>2 DEF RegsFresh, NextRow, Index, Cell, APh
  <2>6. StepsFresh'
    BY <2>1, <1>2 DEF StepsFresh, NextRow, APh
  <2>7. QED
    BY <2>4, <2>5, <2>6
<1>8. DistinctIndices' <=> DistinctIndices
  BY DEF DistinctIndices, NextRow
<1>9. QED
  BY <1>3, <1>4, <1>5, <1>6, <1>7, <1>8 DEF IInv

LEMMA IInvNext == IInv /\ [Next]_vars => IInv'
<1> SUFFICES ASSUME IInv, [Next]_vars PROVE IInv'
  OBVIOUS
<1>1. CASE \E b \in Blocks : BlockReduceSum(b)
  BY <1>1, BlockReduceInv
<1>2. CASE \E b \in Blocks : SyncThreads(b)
  BY <1>2, SyncInv
<1>3. CASE \E th \in Threads : MomLoad(th)
  BY <1>3, MomLoadInv
<1>4. CASE \E th \in Threads : MomStore(th)
  BY <1>4, MomStoreInv
<1>5. CASE \E th \in Threads : ReadStep(th)
  BY <1>5, ReadStepInv
<1>6. CASE \E th \in Threads : ParamLoad(th)
  BY <1>6, ParamLoadInv
<1>7. CASE \E th \in Threads : ParamStore(th)
  BY <1>7, ParamStoreInv
<1>8. CASE \E th \in Threads : NextRow(th)
  BY <1>8, NextRowInv
<1>9. CASE UNCHANGED vars
  BY <1>9 DEF vars, IInv, TypeOK, RowResidue, ColResidue, Lockstep,
     DistinctIndices, CellsHold, RegsFresh, StepsFresh, MomDone, ColDone,
     Index, Cell
<1>10. QED
  BY <1>1, <1>2, <1>3, <1>4, <1>5, <1>6, <1>7, <1>8, <1>9 DEF Next

(* When the kernel has finished, every row is past every thread's loop, so *)
(* every row's moment and every one of its columns is done.                *)
LEMMA FinishedRows ==
    ASSUME TypeOK, RowResidue, KernelDone, NEW i \in Rows, NEW j \in Nat
    PROVE  MomDone(i) /\ ColDone(i, j)
<1>1. i \in Nat /\ Lead(i) \in Threads /\ Worker(i, j) \in Threads
  BY OwnersAreThreads DEF Rows
<1>2. row[Lead(i)] >= M /\ row[Worker(i, j)] >= M
  BY <1>1 DEF KernelDone, RowResidue
<1>3. row[Lead(i)] \in Nat /\ row[Worker(i, j)] \in Nat
  BY <1>1 DEF TypeOK
<1>4. QED
  BY <1>1, <1>2, <1>3 DEF MomDone, ColDone, Rows

LEMMA IInvSafe == IInv => StepSeesRowMoment /\ RowUpdatesAppliedDistinct
<1> SUFFICES ASSUME IInv PROVE StepSeesRowMoment /\ RowUpdatesAppliedDistinct
  OBVIOUS
<1>1. StepSeesRowMoment
  BY DEF IInv, StepsFresh, StepSeesRowMoment
<1>2. ASSUME DistinctIndices PROVE RowUpdatesAtMostOnce
  <2>1. CellsHold
    BY <1>2 DEF IInv
  <2>2. QED
    BY <2>1 DEF CellsHold, RowUpdatesAtMostOnce
<1>3. ASSUME DistinctIndices PROVE RowUpdatesApplied
  <2> SUFFICES ASSUME KernelDone PROVE
                 /\ \A p \in ParamRows, i \in Rows :
                        mom[p][i] = IF p = indices[i] THEN 1 ELSE 0
                 /\ \A c \in ParamCells, i \in Rows :
                        param[c][i] = IF c \div NCols = indices[i] THEN 1 ELSE 0
    BY DEF RowUpdatesApplied
  <2>1. CellsHold /\ TypeOK /\ RowResidue
    BY <1>3 DEF IInv
  <2>2. \A c \in ParamCells : c % NCols \in Nat
    BY DEF ParamCells
  <2>3. QED
    BY <2>1, <2>2, FinishedRows DEF CellsHold
<1>4. QED
  BY <1>1, <1>2, <1>3 DEF RowUpdatesAppliedDistinct

(* The barrier in RowWiseSparseAdagradKernel is enough: for pairwise       *)
(* distinct indices, no thread updates a parameter column of a row with a  *)
(* step computed from a moment that does not yet hold the row's average,  *)
(* for every grid and block size, number and width of rows and index     *)
(* range.                                                                  *)
THEOREM StepSafety == Spec => []StepSeesRowMoment
<1>1. Init => IInv
  BY IInvInit
<1>2. IInv /\ [Next]_vars => IInv'
  BY IInvNext
<1>3. IInv => StepSeesRowMoment
  BY IInvSafe
<1>4. QED
  BY <1>1, <1>2, <1>3, PTL DEF Spec

(* For pairwise distinct indices, the kernel's plain loads and stores of  *)
(* param_mom and param never apply a gradient row twice or to a cell of    *)
(* another row, and once every thread has left its row loop every row has *)
(* been applied once, for every launch geometry and input size.            *)
THEOREM RowUpdatesSafety == Spec => []RowUpdatesAppliedDistinct
<1>1. Init => IInv
  BY IInvInit
<1>2. IInv /\ [Next]_vars => IInv'
  BY IInvNext
<1>3. IInv => RowUpdatesAppliedDistinct
  BY IInvSafe
<1>4. QED
  BY <1>1, <1>2, <1>3, PTL DEF Spec
-----------------------------------------------------------------------------
(* The refinement of ScatterAdd.                                           *)

RowTargets == [i \in Rows |-> {c \in ParamCells : c \div NCols = indices[i]}]
MomVars == <<[i \in Rows |-> {indices[i]}], mom>>
ParamVars == <<RowTargets, param>>

(* Every step leaves the indices, so the targets, alone.                   *)
LEMMA IndicesFixed ==
    ASSUME [Next]_vars
    PROVE  indices' = indices
  BY DEF Next, vars, BlockReduceSum, SyncThreads, MomLoad, MomStore, ReadStep,
         ParamLoad, ParamStore, NextRow

(* Repeated indices make two rows share their moment cell and their        *)
(* parameter cells.                                                        *)
LEMMA SharedRows ==
    ASSUME indices \in [Rows -> ParamRows], ~DistinctIndices
    PROVE  \E i1, i2 \in Rows :
               /\ i1 # i2
               /\ indices[i1] = indices[i2]
               /\ \E c \in ParamCells : c \div NCols = indices[i1]
  <1>1. PICK i1, i2 \in Rows : i1 # i2 /\ indices[i1] = indices[i2]
    BY DEF DistinctIndices
  <1>2. indices[i1] * NCols + 0 \in ParamCells
        /\ (indices[i1] * NCols + 0) \div NCols = indices[i1]
    BY <1>1, CellFacts
  <1>3. QED
    BY <1>1, <1>2

(* Each step is a step of the moment's ScatterAdd: MomStore is the atomic *)
(* add of the row's average, every other step leaves param_mom alone.      *)
LEMMA MomStep ==
    ASSUME IInv, [Next]_vars
    PROVE  [RowMomScatter!Next]_MomVars
<1>0. indices' = indices /\ indices \in [Rows -> ParamRows]
  BY IndicesFixed DEF IInv, TypeOK
<1>1. [i \in Rows |-> {indices[i]}]' = [i \in Rows |-> {indices[i]}]
  BY <1>0
<1>2. CASE ~DistinctIndices
  <2>0. PICK i1, i2 \in Rows : i1 # i2 /\ indices[i1] = indices[i2]
    BY <1>0, <1>2, SharedRows
  <2>1. RowMomScatter!Unpromised
    <3>1. indices[i1] \in [i \in Rows |-> {indices[i]}][i1]
                         \cap [i \in Rows |-> {indices[i]}][i2]
      BY <2>0, Zenon
    <3>2. QED
      BY <3>1, <2>0, <1>1 DEF RowMomScatter!Unpromised, RowMomScatter!Disjoint
  <2>2. QED
    BY <2>1 DEF RowMomScatter!Next
<1>3. CASE DistinctIndices
  <2>1. CellsHold /\ RegsFresh /\ TypeOK /\ RowResidue /\ ColResidue
    BY <1>3 DEF IInv
  <2>2. CASE \E th \in Threads : MomStore(th)
    <3>1. PICK th \in Threads : MomStore(th)
      BY <2>2
    <3>2. /\ pc[th] = "momStore" /\ th[2] = 0
          /\ row[th] \in Rows /\ Index(th) \in ParamRows
          /\ Lead(row[th]) = th
      BY <3>1, <2>1, RowBelow, OwnThread DEF MomStore, ColResidue
    <3>3. reg[th] = mom[Index(th)]
      BY <3>2, <2>1 DEF RegsFresh
    <3>4. mom[Index(th)][row[th]] = 0
      <4>1. ~MomDone(row[th])
        BY <3>2 DEF MomDone, CPh, Rows
      <4>2. QED
        BY <4>1, <3>2, <2>1 DEF CellsHold, Index
    <3>5. mom' = [mom EXCEPT ![Index(th)][row[th]] = 1]
      BY <3>1, <3>2, <3>3, <3>4, <2>1 DEF MomStore, TypeOK
    <3>6. RowMomScatter!Add(row[th], Index(th))
      BY <3>2, <3>4, <3>5, <1>1 DEF RowMomScatter!Add, Index
    <3>7. QED
      BY <3>2, <3>6 DEF RowMomScatter!Next
  <2>3. CASE ~\E th \in Threads : MomStore(th)
    <3>1. mom' = mom
      BY <2>3 DEF Next, vars, BlockReduceSum, SyncThreads, MomLoad, ReadStep,
                  ParamLoad, ParamStore, NextRow
    <3>2. QED
      BY <3>1, <1>1 DEF MomVars
  <2>4. QED
    BY <2>2, <2>3
<1>4. QED
  BY <1>2, <1>3

(* Each step is a step of the parameters' ScatterAdd: a ParamStore is the *)
(* atomic add of the row into one of its columns.                          *)
LEMMA ParamStep ==
    ASSUME IInv, [Next]_vars
    PROVE  [RowParamScatter!Next]_ParamVars
<1>0. indices' = indices /\ indices \in [Rows -> ParamRows]
  BY IndicesFixed DEF IInv, TypeOK
<1>1. RowTargets' = RowTargets
  BY <1>0 DEF RowTargets
<1>2. CASE ~DistinctIndices
  <2>1. RowParamScatter!Unpromised
    BY <1>0, <1>1, <1>2, SharedRows
       DEF RowParamScatter!Unpromised, RowParamScatter!Disjoint, RowTargets
  <2>2. QED
    BY <2>1 DEF RowParamScatter!Next
<1>3. CASE DistinctIndices
  <2>1. CellsHold /\ RegsFresh /\ TypeOK /\ RowResidue /\ ColResidue
    BY <1>3 DEF IInv
  <2>2. CASE \E th \in Threads : ParamStore(th)
    <3>1. PICK th \in Threads : ParamStore(th)
      BY <2>2
    <3>2. /\ pc[th] = "paramStore"
          /\ row[th] \in Rows /\ Index(th) \in ParamRows
          /\ col[th] \in 0 .. NCols - 1
          /\ col[th] % BlockDim = th[2]
      BY <3>1, <2>1, RowBelow DEF ParamStore, ColResidue, TypeOK
    <3>3. /\ Cell(th) \in ParamCells
          /\ Cell(th) \div NCols = Index(th)
          /\ Cell(th) % NCols = col[th]
      BY <3>2, <2>1, CellFacts DEF Cell, Index, TypeOK
    <3>4. Worker(row[th], col[th]) = th
      BY <3>2, <2>1, OwnThread
    <3>5. reg[th] = param[Cell(th)]
      BY <3>2, <2>1 DEF RegsFresh
    <3>6. param[Cell(th)][row[th]] = 0
      <4>1. ~ColDone(row[th], col[th])
        BY <3>2, <3>4 DEF ColDone, Rows
      <4>2. QED
        BY <4>1, <3>2, <3>3, <2>1 DEF CellsHold, Index
    <3>7. param' = [param EXCEPT ![Cell(th)][row[th]] = 1]
      BY <3>1, <3>2, <3>3, <3>5, <3>6, <2>1 DEF ParamStore, TypeOK
    <3>8. RowParamScatter!Add(row[th], Cell(th))
      BY <3>2, <3>3, <3>6, <3>7, <1>1 DEF RowParamScatter!Add, RowTargets, Index
    <3>9. QED
      BY <3>2, <3>3, <3>8 DEF RowParamScatter!Next
  <2>3. CASE ~\E th \in Threads : ParamStore(th)
    <3>1. param' = param
      BY <2>3 DEF Next, vars, BlockReduceSum, SyncThreads, MomLoad, MomStore,
                  ReadStep, ParamLoad, NextRow
    <3>2. QED
      BY <3>1, <1>1 DEF ParamVars
  <2>4. QED
    BY <2>2, <2>3
<1>4. QED
  BY <1>2, <1>3

(* The kernel starts both tensors as ScatterAdd starts them.               *)
LEMMA ScatterInit ==
    Init => RowMomScatter!Init /\ RowParamScatter!Init
<1> SUFFICES ASSUME Init PROVE RowMomScatter!Init /\ RowParamScatter!Init
  OBVIOUS
<1>1. [i \in Rows |-> {indices[i]}] \in [Rows -> SUBSET ParamRows]
  BY DEF Init
<1>2. RowTargets \in [Rows -> SUBSET ParamCells]
  BY DEF RowTargets
<1>3. QED
  BY <1>1, <1>2 DEF Init, NoRows, RowMomScatter!Init, RowParamScatter!Init, RowTargets

(* RowWiseSparseAdagradKernel implements ScatterAdd for both tensors: with *)
(* pairwise distinct indices, under every interleaving of blocks and       *)
(* threads, thread 0's load and store of param_mom[indices[i]] and each    *)
(* thread's loads and stores of its columns act as atomic adds that bring  *)
(* row i into each of its cells once and never lose a contribution, for   *)
(* every launch geometry and input size.                                   *)
THEOREM RowAtomicRefinement == Spec => RowAtomicScatter
<1>1. Init => RowMomScatter!Init /\ RowParamScatter!Init
  BY ScatterInit
<1>2. Init => IInv
  BY IInvInit
<1>3. IInv /\ [Next]_vars => IInv'
  BY IInvNext
<1>4. IInv /\ [Next]_vars => [RowMomScatter!Next]_MomVars
  BY MomStep
<1>5. IInv /\ [Next]_vars => [RowParamScatter!Next]_ParamVars
  BY ParamStep
<1>6. QED
  BY <1>1, <1>2, <1>3, <1>4, <1>5, PTL
     DEF Spec, RowAtomicScatter, RowMomScatter!Spec, RowParamScatter!Spec,
         MomVars, ParamVars, RowTargets
=============================================================================
