# TLA+ models of the Caffe2 HIP operators and device control

This directory holds TLA+ models of the ROCm (HIP) part of Caffe2 under
`src/caffe2`. There are TLC configurations for each model and TLAPS proofs
for the device-control module and for the R-MAC region kernel. All modelling, checking and proving is done
against the source in `src/`. The one exception is the launch macros of
`caffe2/core/common_hip.h`, which are not part of `src/`.

## The system

The repository holds ten files:

| file | lines | what it is |
|---|---|---|
| `core/common_hip.cc` | 330 | Process-wide device state: the cached device count `NumHipDevices`, the default GPU id, `CaffeHipGetDevice`/`CaffeHipSetDevice` with the thread-local cache `gCurrentDevice` (used under `FLAGS_caffe2_hip_full_device_control`), the lazily built device property table, pointer and peer-access queries. |
| `sgd/adagrad_op_hip.cc` | 255 | Dense Adagrad, `SparseAdagrad` and `RowWiseSparseAdagrad` kernels and their host operators. |
| `operators/sparse_to_dense_op_hip.cc` | 94 | `SparseToDense`: scatter-add of sparse rows into a zeroed dense tensor with `atomicAdd`. |
| `operators/boolean_unmask_ops_hip.cc` | 134 | `BooleanUnmask`: two kernels on one stream. The first computes the owning mask of each position; the second copies values. |
| `operators/boolean_mask_ops_hip.cc` | 503 | `BooleanMask` (hipcub select, count copied to host, copy kernel) and `SequenceMask` (seven index-arithmetic kernels). |
| `operators/layer_norm_op_hip.cc` | 354 | Layer normalisation through hipcub segmented reductions. |
| `operators/local_response_normalization_op_miopen.cc` | 243 | LRN through MIOpen, with a tensor-descriptor cache keyed by input dims. |
| `operators/rmac_regions_op_hip.cc` | 222 | R-MAC region computation: a count kernel, a device-to-host copy, then a region kernel. |
| `operators/lp_pool_op_hip.cc` | 405 | Lp pooling: elementwise kernels with one thread per output. |
| `python/pybind_state_hip.cc` | 86 | Python bindings. They pass user-supplied ids straight to `SetDefaultGPUID` and `GetDeviceProperty`. |

### How the parts interact

Every operator runs on a host thread. It checks its inputs with `CAFFE_ENFORCE`
and sizes its outputs. It then launches one or more kernels on the stream of
its context. Each kernel:

- is launched with `CAFFE_GET_BLOCKS(n)` blocks, capped at
  `CAFFE_MAXIMUM_NUM_BLOCKS`, of `CAFFE_HIP_NUM_THREADS` threads;
- walks the grid-stride loop `HIP_1D_KERNEL_LOOP`.

So correctness depends on three things:

- the index arithmetic inside the loop;
- whether the loop covers every item when the grid is capped;
- which kernels touch the same memory without atomics.

Kernels on the same stream run in order. The operators choose their device
through `CaffeHipSetDevice`, and the device state in `common_hip.cc` is shared
by every host thread.

## Modules

| module | models | source |
|---|---|---|
| `HipKernelLoop` | `CAFFE_GET_BLOCKS`, the launch's global thread ids, and the start and stride of `HIP_1D_KERNEL_LOOP`. Spec-modelled, because `common_hip.h` is not under `src/`. | common_hip.h |
| `HipKernelLoopProofs` | TLAPS lemmas on the launch geometry and on residues modulo the stride. | |
| `SparseToDense` | Host sizing (`GetOutputFirstDim`, `output_first_dim` given or inferred), zeroing and launch. One kernel step is one loop item with its `atomicAdd`. | sparse_to_dense_op_hip.cc 25-89 |
| `SparseAdagrad` | `HIPSparseAdagradOp` and `SparseAdagradKernel`. The moment load, moment store, parameter load and parameter store are separate steps, because `mixed_add`/`mixed_store` are plain memory accesses. The host's early returns for `n == 0` and `N == 0` launch nothing, and the model's assumption (at least one index and one value per slice) leaves them out. | adagrad_op_hip.cc 72-95, 193-214 |
| `ScatterAdd` | The abstract contract of a scatter-add kernel: while the items' target cells are pairwise disjoint, each step adds one item once into one of its own cells, atomically. When the targets overlap (the caller broke the precondition), any step that keeps the targets is allowed. Both Adagrad kernels are mapped onto it. | |
| `SparseToDenseProofs` | TLAPS proofs for `SparseToDense`. | |
| `SparseAdagradProofs` | TLAPS proofs for `SparseAdagrad`. | |
| `RowWiseSparseAdagrad` | `RowWiseSparseAdagradKernel`, each step in its own action (listed below). | adagrad_op_hip.cc 106-145, 222-251 |
| `RowWiseSparseAdagradProofs` | TLAPS proofs for `RowWiseSparseAdagrad`. | |
| `DeviceControl` | Every state-changing function of `common_hip.cc` that manages devices, plus foreign code under the full-control contract. | common_hip.cc 11-130, 155-180 |
| `MCDeviceControl` | TLC instance: thread symmetry and negative ids. | |
| `DeviceControlProofs` | TLAPS proofs for `DeviceControl`. | |
| `BooleanUnmask` | `BooleanUnmaskOp::RunOnDevice` and both kernels. | boolean_unmask_ops_hip.cc 25-117 |
| `BooleanUnmaskProofs` | TLAPS proofs for `BooleanUnmask`. | |
| `SequenceMask` | `SequenceMaskOp::DoRunWithType` and the seven kernels. | boolean_mask_ops_hip.cc 142-498 |
| `MCSequenceMask` | TLC instance: the input shape and the argument values. | |
| `RMACRegions` | `RMACRegionsOp::RunOnDevice`, `NumRMACRegionsKernel` as one step, and `RMACRegionsKernel` per thread (listed below). | rmac_regions_op_hip.cc 24-214 |
| `RegionOutput` | The abstract contract of the operator's output: sized once, each cell written only with its own value, every cell written in the end. | |
| `MCRMACRegions` | TLC instance: the input shapes. | |
| `RMACRegionsProofs` | TLAPS proofs for `RMACRegions`. | |
| `MIOpenLRN` | `MIOPEN_LRNOP` and `MIOPENLRNGradientOp`: the dims cache `miopen_input_dims_`, the descriptor set and its failures, the MIOpen call. | local_response_normalization_op_miopen.cc 23-235 |
| `MCMIOpenLRN` | TLC instance: the input tensors. | |

The `RowWiseSparseAdagrad` actions are:

- the block reduction (a collective of the block);
- thread 0's `param_mom[index] +=`, as a load and then a store;
- `__syncthreads` (a guard: every thread of the block is at the barrier);
- the step read;
- the column loop's load and store;
- the row loop's `i += gridDim`.

The `DeviceControl` state and actions are:

- Variables: `count` is the static count of `NumHipDevices`, `defaultGpu` is
  `gDefaultGPUID`, `runtimeDev[p]` is the HIP runtime's current device of
  thread `p`, `cache[p]` is `gCurrentDevice`, `foreign[p]` is the device saved
  on entry to foreign code, `propsRead` is the set of ids whose property entry
  was returned, and `aborted` records `LOG(FATAL)`.
- Actions: the first call of `NumHipDevices`, which may end fatally;
  `SetDefaultGPUID`; `GetDeviceProperty`, whose static table construction
  also asks for the count; `CaffeHipGetDevice`; `CaffeHipSetDevice` under
  either flag setting, including the case where `HIP_ENFORCE` throws; and
  `ForeignSetDevice`/`ForeignReturn`, which is the contract the flag's
  documentation (lines 11-21) demands of non-Caffe2 code.

The `BooleanUnmask` model covers:

- the uninitialised scratch tensor `indices_`, which is an `Init` choice;
- `ComputeIndicesKernel`, whose `return` ends the thread, and its
  `HIP_KERNEL_ASSERT`;
- the stream order, so that the fill starts only when every compute thread
  has left;
- `FillValuesKernel`, one step per mask, with its assertion.

In the `SequenceMask` model:

- `mode_`, `axis`, `batch` and `repeat_from_axis` are the operator's
  arguments. `Init` chooses them.
- The host computes `left`, `right`, `batch_dim` and the repeated dims as
  the code does. The enforce `batch < axis` and the unknown-mode enforce
  lead to `"rejected"`.
- Each kernel step is one loop item. It recovers the coordinates by division
  and remainder exactly as the kernel of the dispatched mode does.
- `Init` takes every combination of the arguments. With `batch` and
  `repeat_from_axis` both given (`BatchIgnored`), the host takes `left`
  between the batch and the axis (lines 373-375). It launches
  `repeatedSequenceMaskKernel`, which has no batch parameter, over
  `left * right` cells (line 391). The other batch entries are never
  written. `MaskCorrect` checks that the written cells are right in that
  case too, and leaves the case out of its "every cell written" clause.

The `RMACRegions` state and actions are:

- Variables: the input `image` and `scales`, the count kernel's `numRoisData`
  (`<<num_rois, Wd, Hd>>`), the host's `n`, the flattened output `out`, the
  offsets written past the output `stray`, each block's `shared` buffer, and
  each device thread's loop index `idx` and position `pc`.
- Host actions: the return on an empty input, the count launch, the count
  kernel (an exact rational arg-min over the steps 1..6 with cub's tie
  order, then the count of regions), and the resize plus region launch.
- Thread actions: the loop test (`LoopEnter`, `LoopExit`), the store of the
  five coordinates into the shared buffer, and the transposed copy of five
  buffer cells to the output, with `index += blockDim * gridDim`.
- Block actions: the two `__syncthreads`. A barrier is passed once every
  thread of the block is at it or has left the loop, which is how the last
  round, with threads past `N`, gets through.

The `MIOpenLRN` model has one action for a cache hit and one for a dims
change. A dims change assigns `miopen_input_dims_` first and then either
throws (a `dim32` read past the rank, or a failed `MIOPEN_ENFORCE`) or sets
the descriptor and calls MIOpen.

Data is abstracted to what the properties tell apart:

- A float cell is a count of how often each contribution has been folded in.
  A lost, doubled or misplaced update is visible; the float value is not.
- An unmasked value is the pair (mask, rank).
- A masked output cell is the fill value, and an unmasked cell holds its own
  index.
- An R-MAC coordinate is the pair (row, coordinate number). The region
  itself, with its float arithmetic done exactly, is `Region(row)`.
- An LRN tensor is its element type and dims; a descriptor is the type and
  four dims it was set to.

Mutations used to test the properties are defined just before the
definition they replace and are named for the bug they stand for.

## Runs

| run | cfg | expect | what it shows |
|---|---|---|---|
| std | SparseToDense.cfg | pass | Three sparse rows with repeated indices, six values, two threads: `ScatterAddCorrect` (every value is added once into its row and nothing else is added) and `WritesInBounds` when the first dimension is inferred. |
| std_given_dim | SparseToDenseBounds.cfg | violation | With a given `output_first_dim` below the largest index, the kernel writes past the output (sparse_to_dense_op_hip.cc:32-33; there is no bounds check). |
| sparse_adagrad | SparseAdagrad.cfg | pass | With pairwise distinct indices, every interleaving of the four plain accesses applies each gradient value exactly once, and the kernel implements `ScatterAdd` for `param_mom` and `param` (`AtomicScatter`). |
| sparse_adagrad_dup | SparseAdagradRace.cfg | violation | With a repeated index, two threads' read-modify-writes of the same `param_mom` or `param` cell interleave and an update is lost. In TLC's trace the lost update is the `param` one, after the first thread has stored its moment. The CPU operator applies both. |
| rowwise | RowWiseSparseAdagrad.cfg | pass | Two blocks of two threads, three rows of two columns, distinct indices: no cell ever takes in a row twice or a row not its own, each row's moment and parameters are updated once, and after `__syncthreads` every thread's step sees its row's moment update (`StepSeesRowMoment`). The kernel implements `ScatterAdd` for the moment rows and the parameter cells (`RowAtomicScatter`). |
| device_cache | DeviceControl.cfg | pass | Two threads, two devices, ids {0,1,2} (2 is invalid), statuses success, unknown error and a fatal error: `CacheCoherent`. A thread running Caffe2 code with a filled `gCurrentDevice` runs on that device, through failed `hipSetDevice` calls and foreign code. |
| device_ids | DeviceControlIds.cfg | violation | `SetDefaultGPUID(-1)` is stored and `GetDeviceProperty(-1)` reads `props[-1]`. |
| unmask | BooleanUnmask.cfg | pass | Two masks over three positions, four compute threads: on every valid input the output is the unmasked tensor and no assertion fails. |
| unmask_early_return | BooleanUnmaskEarlyReturn.cfg | violation | One compute thread over two positions: the `return` at boolean_unmask_ops_hip.cc:34 leaves a position unwritten. |
| rmac | RMACRegions.cfg | pass | Two blocks of two threads, inputs with 0 to 6 regions, so the grid is capped and a block's last round has threads past `N`: `RegionWritesSafe` (no output cell is ever written with anything but its own region, and nothing is written past the output), `RegionsCoverImage` (the regions the count kernel counted are exactly the ones the region kernel produces, all inside the image), and `OutputSpec` (the kernel implements `RegionOutput`, including that every cell is written in the end). |
| lrn_descriptor | MIOpenLRN.cfg | violation | A run that throws after `miopen_input_dims_` was assigned (line 124) leaves the cache claiming a descriptor that was never set. The next run with the same dims skips the set and calls MIOpen with a stale or unset descriptor (`DescriptorDescribesInput`). |
| seqmask | SequenceMask.cfg | pass | A [2,2,3] input, every mode, every combination of axis in {0, 1, -1}, batch in {absent, 0} and repeat_from_axis in {absent, 2}: every cell written holds the CPU definition's value. At the end every cell is written, except when `batch` and `repeat_from_axis` are both given (`BatchIgnored`). Then the repeated kernel has no batch parameter and writes only `left * right` cells, and the rest of the output keeps what `ResizeLike` allocated. |

Every property of a passing run has a mutant in `PROJECT.json`. A mutant is a
plausible slip in a mapped definition, and TLC finds the property violated
under the run's configuration:

- a shifted loop start or a short stride;
- the first dimension without its +1;
- the parameter update reading the moment;
- the column loop stepping by one;
- a missing barrier;
- a device check that only rejects negatives;
- the cache written before `HIP_ENFORCE`;
- foreign code saving the new device;
- an inclusive rank;
- the fill kernel not waiting for the first;
- the repeated column taken without dividing out the repeat;
- the first R-MAC barrier left out;
- the count kernel counting scales whose region size is 0;
- a barrier that also waits for the threads that have left the loop.

### Bounds

The bounds are the smallest instances in which the interesting case occurs:

- Grids are capped (`MaxBlocks`) so that a thread owns several items. The
  SparseToDense, SparseAdagrad and SequenceMask batched cases all loop over
  more items than threads.
- Indices range over a set large enough for both distinct and repeated
  indices.
- Two host threads and two devices plus an invalid id are enough for the
  cache to go stale through another thread's foreign code or a failed set.
- The R-MAC inputs give 4, 5 and 6 regions for four device threads. Each
  thread makes two rounds, and with 5 or 6 regions the last round has
  threads past `N` at both barriers. A 3 x 1 image has an empty scale, and
  `scales = 0` gives no region at all.
- The four LRN tensors include a float16 tensor with the dims of a float one
  and a rank-3 tensor, whose `dim32(3)` throws.
- The SequenceMask shape [2,2,3] is not square. A swapped N and M, or a
  missing `% N`, therefore changes the result.

Deadlock checking is off in every kernel run (`CHECK_DEADLOCK FALSE`). A
kernel launch terminates, so its final state has no successor. The device
model may also end in `LOG(FATAL)`.

### Fairness

All properties but one are safety properties, and those runs assume no
fairness. The exception is `OutputSpec` in the rmac run, which includes
`WF_out(WriteOne)` of `RegionOutput`: the output is eventually complete.
`RMACRegions` assumes weak fairness of the host step, of each device thread
and of each block's barrier. This is what the hardware gives a launched
kernel. Every wave that can run eventually runs, and a barrier every
running wave has reached is released. It is no fairness between
independent host threads, which no property needs. The mutant `ArrivedAll`
shows what the fairness cannot repair: a barrier that waits for threads
that have left the loop never opens.

## Proofs

`DeviceControlProofs` proves, for every set of threads, number of devices,
set of ids callers pass and set of runtime statuses, under the assumption
`DeviceControlAssumption` (a natural device count, Boolean flags, integer ids,
known statuses):

- `CacheCoherence: Spec => []CacheCoherent`. `CacheCoherent` on its own is
  not inductive: `ForeignSetDevice` changes the runtime device while the
  cache is filled. The inductive invariant is `IInv == TypeOK /\
  CacheTracksDevice`: inside foreign code the cache equals the device saved
  on entry, which `ForeignReturn` restores. `CacheTracksDevice` was checked
  by TLC on the device_cache instance before it was proved. `IInvInit` and
  `IInvNext` (one step per action) establish it, and `CacheCoherent` is its
  case `foreign[p] = NoDevice`. The typing half of `IInv` comes from the
  lemmas `TypeInit` and `TypeNext`, which rest on `CountResultsType`: the
  counts `NumHipDevices` can cache are naturals.

`RMACRegionsProofs` proves, for every block size, grid bound, set of input
shapes, scale arguments and overlap, under `RMACAssumption` and the launch
assumptions of `HipKernelLoop`:

- `RegionWritesSafety: Spec => []RegionWritesSafe`. No thread writes past
  the output, and every written cell holds its own region. The property is
  far from inductive, because a copy reads the shared buffer that other
  threads of the block wrote. The inductive invariant `IInv` adds:
  - `HostPhase` and `CountPhase`: what the host state means before launch;
  - `InLoop`: a launched thread's index is at least its thread id, and a
    thread in the loop body has an index below `N`;
  - `SameRound`: the threads of a block in the same part of the body share
    their round base, and a thread still at the copy is one stride behind
    the threads that have gone on, which the two barriers enforce;
  - `PhaseSep`: while a thread of a block is between the two barriers, every
    other thread of the block is there too or has left the loop;
  - `ExitedBeyond`: a thread that left the loop has a thread id past the
    active threads of every round its block still runs;
  - `Stored`: after the store, the thread's buffer cells hold its row;
  - `CopyReady`: once past the second barrier, the buffer cells of every
    active thread of the block hold that thread's row.
  `CopyReady` is what makes the transposed copy, in which a thread copies
  cells other threads stored, correct. `IInv` was checked by TLC as an
  invariant at `BlockDim = 2` and at `BlockDim = 3` before it was proved.
  Helper lemmas prove that the count kernel's arg-min step lies in 1..6
  (an explicit six-step chain over cub's strict order, via cross
  multiplication) and that the region count is a natural (a subset of a
  finite product of intervals).
- `OutputRefinement: Spec => Output!Init /\ [][Output!Next]_out`. This is the
  safety part of the refinement: the resize maps to `Resize`, each copy maps
  to a `Write` (lemma `CopyRoiWritesOnce`), and every other step leaves
  `out` unchanged.

`HipKernelLoopProofs` proves the facts about the grid-stride loop that the
kernel proofs share, under `GeometryAssumption`:

- `LaunchGeometry`: a launch for `n > 0` items has at least one block, a
  positive stride, and thread ids `0 .. Stride - 1`.
- `ResidueGap`: two naturals with the same residue modulo the stride are at
  least a stride apart. `ResidueShift`: adding the stride keeps the residue.
  `ResidueBound` and `DivUnique` cover the range of `%` and the uniqueness
  of `a * S + x` with `x` in `0 .. S - 1`.

The argument behind both kernel proofs below: thread `t` starts at item `t`
and steps by `Stride`, so its loop variable stays on residue class `t`
(`OnResidue`). Item `i` therefore belongs to thread `i % Stride` alone. It
has been handled exactly when it lies below that thread's loop variable.

`SparseToDenseProofs` proves, for every block size, grid bound, number of
rows, range of indices and set of given first dimensions, under
`SparseToDenseAssumption`:

- `TypeCorrect: Spec => []TypeOK`.
- `ScatterAddCorrectness: Spec => []ScatterAddCorrect`. The inductive
  invariant `IInv` adds three things:
  - `OnResidue`;
  - `AddedOnce`: each output cell holds item `i` once if `i` is visited and
    the cell is `i`'s, and nothing else;
  - `HostPhase`: before the launch the loop variables are at their start.
    After it, the first dimension is one the host can choose.
  At `KernelDone` every item is below its thread's loop variable, so every
  item is added exactly once.
- `WritesInBoundsSafety`: `Spec => []WritesInBounds`, assuming that every
  given first dimension exceeds the largest index. An inferred dimension is
  one past the largest index. The lemma `LargestIndex` uses well-founded
  minimality to find it. The run std_given_dim shows that the hypothesis
  is needed.

`SparseAdagradProofs` proves, under `SparseAdagradAssumption`, for every
launch geometry, number and width of rows and range of indices:

- `TypeCorrect: Spec => []TypeOK`.
- `UpdatesSafety: Spec => []UpdatesAppliedDistinct`. The four memory accesses
  are plain, so the proof must show that no store is lost between a
  thread's load and its store. The inductive invariant `IInv` adds
  `OnResidue`, and, when the indices are distinct:
  - `CellsHold`: what each moment and parameter cell holds at each program
    point of the item's thread;
  - `RegsFresh`: a loaded register still equals its cell when it is stored
    back.
  `RegsFresh` holds because distinct indices make `ParamIdx` injective
  (lemma `ParamIdxInjective`, via `DivUnique`). Two threads never work on
  the same item (`OwnItems`), so no other thread stores into that cell. The
  parameter store moves the thread a stride on, and `ResidueGap` shows that
  no item of its class is skipped. `IInv` was checked by TLC as an
  invariant of run sparse_adagrad, and with two blocks and two rows of
  width 2, before it was proved.
- `AtomicRefinement: Spec => AtomicScatter`. The kernel implements two
  instances of `ScatterAdd`. Item `i` targets `{ParamIdx(i)}`, and the
  accumulator is `mom` for one instance and `param` for the other. The
  targets never change (`IndicesFixed`). When the indices repeat, two
  items share a cell (`SharedCell`), and every step is the contract's
  `Unpromised` step. When they are distinct, the moment store and the
  parameter store are the contract's `Add(i, ParamIdx(i))`: by `RegsFresh`
  the stored register is the cell, and by `CellsHold` the cell does not yet
  hold `i`. Every other step leaves the tensor alone, which is a stutter.
  The proof reuses `IInv`.

`BooleanUnmaskProofs` proves, under `BooleanUnmaskAssumption`, for every
block size, block cap, mask size and number of masks:

- `TypeCorrect: Spec => []TypeOK`. The lemma `FirstMaskFound` shows that
  the inner loop's first true mask exists whenever the kernel stores it. It
  takes the least true mask by well-founded minimality. `RankBound` shows
  that the fill kernel's count `k` at position `i` is at most `i`, using
  `FS_Subset` and `FS_Interval`.
- `UnmaskSafety`: `Spec => []UnmaskCorrect`, assuming that the compute launch
  has at least `maskSize` threads, that is,
  `LoopStride(ComputeGrid) >= MaskSize`. Run unmask_early_return shows that
  without it the early `return` skips positions. The inductive invariant
  `IInv` adds:
  - `ComputeProgress`: a compute thread is at its own position or has left;
  - `PhaseOrder`: the stream order between the two kernels;
  - `OnResidueF`: the residue classes of the fill threads;
  - `IndicesHold`: on a valid input, a position whose thread has left holds
    its mask;
  - `DestHold`: an output cell holds its unmasked value once its mask is
    filled and garbage before, and no assertion has failed.
  The fill step (lemma `FillInv`) uses the fact that every `indices[i]` is
  written when the fill kernel runs. The positions it scans are then exactly
  those of its mask (`FirstMaskValid`). The count it keeps is the size of the
  set of earlier positions of that mask, which is the unmasked order.
  `IInv` was checked by TLC as an invariant of the unmask configuration. It
  was also checked with one thread per block, two positions and three masks,
  where a fill thread handles two masks.

`RowWiseSparseAdagradProofs` proves, under `RowWiseAssumption`, for every
block size, block cap, number and width of gradient rows and range of
indices:

- `StepSafety: Spec => []StepSeesRowMoment`. With distinct indices, no
  thread updates a parameter column with a step read before thread 0 of its
  block stored the row's average.
- `RowUpdatesSafety: Spec => []RowUpdatesAppliedDistinct`. With distinct
  indices, no cell ever takes in a row twice or a row not its own, and at
  `KernelDone` every row has been applied once.
- `RowAtomicRefinement: Spec => RowAtomicScatter`. In the moment instance,
  row `i` targets `{indices[i]}`. In the parameter instance, it targets the
  cells of parameter row `indices[i]`. Repeated indices make two rows share
  both (`SharedRows`), and so every step is `Unpromised`. With distinct
  indices, `MomStore` is `Add(row, Index)` (lemma `MomStep`) and
  `ParamStore` is `Add(row, Cell)` (lemma `ParamStep`). The argument is the
  same as for `SparseAdagrad`, from `RegsFresh`, `CellsHold` and, for the
  column, `CellFacts`.

Both rest on one inductive invariant `IInv`. It adds:

- `RowResidue`: block `b` walks rows `b, b + gridDim, ...`, and a thread is
  done exactly when its row is past the last.
- `ColResidue`: thread `tid` walks columns `tid, tid + blockDim, ...`, and
  only thread 0 is between the reduction and the moment store.
- `Lockstep`: what the reduction and `__syncthreads` enforce. Between the
  two collectives every thread of the block is between them on the same
  row. After the barrier the block's other threads are after it on the same
  row, or already waiting at the next row's reduction.

When the indices are distinct, `IInv` also adds:

- `CellsHold`: a moment or parameter cell holds row `i` once if `i`'s
  update of it is stored (`MomDone`, `ColDone`), and nothing else;
- `RegsFresh`: a loaded register still equals its cell;
- `StepsFresh`: a thread after the barrier read a moment that holds its row.

The barrier argument is in `ReadStepInv`: by `Lockstep`, thread 0 of the
block is past its moment store of the row. `MomStoreInv` and
`ParamStoreInv` show that no other thread stores into the cell between a
load and its store. The same block is on the same row but another column
residue. Another block is on another row, hence another index
(`DivUnique`). `NextRowGap` (from `ResidueGap`) shows that moving a row on
by `gridDim` skips no row of the block. `IInv` was checked by TLC as an
invariant of run rowwise. It was also checked with one block of two threads
and three columns, where a thread takes two columns, before it was proved.

What stays with TLC:

- The LRN descriptor cache. Its only run is a violation (lrn_descriptor),
  so there is no property of it to prove.
- The violation runs sparse_adagrad_dup, std_given_dim and
  unmask_early_return. Each shows what happens when a hypothesis of the
  proofs is dropped.
- Liveness: the fairness part of `OutputSpec` (every output cell is written
  in the end). TLAPS cannot reason about `ENABLED` here.
- `RegionsCoverImage`, which relates the count to the index walk
  `ScaleWalk`. That needs induction over the scales.
- `SequenceMask`. Its `MaskCorrect` states the output through
  `MapThenFoldSet` of Folds, which is a recursive function. Unfolding it
  needs the FoldSet facts of `FoldsTheorems`, which is not among the proof
  modules, and its result for every input needs induction over data. Both
  are out of reach.
- The repeated-index case of the two Adagrad kernels. Only TLC's
  sparse_adagrad_dup run shows the lost update. The refinement theorems
  allow any step there, because the contract's precondition is that the
  targets are disjoint.

## Not modelled

- `GetGPUIDForPointer`, `DeviceQuery` and `GetHipPeerAccessPattern`: pure
  queries of the runtime or logging.
- Dense Adagrad and LpPool: elementwise kernels with no shared state. Their
  only hazards are float arithmetic (p = 0 in LpPool).
- LayerNorm: float reductions through hipcub. Its hazards (cancellation, a
  host vector copied asynchronously) are listed in `PROJECT.json`.
- BooleanMask has hazards that are listed, but it is not modelled yet.
- The R-MAC host's copy of the count (`CopyBytes` in `HIPContext`) is
  outside `src/`. It is modelled as ordered after the count kernel on the
  stream. What an empty input leaves in a reused output is not modelled,
  because the model runs the operator once.
- The LRN math itself, inside MIOpen.
- Integer overflow of `int` products (for example `B * N * M`) needs tensors
  of 2^31 elements and is listed as a hazard only.

## Plan for later sittings

1. `BooleanMask`: the select kernel, the count copied to the host, the
   `indices_` resize while the copy kernel reads it, and the copy kernel.
2. `SequenceMask` rewritten over a fold of its own, written as a recursive
   function, so that the per-step facts of `MaskCorrect` can be proved.
