--------------------------- MODULE HipKernelLoop ---------------------------
(***************************************************************************)
(* The launch geometry shared by every 1-D kernel of the HIP operators.    *)
(* The host sizes a launch with CAFFE_GET_BLOCKS(n) blocks of              *)
(* CAFFE_HIP_NUM_THREADS threads, and each device thread walks the         *)
(* grid-stride loop HIP_1D_KERNEL_LOOP(i, n): it starts at its global id   *)
(* and advances by the total number of threads of the launch.  Both macros *)
(* live in caffe2/core/common_hip.h, outside src/, and are modelled from   *)
(* their documented behaviour.                                             *)
(***************************************************************************)
EXTENDS Naturals

CONSTANTS
    BlockDim,   \* CAFFE_HIP_NUM_THREADS (512 in the build), scaled down
    MaxBlocks   \* CAFFE_MAXIMUM_NUM_BLOCKS (4096 in the build), scaled down

ASSUME GeometryAssumption ==
    /\ BlockDim \in Nat \ {0}
    /\ MaxBlocks \in Nat \ {0}

(* CAFFE_GET_BLOCKS(n): enough blocks to give every item a thread, capped. *)
GetBlocks(n) ==
    IF (n + BlockDim - 1) \div BlockDim < MaxBlocks
    THEN (n + BlockDim - 1) \div BlockDim
    ELSE MaxBlocks

(* The global thread ids of a launch of `grid` blocks.                     *)
LaunchThreads(grid) == 0 .. (grid * BlockDim - 1)

(* Mutations of the loop macro, for checking that the properties depend on *)
(* it: a global id computed one too low, and a stride one too short.       *)
LoopStartShifted(t) == t - 1
LoopStrideShort(grid) == grid * BlockDim - 1

(* HIP_1D_KERNEL_LOOP: thread t starts at item t and moves by the stride.  *)
LoopStart(t) == t
LoopStride(grid) == grid * BlockDim
=============================================================================
