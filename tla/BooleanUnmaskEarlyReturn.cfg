\* One block of one thread for two positions: the grid-stride loop needs a
\* second iteration, which the early return skips.
CONSTANTS
    BlockDim = 1
    MaxBlocks = 1
    MaskSize = 2
    NumMasks = 2
SPECIFICATION Spec
INVARIANTS
    UnmaskCorrect
CHECK_DEADLOCK FALSE
