\* Two device threads, two single-value rows that may name the same parameter
\* row: the unconditional accumulation claim.
CONSTANTS
    BlockDim = 2
    MaxBlocks = 1
    Len = 2
    SliceSize = 1
    MaxIndex = 1
SPECIFICATION Spec
INVARIANTS
    UpdatesApplied
CHECK_DEADLOCK FALSE
