\* Two device threads walk three single-value rows, so thread 0 runs two loop
\* iterations while thread 1 runs one, and rows may share an index.
CONSTANTS
    BlockDim = 2
    MaxBlocks = 1
    Len = 3
    SliceSize = 1
    MaxIndex = 2
SPECIFICATION Spec
INVARIANTS
    TypeOK
    UpdatesAppliedDistinct
PROPERTY
    AtomicScatter
CHECK_DEADLOCK FALSE
