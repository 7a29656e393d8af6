\* Two blocks of two threads over three gradient rows of two columns: block 0
\* takes rows 0 and 2, each thread takes one column of a row, and the
\* rows' indices are pairwise distinct or not.
CONSTANTS
    BlockDim = 2
    MaxBlocks = 2
    M = 3
    NCols = 2
    MaxIndex = 2
SPECIFICATION Spec
INVARIANTS
    RowUpdatesAppliedDistinct
    StepSeesRowMoment
PROPERTY
    RowAtomicScatter
CHECK_DEADLOCK FALSE
