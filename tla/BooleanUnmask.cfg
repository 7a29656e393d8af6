\* Three positions, two masks; two blocks of two threads cover every
\* position with one left over.  Masks and value sizes are
\* arbitrary, indices_ starts with any garbage.
CONSTANTS
    BlockDim = 2
    MaxBlocks = 2
    MaskSize = 3
    NumMasks = 2
SPECIFICATION Spec
INVARIANTS
    TypeOK
    UnmaskCorrect
CHECK_DEADLOCK FALSE
