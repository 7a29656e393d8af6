\* The operator is given output_first_dim = 1 while the indices of two sparse
\* rows range over 0..2: the kernel adds without a bounds check.
CONSTANTS
    BlockDim = 2
    MaxBlocks = 1
    Len = 2
    BlockItems = 2
    MaxIndex = 2
    GivenDims = {1}
SPECIFICATION Spec
INVARIANTS
    WritesInBounds
CHECK_DEADLOCK FALSE
