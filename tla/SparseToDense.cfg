\* Two device threads (one block of two) walk six flattened values of three
\* sparse rows, so each thread runs three loop iterations and rows may name
\* the same output row; the output first dimension is inferred from the indices.
CONSTANTS
    BlockDim = 2
    MaxBlocks = 1
    Len = 3
    BlockItems = 2
    MaxIndex = 2
    GivenDims = {}
SPECIFICATION Spec
INVARIANTS
    TypeOK
    ScatterAddCorrect
    WritesInBounds
CHECK_DEADLOCK FALSE
