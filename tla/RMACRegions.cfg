\* Two blocks of two threads for 4 to 6 regions: the grid is capped, so each
\* thread makes two rounds, and with 5 or 6 regions the last round leaves
\* threads of a block past N while the others meet at both barriers; with
\* scales = 0 there is no region, N = 0, and the region kernel gets no block.
CONSTANTS
    BlockDim = 2
    MaxBlocks = 2
    Images <- InputImages
    ScaleArgs = {0, 2}
    OverlapNum = 2
    OverlapDen = 5
SPECIFICATION Spec
INVARIANTS
    RegionWritesSafe
    RegionsCoverImage
PROPERTIES
    OutputSpec
CHECK_DEADLOCK FALSE
