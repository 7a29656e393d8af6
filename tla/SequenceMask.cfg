\* A [2, 2, 3] input under every mode and every combination of the axis
\* (0, 1, and -1 for 2), batch (absent or 0) and repeat_from_axis (absent or
\* 2) arguments: plain matrices of 1 x 12, 2 x 6 and 4 x 3, two batches of a
\* 2 x 3 matrix whose loop covers twice the items the grid was sized for,
\* repeated blocks of 3, and batch >= axis rejected by the enforce.
CONSTANTS
    BlockDim = 2
    MaxBlocks = 2
    Dims <- ShapeDims
    Axes <- AxisArgs
    Batches <- BatchArgs
    RepeatFroms <- RepeatArgs
    Radius = 1
    Modes = {"sequence", "window", "upper", "lower", "upperdiag", "lowerdiag", "unknown"}
    NoArg = NoArg
SPECIFICATION Spec
INVARIANTS
    MaskCorrect
CHECK_DEADLOCK FALSE
