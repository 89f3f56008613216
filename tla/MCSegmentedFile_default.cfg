SPECIFICATION Spec
CONSTANTS
    BlockSize = 18
    MinDataFrees = {5}
    Lengths <- MCLengths
    MaxRecords = 3
INVARIANTS PiecesEndInBlock
CHECK_DEADLOCK FALSE
