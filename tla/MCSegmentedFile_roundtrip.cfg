SPECIFICATION Spec
CONSTANTS
    BlockSize = 18
    MinDataFrees = {5, 6, 7}
    Lengths <- MCLengths
    MaxRecords = 3
INVARIANTS TypeOK FailsOnlyAtBlockEnd BlocksFollowScws
PROPERTIES IsRecordFile ReadingStops
CHECK_DEADLOCK FALSE
