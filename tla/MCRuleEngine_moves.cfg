SPECIFICATION Spec
CONSTANTS
    Records <- DocRecords
    Tables <- DocTables
    Codes = {"$a", "$b"}
    SortRecord = TRUE
INVARIANT OnlyMoves
CHECK_DEADLOCK FALSE
