SPECIFICATION Spec
CONSTANTS
    Records <- MCRecords
    Tables <- MCTables
    Codes = {"$a", "$b"}
    SortRecord = TRUE
INVARIANTS TypeOK UnseenOnlyBehind FieldsRebuilt OthersAsIs InRecordOrder FreedOnlyByRewriting
PROPERTY NeverBack
CHECK_DEADLOCK FALSE
