SPECIFICATION FairSpec
CONSTANTS
    Runs = {r1}
    MaxBiblio = 4
    Kind <- Kinds4
    Options <- RdaRuns
    MaxClock = 7
    MaxCrashes = 1
INVARIANTS TypeOK PassedIsPrinted PrintedOncePerCrash
PROPERTIES EveryRecordPrinted
CHECK_DEADLOCK FALSE
