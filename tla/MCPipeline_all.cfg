SPECIFICATION MCSpec
CONSTANTS
    Runs = {r1, r2}
    r1 = r1
    MaxBiblio = 3
    Language <- Languages4
    PageSize = 2
    MaxExports = 4
    MaxEdits = 1
    MaxCrashes = 1
    MaxFailures = 1
    MaxDays = 1
INVARIANTS TypeOK Accounted QuietEditsKept
PROPERTIES KeepsPromise EveryRecordConverted
CHECK_DEADLOCK FALSE
