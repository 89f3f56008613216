SPECIFICATION FairSpec
CONSTANTS
    Runs = {r1}
    MaxBiblio = 3
    Kind <- KindsStuck
    Options <- RdaRuns
    MaxClock = 4
    MaxCrashes = 0
PROPERTIES EveryRecordPrinted
