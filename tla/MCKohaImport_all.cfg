SPECIFICATION MCSpec
CONSTANTS
    None = None
    r1 = r1
    f1 = f1
    f2 = f2
    f3 = f3
    Runs = {r1, r2}
    Files = {f1, f2, f3}
    Content <- MCContent
    Biblios = {1, 2, 3}
    Stamp <- MCStamp
    Catalogued = {1, 2}
    Options <- CommitRuns
    MaxArrivals = 3
    MaxCrashes = 1
INVARIANTS TypeOK ImportedOnce OnlyReplaces ProcessedIsComplete
PROPERTIES DeletedWithoutEffect AddsOnlyWhenInterrupted FileDealtWith
