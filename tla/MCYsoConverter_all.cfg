SPECIFICATION MCSpec
CONSTANTS
    Runs = {r1, r2}
    r1 = r1
    Files = {f1, f2}
    f1 = f1
    f2 = f2
    None = None
    Entry <- MCEntry
    Numeric <- MCNumeric
    Chains <- MCChains
    Contents <- MCContents
    MaxCrashes = 1
    MaxFailures = 1
    MaxDays = 1
INVARIANTS TypeOK TermsAccounted UncodedFieldsKept LostOnlyOnFaultyDays
PROPERTY EveryFileDealtWith
CHECK_DEADLOCK FALSE
