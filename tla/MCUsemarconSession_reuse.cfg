SPECIFICATION Spec
CONSTANTS
    None = None
    a = a
    b = b
    bad = bad
    f1 = f1
    f2 = f2
    f3 = f3
    Inis = {a, b, bad}
    Loadable = {a, b}
    EditConf = {a}
    Files = {f1, f2, f3}
    Records = {1, 2, 3, 4}
    Input <- MCInput
    Unwritable = {f1}
    Errors <- MCErrors
    Unreadable = {4}
    MaxErrors = 1
    UpdateOrdinal = TRUE
    Calls <- ExampleCalls
    MaxFaults = 1
    MaxCalls = 5
INVARIANTS ReusedLikeNew
CHECK_DEADLOCK FALSE
