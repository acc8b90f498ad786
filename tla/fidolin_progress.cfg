SPECIFICATION FairSpec
CONSTANTS
    None = None
    a = a
    b = b
    w1 = w1
    w2 = w2
    Post <- MCPost
    Instance = {a}
    Worker = {w1, w2}
    ConfiguredBatch = 2
    Rows <- OnlyDefaults
    Defaults <- MCDefaults
    Verdicts <- Repeatable
    SlowWork = TRUE
    MaxFaults = 3
INVARIANTS
    UnjudgedHidden
PROPERTIES
    DecisionsFinal
    DecidedOnce
    EventuallyDecided
    RunReturns
