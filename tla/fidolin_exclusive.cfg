SPECIFICATION Spec
CONSTANTS
    None = None
    a = a
    b = b
    w1 = w1
    w2 = w2
    Post <- MCPost
    Instance = {a, b}
    Worker = {w1}
    ConfiguredBatch = 2
    Rows <- OnlyDefaults
    Defaults <- MCDefaults
    Verdicts <- OneListed
    SlowWork = TRUE
    MaxFaults = 1
INVARIANTS
    OneHolder
