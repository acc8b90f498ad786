SPECIFICATION Spec
CONSTANTS
    None = None
    a = a
    b = b
    w1 = w1
    w2 = w2
    Post <- MCPost
    Instance = {a, b}
    Worker = {w1}
    ConfiguredBatch = 2
    Rows <- OnlyStrict
    Defaults <- MCDefaults
    Verdicts <- AnyAnalyzer
    SlowWork = FALSE
    MaxFaults = 1
INVARIANTS
    NothingWavedThrough
