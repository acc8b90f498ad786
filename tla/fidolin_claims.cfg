SPECIFICATION Spec
CONSTANTS
    None = None
    a = a
    b = b
    w1 = w1
    w2 = w2
    Post <- MCPost
    Instance = {a, b}
    Worker = {w1}
    ConfiguredBatch = 0
    Rows <- TwoRows
    Defaults <- MCDefaults
    Verdicts <- AnyAnalyzer
    SlowWork = FALSE
    MaxFaults = 3
SYMMETRY Symmetric
INVARIANTS
    TypeOK
    UnjudgedHidden
    DecidedAsSet
    OneHolder
PROPERTIES
    DecidedOnce
