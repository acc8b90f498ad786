SPECIFICATION Spec
CONSTANTS
    None = None
    x = x
    y = y
    u = u
    r1 = r1
    r2 = r2
    Addr = {x, y}
    User = {u}
    Req = {r1, r2}
    IdleAfter = 2
    MaxBurst = 2
    TTL = 2
    Environment <- MCEnvironment
    DefaultPerMinute = 8
    MaxConns = 1
    Drain = 1
SYMMETRY Symmetric
INVARIANTS
    TypeOK
PROPERTIES
    LimiterIsBucket
    SuspensionBites
