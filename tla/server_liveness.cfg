SPECIFICATION FairSpec
CONSTANTS
    None = None
    x = x
    u = u
    r1 = r1
    r2 = r2
    Addr = {x}
    User = {u}
    Req = {r1, r2}
    IdleAfter = 2
    MaxBurst = 2
    TTL = 1
    Environment <- MCEnvironment
    DefaultPerMinute = 8
    MaxConns = 1
    Drain = 1
PROPERTIES
    MainReturns
    Answered
