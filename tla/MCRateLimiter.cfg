SPECIFICATION Spec
CONSTANTS
    RateLimit = 2
    RateWindow = 3
    Ips = {ip1, ip2}
    MaxNow = 4
    MaxAsked = 2
SYMMETRY Symmetry
INVARIANTS
    TypeOK
    WindowBound
    RefusedOnlyWhenFull
    LogBounded
CHECK_DEADLOCK FALSE
