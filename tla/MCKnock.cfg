SPECIFICATION Spec
CONSTANTS
    c1 = c1
    c2 = c2
    Cmds <- MCCmds
    Ips <- MCIps
    Keys <- MCKeys
    Profiles <- MCProfiles
    Ports = {49152}
    AllowedIps = {"lan"}
    ServerKey = "psk"
    ReplayWindow = 1
    Offsets <- MCOffsets
    NoOrder = NoOrder
    NoJob = NoJob
    MaxTime = 2
    MaxCrashes = 1
    RateLimit = 1
    RateWindow = 2
SYMMETRY Symmetry
INVARIANTS
    TypeOK
    CalledInWindow
    FreshInRealTime
    SuccessHasSource
    RepliesAreEarned
    CallsWithinLimit
PROPERTIES
    ImplementsService
CHECK_DEADLOCK FALSE
