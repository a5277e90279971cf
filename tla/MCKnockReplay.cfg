SPECIFICATION Spec
CONSTANTS
    c1 = c1
    c2 = c2
    Cmds <- MCCmds
    Ips <- MCIps
    Keys <- MCKeys
    Profiles <- MCProfiles
    Ports = {49152}
    AllowedIps = {"lan"}
    ServerKey = "psk"
    ReplayWindow = 1
    Offsets = {0}
    NoOrder = NoOrder
    NoJob = NoJob
    MaxTime = 3
    MaxCrashes = 1
    RateLimit = 2
    RateWindow = 2
INVARIANTS
    CalledAtMostOnce
CHECK_DEADLOCK FALSE
