SPECIFICATION FairSpec
CONSTANTS
    c1 = c1
    c2 = c2
    Cmds <- MCCmds
    Ips <- MCIps
    Keys <- MCKeys
    Profiles <- MCLiveProfiles
    Ports = {49152}
    AllowedIps = {"lan"}
    ServerKey = "psk"
    ReplayWindow = 1
    Offsets = {0}
    NoOrder = NoOrder
    NoJob = NoJob
    MaxTime = 2
    MaxCrashes = 1
    RateLimit = 1
    RateWindow = 2
PROPERTIES
    ClientAlwaysReports
    AcceptedIsAnswered
CHECK_DEADLOCK FALSE
