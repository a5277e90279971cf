SPECIFICATION Spec
CONSTANTS
    Names = {n1, n2}
    Srcs = {"lan", "wan"}
    Ports = {"22"}
    NoRule = NoRule
    NoCall = NoCall
    NoList = NoList
    MaxFaults = 1
INVARIANTS
    FailedReloadIsReported
