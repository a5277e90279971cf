SPECIFICATION Spec
CONSTANTS
    n1 = n1
    n2 = n2
    a1 = a1
    a2 = a2
    Names = {n1, n2}
    AllRules = AllRules
    Addrs = {a1, a2}
    AnyAddr = AnyAddr
    Ports = {80, 443}
    Patterns = {"old"}
    Matches <- MCMatches
    Creations <- MCCreations
    Lists <- MCLists
    Settings <- MCSettings
    Scopes = {"all", "narrow"}
    DefaultScope = "all"
    Existing <- MCExisting
    NoCall = NoCall
    NoPlan = NoPlan
    MaxRules = 2
    MaxCalls = 3
    MaxEdits = 1
    MaxFaults = 2
INVARIANTS
    TypeOK
    UpdateMerges
    LossIsReported
    SuccessIsInForce
    ListIsReal
PROPERTIES
    OnlyChosenRulesChange
CHECK_DEADLOCK FALSE
