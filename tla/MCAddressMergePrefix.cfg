SPECIFICATION Spec
CONSTANTS
    OctetBits = 4
    Patterns <- MCPatterns
    News <- MCNews
    Entries <- MCEntries
    MaxEntries = 2
INVARIANT OnlyMeantIsDropped
CHECK_DEADLOCK FALSE
