SPECIFICATION Spec
CONSTANTS
    OctetBits = 4
    Patterns <- MCPatterns
    News <- MCNews
    Entries <- MCEntries
    MaxEntries = 2
INVARIANTS
    TypeOK
    DropsWhatIsMeant
    DropsNothingElse
    RepeatedUpdateChangesNothing
CHECK_DEADLOCK FALSE
