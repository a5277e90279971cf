SPECIFICATION FairSpec
CONSTANTS
    Rules <- MCRules
    Weight <- MCWeight
    Overhead <- MCOverhead
    Filters <- MCFilters
    Shuffled = FALSE
    Fallbacks <- MCFallbacks
    MaxOffset = 1
    MaxChanges = 2
INVARIANTS
    TypeOK
    DatagramWithinLimit
    PagesContinue
    EachRemovalHidesOne
PROPERTIES
    ReadingEnds
CHECK_DEADLOCK FALSE
