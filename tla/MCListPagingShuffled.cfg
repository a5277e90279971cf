SPECIFICATION Spec
CONSTANTS
    Rules <- MCFewRules
    Weight <- MCFewWeight
    Overhead <- MCOverhead
    Filters = {}
    Shuffled = TRUE
    Fallbacks <- MCNothing
    MaxOffset = 0
    MaxChanges = 0
INVARIANTS
    EveryRuleIsShown
CHECK_DEADLOCK FALSE
