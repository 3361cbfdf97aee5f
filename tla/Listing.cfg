CONSTANTS
    Entry <- MCEntry
    DotEntry <- MCDotEntry
    Length <- MCLength
    Capacity = 6
    MaxPosition = 6
SPECIFICATION ListingSpec
INVARIANTS
    ListedOnce
    Complete
    MissesFew
CHECK_DEADLOCK FALSE
