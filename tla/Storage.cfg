SPECIFICATION FairSpec
CONSTANTS
    Eras = {0, 1, 3, 6, 8, 9, 12, 14}
    MaxCrashes = 2
    MaxFaults = 1
    MaxWrites = 1
CHECK_DEADLOCK FALSE
INVARIANTS
    OpenIsCurrent
PROPERTIES
    RowsSurvive
    ComesUp
