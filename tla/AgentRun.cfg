SPECIFICATION Spec
CONSTANTS
    d = d
    p1 = p1
    p2 = p2
    Resumers = {p1, p2}
    Driver = d
    MaxIterations = 3
    MaxToolSteps = 2
    MaxRequests = 6
    MaxCrashes = 1
SYMMETRY Slots
CHECK_DEADLOCK FALSE
INVARIANTS
    OnePlanner
    WithinBudget
    StepsHaveOwnIds
PROPERTIES
    OverPlansNoMore
