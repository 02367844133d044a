SPECIFICATION Spec
CONSTANTS
    s1 = s1
    s2 = s2
    t1 = t1
    t2 = t2
    v1 = v1
    v2 = v2
    Servers = {s1}
    Tasks = {t1, t2}
    Entries = {v1}
    Faults = {"error", "list"}
    MaxLinks = 3
SYMMETRY Names
CHECK_DEADLOCK FALSE
INVARIANTS
    BridgeIsCurrent
    FailedIsRetried
    CatalogIsApplied
    ConnectedIsUsable
