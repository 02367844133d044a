SPECIFICATION Spec
CONSTANTS
    s1 = s1
    s2 = s2
    t1 = t1
    t2 = t2
    v1 = v1
    v2 = v2
    Servers = {s1, s2}
    Tasks = {t1}
    Entries = {v1, v2}
    Faults = {}
    MaxLinks = 3
SYMMETRY Names
CHECK_DEADLOCK FALSE
INVARIANT
    OneClientPerServer
