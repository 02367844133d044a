SPECIFICATION Spec
CONSTANTS
    s1 = s1
    s2 = s2
    c1 = c1
    tab = tab
    other = other
    Sessions = {s1, s2}
    NoSession = NoSession
    Shown = {"sessions", "questions"}
    MaxSockets = 2
    Visited = s1
    Cards = {c1}
    NoCard = NoCard
    Callers = {tab, other}
    Page = tab
    MaxEvents = 2
    MaxFaults = 1
INVARIANTS
    RoomIsTracked
    ClosedOnce
PROPERTIES
    PageCatchesUp
CHECK_DEADLOCK FALSE
