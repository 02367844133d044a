SPECIFICATION Spec
CONSTANTS
    s1 = s1
    s2 = s2
    MaxTurns = 2
    Sessions = {s1, s2}
    Existing = {s1}
    NoSession = NoSession
    MaxClicks = 2
    Commands = {"new", "fork", "undo"}
    MaxStreams = 3
    MaxPolls = 1
    MaxEvents = 4
    MaxFaults = 1
INVARIANTS
    TranscriptIsWhole
    ResumedOncePerParking
PROPERTIES
    PageComesToRest
CHECK_DEADLOCK FALSE
