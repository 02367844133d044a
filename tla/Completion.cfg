SPECIFICATION FairRequestSpec
CONSTANTS
    Tools = {"search", "rename"}
    NoId = "NoId"
    NoName = "NoName"
    Messages <- Meant
    Objects <- Texts
    Strays <- Invented
    MaxCalls = 2
    MaxArgument = 4
    MaxTotal = 5
    MaxAsks = 3
    MaxFaults = 1
CHECK_DEADLOCK FALSE
INVARIANTS
    CallsAreMeant
    TextIsWhole
    AbortedHasNoAnswer
PROPERTIES
    RequestEnds
