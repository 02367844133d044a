SPECIFICATION Spec
CONSTANTS
    r1 = r1
    r2 = r2
    a1 = a1
    a2 = a2
    h1 = h1
    h2 = h2
    Requests = {r1}
    Approvals = {a1}
    Handlers = {h1, h2}
    NoRequest = NoRequest
    NoApproval = NoApproval
    NoHandler = NoHandler
    Offered = {"text", "search", "rename", "foreign", "malformed"}
    Legacy <- NoLegacy
    CanRelease = TRUE
    MaxCrashes = 1
INVARIANTS
    AtMostOnce
    OutcomeIsTrue
    ExecutingIsOwned
PROPERTIES
    ImplementsOneShot
SYMMETRY Slots
