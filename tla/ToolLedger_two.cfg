SPECIFICATION FairSpec
CONSTANTS
    r1 = r1
    r2 = r2
    a1 = a1
    a2 = a2
    h1 = h1
    h2 = h2
    Requests = {r1, r2}
    Approvals = {a1, a2}
    Handlers = {h1}
    NoRequest = NoRequest
    NoApproval = NoApproval
    NoHandler = NoHandler
    Offered = {"foreign", "rename"}
    Legacy <- OneLegacy
    CanRelease = FALSE
    MaxCrashes = 1
INVARIANTS
    RanUnderOwnGrant
PROPERTIES
    EveryCallReturns
