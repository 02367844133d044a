SPECIFICATION Spec
CONSTANTS
    x = x
    y = y
    z = z
    s1 = s1
    p1 = p1
    p2 = p2
    Statements = {x, y, z}
    CoreFiles <- Cores
    Seeds = {x, y, z}
    Observations = {x}
    Contradicts <- Denials
    Similar <- Denials
    Confident = {x}
    Slots = {s1}
    Reviewers = {p1, p2}
    Decisions = {"approve_to_identity", "approve_to_user_model", "approve_to_relationship", "reject", "needs_more_evidence"}
    NoStatement = NoStatement
    NoSlot = NoSlot
    NoCandidate = NoCandidate
    Whole = Whole
    PressureCount = 2
    MinCycles = 1
    MaxEvents = 4
    MaxFaults = 1
SYMMETRY Interchangeable
INVARIANTS
    AppliedIsRecorded
    CumulativeMatchesStreak
PROPERTIES
    ReviewedIsNotReseeded
