SPECIFICATION Spec
CONSTANTS
    c1 = c1
    c2 = c2
    c3 = c3
    o1 = o1
    o2 = o2
    Candidates = {c1, c2, c3}
    Objects = {o1, o2}
    NoCandidate = NoCandidate
    NoKey = NoKey
    MaxStranded = 1
SYMMETRY Ids
CHECK_DEADLOCK FALSE
INVARIANTS
    OneHead
    BeliefsAreAuthorised
    CommittedIsBelieved
    CountedOncePerStranding
    LosersAreExplained
    RepeatedContestIsAsked
