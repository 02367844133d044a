SPECIFICATION MaintenanceSpec
CONSTANTS
    N = 2
    Promoted = {1}
    MaxTimes = 2
    MaxConfidence = 1
    LOCK_CORROBORATION_BAR = 2
    LOCK_CONFIDENCE_MIN = 1
    DIVERGENCE_CONFIDENCE_MAX = 0
    RETIRE_CONFIDENCE_MAX = 0
    GIST_FAMILY_SIZE = 2
    MaxEvents = 2
    MaxFaults = 1
INVARIANTS
    ReplaysNeedFaults
PROPERTIES
    PassKeepsAHead
    RivalsAreResolved
