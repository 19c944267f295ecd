SPECIFICATION FairSpec
CONSTANTS
    PartUnits = 2
    Fanout = 2
    MaxLength = 9
    MaxInputs = 2
    RecordFee = 2
    InputFee = 1
    Retained = 1
    Plans <- MCPlans
    Roles <- MCRoles
    Length = 1
    PendingCommits = 1
    CommitWeight = 1
    RevealWeight = 2
    BufferWeight = 3
    Faults = {"eviction", "reorganization", "mempool full", "watch", "torn append"}
    MaxFaults = 1
    Interrupts = TRUE
    Routed = TRUE
    None = None
INVARIANTS
    PlanSound
    RevealOrder
    PendingBound
    AttemptsDurable
PROPERTIES
    CompleteHolds
    FollowSettles
