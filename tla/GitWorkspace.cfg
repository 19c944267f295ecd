SPECIFICATION FairSpec
CONSTANTS
    p1 = p1
    p2 = p2
    c1 = c1
    c2 = c2
    c3 = c3
    k1 = k1
    k2 = k2
    k3 = k3
    Inventory <- MCInventory
    Marks <- MCMarks
    Coins <- MCCoins
    Value <- MCValue
    Size <- MCSize
    Faults <- MCFaults
    Limit = 2
    PartUnits = 1
    Fanout = 2
    MaxLength = 2
    MaxInputs = 2
    RecordFee = 1
    InputFee = 1
    Retained = 1
    Workers = 2
    FindingsLimit = 2
    Processes = {p1, p2}
    Checks = 3
    VerifyOutputs = 2
    Runs <- MCRuns
    MaxRuns = 3
    MaxCommits = 1
    Contested = {k1}
    None = None
INVARIANTS
    SentStays
    SentAsApproved
    ScanExact
PROPERTIES
    CommandsEnd
CHECK_DEADLOCK FALSE
