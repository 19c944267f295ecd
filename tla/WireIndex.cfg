SPECIFICATION FairSpec
CONSTANTS
    w1 = w1  w2 = w2  w3 = w3  None = None
    Blocks <- MCBlocks
    Prev <- MCPrev
    Chains <- MCChains
    Posts <- MCPosts
    Start = 2
    MaxBlocks = 3
    Workers <- MCWorkers
INVARIANTS
    EntriesExact
    ReportHonest
PROPERTIES
    Settles
