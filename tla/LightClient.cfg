SPECIFICATION Spec
CONSTANTS
    a0 = a0  a1 = a1  a2 = a2  b2 = b2  b3 = b3  x3 = x3  y2 = y2
    p1 = p1  p2 = p2  c1 = c1
    None = None  Foreign = Foreign
    Blocks <- MCBlocks  Anchor = a0  Parent <- MCParent
    Work <- MCWork  Verdict <- MCVerdict
    Peers = {p1, p2}  Honest = {p1}  Limited = {p2}
    Callers = {c1}
    HeaderMax = 8  MaxBatch = 3  Linear = 1  Prefetch = 2  PerPeer = 1
    LimitedDepth = 1  CacheSize = 1  Attempts = 1  QueueSize = 1  Wanted = {1}  Tips <- MCTips
INVARIANTS
    IndexExact
    RequestsTracked
PROPERTIES
    FollowsWork
CHECK_DEADLOCK FALSE
