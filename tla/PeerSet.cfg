SPECIFICATION FairSpec
CONSTANTS
    a1 = a1  b1 = b1  None = None
    Addresses = {a1, b1}  Ip <- MCIp  V6 = {b1}  Routable = {a1, b1}
    Pinnings <- MCPinnings  Fixed <- MCFixed  Resolved = {a1, b1}
    MaxPeers = 1  Dials = 2  PoolSize = 2  BookSize = 1  NetChanges = 2
INVARIANTS
    OneDialEach
PROPERTIES
    DialsPermitted
    Reconnects
CHECK_DEADLOCK FALSE
