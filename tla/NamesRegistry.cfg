SPECIFICATION Spec
CONSTANTS
    alice = alice  bob = bob  k1 = k1  k2 = k2
    n1 = n1  p1 = p1  p2 = p2  h1 = h1  h2 = h2
    Zero = Zero  Absent = Absent  Unbound = Unbound
    Names <- MCNames
    Keys <- MCKeys
    Publications <- MCPublications
    Hashes <- MCHashes
    Txids <- MCTxids
    Rec <- MCRec
    Policies <- MCPolicies
    ExpiryBlocks = 2
    RevealMax = 1
    GenesisHeight = 1
    Earlier <- MCEarlier
    First <- MCFirst
    Keeps <- KeepOne
    Slots <- TwoSlots
    MaxU64 = 8
INVARIANTS
    ExpiryIndexExact
    UndoExact
    ServedTargetApproved
    NoLingeringVotes
PROPERTIES
    OwnerUntilExpiry
CHECK_DEADLOCK FALSE
