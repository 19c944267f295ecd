SPECIFICATION FairSpec
CONSTANTS
    Blocks <- MCBlocks
    Chains <- MCChains
    GenesisHeight = 1
    GenesisBlocks <- MCGenesisBlocks
    CommitsIn <- MCCommitsIn
    RevealsIn <- MCRevealsIn
    RevealMax = 2
    Reversible = 2
    MaxBlocks = 2
    None = None
INVARIANTS
    PersistedSound
    OnlyMixedDiffers
PROPERTIES
    SyncEnds
