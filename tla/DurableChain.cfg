SPECIFICATION MCSpec
CONSTANTS
    MaxSupply = 18
    BlockReward = 5
    HalvingInterval = 3
    TargetBlockTimeSec = 2
    WordBits = 4
    Checkpoints <- MCCheckpoints
    Hash = {1, 2, 3, 4, 5, 6, 7, 8}
    NoHash = 99
    Times = {0, 1, 2, 3, 4, 5, 6, 7, 8, 9}
    GenesisTime = 0
    LegacyGenesis <- MCLegacyGenesis
    MaxBlocks = 8
INVARIANTS
    SupplyCapped
    EmissionNeverRises
