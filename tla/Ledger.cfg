SPECIFICATION Spec
CONSTANTS
    MaxSupply = 14
    BlockReward = 8
    HalvingInterval = 2
    TargetBlockTimeSec = 2
    WordBits = 6
    Checkpoints <- MCCheckpoints
    alice = alice
    bob = bob
    Addr = {alice, bob}
    Transfers <- TwoTransfers
    Hash = {0, 1, 2, 3, 4, 5}
    NoHash = 99
    HeaderBytes = 1
    MaxBlockSizeBytes = 9
    t1 = t1
    t2 = t2
    Threads = {t1}
    Handlers = {}
    MinerChoices = {alice}
    InitialDifficulties = {3}
    GenesisHashes <- GenesisFixed
    GenesisTime = 2
    LegacyGenesis <- MCLegacyGenesis
    Clock = {0, 9}
    HeaderReserve = 2
    MayCrash = TRUE
    DiskFaults = FALSE
    Reorgs = TRUE
    PeerTransfers <- NoPeerTransfers
    MaxHeight = 2
    MaxMempool = 2
INVARIANTS
    TypeOK
    ChainValid
    SupplyWithinCap
    RestartSafe
    NothingLostOnRestart
    StateIsReplay
    ValueConserved
    GeneratedBlockValid
PROPERTIES
    ImplementsDurableChain
