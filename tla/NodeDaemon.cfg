SPECIFICATION DaemonSpec
CONSTANTS
    MaxSupply = 30
    BlockReward = 8
    HalvingInterval = 2
    TargetBlockTimeSec = 2
    WordBits = 6
    Checkpoints <- MCCheckpoints
    alice = alice
    bob = bob
    Addr = {alice, bob, carol, dave}
    Transfers <- ThreeTransfers
    Hash = {0, 1, 2, 3, 4, 5}
    NoHash = 99
    HeaderBytes = 1
    MaxBlockSizeBytes = 9
    loop = loop
    handler = handler
    Threads = {loop, handler}
    Handlers = {handler}
    MinerChoices = {alice}
    InitialDifficulties = {1, 3}
    GenesisHashes <- SameGenesis
    GenesisTime = 2
    LegacyGenesis <- MCLegacyGenesis
    Clock = {9}
    HeaderReserve = 2
    MayCrash = TRUE
    DiskFaults = FALSE
    Reorgs = FALSE
    PeerTransfers <- NoPeerTransfers
    MaxHeight = 3
    MaxMempool = 2
    carol = carol
    dave = dave
    Creates = {carol}
    OldAccounts <- AliceAndDave
    CreatesOverlap = FALSE
    CreatesFail = TRUE
    DaemonDifficulty = 3
    CliDifficulty = 1
    GenerateCounts = {}
INVARIANTS
    SendAtomic
    MinedOnce
    KeysKept
    MinesForOldest
CHECK_DEADLOCK FALSE
