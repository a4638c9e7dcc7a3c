SPECIFICATION DaemonSpec
CONSTANTS
    MaxSupply = 30
    BlockReward = 8
    HalvingInterval = 2
    TargetBlockTimeSec = 2
    WordBits = 6
    Checkpoints <- MCCheckpoints
    alice = alice
    bob = bob
    Addr = {alice, bob}
    Transfers <- OneTransfer
    Hash = {0, 1, 2, 3, 4, 5}
    NoHash = 99
    HeaderBytes = 1
    MaxBlockSizeBytes = 9
    carol = carol
    dave = dave
    loop = loop
    handler = handler
    Threads = {loop, handler}
    Handlers = {handler}
    MinerChoices = {alice}
    InitialDifficulties = {1, 3}
    GenesisHashes <- SameGenesis
    GenesisTime = 2
    LegacyGenesis <- MCLegacyGenesis
    Clock = {9}
    HeaderReserve = 2
    MayCrash = FALSE
    DiskFaults = FALSE
    Reorgs = FALSE
    PeerTransfers <- NoPeerTransfers
    MaxHeight = 2
    MaxMempool = 2
    Creates = {}
    OldAccounts <- AliceOnly
    CreatesOverlap = FALSE
    CreatesFail = FALSE
    DaemonDifficulty = 3
    CliDifficulty = 1
    GenerateCounts = {1}
INVARIANTS
    ChainValid
CHECK_DEADLOCK FALSE
