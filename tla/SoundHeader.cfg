SPECIFICATION DevicesSpec
CONSTANTS
    Devices = {"sound"}
    Base = 2
    SaveSizes = {2, 4}
    Uninit = 1
    MaxAddr = 3
    MaxDetect = 7
    MaxStored = 1
    TimerNums = 3
    Values = 2
    Units = {2}
    Reloads = {0, 1}
    Asking = {1, 2}
    MaxLate = 2
    GxSlots = 2
    GxFormats = {"QUAD_STRIP", "TRIANGLE_STRIP"}
    GxBatch = 2
    PolyListSize = 2
    MaxVertices = 6
    MaxQueue = 0
    WaitsForSwap = TRUE
    BankOrder <- MCBankOrder
    Purposes <- MCPurposes
    Texels = {0, 1}
    TexKeys <- MCTexKeys
    MaxCacheSize = 2
    Irqs = {"vblank", "ipc"}
    WaitSets = {{"vblank"}, {"vblank", "ipc"}}
    RomSize = 19
    CardSize = 32
    BlockWords = 4
    SecureStart = 4
    SecureWords = 8
    ReadStart = 12
    RedirectWords = 2
    Addresses7 = {1, 14, 18}
    BlockSizes = {0, 2}
    MaxExtra = 1
    MaxWords = 5
    SyncValues = {0, 7, 8}
    RtcTransfers = {1, 2, 4}
    RtcBytes <- MCBytes
    Moments <- MCMoments
    Sounds <- MCSounds
    Rates = {4, 5}
    Fraction = 2
PROPERTY LoopRecovered
CHECK_DEADLOCK FALSE
