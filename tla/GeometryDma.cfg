SPECIFICATION DmaSpec
CONSTANTS
    Order <- MCOrder
    Arm9Dma = {"dma_0_0", "dma_0_1"}
    Programs <- MCPrograms
    Rewriters = {"dma_0_1"}
    Drawn = 1
    Low = 1
    Full = 3
    DmaBatch = 1
    FifoBatch = 1
    LineWords = 1
    MaxCount = 2
    WordSpace = 4
    MaxFifo = 1
    Packed <- MCPacked
INVARIANTS DmaTypeOK FifoBounded FrozenUntilEvent
PROPERTIES CompletionMeansMoved TransfersEnd NoOldTriggers
