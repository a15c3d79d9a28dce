SPECIFICATION Spec
CONSTANTS
    CoreCounts <- MCCoreCounts
    BitAnd <- MCBitAnd
    SetupCores = 4
    Height = 5
    MaxFrames = 3
INVARIANT CapturedLayerWhole
