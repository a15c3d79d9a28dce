SPECIFICATION Spec
CONSTANTS
    Ops = {"halt", "ie", "ime", "irq", "sleep"}
    DispIrqs = {"arm9"}
    Costs <- MCCosts
    MaxWork = 4
    IrqWait = 4
    Duration <- MCDuration
    Lines = 3
    VBlankLine = 1
    LastLine = 2
    UnitCycles = {2}
    DmaCycles = {1}
    FlushCycles = 1
    Full = 2
    Batch = 2
    Bursts = {1}
    MaxFifo = 3
INVARIANTS TypeOK PromptDelivery
PROPERTIES WaitersWake FramesEnd
