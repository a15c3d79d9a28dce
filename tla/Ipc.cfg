SPECIFICATION Spec
CONSTANTS
    arm9 = arm9
    arm7 = arm7
    Procs = {arm9, arm7}
    Words <- MCWords
    Depth = 2
    CntWrites <- MCCntWrites
SYMMETRY CPUs
INVARIANTS TypeOK RingsConsistent StatusBitsExact
PROPERTIES EdgesLatched ChannelSpec
