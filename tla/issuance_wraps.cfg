\* Past the 32nd halving, to the cut-off and beyond.
SPECIFICATION Spec
CONSTANTS
    HalvingInterval = 5
    InitialIssuance = 50
    ShiftWidth = 32
    CutOff = 64
    LastBlock = 330
INVARIANTS ZeroWhenShiftUndefined
\* The chain stops at LastBlock.
CHECK_DEADLOCK FALSE
