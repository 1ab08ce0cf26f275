\* 31 halvings of 5 blocks, all within the width of the shift.
SPECIFICATION Spec
CONSTANTS
    HalvingInterval = 5
    InitialIssuance = 50
    ShiftWidth = 32
    CutOff = 64
    LastBlock = 159
INVARIANTS ScheduleTypeOK MatchesSchedule
\* The chain stops at LastBlock.
CHECK_DEADLOCK FALSE
