\* Two nodes, five blocks that could follow each other faster than time passes.
SPECIFICATION FairClockSpec
CONSTANTS
    Node = {n1, n2}
    SlotDuration = 4
    MaxDrift = 3
    MaxSkew = 2
    Launch = 1
    MaxClock = 9
    MaxBlocks = 5
    NoTemplate = NoTemplate
INVARIANTS ClockTypeOK NotAheadOfClock RateIsBounded
PROPERTIES GrowsWithTime
\* The clocks stop at MaxClock and the chain at MaxBlocks.
CHECK_DEADLOCK FALSE
