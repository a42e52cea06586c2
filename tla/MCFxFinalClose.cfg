SPECIFICATION MCSpec
CONSTANTS
    Lots = 1
    VolumeMin = 1
    VolumeMax = 3
    VolumeStep = 2
    ContractSize = 2
    Point = 1
    Slippage = 1
    Commission = 1
    LongSwap = 3
    ShortSwap <- ShortCredit
    TripleWeekday = 2
    DayLength = 4
    RolloverHours = {0, 1}
    InitialBalance = 14
    Length = 4
    Gaps = {1, 7}
CHECK_DEADLOCK FALSE
INVARIANTS
    InsolvencyIsRecorded
