SPECIFICATION FairSpec
CONSTANTS
    Loops = {l1, l2}
    OneShots = {o1}
    Mode = "READ_ONLY"
    Observations <- FewObservations
    CycleSeconds = 1
    MaxBackoff = 3
    JournalMax = 2
INVARIANTS
    TypeOK
    OneLoop
    VerdictIsEarned
    JournalKeepsRecent
PROPERTIES
    StopIsObeyed
