SPECIFICATION Spec
CONSTANTS
    Ids = {i1, i2}
    Opens = {buy}
    None = None
    Threads = {t1, t2}
    MaxPositions = 1
    Faults = {"crash", "raise"}
SYMMETRY Symmetry
INVARIANTS
    TypeOK
    AtMostOneSend
    DefiniteAnswers
    NoLostDeal
    ReceivedIsPreSubmission
    OneOwner
PROPERTIES
    TerminalIsFinal
    NoOpenAfterOrphan
    LedgerRefined
