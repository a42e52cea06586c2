SPECIFICATION FairSpec
CONSTANTS
    Probes = {p1, p2}
    Foreign = Foreign
    None = None
INVARIANTS
    TypeOK
    ExposureIsOnRecord
    ClosedIsTrue
    SuccessIsTrue
PROPERTIES
    AmbiguityIsFinal
    ProbesEnd
