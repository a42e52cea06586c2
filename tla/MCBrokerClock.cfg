SPECIFICATION Spec
CONSTANTS
    Symbols = {eurusd}
    Readers = {r1, r2}
    HalfHour = 5
    Tolerance = 1
    MaxOffset = 5
    MaxAge = 1
    MaxFutureSkew = 1
    Zones <- SomeZones
    Skews <- SomeSkews
    MaxNow = 6
    None = None
SYMMETRY Symmetry
INVARIANTS
    TypeOK
    CorrectedByHalfHours
    UsedIsFreshUpToHalfHours
PROPERTIES
    NewTickIsExact
