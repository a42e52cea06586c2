SPECIFICATION Spec
CONSTANTS
    Symbols = {eurusd}
    Readers = {r1}
    HalfHour = 5
    Tolerance = 1
    MaxOffset = 5
    MaxAge = 1
    MaxFutureSkew = 1
    Zones <- SomeZones
    Skews <- SomeSkews
    MaxNow = 6
    None = None
PROPERTIES
    StaleTickKeepsItsTime
