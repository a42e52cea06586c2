SPECIFICATION Spec
CONSTANTS
    Ids = {i1, i2}
    Opens = {buy}
    None = None
    Threads = {t1}
    MaxPositions = 1
    Faults = {"crash", "raise"}
SYMMETRY Symmetry
PROPERTIES
    LeftoverIsNotResubmitted
