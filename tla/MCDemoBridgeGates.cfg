SPECIFICATION GatesSpec
CONSTANTS
    Ids = {i1, i2}
    Opens = {buy}
    None = None
    Threads = {t1, t2}
    MaxPositions = 1
    Faults = {"crash", "switch_account"}
SYMMETRY Symmetry
INVARIANTS
    OpensPassedTheirGates
    AtMostMaxPositions
