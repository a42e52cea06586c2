SPECIFICATION Spec
CONSTANTS
    Probes = {p1, p2}
    Foreign = Foreign
    None = None
SYMMETRY Symmetry
INVARIANTS
    AtMostOneCycle
