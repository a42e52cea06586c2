SPECIFICATION OperatorSpec
CONSTANTS
    Ids = {i1}
    Opens = {buy}
    None = None
    Threads = {t1, t2}
    MaxPositions = 1
    Faults = {"crash", "silence", "switch_account"}
PROPERTIES
    RequestsAreAnswered
    ReceivedIsCleared
