SPECIFICATION Spec
CONSTANTS
    Nodes = {n1}
    Tasks = {t1, t2, t3}
    BlockSize = 2
    MaxAttempts = 2
    Requests = {"plain"}
    Faults = {}
INVARIANTS
    Gapless
CHECK_DEADLOCK FALSE
