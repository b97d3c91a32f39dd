SPECIFICATION FairSpec
CONSTANTS
    Nodes = {n1, n2}
    Tasks = {t1, t2, t3}
    BlockSize = 2
    MaxAttempts = 2
    Requests = {"plain", "after", "commit"}
    Faults = {"fail", "cancel"}
INVARIANTS
    TypeOK
    SerialsUnique
    AfterRespected
    SingleFlight
PROPERTIES
    NodeOrdered
    EveryRequestAnswered
CHECK_DEADLOCK FALSE
