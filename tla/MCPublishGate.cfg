CONSTANTS
    Tasks = {t1, t2, t3, t4}
    Gates = {g1, g2, g3}
    NoGate = NoGate
    MaxWaiters = 2
SPECIFICATION FairSpec
INVARIANTS
    TypeOK
    OnePublisher
    GateShared
    WaitersExact
PROPERTY EveryPublishAnswered
