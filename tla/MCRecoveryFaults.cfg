SPECIFICATION FairSpec
CONSTANTS
    Nodes = {n1}
    NoPosition = NoPosition
    NoStream = NoStream
    NoBuffer = NoBuffer
    Streams = {1, 2, 3, 4, 5, 6}
    Backends = {"none", "memory", "sql"}
    MaxFailures = 1
    MaxRestarts = 1
    MaxExpiries = 1
    MaxEvictions = 1
    MaxSerial = 2
    MaxConnects = 2
    GateCapacity = 1
    PageSize = 1
    MaxBufferSize = 2
INVARIANTS TypeOK ResumeCovers ReplayContiguous
PROPERTIES GateHolds StreamResumes HandlerFinishes
CHECK_DEADLOCK FALSE
