SPECIFICATION Spec
CONSTANTS
    Nodes = {n1}
    NoPosition = NoPosition
    NoStream = NoStream
    NoBuffer = NoBuffer
    Streams = {1, 2, 3, 4, 5, 6}
    Backends = {"sql"}
    MaxFailures = 0
    MaxRestarts = 0
    MaxExpiries = 0
    MaxEvictions = 0
    MaxSerial = 2
    MaxConnects = 2
    GateCapacity = 1
    PageSize = 1
    MaxBufferSize = 2
INVARIANTS CheckpointResumes
CHECK_DEADLOCK FALSE
