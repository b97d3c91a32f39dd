SPECIFICATION Spec
CONSTANTS
    Nodes = {n1, n2}
    NoPosition = NoPosition
    NoStream = NoStream
    NoBuffer = NoBuffer
    Streams = {1, 2, 3, 4, 5, 6}
    Backends = {"sql"}
    MaxFailures = 0
    MaxRestarts = 0
    MaxExpiries = 1
    MaxEvictions = 1
    MaxSerial = 2
    MaxConnects = 2
    GateCapacity = 2
    PageSize = 1
    MaxBufferSize = 1
INVARIANTS AckCovers ResumeCovers
CHECK_DEADLOCK FALSE
