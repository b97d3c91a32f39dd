CONSTANTS
    S1 = S1
    S2 = S2
    Streams = {S1, S2}
    NoStream = NoStream
    NoBuffer = NoBuffer
    MaxBufferSize = 2
    MaxSerial = 3
    MaxPending = 2
SPECIFICATION Spec
INVARIANTS
    TypeOK
    BufferSound
    LookupExact
PROPERTY HeadNeverRetreats
