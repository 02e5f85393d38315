SPECIFICATION Spec
CONSTANTS
    Packets <- MCPackets
    BufferLengths <- MCBufferLengths
    Fill = 254
    Strays <- MCStrays
    TwccFields <- MCTwccFields
    MaxCalls = 3
INVARIANTS
    RoundTrip
    WireFormat
    ReadsInsidePacket
PROPERTIES
    RepeatAgrees
