SPECIFICATION SessionSpec
CONSTANTS
    NoNalu = NoNalu
    Nalu <- TrailN
    Frames <- TrailNFrames
    ArrayLengths <- MCArrayLengths
    PacketSizes <- MCSizes
    NaluSizeMod <- MCNaluSizeMod
    PacketArrayLengths <- MCPacketArrayLengths
    BufferSizes <- MCBufferSizes
    Strays <- NoStrays
INVARIANT
    RoundTrip
