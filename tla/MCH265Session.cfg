SPECIFICATION SessionSpec
CONSTANTS
    NoNalu = NoNalu
    Nalu <- MCNalu
    Frames <- MCFrames
    ArrayLengths <- MCArrayLengths
    PacketSizes <- MCSizes
    NaluSizeMod <- MCNaluSizeMod
    PacketArrayLengths <- MCPacketArrayLengths
    BufferSizes <- MCBufferSizes
    Strays <- MCStrays
INVARIANTS
    RoundTrip
    LossIsContained
    MarksAgree
    CursorInPacket
PROPERTY
    OkFrameIsComplete
