SPECIFICATION SessionSpec
CONSTANTS
    NoNalu = NoNalu
    NoPacket = NoPacket
    Nalu <- MCNalu
    Frames <- MCFrames
    ArrayLengths <- MCArrayLengths
    PacketSizes <- MCSizes
    SizeMod <- MCSizeMod
    PacketArrayLengths <- MCPacketArrayLengths
    BufferSize = 64
INVARIANTS
    RoundTrip
    LossIsContained
    MarksAgree
