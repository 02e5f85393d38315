SPECIFICATION FairSpec
CONSTANTS
    NoNalu = NoNalu
    NoPacket = NoPacket
    Nalu <- MCNalu
    Frames <- MCFrames
    ArrayLengths <- MCArrayLengths
    PacketSizes <- MCSizes
    SizeMod <- MCSizeMod
INVARIANTS
    TypeOK
    QueueConsistent
    FuStateConsistent
PROPERTIES
    PacketFitsBuffer
    ImplementsStream
    ReachesNoMorePackets
