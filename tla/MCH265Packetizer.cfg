SPECIFICATION FairSpec
CONSTANTS
    NoNalu = NoNalu
    Nalu <- MCNalu
    Frames <- MCFrames
    ArrayLengths <- MCArrayLengths
    PacketSizes <- MCSizes
    NaluSizeMod <- MCNaluSizeMod
INVARIANTS
    FuStateConsistent
PROPERTIES
    PacketFitsBuffer
    ImplementsStream
    ReachesNoMorePackets
