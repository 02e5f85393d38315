SPECIFICATION FairSpec
CONSTANTS
    NoPacket = NoPacket
    Packets <- MCPackets
    ArrayLengths <- MCArrayLengths
    NaluSizes <- MCNaluSizes
    FrameSizes <- MCFrameSizes
INVARIANTS
    QueueConsistent
    CursorInPacket
PROPERTIES
    DeliversOnceInOrder
    OkFrameIsComplete
    DrainsWellFormed
