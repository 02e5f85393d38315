SPECIFICATION Spec
CONSTANTS
    NoPacket = NoPacket
    FrameLengths <- MCFrameLengths
    PacketSizes <- MCPacketSizes
    ArrayLengths <- MCArrayLengths
    BufferSizes <- MCBufferSizes
    FrameInfos <- MCFrameInfos
    Junk <- MCJunk
PROPERTIES
    RoundTrip
    NoFrameFromTruncated
    FrameBufferSuffices
    ImplementsStream
    ReachesNoMorePackets
