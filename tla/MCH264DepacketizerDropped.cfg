SPECIFICATION FrameSpec
CONSTANTS
    NoPacket = NoPacket
    Packets <- SinglePackets
    ArrayLengths <- OneLength
    NaluSizes <- SmallSizes
    FrameSizes <- NoSizes
PROPERTY
    DrainsOrFails
