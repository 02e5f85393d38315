SPECIFICATION HistorySpec
CONSTANTS
    p1 = p1
    p2 = p2
    NoPacket = NoPacket
    NoInfo = NoInfo
    SeqMod <- MCSeqMod
    SeqNum <- MCSeqNum
    Packet <- MCPacket
    Lengths <- MCLengths
PROPERTIES
    RetransmitsLatest
    DeletesOldest
