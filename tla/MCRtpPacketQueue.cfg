SPECIFICATION Spec
CONSTANTS
    p1 = p1
    p2 = p2
    NoPacket = NoPacket
    NoInfo = NoInfo
    SeqNum <- MCSeqNum
    Packet <- MCPacket
    Lengths <- MCLengths
INVARIANTS
    IndicesAgree
    LiveSlotsStored
PROPERTY
    ImplementsFifo
