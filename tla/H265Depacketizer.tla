-------------------------- MODULE H265Depacketizer --------------------------
(***************************************************************************)
(* codec_packetizers/h265/h265_depacketizer.c: the packets of a frame, in  *)
(* a caller-supplied array, become NAL units again, one GetNalu call each, *)
(* or a whole frame at once.  The conventions are those of H264Depacketizer: *)
(* a call writes pieces, bytes of a queued packet or the NAL unit header   *)
(* that a fragment restates, and GetFrame takes a step for each turn of    *)
(* its loop.  Other than there, the result of every kind of packet counts. *)
(***************************************************************************)
EXTENDS H265DataTypes, Sequences

CONSTANTS
    Packets,        \* packets callers add, all WellTyped
    ArrayLengths,   \* array lengths callers pass to H265Depacketizer_Init
    NaluSizes,      \* naluDataLength values callers pass to GetNalu
    FrameSizes,     \* frameDataLength values callers pass to GetFrame
    NoPacket        \* an array slot nothing was stored in

(* `sizes' gives the NAL unit size an aggregation packet holds at each     *)
(* offset where one is read.                                               *)
UnitOffsets(p) ==
    {AP_HEADER_SIZE} \cup
    {at + AP_NALU_LENGTH_FIELD_SIZE + p.sizes[at] : at \in DOMAIN p.sizes}

(* What a packet is to the code, well formed or not.                       *)
WellTyped(p) ==
    /\ p.header \in Header /\ p.fu \in FuHeader
    /\ p.packetDataLength \in Nat
    /\ p.header.type = AP_PACKET_TYPE =>
        /\ DOMAIN p.sizes \subseteq Nat
        /\ \A at \in DOMAIN p.sizes : p.sizes[at] \in Nat
        /\ \A at \in UnitOffsets(p) :
            at + AP_NALU_LENGTH_FIELD_SIZE <= p.packetDataLength =>
                at \in DOMAIN p.sizes

VARIABLES
    packetsArray,   \* pPacketsArray
    packetsArrayLength,
    headIndex,
    tailIndex,
    packetCount,
    curPacketIndex,
    nalu,           \* pieces the last GetNalu wrote
    naluDataLength, \* the length it left in pNalu
    frame,          \* NAL units the last GetFrame has written
    frameIndex,     \* currentFrameDataIndex
    frameDataLength,\* buffer length of the GetFrame call that runs, or 0
    result          \* return code of the last call

queue == <<packetsArray, packetsArrayLength, headIndex>>
reading == <<tailIndex, packetCount, curPacketIndex>>
naluOut == <<nalu, naluDataLength>>
frameOut == <<frame, frameIndex, frameDataLength>>
vars == <<packetsArray, packetsArrayLength, headIndex, tailIndex, packetCount,
          curPacketIndex, nalu, naluDataLength, frame, frameIndex,
          frameDataLength, result>>

STARTCODE_SIZE == 4

Refuse(r) ==
    /\ result' = r
    /\ UNCHANGED <<queue, reading, naluOut, frameOut>>

(* No GetFrame call is running: the caller may call.                       *)
Idle == frameDataLength = 0

-----------------------------------------------------------------------------

H265Depacketizer_Init(n) ==
    \/ n = 0 /\ Refuse("BAD_PARAM")
    \/ /\ n > 0
       /\ packetsArray' = [i \in 0..(n - 1) |-> NoPacket]
       /\ packetsArrayLength' = n
       /\ headIndex' = 0
       /\ tailIndex' = 0
       /\ packetCount' = 0
       /\ curPacketIndex' = 0
       /\ result' = "OK"
       /\ nalu' = << >> /\ naluDataLength' = 0
       /\ frame' = << >> /\ frameIndex' = 0 /\ frameDataLength' = 0

(* Only packetCount is checked: the caller adds all packets of a frame     *)
(* before it reads (README.md, Depacketization), or has counted its slots. *)
SlotFree == tailIndex = 0 \/ headIndex < packetsArrayLength

H265Depacketizer_AddPacket(packet) ==
    /\ SlotFree
    /\ \/ packetCount >= packetsArrayLength /\ Refuse("OUT_OF_MEMORY")
       \/ /\ packetCount < packetsArrayLength
          /\ packetsArray' = [packetsArray EXCEPT ![headIndex] = packet]
          /\ headIndex' = headIndex + 1
          /\ packetCount' = packetCount + 1
          /\ result' = "OK"
          /\ UNCHANGED <<packetsArrayLength, tailIndex, curPacketIndex,
                         naluOut, frameOut>>

-----------------------------------------------------------------------------

Bytes(slot, from, n) ==
    [slot |-> slot, header |-> FALSE, from |-> from, len |-> n]

RestatedHeader(slot) ==
    [slot |-> slot, header |-> TRUE, from |-> 0, len |-> NALU_HEADER_SIZE]

(* The two bytes written for it: F, the type of the FU header, and the     *)
(* second byte of the payload header: TID and all but the top bit of the   *)
(* LayerId, which is in the first.                                         *)
RestatedHeaderBytes(p) ==
    [f |-> p.header.f, type |-> p.fu.type,
     layerId |-> p.header.layerId % 32, tid |-> p.header.tid]

CurrentPacket == packetsArray[tailIndex]

(* tailIndex += n and packetCount -= n.                                    *)
Consume(n) == tailIndex' = tailIndex + n /\ packetCount' = packetCount - n

(* Mutant: a NAL unit that does not fit is skipped, its length zero.       *)
SkipTooLong(size, r) ==
    /\ Consume(1)
    /\ nalu' = IF CurrentPacket.packetDataLength <= size
                    THEN <<Bytes(tailIndex, 0, CurrentPacket.packetDataLength)>>
                    ELSE << >>
    /\ naluDataLength' = IF CurrentPacket.packetDataLength <= size
                            THEN CurrentPacket.packetDataLength ELSE 0
    /\ r = "OK"
    /\ UNCHANGED curPacketIndex

DepacketizeSingleNaluPacket(size, r) ==
    \/ /\ CurrentPacket.packetDataLength <= size
       /\ nalu' = <<Bytes(tailIndex, 0, CurrentPacket.packetDataLength)>>
       /\ naluDataLength' = CurrentPacket.packetDataLength
       /\ Consume(1)
       /\ r = "OK"
       /\ UNCHANGED curPacketIndex
    \/ /\ CurrentPacket.packetDataLength > size
       /\ nalu' = << >>
       /\ naluDataLength' = size
       /\ r = "OUT_OF_MEMORY"
       /\ UNCHANGED reading

(* The i-th packet from the tail, and what its turn of the loop writes.    *)
Fragment(i) == packetsArray[tailIndex + i - 1]

(* Mutant: whatever comes behind a fragment continues it.                  *)
IsFragmentOfAnyType(i) == Fragment(i).packetDataLength >= FuHeadersSize

IsFragment(i) ==
    /\ Fragment(i).packetDataLength >= FuHeadersSize
    /\ Fragment(i).header.type = FU_PACKET_TYPE

HeaderLength(i) == IF Fragment(i).fu.s THEN NALU_HEADER_SIZE ELSE 0

Pieces(i) ==
    LET slot == tailIndex + i - 1
    IN  (IF Fragment(i).fu.s THEN <<RestatedHeader(slot)>> ELSE << >>)
        \o <<Bytes(slot, FuHeadersSize,
                   Fragment(i).packetDataLength - FuHeadersSize)>>

(* What the first i turns have written, and how long it is.                *)
Assembled ==
    LET a[i \in 0..packetCount] == IF i = 0 THEN << >> ELSE a[i - 1] \o Pieces(i)
    IN  a

AssembledLength ==
    LET l[i \in 0..packetCount] ==
            IF i = 0 THEN 0
            ELSE l[i - 1] + HeaderLength(i)
                          + (Fragment(i).packetDataLength - FuHeadersSize)
    IN  l

(* The loop consumes the k fragments it has room for, up to one with the E *)
(* bit, and returns OK if it meets that or the end of the queue.           *)
DepacketizeFragmentationUnitPacket(size, r) ==
    \E k \in 0..packetCount :
        LET length == AssembledLength
            ended == k = packetCount \/ (k > 0 /\ Fragment(k).fu.e)
        IN  /\ \A i \in 1..k : IsFragment(i) /\ length[i] <= size
            /\ \A i \in 1..(k - 1) : ~Fragment(i).fu.e
            /\ Consume(k)
            /\ nalu' = Assembled[k]
            /\ \/ /\ ended
                  /\ r = "OK"
                  /\ naluDataLength' = length[k]
               \/ /\ ~ended
                  /\ ~IsFragment(k + 1)
                  /\ r = "MALFORMED_PACKET"
                  /\ naluDataLength' = length[k]
               \/ /\ ~ended
                  /\ IsFragment(k + 1)
                  /\ length[k + 1] > size
                  /\ r = "OUT_OF_MEMORY"
                  /\ naluDataLength' =
                        IF length[k] + HeaderLength(k + 1) <= size
                            THEN length[k] + HeaderLength(k + 1) ELSE length[k]
            /\ UNCHANGED curPacketIndex

(* Mutant: a packet is done with one byte late.                            *)
MoveToOneLate(index) ==
    \/ /\ index > CurrentPacket.packetDataLength
       /\ curPacketIndex' = 0
       /\ Consume(1)
    \/ /\ index <= CurrentPacket.packetDataLength
       /\ curPacketIndex' = index
       /\ UNCHANGED <<tailIndex, packetCount>>

(* The packet is done with once the index reaches its end.                 *)
MoveTo(index) ==
    \/ /\ index >= CurrentPacket.packetDataLength
       /\ curPacketIndex' = 0
       /\ Consume(1)
    \/ /\ index < CurrentPacket.packetDataLength
       /\ curPacketIndex' = index
       /\ UNCHANGED <<tailIndex, packetCount>>

DepacketizeAggregationPacket(size, r) ==
    LET at == IF curPacketIndex = 0 THEN AP_HEADER_SIZE ELSE curPacketIndex
        data == at + AP_NALU_LENGTH_FIELD_SIZE
        n == CurrentPacket.sizes[at]
    IN  \/ /\ data > CurrentPacket.packetDataLength
           /\ r = "MALFORMED_PACKET"
           /\ nalu' = << >> /\ naluDataLength' = size
           /\ MoveTo(at)
        \/ /\ data <= CurrentPacket.packetDataLength
           /\ data + n > CurrentPacket.packetDataLength
           /\ r = "MALFORMED_PACKET"
           /\ nalu' = << >> /\ naluDataLength' = size
           /\ MoveTo(data + n)
        \/ /\ data <= CurrentPacket.packetDataLength
           /\ data + n <= CurrentPacket.packetDataLength
           /\ \/ n <= size /\ r = "OK" /\ nalu' = <<Bytes(tailIndex, data, n)>>
              \/ n > size /\ r = "OUT_OF_MEMORY" /\ nalu' = << >>
           /\ naluDataLength' = n
           /\ MoveTo(data + n)

SingleType(type) ==
    type \in SINGLE_NALU_PACKET_TYPE_START..SINGLE_NALU_PACKET_TYPE_END

DepacketizeCurrent(size, r) ==
    LET type == CurrentPacket.header.type
    IN  \/ SingleType(type) /\ DepacketizeSingleNaluPacket(size, r)
        \/ type = FU_PACKET_TYPE /\ DepacketizeFragmentationUnitPacket(size, r)
        \/ type = AP_PACKET_TYPE /\ DepacketizeAggregationPacket(size, r)
        \/ /\ ~SingleType(type)
           /\ type \notin {FU_PACKET_TYPE, AP_PACKET_TYPE}
           /\ r = "UNSUPPORTED_PACKET"
           /\ nalu' = << >> /\ naluDataLength' = size
           /\ UNCHANGED reading

ReadResults == {"OK", "OUT_OF_MEMORY", "MALFORMED_PACKET", "UNSUPPORTED_PACKET"}

H265Depacketizer_GetNalu(size) ==
    \/ packetCount = 0 /\ Refuse("NO_MORE_NALUS")
    \/ /\ packetCount # 0
       /\ \E r \in ReadResults : DepacketizeCurrent(size, r) /\ result' = r
       /\ UNCHANGED <<queue, frameOut>>

-----------------------------------------------------------------------------

H265Depacketizer_GetFrame(size) ==
    \/ size = 0 /\ Refuse("BAD_PARAM")
    \/ size # 0 /\ packetCount = 0 /\ Refuse("NO_MORE_FRAMES")
    \/ /\ size # 0
       /\ packetCount # 0
       /\ frame' = << >>
       /\ frameIndex' = 0
       /\ frameDataLength' = size
       /\ UNCHANGED <<queue, reading, naluOut, result>>

(* The call returns r.                                                     *)
EndFrame(r) ==
    /\ result' = r
    /\ frameDataLength' = 0

(* One turn of the loop: a NAL unit behind its start code, if there is     *)
(* room for both; the turn that finds no NAL unit needs that room too.     *)
GetFrameTurn ==
    LET room == frameDataLength - frameIndex - STARTCODE_SIZE
    IN  /\ ~Idle
        /\ \/ /\ room <= 0
              /\ EndFrame("OUT_OF_MEMORY")
              /\ UNCHANGED <<queue, reading, naluOut, frame, frameIndex>>
           \/ /\ room > 0
              /\ packetCount = 0
              /\ EndFrame("OK")
              /\ UNCHANGED <<queue, reading, naluOut, frame, frameIndex>>
           \/ /\ room > 0
              /\ packetCount # 0
              /\ DepacketizeCurrent(room, "OK")
              /\ frame' = Append(frame, nalu')
              /\ frameIndex' = frameIndex + STARTCODE_SIZE + naluDataLength'
              /\ UNCHANGED <<queue, frameDataLength, result>>
           \/ /\ room > 0
              /\ packetCount # 0
              /\ \E r \in ReadResults \ {"OK"} :
                    DepacketizeCurrent(room, r) /\ EndFrame(r)
              /\ UNCHANGED <<queue, frame, frameIndex>>

(* Every function answers a NULL argument this way and does nothing else.  *)
NullArgument == Refuse("BAD_PARAM")

-----------------------------------------------------------------------------

(* Mutant: only a first fragment starts, and nothing else ends.            *)
PropertiesWithoutApEnd(p) ==
    IF p.header.type = FU_PACKET_TYPE
        THEN (IF p.fu.s THEN {"START"} ELSE {}) \cup (IF p.fu.e THEN {"END"} ELSE {})
    ELSE IF p.header.type = AP_PACKET_TYPE THEN {"START"}
    ELSE {"START", "END"}

(* H265Depacketizer_GetPacketProperties, a pure function.                  *)
GetPacketProperties(p) ==
    IF p.packetDataLength < NALU_HEADER_SIZE THEN "BAD_PARAM"
    ELSE IF SingleType(p.header.type) \/ p.header.type = AP_PACKET_TYPE
        THEN {"START", "END"}
    ELSE IF p.header.type # FU_PACKET_TYPE THEN "UNSUPPORTED_PACKET"
    ELSE IF p.packetDataLength < FuHeadersSize THEN "MALFORMED_PACKET"
    ELSE (IF p.fu.s THEN {"START"} ELSE {}) \cup (IF p.fu.e THEN {"END"} ELSE {})

-----------------------------------------------------------------------------

(* Callers start with a successful H265Depacketizer_Init.                  *)
Init ==
    /\ packetsArrayLength \in ArrayLengths \ {0}
    /\ packetsArray = [i \in 0..(packetsArrayLength - 1) |-> NoPacket]
    /\ headIndex = 0
    /\ tailIndex = 0
    /\ packetCount = 0
    /\ curPacketIndex = 0
    /\ nalu = << >>
    /\ naluDataLength = 0
    /\ frame = << >>
    /\ frameIndex = 0
    /\ frameDataLength = 0
    /\ result = "OK"

GetNalu == Idle /\ \E size \in NaluSizes : H265Depacketizer_GetNalu(size)

GetFrame == Idle /\ \E size \in FrameSizes : H265Depacketizer_GetFrame(size)

Next ==
    \/ Idle /\ \E n \in ArrayLengths : H265Depacketizer_Init(n)
    \/ Idle /\ \E p \in Packets : H265Depacketizer_AddPacket(p)
    \/ GetNalu
    \/ GetFrame
    \/ GetFrameTurn
    \/ Idle /\ NullArgument

Spec == Init /\ [][Next]_vars

-----------------------------------------------------------------------------

(* The indices of the packet array agree, the head index, never checked by *)
(* AddPacket, stays in the array, and the slots read were written.         *)
QueueConsistent ==
    /\ headIndex = tailIndex + packetCount
    /\ headIndex <= packetsArrayLength
    /\ \A i \in 0..(headIndex - 1) : packetsArray[i] \in Packets

(* The offset kept between two GetNalu calls is the boundary of a NAL unit *)
(* inside the aggregation packet now at the tail, never one left over from *)
(* a packet that is gone.                                                  *)
CursorInPacket ==
    curPacketIndex # 0 =>
        /\ packetCount > 0
        /\ CurrentPacket.header.type = AP_PACKET_TYPE
        /\ curPacketIndex < CurrentPacket.packetDataLength
        /\ curPacketIndex \in UnitOffsets(CurrentPacket)

NaluLength(pieces) ==
    LET l[i \in 0..Len(pieces)] == IF i = 0 THEN 0 ELSE l[i - 1] + pieces[i].len
    IN  l[Len(pieces)]

FrameLength(nalus) ==
    LET l[i \in 0..Len(nalus)] ==
            IF i = 0 THEN 0 ELSE l[i - 1] + STARTCODE_SIZE + NaluLength(nalus[i])
    IN  l[Len(nalus)]

(* A GetFrame that returns OK has delivered something of every packet, in  *)
(* a frame whose length is that of the NAL units in it and fits the buffer. *)
OkFrameIsComplete ==
    [][~Idle /\ Idle' /\ result' = "OK" =>
        /\ packetCount' = 0
        /\ \A i \in DOMAIN frame' : frame'[i] # << >>
        /\ frameIndex' = FrameLength(frame')
        /\ frameIndex' <= frameDataLength]_vars
=============================================================================
