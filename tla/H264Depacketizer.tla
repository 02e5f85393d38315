-------------------------- MODULE H264Depacketizer --------------------------
(***************************************************************************)
(* codec_packetizers/h264/h264_depacketizer.c: the packets of a frame, in  *)
(* a caller-supplied array, become NAL units again, one GetNalu call each, *)
(* or a whole frame at once.                                               *)
(*                                                                         *)
(* What a call writes into the caller's buffer is a sequence of pieces:    *)
(* bytes of a queued packet, or the NAL unit header that an FU-A packet    *)
(* restates.  Only H264Depacketizer_GetFrame takes more than one step, one *)
(* for each turn of its loop.                                              *)
(***************************************************************************)
EXTENDS H264DataTypes, Sequences

CONSTANTS
    Packets,        \* packets callers add (see PacketsAssumption)
    ArrayLengths,   \* array lengths callers pass to H264Depacketizer_Init
    NaluSizes,      \* naluDataLength values callers pass to GetNalu
    FrameSizes,     \* frameDataLength values callers pass to GetFrame
    NoPacket        \* an array slot nothing was stored in

(* `sizes' gives the NAL unit size a STAP-A packet holds at each offset    *)
(* where one is read.                                                      *)
UnitOffsets(p) ==
    {STAP_A_HEADER_SIZE} \cup
    {at + STAP_A_NALU_SIZE + p.sizes[at] : at \in DOMAIN p.sizes}

ASSUME PacketsAssumption ==
    \A p \in Packets :
        /\ p.first \in HeaderByte /\ p.fu \in FuHeader
        /\ p.packetDataLength \in Nat
        /\ p.first.type = STAP_A_PACKET_TYPE =>
            /\ DOMAIN p.sizes \subseteq Nat
            /\ \A at \in DOMAIN p.sizes : p.sizes[at] \in Nat
            /\ \A at \in UnitOffsets(p) :
                at + STAP_A_NALU_SIZE <= p.packetDataLength =>
                    at \in DOMAIN p.sizes

ASSUME LengthsAssumption ==
    /\ ArrayLengths \subseteq Nat
    /\ NaluSizes \subseteq Nat
    /\ FrameSizes \subseteq Nat

VARIABLES
    packetsArray,   \* pPacketsArray
    packetsArrayLength,
    headIndex,
    tailIndex,
    packetCount,
    curPacketIndex,
    nalu,           \* pieces the last GetNalu wrote
    naluDataLength, \* the length it left in pNalu
    frame,          \* NAL units the last GetFrame has written
    frameIndex,     \* currentFrameDataIndex
    frameDataLength,\* buffer length of the GetFrame call that runs, or 0
    result          \* return code of the last call

queue == <<packetsArray, packetsArrayLength, headIndex>>
reading == <<tailIndex, packetCount, curPacketIndex>>
naluOut == <<nalu, naluDataLength>>
frameOut == <<frame, frameIndex, frameDataLength>>
vars == <<packetsArray, packetsArrayLength, headIndex, tailIndex, packetCount,
          curPacketIndex, nalu, naluDataLength, frame, frameIndex,
          frameDataLength, result>>

STARTCODE_SIZE == 4

Refuse(r) ==
    /\ result' = r
    /\ UNCHANGED <<queue, reading, naluOut, frameOut>>

(* No GetFrame call is running: the caller may call.                       *)
Idle == frameDataLength = 0

-----------------------------------------------------------------------------

H264Depacketizer_Init(n) ==
    \/ n = 0 /\ Refuse("BAD_PARAM")
    \/ /\ n > 0
       /\ packetsArray' = [i \in 0..(n - 1) |-> NoPacket]
       /\ packetsArrayLength' = n
       /\ headIndex' = 0
       /\ tailIndex' = 0
       /\ packetCount' = 0
       /\ curPacketIndex' = 0
       /\ result' = "OK"
       /\ nalu' = << >> /\ naluDataLength' = 0
       /\ frame' = << >> /\ frameIndex' = 0 /\ frameDataLength' = 0

(* As in H264Packetizer, only packetCount is checked: the caller adds all  *)
(* packets of a frame first (README.md, Depacketization), or has counted.  *)
SlotFree == tailIndex = 0 \/ headIndex < packetsArrayLength

H264Depacketizer_AddPacket(packet) ==
    /\ SlotFree
    /\ \/ packetCount >= packetsArrayLength /\ Refuse("OUT_OF_MEMORY")
       \/ /\ packetCount < packetsArrayLength
          /\ packetsArray' = [packetsArray EXCEPT ![headIndex] = packet]
          /\ headIndex' = headIndex + 1
          /\ packetCount' = packetCount + 1
          /\ result' = "OK"
          /\ UNCHANGED <<packetsArrayLength, tailIndex, curPacketIndex,
                         naluOut, frameOut>>

-----------------------------------------------------------------------------

Bytes(slot, from, n) ==
    [slot |-> slot, header |-> FALSE, from |-> from, len |-> n]

RestatedHeader(slot) ==
    [slot |-> slot, header |-> TRUE, from |-> 0, len |-> NALU_HEADER_SIZE]

(* The byte written for it: NRI of the FU indicator, type of the FU header. *)
RestatedHeaderByte(p) == [f |-> 0, nri |-> p.first.nri, type |-> p.fu.type]

CurrentPacket == packetsArray[tailIndex]

(* Mutant: a call that consumes fragments counts one packet.               *)
ConsumeCountsOne(n) == tailIndex' = tailIndex + n /\ packetCount' = packetCount - 1

(* tailIndex += n and packetCount -= n.                                    *)
Consume(n) == tailIndex' = tailIndex + n /\ packetCount' = packetCount - n

(* Mutant: a NAL unit that does not fit is skipped, its length zero.       *)
SkipTooLong(size, r) ==
    /\ Consume(1)
    /\ \/ /\ CurrentPacket.packetDataLength <= size
          /\ nalu' = <<Bytes(tailIndex, 0, CurrentPacket.packetDataLength)>>
          /\ naluDataLength' = CurrentPacket.packetDataLength
          /\ r = "OK"
       \/ /\ CurrentPacket.packetDataLength > size
          /\ nalu' = << >>
          /\ naluDataLength' = 0
          /\ r = "OUT_OF_MEMORY"
    /\ UNCHANGED curPacketIndex

DepacketizeSingleNaluPacket(size, r) ==
    \/ /\ CurrentPacket.packetDataLength <= size
       /\ nalu' = <<Bytes(tailIndex, 0, CurrentPacket.packetDataLength)>>
       /\ naluDataLength' = CurrentPacket.packetDataLength
       /\ Consume(1)
       /\ r = "OK"
       /\ UNCHANGED curPacketIndex
    \/ /\ CurrentPacket.packetDataLength > size
       /\ nalu' = << >>
       /\ naluDataLength' = size
       /\ r = "OUT_OF_MEMORY"
       /\ UNCHANGED reading

(* The i-th packet from the tail, and what its turn of the loop writes.    *)
Fragment(i) == packetsArray[tailIndex + i - 1]

(* Mutant: whatever comes behind a fragment continues it.                  *)
IsFragmentOfAnyType(i) == Fragment(i).packetDataLength >= FU_A_HEADER_SIZE

IsFragment(i) ==
    /\ Fragment(i).packetDataLength >= FU_A_HEADER_SIZE
    /\ Fragment(i).first.type = FU_A_PACKET_TYPE

HeaderLength(i) == IF Fragment(i).fu.s THEN NALU_HEADER_SIZE ELSE 0

Pieces(i) ==
    LET slot == tailIndex + i - 1
    IN  (IF Fragment(i).fu.s THEN <<RestatedHeader(slot)>> ELSE << >>)
        \o <<Bytes(slot, FU_A_HEADER_SIZE,
                   Fragment(i).packetDataLength - FU_A_HEADER_SIZE)>>

(* What the first i turns have written, and how long it is.                *)
Assembled ==
    LET a[i \in 0..packetCount] == IF i = 0 THEN << >> ELSE a[i - 1] \o Pieces(i)
    IN  a

AssembledLength ==
    LET l[i \in 0..packetCount] ==
            IF i = 0 THEN 0
            ELSE l[i - 1] + HeaderLength(i)
                          + (Fragment(i).packetDataLength - FU_A_HEADER_SIZE)
    IN  l

(* The loop consumes the k fragments it has room for, up to one with the E *)
(* bit, and returns OK if it meets that or the end of the queue.           *)
DepacketizeFragmentationUnitPacket(size, r) ==
    \E k \in 0..packetCount :
        LET length == AssembledLength
            ended == k = packetCount \/ (k > 0 /\ Fragment(k).fu.e)
        IN  /\ \A i \in 1..k : IsFragment(i) /\ length[i] <= size
            /\ \A i \in 1..(k - 1) : ~Fragment(i).fu.e
            /\ Consume(k)
            /\ nalu' = Assembled[k]
            /\ \/ /\ ended
                  /\ r = "OK"
                  /\ naluDataLength' = length[k]
               \/ /\ ~ended
                  /\ ~IsFragment(k + 1)
                  /\ r = "MALFORMED_PACKET"
                  /\ naluDataLength' = length[k]
               \/ /\ ~ended
                  /\ IsFragment(k + 1)
                  /\ length[k + 1] > size
                  /\ r = "OUT_OF_MEMORY"
                  /\ naluDataLength' =
                        IF length[k] + HeaderLength(k + 1) <= size
                            THEN length[k] + HeaderLength(k + 1) ELSE length[k]
            /\ UNCHANGED curPacketIndex

(* Mutants: one byte late, and restarted instead of consumed.              *)
MoveToOneLate(index) ==
    \/ /\ index > CurrentPacket.packetDataLength
       /\ curPacketIndex' = 0
       /\ Consume(1)
    \/ /\ index <= CurrentPacket.packetDataLength
       /\ curPacketIndex' = index
       /\ UNCHANGED <<tailIndex, packetCount>>

MoveToRestarts(index) ==
    /\ curPacketIndex' = IF index >= CurrentPacket.packetDataLength THEN 0 ELSE index
    /\ UNCHANGED <<tailIndex, packetCount>>

(* The packet is done with once the index reaches its end.                 *)
MoveTo(index) ==
    \/ /\ index >= CurrentPacket.packetDataLength
       /\ curPacketIndex' = 0
       /\ Consume(1)
    \/ /\ index < CurrentPacket.packetDataLength
       /\ curPacketIndex' = index
       /\ UNCHANGED <<tailIndex, packetCount>>

DepacketizeAggregationPacket(size, r) ==
    LET at == IF curPacketIndex = 0 THEN STAP_A_HEADER_SIZE ELSE curPacketIndex
        data == at + STAP_A_NALU_SIZE
        n == CurrentPacket.sizes[at]
    IN  \/ /\ data > CurrentPacket.packetDataLength
           /\ r = "MALFORMED_PACKET"
           /\ nalu' = << >> /\ naluDataLength' = size
           /\ MoveTo(at)
        \/ /\ data <= CurrentPacket.packetDataLength
           /\ data + n > CurrentPacket.packetDataLength
           /\ r = "MALFORMED_PACKET"
           /\ nalu' = << >> /\ naluDataLength' = size
           /\ MoveTo(data + n)
        \/ /\ data <= CurrentPacket.packetDataLength
           /\ data + n <= CurrentPacket.packetDataLength
           /\ \/ n <= size /\ r = "OK" /\ nalu' = <<Bytes(tailIndex, data, n)>>
              \/ n > size /\ r = "OUT_OF_MEMORY" /\ nalu' = << >>
           /\ naluDataLength' = n
           /\ MoveTo(data + n)

SingleType(type) ==
    type \in SINGLE_NALU_PACKET_TYPE_START..SINGLE_NALU_PACKET_TYPE_END

(* The result of DepacketizeSingleNaluPacket is dropped: r is OK anyway.   *)
DepacketizeCurrent(size, r) ==
    LET type == CurrentPacket.first.type
    IN  \/ /\ SingleType(type)
           /\ r = "OK"
           /\ \E dropped \in {"OK", "OUT_OF_MEMORY"} :
                DepacketizeSingleNaluPacket(size, dropped)
        \/ type = FU_A_PACKET_TYPE /\ DepacketizeFragmentationUnitPacket(size, r)
        \/ type = STAP_A_PACKET_TYPE /\ DepacketizeAggregationPacket(size, r)
        \/ /\ ~SingleType(type)
           /\ type \notin {FU_A_PACKET_TYPE, STAP_A_PACKET_TYPE}
           /\ r = "UNSUPPORTED_PACKET"
           /\ nalu' = << >> /\ naluDataLength' = size
           /\ UNCHANGED reading

ReadResults == {"OK", "OUT_OF_MEMORY", "MALFORMED_PACKET", "UNSUPPORTED_PACKET"}

H264Depacketizer_GetNalu(size) ==
    \/ packetCount = 0 /\ Refuse("NO_MORE_NALUS")
    \/ /\ packetCount # 0
       /\ \E r \in ReadResults : DepacketizeCurrent(size, r) /\ result' = r
       /\ UNCHANGED <<queue, frameOut>>

-----------------------------------------------------------------------------

H264Depacketizer_GetFrame(size) ==
    \/ size = 0 /\ Refuse("BAD_PARAM")
    \/ size # 0 /\ packetCount = 0 /\ Refuse("NO_MORE_FRAMES")
    \/ /\ size # 0
       /\ packetCount # 0
       /\ frame' = << >>
       /\ frameIndex' = 0
       /\ frameDataLength' = size
       /\ UNCHANGED <<queue, reading, naluOut, result>>

(* The call returns r.                                                     *)
EndFrame(r) ==
    /\ result' = r
    /\ frameDataLength' = 0

(* One turn of the loop: a NAL unit behind its start code, if there is     *)
(* room for both; the turn that finds no NAL unit needs that room too.     *)
GetFrameTurn ==
    LET room == frameDataLength - frameIndex - STARTCODE_SIZE
    IN  /\ ~Idle
        /\ \/ /\ room <= 0
              /\ EndFrame("OUT_OF_MEMORY")
              /\ UNCHANGED <<queue, reading, naluOut, frame, frameIndex>>
           \/ /\ room > 0
              /\ packetCount = 0
              /\ EndFrame("OK")
              /\ UNCHANGED <<queue, reading, naluOut, frame, frameIndex>>
           \/ /\ room > 0
              /\ packetCount # 0
              /\ DepacketizeCurrent(room, "OK")
              /\ frame' = Append(frame, nalu')
              /\ frameIndex' = frameIndex + STARTCODE_SIZE + naluDataLength'
              /\ UNCHANGED <<queue, frameDataLength, result>>
           \/ /\ room > 0
              /\ packetCount # 0
              /\ \E r \in ReadResults \ {"OK"} :
                    DepacketizeCurrent(room, r) /\ EndFrame(r)
              /\ UNCHANGED <<queue, frame, frameIndex>>

(* Every function answers a NULL argument this way and does nothing else.  *)
NullArgument == Refuse("BAD_PARAM")

-----------------------------------------------------------------------------

(* Mutant: every fragment counts as a start.                               *)
PropertiesOfAnyFragment(p) ==
    IF p.packetDataLength < NALU_HEADER_SIZE THEN "BAD_PARAM"
    ELSE IF SingleType(p.first.type) THEN {"START"}
    ELSE IF p.first.type = FU_A_PACKET_TYPE
        THEN {"START"} \cup (IF p.fu.e THEN {"END"} ELSE {})
        ELSE {"START"}

(* H264Depacketizer_GetPacketProperties, a pure function.                  *)
GetPacketProperties(p) ==
    IF p.packetDataLength < NALU_HEADER_SIZE THEN "BAD_PARAM"
    ELSE IF SingleType(p.first.type) THEN {"START"}
    ELSE IF p.first.type = FU_A_PACKET_TYPE THEN
        IF p.packetDataLength < FU_A_HEADER_SIZE THEN "MALFORMED_PACKET"
        ELSE (IF p.fu.s THEN {"START"} ELSE {})
             \cup (IF p.fu.e THEN {"END"} ELSE {})
    ELSE IF p.first.type = STAP_A_PACKET_TYPE THEN {"START"}
    ELSE "UNSUPPORTED_PACKET"

-----------------------------------------------------------------------------

(* Callers start with a successful H264Depacketizer_Init.                  *)
Init ==
    /\ packetsArrayLength \in ArrayLengths \ {0}
    /\ packetsArray = [i \in 0..(packetsArrayLength - 1) |-> NoPacket]
    /\ headIndex = 0
    /\ tailIndex = 0
    /\ packetCount = 0
    /\ curPacketIndex = 0
    /\ nalu = << >>
    /\ naluDataLength = 0
    /\ frame = << >>
    /\ frameIndex = 0
    /\ frameDataLength = 0
    /\ result = "OK"

GetNalu == Idle /\ \E size \in NaluSizes : H264Depacketizer_GetNalu(size)

GetFrame == Idle /\ \E size \in FrameSizes : H264Depacketizer_GetFrame(size)

(* The calls between two H264Depacketizer_Init.                            *)
FrameNext ==
    \/ Idle /\ \E p \in Packets : H264Depacketizer_AddPacket(p)
    \/ GetNalu
    \/ GetFrame
    \/ GetFrameTurn
    \/ Idle /\ NullArgument

Next ==
    \/ Idle /\ \E n \in ArrayLengths : H264Depacketizer_Init(n)
    \/ FrameNext

Spec == Init /\ [][Next]_vars

(* A buffer as long as the longest packet.                                 *)
GetNaluWithRoom ==
    /\ Idle
    /\ \E size \in NaluSizes :
        /\ \A p \in Packets : p.packetDataLength <= size
        /\ H264Depacketizer_GetNalu(size)

(* The caller goes on reading NAL units as README.md says, now and then    *)
(* into a buffer as long as a packet, and a GetFrame call that has begun   *)
(* goes on to its end.  (Strong fairness, as GetFrame calls in between     *)
(* disable GetNalu while they run.)                                        *)
FairSpec == Spec /\ SF_vars(GetNaluWithRoom) /\ WF_vars(GetFrameTurn)

(* The caller goes on with one frame, with whatever buffers it has.        *)
FrameSpec ==
    Init /\ [][FrameNext]_vars /\ WF_vars(GetNalu) /\ WF_vars(GetFrameTurn)

-----------------------------------------------------------------------------

(* As for the packetizer: the head index, never checked by AddPacket,      *)
(* stays in the array, and the slots read were written.                    *)
QueueConsistent ==
    /\ headIndex = tailIndex + packetCount
    /\ headIndex <= packetsArrayLength
    /\ \A i \in 0..(headIndex - 1) : packetsArray[i] \in Packets

(* The offset kept between two GetNalu calls is the boundary of a NAL unit *)
(* inside the aggregation packet now at the tail, never one left over from *)
(* a packet that is gone.                                                  *)
CursorInPacket ==
    curPacketIndex # 0 =>
        /\ packetCount > 0
        /\ CurrentPacket.first.type = STAP_A_PACKET_TYPE
        /\ curPacketIndex < CurrentPacket.packetDataLength
        /\ curPacketIndex \in UnitOffsets(CurrentPacket)

(* Position <<slot, offset>> is not behind <<s, o>>.                       *)
NotBefore(slot, offset, s, o) == slot > s \/ (slot = s /\ offset >= o)

(* What a call writes lies between where the previous call stopped and     *)
(* where this one stops, in ascending order: no byte of any packet is ever *)
(* delivered twice or out of order, whatever was lost or malformed.        *)
DeliversOnceInOrder ==
    [][reading' # reading \/ naluOut' # naluOut =>
        \/ tailIndex' = 0 /\ packetCount' = 0 /\ curPacketIndex' = 0
        \/ packetCount' > packetCount
        \/ \A i \in DOMAIN nalu' :
            /\ NotBefore(nalu'[i].slot, nalu'[i].from, tailIndex,
                         IF nalu'[i].header THEN 0 ELSE curPacketIndex)
            /\ NotBefore(tailIndex', curPacketIndex', nalu'[i].slot,
                         nalu'[i].from + nalu'[i].len)
            /\ \A j \in 1..(i - 1) :
                NotBefore(nalu'[i].slot, nalu'[i].from,
                          nalu'[j].slot, nalu'[j].from + nalu'[j].len)
                \/ nalu'[j].header]_vars

NaluLength(pieces) ==
    LET l[i \in 0..Len(pieces)] == IF i = 0 THEN 0 ELSE l[i - 1] + pieces[i].len
    IN  l[Len(pieces)]

FrameLength(nalus) ==
    LET l[i \in 0..Len(nalus)] ==
            IF i = 0 THEN 0 ELSE l[i - 1] + STARTCODE_SIZE + NaluLength(nalus[i])
    IN  l[Len(nalus)]

(* Although GetNalu drops the OUT_OF_MEMORY of a single NAL unit packet,   *)
(* a GetFrame that returns OK has delivered every packet, in a frame whose *)
(* length is that of the NAL units in it and fits the buffer.              *)
OkFrameIsComplete ==
    [][~Idle /\ Idle' /\ result' = "OK" =>
        /\ packetCount' = 0
        /\ \A i \in DOMAIN frame' : frame'[i] # << >>
        /\ frameIndex' = FrameLength(frame')
        /\ frameIndex' <= frameDataLength]_vars

(* README.md, Depacketization: `Call H264Depacketizer_GetNalu() iteratively *)
(* to get NALUs one by one until H264_RESULT_NO_MORE_NALUS is returned'.   *)
(* Whoever does so comes to the end or is told that a call failed, if only *)
(* because its buffer is too short: no caller is told OK for ever while    *)
(* packets are left.                                                       *)
DrainsOrFails == packetCount > 0 ~> packetCount = 0 \/ result # "OK"

(* Of a type the library supports, and what its type says it is.           *)
WellFormed(p) ==
    \/ SingleType(p.first.type)
    \/ p.first.type = FU_A_PACKET_TYPE /\ p.packetDataLength >= FU_A_HEADER_SIZE
    \/ /\ p.first.type = STAP_A_PACKET_TYPE
       /\ p.packetDataLength \in UnitOffsets(p)
       /\ \A at \in UnitOffsets(p) : at <= p.packetDataLength

AllWellFormed ==
    \A i \in tailIndex..(headIndex - 1) : WellFormed(packetsArray[i])

(* The packets run out if each for itself is well formed and a buffer is   *)
(* now and then long enough, whatever was lost between them: a fragment    *)
(* without a start or an end, or with a packet of another kind behind it,  *)
(* is no obstacle, and neither is a buffer shorter than the fragments      *)
(* together.                                                               *)
DrainsWellFormed ==
    packetCount > 0 /\ AllWellFormed ~> packetCount = 0 \/ ~AllWellFormed
=============================================================================
