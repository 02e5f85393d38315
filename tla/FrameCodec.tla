----------------------------- MODULE FrameCodec -----------------------------
(***************************************************************************)
(* codec_packetizers/opus, g711 and vp8, used as README.md (Packetization, *)
(* Depacketization) says: a frame is cut into packets, with no header of   *)
(* their own but for VP8's payload descriptor, and the packets of a frame  *)
(* are copied one behind the other.  The libraries are the same code but   *)
(* for the descriptor, the order of checks, and what they make of packets  *)
(* without bytes and of no packets at all; a behaviour is one of callers   *)
(* of one of them.                                                         *)
(*                                                                         *)
(* Both ends of a network, which is external: it may lose packets or cut   *)
(* them short, and the receiving caller adds those that arrive in the      *)
(* order they were sent.                                                   *)
(***************************************************************************)
EXTENDS VP8PayloadDescriptor, FiniteSets

CONSTANTS
    FrameLengths,   \* frameDataLength values passed to the packetizer's Init
    PacketSizes,    \* packetDataLength values passed to GetPacket
    ArrayLengths,   \* array lengths passed to the depacketizer's Init
    BufferSizes,    \* frameDataLength values passed to GetFrame
    FrameInfos,     \* fields of the VP8 frames callers send
    Junk,           \* bytes that may lie behind a packet in memory
    NoPacket        \* no packet sent since the packetizer's Init

ASSUME LengthsAssumption ==
    /\ FrameLengths \subseteq Nat
    /\ PacketSizes \subseteq Nat
    /\ ArrayLengths \subseteq Nat
    /\ BufferSizes \subseteq Nat

ASSUME VP8Assumption ==
    /\ FrameInfos \subseteq FrameInfo
    /\ \A j \in Junk : j \in Seq(Byte) /\ Len(j) >= MAX_LENGTH

(* A packet carries len bytes of the frame, behind the bytes of a payload  *)
(* descriptor if the codec has one.                                        *)
Packet == [desc : Seq(Byte), from : Nat, len : Nat]

PacketLength(p) == Len(p.desc) + p.len

ASSUME NoPacketAssumption == NoPacket \notin Packet

VARIABLES
    codec,              \* the library in use, "Opus", "G711" or "VP8"
    frameInfo,          \* what the VP8 frame that is sent has beside its bytes
    payloadDesc,        \* its payload descriptor, empty for Opus and G711
    frameLength,        \* frame.frameDataLength
    curFrameDataIndex,
    packet,             \* the last packet GetPacket filled
    sentCount,          \* packets filled for this frame
    sResult,            \* return code of the last call of the packetizer
    packetsArray,       \* the first packetCount slots
    packetsArrayLength,
    read,               \* packets the last GetFrame copied
    frameDataLength,    \* the length it left in pFrame
    readInfo,           \* what it left in the other fields
    rResult             \* return code of the last call of the depacketizer

packetizer == <<frameInfo, payloadDesc, frameLength, curFrameDataIndex, packet,
                sentCount, sResult>>
depacketizer == <<packetsArray, packetsArrayLength, read, frameDataLength,
                  readInfo, rResult>>
vars == <<codec, packetizer, depacketizer>>

MIN(a, b) == IF a < b THEN a ELSE b

-----------------------------------------------------------------------------
(* The packetizers' bodies.                                                *)

PacketizerReturns(r) ==
    /\ sResult' = r
    /\ UNCHANGED <<frameInfo, payloadDesc, frameLength, curFrameDataIndex, packet,
                   sentCount>>

StartFrame(len, info, desc) ==
    /\ frameInfo' = info
    /\ payloadDesc' = desc
    /\ frameLength' = len
    /\ curFrameDataIndex' = 0
    /\ packet' = NoPacket
    /\ sentCount' = 0
    /\ sResult' = "OK"

(* S is set in the descriptor of the first packet.                         *)
DescToSend ==
    IF payloadDesc # << >> /\ curFrameDataIndex = 0
        THEN [payloadDesc EXCEPT ![1] = @ + S] ELSE payloadDesc

(* Mutant: the length of the first packet taken for its index, too.        *)
SendFromStart(size) ==
    LET n == MIN(size - Len(payloadDesc), frameLength - curFrameDataIndex)
    IN  /\ packet' = [desc |-> DescToSend, from |-> curFrameDataIndex, len |-> n]
        /\ curFrameDataIndex' = n
        /\ sentCount' = sentCount + 1
        /\ sResult' = "OK"
        /\ UNCHANGED <<frameInfo, payloadDesc, frameLength>>

(* As much of the frame as the buffer takes.                               *)
SendNext(size) ==
    LET n == MIN(size - Len(payloadDesc), frameLength - curFrameDataIndex)
    IN  /\ packet' = [desc |-> DescToSend, from |-> curFrameDataIndex, len |-> n]
        /\ curFrameDataIndex' = curFrameDataIndex + n
        /\ sentCount' = sentCount + 1
        /\ sResult' = "OK"
        /\ UNCHANGED <<frameInfo, payloadDesc, frameLength>>

-----------------------------------------------------------------------------
(* The depacketizers' bodies.                                              *)

DepacketizerReturns(r) ==
    /\ rResult' = r
    /\ UNCHANGED <<packetsArray, packetsArrayLength, read, frameDataLength, readInfo>>

StartArray(n) ==
    /\ packetsArray' = << >>
    /\ packetsArrayLength' = n
    /\ read' = << >>
    /\ frameDataLength' = 0
    /\ rResult' = "OK"
    /\ UNCHANGED readInfo

StorePacket(p) ==
    \/ /\ Len(packetsArray) >= packetsArrayLength
       /\ DepacketizerReturns("OUT_OF_MEMORY")
    \/ /\ Len(packetsArray) < packetsArrayLength
       /\ packetsArray' = Append(packetsArray, p)
       /\ rResult' = "OK"
       /\ UNCHANGED <<packetsArrayLength, read, frameDataLength, readInfo>>

(* Length of the first k packets, descriptors not counted.                 *)
CopiedLength(packets) ==
    LET l[k \in 0..Len(packets)] ==
            IF k = 0 THEN 0 ELSE l[k - 1] + packets[k].len
    IN  l

(* Mutant: a packet that fills the buffer to its end does not fit.         *)
CopyPacketsStrictly(size) ==
    /\ \E k \in 0..Len(packetsArray) :
        /\ CopiedLength(packetsArray)[k] < size
        /\ read' = SubSeq(packetsArray, 1, k)
        /\ \/ /\ k = Len(packetsArray)
              /\ rResult' = "OK" /\ frameDataLength' = CopiedLength(packetsArray)[k]
           \/ /\ k < Len(packetsArray)
              /\ CopiedLength(packetsArray)[k + 1] >= size
              /\ rResult' = "OUT_OF_MEMORY" /\ frameDataLength' = size
    /\ UNCHANGED <<packetsArray, packetsArrayLength, readInfo>>

(* The packets are copied while there is room for the next; a frame that   *)
(* does not fit leaves the buffer partly written and its length as it was. *)
(* The packets stay in the array.                                          *)
CopyPackets(size) ==
    /\ \E k \in 0..Len(packetsArray) :
        /\ CopiedLength(packetsArray)[k] <= size
        /\ read' = SubSeq(packetsArray, 1, k)
        /\ \/ /\ k = Len(packetsArray)
              /\ rResult' = "OK" /\ frameDataLength' = CopiedLength(packetsArray)[k]
           \/ /\ k < Len(packetsArray)
              /\ CopiedLength(packetsArray)[k + 1] > size
              /\ rResult' = "OUT_OF_MEMORY" /\ frameDataLength' = size
    /\ UNCHANGED <<packetsArray, packetsArrayLength, readInfo>>

(* Descriptors read one after the other into the same fields.  Reading one *)
(* does not stop at the end of its packet: `junk' is what lies behind it.  *)
DescriptorsRead(junk) ==
    LET d[k \in 0..Len(packetsArray)] ==
            IF k = 0 THEN [length |-> 0, info |-> readInfo]
            ELSE ReadPayloadDescriptor(packetsArray[k].desc \o junk, d[k - 1].info)
    IN  d

(* Mutant: a packet that is all descriptor is taken for part of a frame.   *)
HasPayloadOrNone(p, descLength) == PacketLength(p) >= descLength

HasPayload(p, descLength) == PacketLength(p) > descLength

(* The same, for packets that begin with a descriptor: it is read before   *)
(* anything is checked, so the packet at fault has left its fields, too.   *)
CopyDescribedPackets(size) ==
    /\ \E junk \in Junk, k \in 0..Len(packetsArray) :
        LET desc == DescriptorsRead(junk)
            payload(i) == HasPayload(packetsArray[i], desc[i].length)
        IN  /\ \A i \in 1..k : payload(i)
            /\ CopiedLength(packetsArray)[k] <= size
            /\ read' = SubSeq(packetsArray, 1, k)
            /\ \/ /\ k = Len(packetsArray)
                  /\ rResult' = "OK" /\ frameDataLength' = CopiedLength(packetsArray)[k]
                  /\ readInfo' = desc[k].info
               \/ /\ k < Len(packetsArray)
                  /\ \/ ~payload(k + 1) /\ rResult' = "MALFORMED_PACKET"
                     \/ /\ payload(k + 1) /\ CopiedLength(packetsArray)[k + 1] > size
                        /\ rResult' = "OUT_OF_MEMORY"
                  /\ frameDataLength' = size
                  /\ readInfo' = desc[k + 1].info
    /\ UNCHANGED <<packetsArray, packetsArrayLength>>

-----------------------------------------------------------------------------
(* The functions of the libraries.                                         *)

InitPacketizer(len, info, desc) ==
    \/ len = 0 /\ PacketizerReturns("BAD_PARAM")
    \/ len > 0 /\ StartFrame(len, info, desc)

(* Mutant: a buffer longer than what is left is refused.                   *)
GetFullPacketsOnly(size) ==
    \/ /\ size = 0 \/ frameLength - curFrameDataIndex \in 1..(size - 1)
       /\ PacketizerReturns("BAD_PARAM")
    \/ /\ size > 0
       /\ frameLength = curFrameDataIndex
       /\ PacketizerReturns("NO_MORE_PACKETS")
    \/ /\ size > 0
       /\ frameLength - curFrameDataIndex >= size
       /\ SendNext(size)

GetPacketOf(size) ==
    \/ size = 0 /\ PacketizerReturns("BAD_PARAM")
    \/ /\ size > 0
       /\ frameLength = curFrameDataIndex
       /\ PacketizerReturns("NO_MORE_PACKETS")
    \/ /\ size > 0
       /\ frameLength # curFrameDataIndex
       /\ SendNext(size)

InitDepacketizer(n) ==
    \/ n = 0 /\ DepacketizerReturns("BAD_PARAM")
    \/ n > 0 /\ StartArray(n)

StoreNonEmptyPacket(p) ==
    \/ PacketLength(p) = 0 /\ DepacketizerReturns("BAD_PARAM")
    \/ PacketLength(p) > 0 /\ StorePacket(p)

OpusPacketizer_Init(len) ==
    codec = "Opus" /\ InitPacketizer(len, ZeroInfo, << >>)

G711Packetizer_Init(len) ==
    codec = "G711" /\ InitPacketizer(len, ZeroInfo, << >>)

VP8Packetizer_Init(len, info) ==
    codec = "VP8" /\ InitPacketizer(len, info, GeneratePayloadDescriptor(info))

OpusPacketizer_GetPacket(size) == codec = "Opus" /\ GetPacketOf(size)

G711Packetizer_GetPacket(size) == codec = "G711" /\ GetPacketOf(size)

(* The end of the frame comes before the buffer, which must take a byte of *)
(* the frame behind the descriptor.                                        *)
VP8Packetizer_GetPacket(size) ==
    /\ codec = "VP8"
    /\ \/ /\ frameLength = curFrameDataIndex
          /\ PacketizerReturns("NO_MORE_PACKETS")
       \/ /\ frameLength # curFrameDataIndex
          /\ size <= Len(payloadDesc)
          /\ PacketizerReturns("OUT_OF_MEMORY")
       \/ /\ frameLength # curFrameDataIndex
          /\ size > Len(payloadDesc)
          /\ SendNext(size)

OpusDepacketizer_Init(n) == codec = "Opus" /\ InitDepacketizer(n)

G711Depacketizer_Init(n) == codec = "G711" /\ InitDepacketizer(n)

VP8Depacketizer_Init(n) == codec = "VP8" /\ InitDepacketizer(n)

(* A packet without bytes is refused.                                      *)
OpusDepacketizer_AddPacket(p) == codec = "Opus" /\ StoreNonEmptyPacket(p)

VP8Depacketizer_AddPacket(p) == codec = "VP8" /\ StoreNonEmptyPacket(p)

(* A packet without bytes takes a slot like any other.                     *)
G711Depacketizer_AddPacket(p) == codec = "G711" /\ StorePacket(p)

OpusDepacketizer_GetFrame(size) ==
    /\ codec = "Opus"
    /\ \/ size = 0 /\ DepacketizerReturns("BAD_PARAM")
       \/ size > 0 /\ packetsArray = << >> /\ DepacketizerReturns("NO_MORE_PACKETS")
       \/ size > 0 /\ packetsArray # << >> /\ CopyPackets(size)

(* Without packets the frame is empty, and that is OK.                     *)
G711Depacketizer_GetFrame(size) ==
    /\ codec = "G711"
    /\ \/ size = 0 /\ DepacketizerReturns("BAD_PARAM")
       \/ size > 0 /\ CopyPackets(size)

VP8Depacketizer_GetFrame(size) ==
    /\ codec = "VP8"
    /\ \/ size = 0 /\ DepacketizerReturns("BAD_PARAM")
       \/ size > 0 /\ CopyDescribedPackets(size)

-----------------------------------------------------------------------------

PacketizerInit(len) ==
    \/ OpusPacketizer_Init(len)
    \/ G711Packetizer_Init(len)
    \/ \E info \in FrameInfos : VP8Packetizer_Init(len, info)

PacketizerGetPacket(size) ==
    \/ OpusPacketizer_GetPacket(size)
    \/ G711Packetizer_GetPacket(size)
    \/ VP8Packetizer_GetPacket(size)

DepacketizerInit(n) ==
    \/ OpusDepacketizer_Init(n)
    \/ G711Depacketizer_Init(n)
    \/ VP8Depacketizer_Init(n)

AddPacket(p) ==
    \/ OpusDepacketizer_AddPacket(p)
    \/ G711Depacketizer_AddPacket(p)
    \/ VP8Depacketizer_AddPacket(p)

DepacketizerGetFrame(size) ==
    \/ OpusDepacketizer_GetFrame(size)
    \/ G711Depacketizer_GetFrame(size)
    \/ VP8Depacketizer_GetFrame(size)

(* What arrives of a packet that was cut in its descriptor or behind it.   *)
Truncated(p) ==
    {[p EXCEPT !.desc = SubSeq(p.desc, 1, k), !.len = 0] : k \in 1..Len(p.desc)}

(* GetPacket, and what the network does with the packet it fills.          *)
SendPacket(size) ==
    /\ PacketizerGetPacket(size)
    /\ \/ sResult' = "OK" /\ AddPacket(packet')
       \/ sResult' = "OK" /\ \E p \in Truncated(packet') : AddPacket(p)
       \/ UNCHANGED depacketizer
    /\ UNCHANGED codec

GetPacket == \E size \in PacketSizes \ {0} : SendPacket(size)

GetFrame ==
    /\ \E size \in BufferSizes \ {0} : DepacketizerGetFrame(size)
    /\ UNCHANGED <<codec, packetizer>>

(* The next frame, once there are no more packets of this one.             *)
NextFrame ==
    /\ sResult = "NO_MORE_PACKETS"
    /\ \E len \in FrameLengths \ {0} : PacketizerInit(len)
    /\ \E n \in ArrayLengths \ {0} : DepacketizerInit(n)
    /\ UNCHANGED codec

(* Calls with a NULL argument or a length of zero.                         *)
BadCall ==
    \/ /\ PacketizerInit(0) \/ PacketizerGetPacket(0)
       /\ UNCHANGED <<codec, depacketizer>>
    \/ /\ DepacketizerInit(0) \/ DepacketizerGetFrame(0)
       /\ UNCHANGED <<codec, packetizer>>

(* A packet with no payload arrives.                                       *)
EmptyPacketArrives ==
    /\ AddPacket([desc |-> << >>, from |-> 0, len |-> 0])
    /\ UNCHANGED <<codec, packetizer>>

(* Callers start with successful calls of both Init functions.             *)
Init ==
    /\ codec \in {"Opus", "G711", "VP8"}
    /\ IF codec = "VP8"
       THEN /\ frameInfo \in FrameInfos
            /\ payloadDesc = GeneratePayloadDescriptor(frameInfo)
       ELSE frameInfo = ZeroInfo /\ payloadDesc = << >>
    /\ frameLength \in FrameLengths \ {0}
    /\ curFrameDataIndex = 0
    /\ packet = NoPacket
    /\ sentCount = 0
    /\ sResult = "OK"
    /\ packetsArray = << >>
    /\ packetsArrayLength \in ArrayLengths \ {0}
    /\ read = << >>
    /\ frameDataLength = 0
    /\ readInfo = ZeroInfo
    /\ rResult = "OK"

Next ==
    \/ GetPacket
    \/ GetFrame
    \/ NextFrame
    \/ BadCall
    \/ EmptyPacketArrives

(* The sending caller goes on with a frame it has begun, and comes with    *)
(* buffers that are longer than the descriptor.                            *)
GetPacketWithRoom ==
    \E size \in PacketSizes : size > Len(payloadDesc) /\ SendPacket(size)

Spec == Init /\ [][Next]_vars /\ WF_vars(GetPacketWithRoom)

-----------------------------------------------------------------------------

HasBytes(p) == p.len > 0

(* The whole frame has been sent, and every packet of it was stored.       *)
AllArrived ==
    /\ curFrameDataIndex = frameLength
    /\ Cardinality({i \in DOMAIN packetsArray : HasBytes(packetsArray[i])}) = sentCount

(* The bytes of the packets are the frame, all of it, and each is copied   *)
(* to where it was in the frame.                                           *)
IsWholeFrame(packets) ==
    LET copied == CopiedLength(packets)
    IN  /\ \A i \in DOMAIN packets :
            HasBytes(packets[i]) => packets[i].from = copied[i - 1]
        /\ copied[Len(packets)] = frameLength

(* What a descriptor has room for: 15 bits of the picture id, 2 of the     *)
(* temporal layer and 5 of the key index; DEPENDS_ON_BASE_ONLY goes along  *)
(* with the byte that holds the latter two.                                *)
Restores(found, sent) ==
    /\ found.frameProperties =
            IF HasTidOrKeyIdx(sent) THEN sent.frameProperties
            ELSE sent.frameProperties \ {"DEPENDS_ON_BASE_ONLY"}
    /\ Has(sent, "PICTURE_ID_PRESENT") => found.pictureId = sent.pictureId % 32768
    /\ Has(sent, "TL0PICIDX_PRESENT") => found.tl0PicIndex = sent.tl0PicIndex
    /\ Has(sent, "TID_PRESENT") => found.tid = sent.tid % 4
    /\ Has(sent, "KEYIDX_PRESENT") => found.keyIndex = sent.keyIndex % 32

(* A GetFrame that returns OK after every packet of the frame arrived has  *)
(* put the frame together again, and says how long it is, whatever calls   *)
(* with too short a buffer went before; and for VP8 the fields beside the  *)
(* frame are those it was sent with, whatever other packets left in them.  *)
RoundTrip ==
    [][rResult' = "OK" /\ AllArrived /\ GetFrame =>
        /\ IsWholeFrame(read')
        /\ frameDataLength' = frameLength
        /\ codec = "VP8" => Restores(readInfo', frameInfo)]_vars

(* A VP8 packet cut off before its payload never goes by unnoticed: no     *)
(* call returns a frame as long as it is among the packets, though reading *)
(* its descriptor runs into whatever lies behind it in memory.             *)
NoFrameFromTruncated ==
    [][(codec = "VP8" /\ \E i \in DOMAIN packetsArray : ~HasBytes(packetsArray[i]))
        => (rResult' = "OK" => ~GetFrame)]_vars

(* No more room than the frame itself is ever needed to read it: packets   *)
(* that arrived are never refused by a buffer as long as the frame.        *)
FrameBufferSuffices ==
    [][rResult' = "OUT_OF_MEMORY" =>
        \A size \in BufferSizes :
            size >= frameLength => ~DepacketizerGetFrame(size)]_vars

SlicesOf(p) ==
    IF p = NoPacket THEN << >>
    ELSE <<[unit |-> 0, from |-> p.from, len |-> p.len,
            first |-> p.from = 0, last |-> p.from + p.len = frameLength]>>

Done == IF curFrameDataIndex = frameLength THEN 1 ELSE 0

Stream == INSTANCE UnitStream
    WITH accepted <- <<[len |-> frameLength]>>,
         done <- Done,
         offset <- IF Done = 1 THEN 0 ELSE curFrameDataIndex,
         slices <- SlicesOf(packet),
         Unit <- [len : FrameLengths \ {0}], Restated <- 0

(* The packetizer implements UnitStream, a frame at a time: every byte of  *)
(* the frame is sent once and in order, whatever the buffer lengths.       *)
ImplementsStream == Stream!Spec

(* README.md, Packetization: GetPacket is called `until                    *)
(* <Codec>_RESULT_NO_MORE_PACKETS is returned', and it is.                 *)
ReachesNoMorePackets ==
    curFrameDataIndex < frameLength ~> sResult = "NO_MORE_PACKETS"
=============================================================================
