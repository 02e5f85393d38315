--------------------------- MODULE H264Packetizer ---------------------------
(***************************************************************************)
(* codec_packetizers/h264/h264_packetizer.c: the NAL units of a frame go   *)
(* into a caller-supplied array and leave as single NAL unit packets or as *)
(* FU-A fragments, each as long as the buffer of that GetPacket call       *)
(* allows.  The library is single-threaded, so a call is one step.         *)
(***************************************************************************)
EXTENDS H264DataTypes, Sequences

CONSTANTS
    Nalu,           \* [header, len] records of the NAL units callers add
    Frames,         \* frames: sequences of the NAL units between start codes
    ArrayLengths,   \* array lengths callers pass to H264Packetizer_Init
    PacketSizes,    \* packetDataLength values callers pass to GetPacket
    SizeMod,        \* size_t counts modulo SizeMod
    NoNalu,         \* an array slot nothing was stored in
    NoPacket        \* no packet returned since H264Packetizer_Init

ASSUME NaluAssumption == Nalu \subseteq [header : HeaderByte, len : Nat]

ASSUME FramesAssumption == Frames \subseteq Seq(Nalu)

ASSUME ArrayLengthsAssumption == ArrayLengths \subseteq Nat

(* Lengths are size_t values, and no buffer is as long as size_t's range.  *)
ASSUME SizeAssumption ==
    /\ SizeMod \in Nat /\ SizeMod > FU_A_HEADER_SIZE
    /\ PacketSizes \subseteq 0..(SizeMod - 1)
    /\ \A n \in Nalu : n.len < SizeMod

Packet == [first : HeaderByte, fu : FuHeader, nalu : Nat, from : Nat, len : Nat,
           packetDataLength : Nat]

ASSUME NoPacketAssumption == NoPacket \notin Packet

VARIABLES
    naluArray,      \* pNaluArray
    naluArrayLength,
    headIndex,
    tailIndex,
    naluCount,
    currentlyProcessingPacket,
    fuAPacketizationState,
    packet,         \* the last packet GetPacket filled
    result          \* return code of the last call

added == <<naluArray, headIndex>>
sending == <<tailIndex, naluCount, currentlyProcessingPacket,
             fuAPacketizationState, packet>>
vars == <<naluArray, naluArrayLength, headIndex, tailIndex, naluCount,
          currentlyProcessingPacket, fuAPacketizationState, packet, result>>

NoHeader == [f |-> 0, nri |-> 0, type |-> 0]

ZeroFuState == [naluHeader |-> NoHeader, naluDataIndex |-> 0,
                remainingNaluLength |-> 0]

Refuse(r) ==
    /\ result' = r
    /\ UNCHANGED <<added, naluArrayLength, sending>>

-----------------------------------------------------------------------------

H264Packetizer_Init(n) ==
    \/ n = 0 /\ Refuse("BAD_PARAM")
    \/ /\ n > 0
       /\ naluArray' = [i \in 0..(n - 1) |-> NoNalu]
       /\ naluArrayLength' = n
       /\ headIndex' = 0
       /\ tailIndex' = 0
       /\ naluCount' = 0
       /\ currentlyProcessingPacket' = "NONE"
       /\ fuAPacketizationState' = ZeroFuState
       /\ packet' = NoPacket
       /\ result' = "OK"

(* The library checks only naluCount, and headIndex never goes back before *)
(* the next H264Packetizer_Init: the caller adds a frame before it takes   *)
(* packets (README.md, Packetization), or has counted its slots.           *)
SlotsFor(n) == tailIndex = 0 \/ headIndex + n <= naluArrayLength

Queue(nalus) ==
    /\ naluArray' = [i \in DOMAIN naluArray |->
                        IF i \in headIndex..(headIndex + Len(nalus) - 1)
                            THEN nalus[i - headIndex + 1] ELSE naluArray[i]]
    /\ headIndex' = headIndex + Len(nalus)
    /\ naluCount' = naluCount + Len(nalus)
    /\ UNCHANGED <<naluArrayLength, tailIndex, currentlyProcessingPacket,
                   fuAPacketizationState, packet>>

(* Mutant: one NAL unit more than the array holds.                         *)
AddNaluOffByOne(nalu) ==
    /\ SlotsFor(1)
    /\ \/ nalu.len < NALU_HEADER_SIZE /\ Refuse("MALFORMED_PACKET")
       \/ /\ nalu.len >= NALU_HEADER_SIZE
          /\ naluCount <= naluArrayLength
          /\ Queue(<<nalu>>)
          /\ result' = "OK"

H264Packetizer_AddNalu(nalu) ==
    /\ SlotsFor(1)
    /\ \/ nalu.len < NALU_HEADER_SIZE /\ Refuse("MALFORMED_PACKET")
       \/ /\ nalu.len >= NALU_HEADER_SIZE
          /\ naluCount >= naluArrayLength
          /\ Refuse("OUT_OF_MEMORY")
       \/ /\ nalu.len >= NALU_HEADER_SIZE
          /\ naluCount < naluArrayLength
          /\ Queue(<<nalu>>)
          /\ result' = "OK"

(* AddNalu on each NAL unit of the frame, up to the first it refuses; the  *)
(* ones before it stay queued.  Without a start code there is none.        *)
H264Packetizer_AddFrame(frame) ==
    /\ SlotsFor(Len(frame))
    /\ \E k \in 0..Len(frame) :
        /\ \A i \in 1..k : frame[i].len >= NALU_HEADER_SIZE
        /\ k > 0 => naluCount + k <= naluArrayLength
        /\ Queue(SubSeq(frame, 1, k))
        /\ \/ frame = << >> /\ result' = "MALFORMED_PACKET"
           \/ frame # << >> /\ k = Len(frame) /\ result' = "OK"
           \/ /\ k < Len(frame)
              /\ frame[k + 1].len < NALU_HEADER_SIZE
              /\ result' = "MALFORMED_PACKET"
           \/ /\ k < Len(frame)
              /\ frame[k + 1].len >= NALU_HEADER_SIZE
              /\ naluCount + k >= naluArrayLength
              /\ result' = "OUT_OF_MEMORY"

-----------------------------------------------------------------------------

(* tailIndex += 1 and naluCount -= 1.                                      *)
NextNalu == tailIndex' = tailIndex + 1 /\ naluCount' = naluCount - 1

PacketizeSingleNaluPacket ==
    LET nalu == naluArray[tailIndex]
    IN  /\ packet' = [first |-> nalu.header, fu |-> NoFuHeader,
                      nalu |-> tailIndex, from |-> 0, len |-> nalu.len,
                      packetDataLength |-> nalu.len]
        /\ NextNalu
        /\ UNCHANGED <<currentlyProcessingPacket, fuAPacketizationState>>

(* Mutants: the FU header counted twice, in size_t and in a signed type,   *)
(* and not at all.                                                         *)
MaxWithFuHeaderTwice(size) == (size - FU_A_HEADER_SIZE - 1) % SizeMod
MaxInSignedType(size) == size - FU_A_HEADER_SIZE - 1
MaxWithoutFuHeader(size) == size

(* What a buffer of this length leaves for payload, in size_t arithmetic.  *)
MaxNaluDataLengthToSend(size) == (size - FU_A_HEADER_SIZE) % SizeMod

(* Mutant: the header byte counted as payload that remains.                *)
FuStateWithHeader ==
    IF currentlyProcessingPacket = "NONE"
        THEN [naluHeader |-> naluArray[tailIndex].header,
              naluDataIndex |-> 1,
              remainingNaluLength |-> naluArray[tailIndex].len]
        ELSE fuAPacketizationState

(* The state a call works from: a fresh one for the first fragment.        *)
FuState ==
    IF currentlyProcessingPacket = "NONE"
        THEN [naluHeader |-> naluArray[tailIndex].header,
              naluDataIndex |-> 1,
              remainingNaluLength |-> naluArray[tailIndex].len - 1]
        ELSE fuAPacketizationState

(* Mutant: the importance of the NAL unit is not passed on.                *)
FuIndicatorTypeOnly(header) ==
    [f |-> 0, nri |-> 0, type |-> FU_A_PACKET_TYPE]

(* The FU indicator keeps the NRI of the NAL unit header and not its F.    *)
FuIndicator(header) ==
    [f |-> 0, nri |-> header.nri, type |-> FU_A_PACKET_TYPE]

PacketizeFragmentationUnitPacket(size) ==
    LET fu == FuState
        n == H264_MIN(MaxNaluDataLengthToSend(size), fu.remainingNaluLength)
        last == n = fu.remainingNaluLength
    IN  /\ packet' = [first |-> FuIndicator(fu.naluHeader),
                      fu |-> [s |-> currentlyProcessingPacket = "NONE",
                              e |-> last, type |-> fu.naluHeader.type],
                      nalu |-> tailIndex, from |-> fu.naluDataIndex, len |-> n,
                      packetDataLength |-> n + FU_A_HEADER_SIZE]
        /\ \/ /\ last
              /\ fuAPacketizationState' = ZeroFuState
              /\ currentlyProcessingPacket' = "NONE"
              /\ NextNalu
           \/ /\ ~last
              /\ fuAPacketizationState' =
                    [naluHeader |-> fu.naluHeader,
                     naluDataIndex |-> fu.naluDataIndex + n,
                     remainingNaluLength |-> fu.remainingNaluLength - n]
              /\ currentlyProcessingPacket' = "FU_A"
              /\ UNCHANGED <<tailIndex, naluCount>>

(* Mutant: a buffer that grew is compared with the whole NAL unit before   *)
(* asking whether a fragment of it has already been sent.                  *)
GetPacketLengthFirst(size) ==
    \/ size = 0 /\ Refuse("BAD_PARAM")
    \/ size # 0 /\ naluCount = 0 /\ Refuse("NO_MORE_PACKETS")
    \/ /\ size # 0 /\ naluCount # 0
       /\ IF naluArray[tailIndex].len <= size
              THEN PacketizeSingleNaluPacket
              ELSE PacketizeFragmentationUnitPacket(size)
       /\ result' = "OK"
       /\ UNCHANGED <<added, naluArrayLength>>

H264Packetizer_GetPacket(size) ==
    \/ size = 0 /\ Refuse("BAD_PARAM")
    \/ size # 0 /\ naluCount = 0 /\ Refuse("NO_MORE_PACKETS")
    \/ /\ size # 0 /\ naluCount # 0
       /\ \/ /\ currentlyProcessingPacket = "NONE"
             /\ naluArray[tailIndex].len <= size
             /\ PacketizeSingleNaluPacket
          \/ /\ \/ currentlyProcessingPacket = "FU_A"
                \/ naluArray[tailIndex].len > size
             /\ PacketizeFragmentationUnitPacket(size)
       /\ result' = "OK"
       /\ UNCHANGED <<added, naluArrayLength>>

(* Every function answers a NULL argument this way and does nothing else.  *)
NullArgument == Refuse("BAD_PARAM")

-----------------------------------------------------------------------------

(* Callers start with a successful H264Packetizer_Init.                    *)
Init ==
    /\ naluArrayLength \in ArrayLengths \ {0}
    /\ naluArray = [i \in 0..(naluArrayLength - 1) |-> NoNalu]
    /\ headIndex = 0
    /\ tailIndex = 0
    /\ naluCount = 0
    /\ currentlyProcessingPacket = "NONE"
    /\ fuAPacketizationState = ZeroFuState
    /\ packet = NoPacket
    /\ result = "OK"

GetPacket == \E size \in PacketSizes : H264Packetizer_GetPacket(size)

(* The calls between two H264Packetizer_Init.                              *)
FrameNext ==
    \/ \E nalu \in Nalu : H264Packetizer_AddNalu(nalu)
    \/ \E frame \in Frames : H264Packetizer_AddFrame(frame)
    \/ GetPacket
    \/ NullArgument

Next ==
    \/ \E n \in ArrayLengths : H264Packetizer_Init(n)
    \/ FrameNext

Spec == Init /\ [][Next]_vars

(* A buffer with room for payload.                                         *)
GetPacketWithRoom ==
    \E size \in PacketSizes :
        size > FU_A_HEADER_SIZE /\ H264Packetizer_GetPacket(size)

(* The caller goes on taking packets as README.md says; of the buffers it  *)
(* uses, some have room for payload.                                       *)
FairSpec == Spec /\ WF_vars(GetPacketWithRoom)

-----------------------------------------------------------------------------

Results == {"OK", "BAD_PARAM", "OUT_OF_MEMORY", "MALFORMED_PACKET",
            "NO_MORE_PACKETS"}

(* Type invariant.                                                         *)
TypeOK ==
    /\ naluArrayLength \in Nat /\ naluArrayLength > 0
    /\ naluArray \in [0..(naluArrayLength - 1) -> Nalu \cup {NoNalu}]
    /\ headIndex \in Nat /\ tailIndex \in Nat /\ naluCount \in Nat
    /\ currentlyProcessingPacket \in {"NONE", "FU_A"}
    /\ fuAPacketizationState \in
         [naluHeader : HeaderByte, naluDataIndex : Nat, remainingNaluLength : Nat]
    /\ packet \in Packet \cup {NoPacket}
    /\ result \in Results

(* The head index, which AddNalu checks nothing about, stays in the array, *)
(* agrees with the tail index and the count, and every slot between them   *)
(* holds a NAL unit with a header.                                         *)
QueueConsistent ==
    /\ headIndex = tailIndex + naluCount
    /\ headIndex <= naluArrayLength
    /\ \A i \in 0..(headIndex - 1) :
        naluArray[i] \in Nalu /\ naluArray[i].len >= NALU_HEADER_SIZE

(* Between two fragments the packetization state, kept across calls of any *)
(* kind, still describes the NAL unit at the tail: what was sent and what  *)
(* remains make up that NAL unit, and something remains.                   *)
FuStateConsistent ==
    \/ /\ currentlyProcessingPacket = "NONE"
       /\ fuAPacketizationState = ZeroFuState
    \/ /\ currentlyProcessingPacket = "FU_A"
       /\ naluCount > 0
       /\ fuAPacketizationState.naluHeader = naluArray[tailIndex].header
       /\ fuAPacketizationState.naluDataIndex >= 1
       /\ fuAPacketizationState.remainingNaluLength > 0
       /\ fuAPacketizationState.naluDataIndex
            + fuAPacketizationState.remainingNaluLength = naluArray[tailIndex].len

(* A single NAL unit packet is all payload.                                *)
Whole(p) == p.packetDataLength = p.len

(* A packet is no longer than the buffer its caller passed, but for a      *)
(* fragment in a buffer of one byte: there h264_packetizer.c:73 subtracts  *)
(* the FU-A header's two in size_t, and the rest of the NAL unit goes into *)
(* the packet.                                                             *)
PacketFitsBuffer ==
    [][\A size \in PacketSizes :
        H264Packetizer_GetPacket(size) /\ result' = "OK"
            => \/ packet'.packetDataLength <= size
               \/ /\ size < FU_A_HEADER_SIZE /\ ~Whole(packet')
                  /\ packet'.from + packet'.len = naluArray[tailIndex].len]_vars

(* README.md, Packetization: GetPacket is called `until                    *)
(* <Codec>_RESULT_NO_MORE_PACKETS is returned'.  It comes to that: no NAL  *)
(* unit is left, however long the NAL units and whatever the caller adds.  *)
ReachesNoMorePackets == naluCount > 0 ~> naluCount = 0

Accepted == [i \in 1..headIndex |-> naluArray[i - 1]]

SlicesOf(p) ==
    IF p = NoPacket THEN << >>
    ELSE <<[unit |-> p.nalu, from |-> p.from, len |-> p.len,
            first |-> Whole(p) \/ p.fu.s, last |-> Whole(p) \/ p.fu.e]>>

Stream == INSTANCE UnitStream
    WITH accepted <- Accepted, done <- tailIndex,
         offset <- fuAPacketizationState.naluDataIndex,
         slices <- SlicesOf(packet),
         Unit <- Nalu, Restated <- NALU_HEADER_SIZE

(* A call that passes a buffer the FU-A header does not fit.               *)
GetPacketWithoutRoom ==
    \E size \in PacketSizes :
        size < FU_A_HEADER_SIZE /\ H264Packetizer_GetPacket(size)

(* Whatever the buffer lengths, and wherever NAL units are added between   *)
(* two fragments, every byte of every NAL unit is sent once and in order,  *)
(* and S and E mark the first and the last fragment.  No fragment has both *)
(* marks, but for the whole NAL unit in one in a buffer of one byte.       *)
ImplementsStream ==
    /\ Stream!Init
    /\ [][Stream!Next \/ (GetPacketWithoutRoom /\ Stream!SendOnlySlice)]_(
            Stream!streamVars)
=============================================================================
