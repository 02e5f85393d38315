--------------------------- MODULE H265Packetizer ---------------------------
(***************************************************************************)
(* codec_packetizers/h265/h265_packetizer.c: the NAL units of a frame go   *)
(* into a caller-supplied array and leave as single NAL unit packets, as   *)
(* fragments (FU), or several to an aggregation packet (AP), as the buffer *)
(* of that GetPacket call allows.                                          *)
(***************************************************************************)
EXTENDS H265DataTypes, Sequences

CONSTANTS
    Nalu,           \* [header, len] records of the NAL units callers add
    Frames,         \* frames: sequences of the NAL units between start codes
    ArrayLengths,   \* array lengths callers pass to H265Packetizer_Init
    PacketSizes,    \* packetDataLength values callers pass to GetPacket
    NaluSizeMod,    \* what the 16-bit NAL unit size of an AP counts modulo
    NoNalu          \* an array slot nothing was stored in

ASSUME NaluAssumption == Nalu \subseteq [header : Header, len : Nat]

ASSUME FramesAssumption == Frames \subseteq Seq(Nalu)

ASSUME LengthsAssumption ==
    /\ ArrayLengths \subseteq Nat
    /\ PacketSizes \subseteq Nat
    /\ NaluSizeMod \in Nat \ {0}

VARIABLES
    naluArray,      \* pNaluArray
    naluArrayLength,
    headIndex,
    tailIndex,
    naluCount,
    currentlyProcessingPacket,
    fuPacketizationState,
    packet,         \* the last packet GetPacket filled
    result          \* return code of the last call

added == <<naluArray, headIndex>>
sending == <<tailIndex, naluCount, currentlyProcessingPacket,
             fuPacketizationState, packet>>
vars == <<naluArray, naluArrayLength, headIndex, tailIndex, naluCount,
          currentlyProcessingPacket, fuPacketizationState, packet, result>>

(* `runs' are the bytes of NAL units in a packet, `sizes' the NAL unit     *)
(* sizes an aggregation packet holds, by their offset in it.               *)
NoSizes == [at \in {} |-> 0]

NoPacket == [header |-> NoHeader, fu |-> NoFuHeader, sizes |-> NoSizes,
             runs |-> << >>, packetDataLength |-> 0]

Run(i, from, n) == [nalu |-> i, from |-> from, len |-> n]

ZeroFuState == [payloadHeader |-> NoHeader, fuHeader |-> 0, naluDataIndex |-> 0,
                remainingNaluLength |-> 0]

Refuse(r) ==
    /\ result' = r
    /\ UNCHANGED <<added, naluArrayLength, sending>>

-----------------------------------------------------------------------------

H265Packetizer_Init(n) ==
    \/ n = 0 /\ Refuse("BAD_PARAM")
    \/ /\ n > 0
       /\ naluArray' = [i \in 0..(n - 1) |-> NoNalu]
       /\ naluArrayLength' = n
       /\ headIndex' = 0
       /\ tailIndex' = 0
       /\ naluCount' = 0
       /\ currentlyProcessingPacket' = "NONE"
       /\ fuPacketizationState' = ZeroFuState
       /\ packet' = NoPacket
       /\ result' = "OK"

(* As for H264 only naluCount is checked: the caller adds a frame before   *)
(* it takes packets (README.md, Packetization), or has counted its slots.  *)
SlotsFor(n) == tailIndex = 0 \/ headIndex + n <= naluArrayLength

Queue(nalus) ==
    /\ naluArray' = [i \in DOMAIN naluArray |->
                        IF i \in headIndex..(headIndex + Len(nalus) - 1)
                            THEN nalus[i - headIndex + 1] ELSE naluArray[i]]
    /\ headIndex' = headIndex + Len(nalus)
    /\ naluCount' = naluCount + Len(nalus)
    /\ UNCHANGED <<naluArrayLength, tailIndex, currentlyProcessingPacket,
                   fuPacketizationState, packet>>

H265Packetizer_AddNalu(nalu) ==
    /\ SlotsFor(1)
    /\ \/ nalu.len < NALU_HEADER_SIZE /\ Refuse("MALFORMED_PACKET")
       \/ /\ nalu.len >= NALU_HEADER_SIZE
          /\ naluCount >= naluArrayLength
          /\ Refuse("OUT_OF_MEMORY")
       \/ /\ nalu.len >= NALU_HEADER_SIZE
          /\ naluCount < naluArrayLength
          /\ Queue(<<nalu>>)
          /\ result' = "OK"

(* AddNalu on each NAL unit of the frame, up to the first it refuses; the  *)
(* ones before it stay queued.  Without a start code there is none.        *)
H265Packetizer_AddFrame(frame) ==
    /\ SlotsFor(Len(frame))
    /\ \E k \in 0..Len(frame) :
        /\ \A i \in 1..k : frame[i].len >= NALU_HEADER_SIZE
        /\ k > 0 => naluCount + k <= naluArrayLength
        /\ Queue(SubSeq(frame, 1, k))
        /\ \/ frame = << >> /\ result' = "MALFORMED_PACKET"
           \/ frame # << >> /\ k = Len(frame) /\ result' = "OK"
           \/ /\ k < Len(frame)
              /\ frame[k + 1].len < NALU_HEADER_SIZE
              /\ result' = "MALFORMED_PACKET"
           \/ /\ k < Len(frame)
              /\ frame[k + 1].len >= NALU_HEADER_SIZE
              /\ naluCount + k >= naluArrayLength
              /\ result' = "OUT_OF_MEMORY"

-----------------------------------------------------------------------------

(* Mutant: one NAL unit too few is taken off.                              *)
NextNalusOneShort(n) == tailIndex' = tailIndex + n - 1 /\ naluCount' = naluCount - n + 1

(* tailIndex += n and naluCount -= n.                                      *)
NextNalus(n) == tailIndex' = tailIndex + n /\ naluCount' = naluCount - n

(* The i-th NAL unit from the tail.                                        *)
Waiting(i) == naluArray[tailIndex + i - 1]

PacketizeSingleNaluPacket ==
    /\ packet' = [header |-> Waiting(1).header, fu |-> NoFuHeader,
                  sizes |-> NoSizes,
                  runs |-> <<Run(tailIndex, 0, Waiting(1).len)>>,
                  packetDataLength |-> Waiting(1).len]
    /\ NextNalus(1)
    /\ UNCHANGED <<currentlyProcessingPacket, fuPacketizationState>>

(* Mutant: the second byte is left zero.                                   *)
FuPayloadHeaderTypeOnly(header) ==
    [f |-> header.f, type |-> FU_PACKET_TYPE, layerId |-> 0, tid |-> 0]

(* F and TID of the NAL unit header are kept, LayerId is not.              *)
FuPayloadHeader(header) ==
    [f |-> header.f, type |-> FU_PACKET_TYPE, layerId |-> 0, tid |-> header.tid]

(* Mutant: one header byte too few skipped.                                *)
FuStateOneByteHeader ==
    IF currentlyProcessingPacket = "NONE"
        THEN [payloadHeader |-> FuPayloadHeader(Waiting(1).header),
              fuHeader |-> Waiting(1).header.type,
              naluDataIndex |-> 1,
              remainingNaluLength |-> Waiting(1).len - NALU_HEADER_SIZE]
        ELSE fuPacketizationState

(* The state a call works from: a fresh one for the first fragment.        *)
FuState ==
    IF currentlyProcessingPacket = "NONE"
        THEN [payloadHeader |-> FuPayloadHeader(Waiting(1).header),
              fuHeader |-> Waiting(1).header.type,
              naluDataIndex |-> NALU_HEADER_SIZE,
              remainingNaluLength |-> Waiting(1).len - NALU_HEADER_SIZE]
        ELSE fuPacketizationState

(* A fragment, or nothing if the buffer has no room for payload.           *)
PacketizeFragmentationUnitPacket(size) ==
    LET fu == FuState
        n == H265_MIN(size - FuHeadersSize, fu.remainingNaluLength)
        last == n = fu.remainingNaluLength
    IN  \/ size <= FuHeadersSize /\ Refuse("OUT_OF_MEMORY")
        \/ /\ size > FuHeadersSize
           /\ packet' = [header |-> fu.payloadHeader,
                         fu |-> [s |-> currentlyProcessingPacket = "NONE",
                                 e |-> last, type |-> fu.fuHeader],
                         sizes |-> NoSizes,
                         runs |-> <<Run(tailIndex, fu.naluDataIndex, n)>>,
                         packetDataLength |-> n + FuHeadersSize]
           /\ \/ /\ last
                 /\ fuPacketizationState' = ZeroFuState
                 /\ currentlyProcessingPacket' = "NONE"
                 /\ NextNalus(1)
              \/ /\ ~last
                 /\ fuPacketizationState' =
                        [fu EXCEPT !.naluDataIndex = @ + n,
                                   !.remainingNaluLength = @ - n]
                 /\ currentlyProcessingPacket' = "FU"
                 /\ UNCHANGED <<tailIndex, naluCount>>
           /\ result' = "OK"
           /\ UNCHANGED <<added, naluArrayLength>>

(* Length of an aggregation packet of the next n NAL units, which is the   *)
(* offset of one more size field.                                          *)
ApLength ==
    LET l[n \in 0..naluCount] ==
            IF n = 0 THEN AP_HEADER_SIZE
            ELSE l[n - 1] + AP_NALU_LENGTH_FIELD_SIZE + Waiting(n).len
    IN  l

(* F is set if it is in one of the NAL units, TID is the lowest of theirs. *)
ApPayloadHeader(n) ==
    [f |-> IF \E i \in 1..n : Waiting(i).header.f = 1 THEN 1 ELSE 0,
     type |-> AP_PACKET_TYPE, layerId |-> 0,
     tid |-> CHOOSE tid \in 0..7 :
                /\ \E i \in 1..n : Waiting(i).header.tid = tid
                /\ \A i \in 1..n : tid <= Waiting(i).header.tid]

PacketizeAggregationPacket(n) ==
    /\ packet' = [header |-> ApPayloadHeader(n), fu |-> NoFuHeader,
                  sizes |-> [at \in {ApLength[i - 1] : i \in 1..n} |->
                        Waiting(CHOOSE i \in 1..n : ApLength[i - 1] = at).len
                            % NaluSizeMod],
                  runs |-> [i \in 1..n |-> Run(tailIndex + i - 1, 0, Waiting(i).len)],
                  packetDataLength |-> ApLength[n]]
    /\ NextNalus(n)
    /\ UNCHANGED <<currentlyProcessingPacket, fuPacketizationState>>

(* Mutant: the size field of the last NAL unit is not counted.             *)
FitsWithoutLastSize(n, size) ==
    /\ ApLength[n] - AP_NALU_LENGTH_FIELD_SIZE <= size
    /\ n < naluCount => ApLength[n + 1] - AP_NALU_LENGTH_FIELD_SIZE > size

(* How many of the waiting NAL units an aggregation packet of this size    *)
(* takes: the scan stops at the first that does not fit.                   *)
Fits(n, size) ==
    /\ ApLength[n] <= size
    /\ n < naluCount => ApLength[n + 1] > size

H265Packetizer_GetPacket(size) ==
    \/ size < NALU_HEADER_SIZE + 1 /\ Refuse("BAD_PARAM")
    \/ size >= NALU_HEADER_SIZE + 1 /\ naluCount = 0 /\ Refuse("NO_MORE_PACKETS")
    \/ /\ size >= NALU_HEADER_SIZE + 1 /\ naluCount # 0
       /\ currentlyProcessingPacket = "FU" \/ Waiting(1).len > size
       /\ PacketizeFragmentationUnitPacket(size)
    \/ /\ size >= NALU_HEADER_SIZE + 1 /\ naluCount # 0
       /\ currentlyProcessingPacket = "NONE"
       /\ Waiting(1).len <= size
       /\ \E n \in 0..naluCount :
            /\ Fits(n, size)
            /\ \/ n > 1 /\ PacketizeAggregationPacket(n)
               \/ n <= 1 /\ PacketizeSingleNaluPacket
       /\ result' = "OK"
       /\ UNCHANGED <<added, naluArrayLength>>

(* Every function answers a NULL argument this way and does nothing else.  *)
NullArgument == Refuse("BAD_PARAM")

-----------------------------------------------------------------------------

(* Callers start with a successful H265Packetizer_Init.                    *)
Init ==
    /\ naluArrayLength \in ArrayLengths \ {0}
    /\ naluArray = [i \in 0..(naluArrayLength - 1) |-> NoNalu]
    /\ headIndex = 0
    /\ tailIndex = 0
    /\ naluCount = 0
    /\ currentlyProcessingPacket = "NONE"
    /\ fuPacketizationState = ZeroFuState
    /\ packet = NoPacket
    /\ result = "OK"

GetPacket == \E size \in PacketSizes : H265Packetizer_GetPacket(size)

Next ==
    \/ \E n \in ArrayLengths : H265Packetizer_Init(n)
    \/ \E nalu \in Nalu : H265Packetizer_AddNalu(nalu)
    \/ \E frame \in Frames : H265Packetizer_AddFrame(frame)
    \/ GetPacket
    \/ NullArgument

Spec == Init /\ [][Next]_vars

(* A buffer with room for payload.                                         *)
GetPacketWithRoom ==
    \E size \in PacketSizes :
        size > FuHeadersSize /\ H265Packetizer_GetPacket(size)

(* The caller goes on taking packets as README.md says; of the buffers it  *)
(* uses, some have room for payload.                                       *)
FairSpec == Spec /\ WF_vars(GetPacketWithRoom)

-----------------------------------------------------------------------------

Results == {"OK", "BAD_PARAM", "OUT_OF_MEMORY", "MALFORMED_PACKET",
            "NO_MORE_PACKETS"}

FuStates == [payloadHeader : Header, fuHeader : 0..63, naluDataIndex : Nat,
             remainingNaluLength : Nat]

(* Type invariant: the head index, which AddNalu checks nothing about,     *)
(* stays in the array and agrees with tail index and count, and the slots  *)
(* below it hold NAL units with a header.                                  *)
TypeOK ==
    /\ naluArrayLength \in Nat /\ naluArrayLength > 0
    /\ naluArray \in [0..(naluArrayLength - 1) -> Nalu \cup {NoNalu}]
    /\ headIndex \in Nat /\ tailIndex \in Nat /\ naluCount \in Nat
    /\ headIndex = tailIndex + naluCount
    /\ headIndex <= naluArrayLength
    /\ \A i \in 0..(headIndex - 1) :
        naluArray[i] \in Nalu /\ naluArray[i].len >= NALU_HEADER_SIZE
    /\ currentlyProcessingPacket \in {"NONE", "FU"}
    /\ fuPacketizationState \in FuStates
    /\ result \in Results

(* Between two fragments the packetization state, kept across calls of any *)
(* kind and across calls that fail for want of room, still describes the   *)
(* NAL unit at the tail: the headers are made from its own, what was sent  *)
(* and what remains make it up, and something remains.                     *)
FuStateConsistent ==
    \/ /\ currentlyProcessingPacket = "NONE"
       /\ fuPacketizationState = ZeroFuState
    \/ /\ currentlyProcessingPacket = "FU"
       /\ naluCount > 0
       /\ fuPacketizationState.payloadHeader = FuPayloadHeader(Waiting(1).header)
       /\ fuPacketizationState.fuHeader = Waiting(1).header.type
       /\ fuPacketizationState.naluDataIndex >= NALU_HEADER_SIZE
       /\ fuPacketizationState.remainingNaluLength > 0
       /\ fuPacketizationState.naluDataIndex
            + fuPacketizationState.remainingNaluLength = Waiting(1).len

(* A packet of any of the three kinds is never longer than the buffer its  *)
(* caller passed.                                                          *)
PacketFitsBuffer ==
    [][\A size \in PacketSizes :
        H265Packetizer_GetPacket(size) /\ result' = "OK"
            => packet'.packetDataLength <= size]_vars

(* README.md, Packetization: GetPacket is called `until                    *)
(* <Codec>_RESULT_NO_MORE_PACKETS is returned'.  It comes to that, if not  *)
(* every buffer is too short for a fragment.                               *)
ReachesNoMorePackets == naluCount > 0 ~> naluCount = 0

Accepted == [i \in 1..headIndex |-> naluArray[i - 1]]

IsFragment(p) == p.header.type = FU_PACKET_TYPE

SlicesOf(p) ==
    [i \in DOMAIN p.runs |->
        [unit |-> p.runs[i].nalu, from |-> p.runs[i].from, len |-> p.runs[i].len,
         first |-> IsFragment(p) => p.fu.s, last |-> IsFragment(p) => p.fu.e]]

Stream == INSTANCE UnitStream
    WITH accepted <- Accepted, done <- tailIndex,
         offset <- fuPacketizationState.naluDataIndex,
         slices <- SlicesOf(packet),
         Unit <- Nalu, Restated <- NALU_HEADER_SIZE

(* Whatever the buffer lengths, and wherever NAL units are added between   *)
(* two fragments, every byte of every NAL unit is sent once and in order:  *)
(* in fragments, of which S and E mark the first and the last, alone, or   *)
(* with the NAL units behind it in one packet.                             *)
ImplementsStream == Stream!Spec
=============================================================================
