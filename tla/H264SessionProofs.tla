-------------------------- MODULE H264SessionProofs -------------------------
(***************************************************************************)
(* Proofs about H264Packetizer, and about H264Session, which joins it to a *)
(* network and to H264Depacketizer, for every set of NAL units, frames,    *)
(* array lengths and buffer lengths.  What H264DepacketizerProofs proves   *)
(* of the receiver alone is used through the instance Reader.              *)
(***************************************************************************)
EXTENDS H264Session, SequenceTheorems, TLAPS

(* The inductive invariant.  A fragment is right only because the saved    *)
(* state describes the NAL unit at the tail, and there is one only because *)
(* the indices agree and the slots between them are filled.                *)
IInv == TypeOK /\ QueueConsistent /\ FuStateConsistent

-----------------------------------------------------------------------------
(* size_t arithmetic.                                                      *)

(* A remainder is below the modulus.                                       *)
LEMMA ModRange ==
    ASSUME NEW n \in Nat, n >= 1, NEW x \in Int
    PROVE  x % n \in 0..(n - 1)
BY SMTT(20)

(* A number below the modulus is its own remainder.                        *)
LEMMA ModSmall ==
    ASSUME NEW n \in Nat, n >= 1, NEW x \in 0..(n - 1)
    PROVE  x % n = x
BY SMTT(20)

(* One below zero wraps to the largest number.                             *)
LEMMA ModMinusOne ==
    ASSUME NEW n \in Nat, n >= 1
    PROVE  (1 - 2) % n = n - 1
BY SMTT(20)

(* No buffer gives a negative payload; one of 2 bytes or more gives what   *)
(* the FU-A header leaves, and one of 1 byte all that size_t counts.       *)
LEMMA MaxPayload ==
    ASSUME NEW size \in PacketSizes
    PROVE  /\ size \in Nat
           /\ MaxNaluDataLengthToSend(size) \in Nat
           /\ size >= 2 => MaxNaluDataLengthToSend(size) = size - 2
           /\ size = 1 => MaxNaluDataLengthToSend(size) = SizeMod - 1
<1>1. SizeMod \in Nat /\ SizeMod > 2 /\ size \in 0..(SizeMod - 1)
    BY SizeAssumption DEF FU_A_HEADER_SIZE
<1>2. (size - 2) % SizeMod \in 0..(SizeMod - 1)
    BY <1>1, ModRange
<1>3. ASSUME size >= 2 PROVE (size - 2) % SizeMod = size - 2
    <2>1. size - 2 \in 0..(SizeMod - 1)  BY <1>1, <1>3
    <2> QED BY <1>1, <2>1, ModSmall
<1>4. ASSUME size = 1 PROVE (size - 2) % SizeMod = SizeMod - 1
    <2>1. SizeMod >= 1  BY <1>1
    <2>2. (1 - 2) % SizeMod = SizeMod - 1  BY ONLY <1>1, <2>1, ModMinusOne
    <2> QED BY <1>4, <2>2
<1> QED BY <1>1, <1>2, <1>3, <1>4 DEF MaxNaluDataLengthToSend, FU_A_HEADER_SIZE

-----------------------------------------------------------------------------

(* The header of no packet is a header byte too.                           *)
LEMMA NoHeaderType == NoHeader \in HeaderByte
BY DEF NoHeader, HeaderByte

(* The invariant holds initially.                                          *)
LEMMA InitInv == Init => IInv /\ Stream!Init
<1> SUFFICES ASSUME Init PROVE IInv /\ Stream!Init
    OBVIOUS
<1>1. naluArrayLength \in Nat /\ naluArrayLength > 0
    BY ArrayLengthsAssumption DEF Init
<1>2. TypeOK
    BY <1>1, NoHeaderType DEF Init, TypeOK, ZeroFuState, Results
<1>3. QueueConsistent /\ FuStateConsistent
    BY <1>1 DEF Init, QueueConsistent, FuStateConsistent
<1>4. Stream!Init
    BY DEF Init, Stream!Init, Accepted, SlicesOf,
           ZeroFuState
<1> QED BY <1>2, <1>3, <1>4 DEF IInv

(* A refused call changes nothing a NAL unit or packet can be seen by.     *)
LEMMA RefuseInv ==
    ASSUME IInv, NEW r \in Results, Refuse(r)
    PROVE  IInv' /\ UNCHANGED Stream!streamVars
<1>1. result' = r /\ UNCHANGED <<added, naluArrayLength, sending>>
    BY DEF Refuse
<1>2. TypeOK'
    BY <1>1 DEF IInv, TypeOK, added, sending
<1>3. QueueConsistent' /\ FuStateConsistent'
    BY <1>1 DEF IInv, QueueConsistent, FuStateConsistent, added, sending
<1> QED BY <1>1, <1>2, <1>3
        DEF IInv, Stream!streamVars, Accepted, SlicesOf, Whole, added, sending

(* H264Packetizer_Init establishes it.                                     *)
LEMMA InitCallInv ==
    ASSUME IInv, NEW n \in ArrayLengths, H264Packetizer_Init(n)
    PROVE  IInv' /\ [Stream!Next]_(Stream!streamVars)
<1>1. CASE n = 0 /\ Refuse("BAD_PARAM")
    BY <1>1, RefuseInv DEF Results
<1>2. CASE n > 0
    <2>1. n \in Nat
        BY ArrayLengthsAssumption
    <2>2. /\ naluArray' = [i \in 0..(n - 1) |-> NoNalu] /\ naluArrayLength' = n
          /\ headIndex' = 0 /\ tailIndex' = 0 /\ naluCount' = 0
          /\ currentlyProcessingPacket' = "NONE"
          /\ fuAPacketizationState' = ZeroFuState
          /\ packet' = NoPacket /\ result' = "OK"
        BY <1>2, <2>1 DEF H264Packetizer_Init
    <2>3. TypeOK'
        BY <1>2, <2>1, <2>2, NoHeaderType DEF TypeOK, ZeroFuState, Results
    <2>4. QueueConsistent' /\ FuStateConsistent'
        BY <1>2, <2>1, <2>2 DEF QueueConsistent, FuStateConsistent
    <2>5. Stream!Restart
        BY <2>2 DEF Stream!Restart, Accepted, SlicesOf, ZeroFuState
    <2> QED BY <2>3, <2>4, <2>5 DEF IInv, Stream!Next
<1> QED BY <1>1, <1>2 DEF H264Packetizer_Init

(* Storing NAL units that have a header, in slots the array has.           *)
LEMMA QueueInv ==
    ASSUME IInv, NEW nalus \in Seq(Nalu), Queue(nalus), result' \in Results,
           \A i \in 1..Len(nalus) : nalus[i].len >= NALU_HEADER_SIZE,
           headIndex + Len(nalus) <= naluArrayLength
    PROVE  IInv' /\ [Stream!Next]_(Stream!streamVars)
<1>1. Len(nalus) \in Nat /\ \A i \in 1..Len(nalus) : nalus[i] \in Nalu
    OBVIOUS
<1>2. /\ headIndex' = headIndex + Len(nalus)
      /\ naluCount' = naluCount + Len(nalus)
      /\ naluArrayLength' = naluArrayLength /\ tailIndex' = tailIndex
      /\ currentlyProcessingPacket' = currentlyProcessingPacket
      /\ fuAPacketizationState' = fuAPacketizationState
      /\ packet' = packet
    BY DEF Queue
<1>3. /\ headIndex \in Nat /\ tailIndex \in Nat /\ naluCount \in Nat
      /\ naluArrayLength \in Nat /\ naluArrayLength > 0
      /\ headIndex = tailIndex + naluCount
      /\ DOMAIN naluArray = 0..(naluArrayLength - 1)
    BY DEF IInv, TypeOK, QueueConsistent
<1>4. \A i \in 0..(headIndex - 1) : naluArray'[i] = naluArray[i]
    BY <1>1, <1>3 DEF Queue
<1>5. \A i \in headIndex..(headIndex + Len(nalus) - 1) :
        naluArray'[i] = nalus[i - headIndex + 1] /\ i - headIndex + 1 \in 1..Len(nalus)
    BY <1>1, <1>3 DEF Queue
<1>6. naluArray' \in [0..(naluArrayLength - 1) -> Nalu \cup {NoNalu}]
    <2>1. \A i \in 0..(naluArrayLength - 1) : naluArray[i] \in Nalu \cup {NoNalu}
        BY DEF IInv, TypeOK
    <2> QED BY <1>1, <1>3, <2>1 DEF Queue
<1>7. TypeOK'
    BY <1>1, <1>2, <1>3, <1>6 DEF IInv, TypeOK
<1>8. \A i \in 0..(headIndex' - 1) :
        naluArray'[i] \in Nalu /\ naluArray'[i].len >= NALU_HEADER_SIZE
    <2> TAKE i \in 0..(headIndex' - 1)
    <2>1. CASE i < headIndex
        <3>1. i \in 0..(headIndex - 1)
            BY <1>3, <2>1
        <3> QED BY <1>4, <3>1 DEF IInv, QueueConsistent
    <2>2. CASE i >= headIndex
        <3>1. i \in headIndex..(headIndex + Len(nalus) - 1)
            BY <1>1, <1>2, <1>3, <2>2
        <3> QED BY <1>1, <1>5, <3>1
    <2> QED BY <1>1, <1>2, <1>3, <2>1, <2>2
<1>9. QueueConsistent'
    BY <1>1, <1>2, <1>3, <1>8 DEF QueueConsistent
<1>10. FuStateConsistent'
    <2>1. naluCount > 0 => naluArray'[tailIndex] = naluArray[tailIndex]
        BY <1>3, <1>4
    <2> QED BY <1>1, <1>2, <1>3, <2>1 DEF IInv, FuStateConsistent
<1>11. Stream!Accept
    <2>1. /\ Accepted' \in Seq(Nalu) /\ Len(Accepted') = headIndex + Len(nalus)
          /\ \A i \in 1..Len(Accepted') : Accepted'[i] = naluArray'[i - 1]
        BY <1>1, <1>2, <1>3, <1>8 DEF Accepted
    <2>2. /\ Len(Accepted) = headIndex
          /\ \A i \in 1..headIndex : Accepted[i] = naluArray[i - 1]
        BY <1>3 DEF Accepted
    <2>3. \A i \in 1..Len(Accepted) : Accepted'[i] = Accepted[i]
        BY <1>1, <1>3, <1>4, <2>1, <2>2
    <2> QED BY <1>1, <1>2, <1>3, <2>1, <2>2, <2>3 DEF Stream!Accept, SlicesOf, Whole
<1> QED BY <1>7, <1>9, <1>10, <1>11 DEF IInv, Stream!Next

(* H264Packetizer_AddNalu keeps it.                                        *)
LEMMA AddNaluInv ==
    ASSUME IInv, NEW n \in Nalu, H264Packetizer_AddNalu(n)
    PROVE  IInv' /\ [Stream!Next]_(Stream!streamVars)
<1>1. CASE Refuse("MALFORMED_PACKET") \/ Refuse("OUT_OF_MEMORY")
    BY <1>1, RefuseInv DEF Results
<1>2. CASE /\ n.len >= NALU_HEADER_SIZE /\ naluCount < naluArrayLength
           /\ Queue(<<n>>) /\ result' = "OK"
    <2>1. /\ <<n>> \in Seq(Nalu) /\ Len(<<n>>) = 1
          /\ \A i \in 1..Len(<<n>>) : <<n>>[i].len >= NALU_HEADER_SIZE
        BY <1>2
    <2>2. headIndex + 1 <= naluArrayLength
        BY <1>2 DEF H264Packetizer_AddNalu, SlotsFor, IInv, TypeOK, QueueConsistent
    <2> QED BY <1>2, <2>1, <2>2, QueueInv DEF Results
<1> QED BY <1>1, <1>2 DEF H264Packetizer_AddNalu

(* H264Packetizer_AddFrame keeps it.                                       *)
LEMMA AddFrameInv ==
    ASSUME IInv, NEW f \in Frames, H264Packetizer_AddFrame(f)
    PROVE  IInv' /\ [Stream!Next]_(Stream!streamVars)
<1>1. f \in Seq(Nalu) /\ Len(f) \in Nat
    BY FramesAssumption
<1>2. PICK k \in 0..Len(f) :
        /\ \A i \in 1..k : f[i].len >= NALU_HEADER_SIZE
        /\ k > 0 => naluCount + k <= naluArrayLength
        /\ Queue(SubSeq(f, 1, k))
        /\ result' \in Results
    BY DEF H264Packetizer_AddFrame, Results
<1>3. /\ SubSeq(f, 1, k) \in Seq(Nalu) /\ Len(SubSeq(f, 1, k)) = k
      /\ \A i \in 1..k : SubSeq(f, 1, k)[i] = f[i]
    <2>1. \A i \in 1..k : f[i] \in Nalu
        BY <1>1
    <2> QED BY <1>1, <2>1
<1>4. headIndex + k <= naluArrayLength
    BY <1>1, <1>2
       DEF H264Packetizer_AddFrame, SlotsFor, IInv, TypeOK, QueueConsistent
<1> QED BY <1>2, <1>3, <1>4, QueueInv

-----------------------------------------------------------------------------
(* What a call of GetPacket finds when there is a packet to make.          *)

(* The NAL unit at the tail is one that was added.                         *)
LEMMA TailNalu ==
    ASSUME IInv, naluCount # 0
    PROVE  /\ naluArray[tailIndex] \in Nalu
           /\ naluArray[tailIndex].header \in HeaderByte
           /\ naluArray[tailIndex].len \in Nat /\ naluArray[tailIndex].len >= 1
           /\ tailIndex \in 0..(headIndex - 1) /\ tailIndex < Len(Accepted)
           /\ Accepted[tailIndex + 1] = naluArray[tailIndex]
           /\ naluCount - 1 \in Nat /\ tailIndex + 1 \in Nat
           /\ headIndex = (tailIndex + 1) + (naluCount - 1)
<1>1. /\ headIndex \in Nat /\ tailIndex \in Nat /\ naluCount \in Nat
      /\ headIndex = tailIndex + naluCount
    BY DEF IInv, TypeOK, QueueConsistent
<1>2. tailIndex \in 0..(headIndex - 1)
    BY <1>1
<1>3. naluArray[tailIndex] \in Nalu /\ naluArray[tailIndex].len >= 1
    BY <1>2 DEF IInv, QueueConsistent, NALU_HEADER_SIZE
<1>4. tailIndex + 1 \in 1..headIndex /\ (tailIndex + 1) - 1 = tailIndex
    BY <1>1, <1>2
<1>5. Len(Accepted) = headIndex /\ Accepted[tailIndex + 1] = naluArray[tailIndex]
    BY <1>1, <1>4 DEF Accepted
<1> QED BY <1>1, <1>2, <1>3, <1>4, <1>5, NaluAssumption

(* What does not depend on the packet: the indices and the array.          *)
LEMMA AdvanceInv ==
    ASSUME IInv, naluCount # 0, UNCHANGED <<added, naluArrayLength>>,
           \/ NextNalu
           \/ UNCHANGED <<tailIndex, naluCount>>
    PROVE  /\ QueueConsistent' /\ Accepted' = Accepted
           /\ tailIndex' \in Nat /\ naluCount' \in Nat
<1>1. tailIndex' \in Nat /\ naluCount' \in Nat /\ headIndex' = tailIndex' + naluCount'
    BY TailNalu DEF NextNalu, IInv, TypeOK, QueueConsistent, added
<1> QED BY <1>1 DEF IInv, QueueConsistent, Accepted, added

(* A sequence of one item.                                                 *)
LEMMA Singleton ==
    ASSUME NEW f, NEW a, f = [i \in 1..1 |-> f[i]], f[1] = a
    PROVE  f = <<a>> /\ Len(f) = 1
OBVIOUS

(* A NAL unit that fits is sent whole.                                     *)
LEMMA SingleInv ==
    ASSUME IInv, naluCount # 0, currentlyProcessingPacket = "NONE",
           PacketizeSingleNaluPacket, result' = "OK",
           UNCHANGED <<added, naluArrayLength>>
    PROVE  IInv' /\ [Stream!Next]_(Stream!streamVars)
<1> DEFINE unit == naluArray[tailIndex]
<1>1. /\ packet' = [first |-> unit.header, fu |-> NoFuHeader,
                    nalu |-> tailIndex, from |-> 0, len |-> unit.len,
                    packetDataLength |-> unit.len]
      /\ NextNalu
      /\ UNCHANGED <<currentlyProcessingPacket, fuAPacketizationState>>
    BY DEF PacketizeSingleNaluPacket
<1>2. unit.header \in HeaderByte /\ unit.len \in Nat /\ tailIndex \in Nat
    BY TailNalu DEF IInv, TypeOK
<1> HIDE DEF unit
<1>3. packet' \in Packet
    BY <1>1, <1>2 DEF Packet, NoFuHeader, FuHeader
<1>4. /\ QueueConsistent' /\ Accepted' = Accepted
      /\ tailIndex' \in Nat /\ naluCount' \in Nat
    BY <1>1, AdvanceInv
<1>5. TypeOK'
    BY <1>1, <1>3, <1>4 DEF IInv, TypeOK, Results, added
<1>6. fuAPacketizationState = ZeroFuState /\ FuStateConsistent'
    BY <1>1 DEF IInv, FuStateConsistent
<1>7. packet' # NoPacket => SlicesOf(packet') =
        <<[unit |-> tailIndex, from |-> 0, len |-> unit.len,
           first |-> TRUE, last |-> TRUE]>>
    BY <1>1 DEF SlicesOf, Whole
<1>8. CASE packet' # NoPacket
    <2>1. /\ fuAPacketizationState.naluDataIndex = 0
          /\ fuAPacketizationState'.naluDataIndex = 0
          /\ tailIndex' = tailIndex + 1
        BY <1>1, <1>6 DEF NextNalu, ZeroFuState
    <2>2. SlicesOf(packet') = <<Stream!Slice(tailIndex, 0,
                                    Accepted[tailIndex + 1].len, TRUE, TRUE)>>
        BY <1>7, <1>8, TailNalu DEF Stream!Slice, unit
    <2>3. /\ Len(SlicesOf(packet')) = 1
          /\ SlicesOf(packet') = [i \in 1..1 |->
                Stream!Slice(tailIndex + i - 1, 0, Accepted[tailIndex + i].len,
                             TRUE, TRUE)]
        <3>1. tailIndex + 1 - 1 = tailIndex  BY <1>2
        <3> DEFINE whole == [i \in 1..1 |->
                Stream!Slice(tailIndex + i - 1, 0, Accepted[tailIndex + i].len,
                             TRUE, TRUE)]
        <3>2. whole = [i \in 1..1 |-> whole[i]]
            OBVIOUS
        <3>3. whole[1] = Stream!Slice(tailIndex, 0, Accepted[tailIndex + 1].len,
                                      TRUE, TRUE)
            <4> HIDE DEF unit
            <4>1. whole[1] = Stream!Slice(tailIndex + 1 - 1, 0,
                                Accepted[tailIndex + 1].len, TRUE, TRUE)
                OBVIOUS
            <4> QED BY <3>1, <4>1
        <3> HIDE DEF whole
        <3>4. whole = SlicesOf(packet') /\ Len(whole) = 1
            BY <2>2, <3>2, <3>3, Singleton
        <3> QED BY <3>4 DEF whole
    <2>4. Stream!SendWhole(1)
        BY <1>4, <2>1, <2>3, TailNalu DEF Stream!SendWhole, SlicesOf
    <2> QED BY <1>4, <1>5, <1>6, <2>3, <2>4 DEF IInv, Stream!Next, SlicesOf
<1> QED BY <1>8, <1>3, NoPacketAssumption

(* The state a fragment is made from accounts for the whole NAL unit.      *)
LEMMA FuStateFacts ==
    ASSUME IInv, naluCount # 0,
           currentlyProcessingPacket = "FU_A" \/ naluArray[tailIndex].len >= 2
    PROVE  /\ FuState \in [naluHeader : HeaderByte, naluDataIndex : Nat,
                           remainingNaluLength : Nat]
           /\ FuState.naluHeader = naluArray[tailIndex].header
           /\ FuState.naluDataIndex >= 1 /\ FuState.remainingNaluLength >= 1
           /\ FuState.naluDataIndex + FuState.remainingNaluLength
                = naluArray[tailIndex].len
           /\ FuState.naluDataIndex = IF fuAPacketizationState.naluDataIndex = 0
                THEN 1 ELSE fuAPacketizationState.naluDataIndex
           /\ fuAPacketizationState.naluDataIndex = 0
                <=> currentlyProcessingPacket = "NONE"
<1>1. CASE currentlyProcessingPacket = "NONE"
    <2>1. /\ naluArray[tailIndex].len >= 2
          /\ fuAPacketizationState.naluDataIndex = 0
        BY <1>1 DEF IInv, FuStateConsistent, ZeroFuState
    <2> QED BY <1>1, <2>1, TailNalu DEF FuState
<1>2. CASE currentlyProcessingPacket = "FU_A"
    BY <1>2 DEF FuState, IInv, TypeOK, FuStateConsistent
<1> QED BY <1>1, <1>2 DEF IInv, TypeOK

(* What a step does to the stream, in a buffer of this length.             *)
StreamStep(size) ==
    [Stream!Next]_(Stream!streamVars) \/ (size = 1 /\ Stream!SendOnlySlice)

(* The packet fits the buffer, or is a fragment with the rest of its NAL   *)
(* unit in a buffer too short for the header.                              *)
FitsOrRest(size) ==
    \/ packet'.packetDataLength <= size
    \/ /\ size < FU_A_HEADER_SIZE /\ ~Whole(packet')
       /\ packet'.from + packet'.len = naluArray[tailIndex].len

(* The next fragment of a NAL unit is sent.                                *)
LEMMA FragmentInv ==
    ASSUME IInv, naluCount # 0, NEW size \in PacketSizes, size # 0,
           \/ currentlyProcessingPacket = "FU_A"
           \/ naluArray[tailIndex].len > size,
           PacketizeFragmentationUnitPacket(size), result' = "OK",
           UNCHANGED <<added, naluArrayLength>>
    PROVE  /\ IInv'
           /\ StreamStep(size)
           /\ FitsOrRest(size)
<1> DEFINE fu == FuState
           max == MaxNaluDataLengthToSend(size)
           n == H264_MIN(max, fu.remainingNaluLength)
           last == n = fu.remainingNaluLength
           p == [first |-> FuIndicator(fu.naluHeader),
                 fu |-> [s |-> currentlyProcessingPacket = "NONE",
                         e |-> last, type |-> fu.naluHeader.type],
                 nalu |-> tailIndex, from |-> fu.naluDataIndex, len |-> n,
                 packetDataLength |-> n + FU_A_HEADER_SIZE]
           next == [naluHeader |-> fu.naluHeader,
                    naluDataIndex |-> fu.naluDataIndex + n,
                    remainingNaluLength |-> fu.remainingNaluLength - n]
<1>1. /\ packet' = p
      /\ \/ /\ last
            /\ fuAPacketizationState' = ZeroFuState
            /\ currentlyProcessingPacket' = "NONE"
            /\ NextNalu
         \/ /\ ~last
            /\ fuAPacketizationState' = next
            /\ currentlyProcessingPacket' = "FU_A"
            /\ UNCHANGED <<tailIndex, naluCount>>
    BY DEF PacketizeFragmentationUnitPacket
<1>2. /\ size \in Nat /\ max \in Nat /\ (size # 1 => max = size - 2)
      /\ size = 1 => max = SizeMod - 1
    BY MaxPayload
<1>3. /\ fu \in [naluHeader : HeaderByte, naluDataIndex : Nat,
                 remainingNaluLength : Nat]
      /\ fu.naluHeader = naluArray[tailIndex].header
      /\ fu.naluDataIndex >= 1 /\ fu.remainingNaluLength >= 1
      /\ fu.naluDataIndex + fu.remainingNaluLength = naluArray[tailIndex].len
      /\ fu.naluDataIndex = IF fuAPacketizationState.naluDataIndex = 0
            THEN 1 ELSE fuAPacketizationState.naluDataIndex
      /\ fuAPacketizationState.naluDataIndex = 0
            <=> currentlyProcessingPacket = "NONE"
    <2>1. currentlyProcessingPacket = "FU_A" \/ naluArray[tailIndex].len >= 2
        BY <1>2, TailNalu
    <2> QED BY <2>1, FuStateFacts
<1> HIDE DEF fu, max
<1>4. n \in Nat /\ n <= max /\ n <= fu.remainingNaluLength
    BY <1>2, <1>3 DEF H264_MIN
(* A first fragment was too long for the buffer, so it is not the last.    *)
<1>5. size # 1 /\ currentlyProcessingPacket = "NONE" => ~last
    BY <1>2, <1>3, <1>4, TailNalu
<1>6. tailIndex \in Nat
    BY DEF IInv, TypeOK
(* In a buffer of one byte every fragment is the last.                     *)
<1>7. size = 1 => last
    <2>1. /\ SizeMod \in Nat /\ naluArray[tailIndex].len < SizeMod
          /\ naluArray[tailIndex].len \in Nat
        BY TailNalu, SizeAssumption
    <2> QED BY <1>2, <1>3, <2>1 DEF H264_MIN
<1> HIDE DEF n
<1>8. packet' \in Packet
    <2>1. FuIndicator(fu.naluHeader) \in HeaderByte
        BY <1>3 DEF FuIndicator, HeaderByte, FU_A_PACKET_TYPE
    <2>2. fu.naluHeader.type \in 0..31
        BY <1>3 DEF HeaderByte
    <2>3. [s |-> currentlyProcessingPacket = "NONE", e |-> last,
           type |-> fu.naluHeader.type] \in FuHeader
        BY <2>2 DEF FuHeader
    <2> QED BY <1>1, <1>3, <1>4, <1>6, <2>1, <2>3 DEF Packet, FU_A_HEADER_SIZE
<1>9. /\ QueueConsistent' /\ Accepted' = Accepted
      /\ tailIndex' \in Nat /\ naluCount' \in Nat
    BY <1>1, AdvanceInv
<1>10. ~last => n < fu.remainingNaluLength
    BY <1>3, <1>4
<1>11. ASSUME ~last
       PROVE  /\ fuAPacketizationState' = next
              /\ next \in [naluHeader : HeaderByte, naluDataIndex : Nat,
                           remainingNaluLength : Nat]
              /\ next.naluHeader = fu.naluHeader
              /\ next.naluDataIndex = fu.naluDataIndex + n
              /\ next.remainingNaluLength = fu.remainingNaluLength - n
              /\ next.remainingNaluLength > 0
    <2>1. /\ fu.naluDataIndex + n \in Nat
          /\ fu.remainingNaluLength - n \in Nat /\ fu.remainingNaluLength - n > 0
        BY <1>3, <1>4, <1>10, <1>11
    <2>2. fuAPacketizationState' = next
        BY <1>1, <1>11
    <2> QED BY <1>3, <2>1, <2>2
<1>12. TypeOK'
    BY <1>1, <1>8, <1>9, <1>11, NoHeaderType
       DEF IInv, TypeOK, Results, added, ZeroFuState
<1>13. FuStateConsistent'
    <2>1. CASE last
        BY <1>1, <2>1 DEF FuStateConsistent
    <2>2. CASE ~last
        <3>1. /\ currentlyProcessingPacket' = "FU_A"
              /\ naluCount' = naluCount /\ naluCount \in Nat
              /\ naluArray'[tailIndex'] = naluArray[tailIndex]
            BY <1>1, <2>2 DEF added, IInv, TypeOK
        <3>2. fuAPacketizationState' = next /\ next.naluDataIndex >= 1
              /\ next.naluDataIndex + next.remainingNaluLength
                    = naluArray[tailIndex].len
            BY <1>3, <1>4, <1>11, <2>2
        <3> HIDE DEF next
        <3> QED BY <1>3, <1>11, <2>2, <3>1, <3>2 DEF FuStateConsistent
    <2> QED BY <2>1, <2>2
<1>14. SlicesOf(packet') = <<Stream!Slice(tailIndex, fu.naluDataIndex, n,
                             currentlyProcessingPacket = "NONE", last)>>
       /\ ~Whole(packet') /\ SlicesOf(packet') # << >>
       /\ SlicesOf(packet')[1].len = n
    <2>1. packet' # NoPacket /\ ~Whole(packet')
        BY <1>1, <1>4, <1>8, NoPacketAssumption DEF Whole, FU_A_HEADER_SIZE
    <2>2. SlicesOf(packet') = <<Stream!Slice(tailIndex, fu.naluDataIndex, n,
                                currentlyProcessingPacket = "NONE", last)>>
        BY <1>1, <2>1 DEF SlicesOf, Stream!Slice
    <2> QED BY <2>1, <2>2 DEF Stream!Slice
<1>15. /\ fu.naluDataIndex = IF fuAPacketizationState.naluDataIndex = 0
            THEN NALU_HEADER_SIZE ELSE fuAPacketizationState.naluDataIndex
       /\ fu.remainingNaluLength = Accepted[tailIndex + 1].len - fu.naluDataIndex
       /\ tailIndex < Len(Accepted)
    <2>1. fu.remainingNaluLength = naluArray[tailIndex].len - fu.naluDataIndex
        BY <1>3, TailNalu
    <2> QED BY <1>3, <2>1, TailNalu DEF NALU_HEADER_SIZE
<1>16. last => fuAPacketizationState'.naluDataIndex = 0
              /\ tailIndex' = tailIndex + 1
    BY <1>1 DEF ZeroFuState, NextNalu
<1>17. ASSUME size # 1 \/ currentlyProcessingPacket = "FU_A"
       PROVE  [Stream!Next]_(Stream!streamVars)
    <2>1. ~last => fuAPacketizationState'.naluDataIndex = fu.naluDataIndex + n
                   /\ tailIndex' = tailIndex
        BY <1>1, <1>11
    <2>2. Stream!SendSlice(n)
        <3>1. SlicesOf(packet)' = <<Stream!Slice(tailIndex, fu.naluDataIndex, n,
                                    fuAPacketizationState.naluDataIndex = 0, last)>>
            BY <1>3, <1>14 DEF SlicesOf, Whole
        <3>2. ~(fuAPacketizationState.naluDataIndex = 0 /\ last)
            BY <1>3, <1>5, <1>17
        <3>3. n >= 0 /\ (~last => n < fu.remainingNaluLength)
            BY <1>4, <1>10
        <3> QED BY <1>9, <1>15, <1>16, <2>1, <3>1, <3>2, <3>3 DEF Stream!SendSlice
    <2> QED BY <1>14, <2>2 DEF Stream!Next, SlicesOf
<1>18. ASSUME size = 1, currentlyProcessingPacket = "NONE"
       PROVE  Stream!SendOnlySlice
    <2>1. /\ last /\ fuAPacketizationState.naluDataIndex = 0
          /\ fu.naluDataIndex = NALU_HEADER_SIZE
        BY <1>3, <1>7, <1>18 DEF NALU_HEADER_SIZE
    <2>2. n = Accepted[tailIndex + 1].len - NALU_HEADER_SIZE
        BY <1>15, <2>1
    <2>3. SlicesOf(packet)' = <<Stream!Slice(tailIndex, NALU_HEADER_SIZE,
                                Accepted[tailIndex + 1].len - NALU_HEADER_SIZE,
                                TRUE, TRUE)>>
        BY <1>14, <1>18, <2>1, <2>2 DEF SlicesOf, Whole
    <2> QED BY <1>9, <1>15, <1>16, <2>1, <2>3 DEF Stream!SendOnlySlice
<1>19. StreamStep(size)
    BY <1>3, <1>17, <1>18 DEF IInv, TypeOK, StreamStep
<1>20. FitsOrRest(size)
    <2>1. CASE size = 1
        BY <1>1, <1>3, <1>14, <1>7, <2>1 DEF FitsOrRest, FU_A_HEADER_SIZE
    <2>2. CASE size # 1
        BY <1>1, <1>2, <1>4, <2>2 DEF FitsOrRest, FU_A_HEADER_SIZE
    <2> QED BY <2>1, <2>2
<1> QED BY <1>9, <1>12, <1>13, <1>19, <1>20 DEF IInv

(* H264Packetizer_GetPacket keeps the invariant.                           *)
LEMMA GetPacketInv ==
    ASSUME IInv, NEW size \in PacketSizes, H264Packetizer_GetPacket(size)
    PROVE  /\ IInv'
           /\ StreamStep(size)
           /\ result' = "OK" => FitsOrRest(size)
<1>1. CASE size = 0 /\ Refuse("BAD_PARAM")
    BY <1>1, RefuseInv DEF Results, Refuse, StreamStep
<1>2. CASE naluCount = 0 /\ Refuse("NO_MORE_PACKETS")
    BY <1>2, RefuseInv DEF Results, Refuse, StreamStep
<1>3. CASE /\ naluCount # 0 /\ currentlyProcessingPacket = "NONE"
           /\ naluArray[tailIndex].len <= size
           /\ PacketizeSingleNaluPacket /\ result' = "OK"
           /\ UNCHANGED <<added, naluArrayLength>>
    <2>1. packet'.packetDataLength = naluArray[tailIndex].len
        BY <1>3 DEF PacketizeSingleNaluPacket
    <2> QED BY <1>3, <2>1, SingleInv DEF StreamStep, FitsOrRest
<1>4. CASE /\ size # 0 /\ naluCount # 0
           /\ \/ currentlyProcessingPacket = "FU_A"
              \/ naluArray[tailIndex].len > size
           /\ PacketizeFragmentationUnitPacket(size) /\ result' = "OK"
           /\ UNCHANGED <<added, naluArrayLength>>
    BY <1>4, FragmentInv
<1> QED BY <1>1, <1>2, <1>3, <1>4 DEF H264Packetizer_GetPacket

(* So does a step that changes nothing.                                    *)
LEMMA StutterInv ==
    ASSUME IInv, UNCHANGED vars
    PROVE  IInv' /\ UNCHANGED Stream!streamVars
<1>1. TypeOK'
    BY DEF IInv, TypeOK, vars
<1>2. QueueConsistent' /\ FuStateConsistent'
    BY DEF IInv, QueueConsistent, FuStateConsistent, vars
<1> QED BY <1>1, <1>2 DEF IInv, Stream!streamVars, Accepted, SlicesOf, Whole, vars

(* Every step keeps it.                                                    *)
LEMMA NextInv ==
    ASSUME IInv, [Next]_vars
    PROVE  /\ IInv'
           /\ [Stream!Next \/ (GetPacketWithoutRoom /\ Stream!SendOnlySlice)]_(
                Stream!streamVars)
<1>1. CASE \E n \in ArrayLengths : H264Packetizer_Init(n)
    BY <1>1, InitCallInv
<1>2. CASE \E n \in Nalu : H264Packetizer_AddNalu(n)
    BY <1>2, AddNaluInv
<1>3. CASE \E f \in Frames : H264Packetizer_AddFrame(f)
    BY <1>3, AddFrameInv
<1>4. CASE GetPacket
    <2>1. PICK size \in PacketSizes : H264Packetizer_GetPacket(size)
        BY <1>4 DEF GetPacket
    <2>2. IInv' /\ StreamStep(size)
        BY <2>1, GetPacketInv
    <2>3. size = 1 => GetPacketWithoutRoom
        BY <2>1 DEF GetPacketWithoutRoom, FU_A_HEADER_SIZE
    <2> QED BY <2>2, <2>3 DEF StreamStep
<1>5. CASE NullArgument
    BY <1>5, RefuseInv DEF NullArgument, Results
<1>6. CASE UNCHANGED vars
    BY <1>6, StutterInv
<1> QED BY <1>1, <1>2, <1>3, <1>4, <1>5, <1>6 DEF Next, FrameNext

-----------------------------------------------------------------------------
(* Whatever a caller does who keeps to SlotsFor, and whatever its buffer   *)
(* lengths (1 included): the indices agree and stay in the array, and the  *)
(* saved FU-A state describes the NAL unit being sent.                     *)
THEOREM PacketizerIsConsistent == Spec => []IInv
<1>1. Init => IInv
    BY InitInv
<1>2. IInv /\ [Next]_vars => IInv'
    BY NextInv
<1> QED BY <1>1, <1>2, PTL DEF Spec

(* Each variable of H264Packetizer has its type.                           *)
THEOREM TypeCorrect == Spec => []TypeOK
BY PacketizerIsConsistent, PTL DEF IInv

(* AddNalu, which never checks headIndex, writes inside the array.         *)
THEOREM QueueStaysConsistent == Spec => []QueueConsistent
BY PacketizerIsConsistent, PTL DEF IInv

(* What was sent of the NAL unit at the tail and what remains make it up.  *)
THEOREM FuStateStaysConsistent == Spec => []FuStateConsistent
BY PacketizerIsConsistent, PTL DEF IInv

(* No packet is longer than its buffer, for any buffer but one of a single *)
(* byte: an FU-A header does not fit there, the code does not check, and   *)
(* the fragment carries the rest of the NAL unit.                          *)
THEOREM PacketsFit == Spec => PacketFitsBuffer
<1>1. ASSUME IInv, NEW size \in PacketSizes, H264Packetizer_GetPacket(size),
             result' = "OK"
      PROVE  \/ packet'.packetDataLength <= size
             \/ /\ size < FU_A_HEADER_SIZE /\ ~Whole(packet')
                /\ packet'.from + packet'.len = naluArray[tailIndex].len
    BY <1>1, GetPacketInv DEF FitsOrRest
<1>2. IInv /\ [Next]_vars =>
        [\A size \in PacketSizes :
            H264Packetizer_GetPacket(size) /\ result' = "OK"
                => \/ packet'.packetDataLength <= size
                   \/ /\ size < FU_A_HEADER_SIZE /\ ~Whole(packet')
                      /\ packet'.from + packet'.len = naluArray[tailIndex].len]_vars
    BY <1>1
<1> QED BY <1>2, PacketizerIsConsistent, PTL DEF Spec, PacketFitsBuffer

(* Every byte of every NAL unit leaves once and in order, in whole units   *)
(* or marked fragments; only a one-byte buffer gives a fragment both marks.*)
THEOREM RefinesStream == Spec => ImplementsStream
<1>1. Init => IInv /\ Stream!Init
    BY InitInv
<1>2. IInv /\ [Next]_vars
        => /\ IInv'
           /\ [Stream!Next \/ (GetPacketWithoutRoom /\ Stream!SendOnlySlice)]_(
                Stream!streamVars)
    BY NextInv
<1> QED BY <1>1, <1>2, PTL DEF Spec, ImplementsStream

(* A NAL unit has a type of its own, none of those the packets of RFC 6184 *)
(* are given: what the packetizer passes on is then read back as sent.     *)
NaluTypes ==
    \A n \in Nalu :
        n.header.type \in SINGLE_NALU_PACKET_TYPE_START..SINGLE_NALU_PACKET_TYPE_END

(* No buffer is exactly as long as the FU-A header: the code would fill it *)
(* with a fragment of no bytes, again and again.                           *)
RoomForPayload == FU_A_HEADER_SIZE \notin PacketSizes

(* A packet, as it was made of a NAL unit still in the array.              *)
SentWhole(p) ==
    /\ p.from = 0 /\ p.len = naluArray[p.nalu].len
    /\ p.packetDataLength = p.len
    /\ p.first = naluArray[p.nalu].header

SentFragment(p) ==
    /\ p.first.type = FU_A_PACKET_TYPE
    /\ p.first.nri = naluArray[p.nalu].header.nri
    /\ p.fu.type = naluArray[p.nalu].header.type
    /\ p.packetDataLength = p.len + FU_A_HEADER_SIZE
    /\ p.from >= 1 /\ p.len >= 1
    /\ p.from + p.len <= naluArray[p.nalu].len
    /\ p.fu.s <=> p.from = 1
    /\ p.fu.e <=> p.from + p.len = naluArray[p.nalu].len

SentPacket(p) ==
    /\ p \in Packet
    /\ p.nalu \in 0..(headIndex - 1)
    /\ SentWhole(p) \/ SentFragment(p)

(* What the sender has produced of the frame.                              *)
SenderInv ==
    /\ IInv
    /\ currentlyProcessingPacket = "FU_A" =>
        fuAPacketizationState.naluDataIndex >= 2
    /\ stage = "adding" => sent = {}
    /\ \A p \in sent : SentPacket(p)

(* The sender goes from where packet p starts to where it ends.            *)
PassesOver(p) ==
    /\ p.nalu = tailIndex
    /\ \/ p.from = fuAPacketizationState.naluDataIndex
       \/ p.from = 1 /\ fuAPacketizationState.naluDataIndex = 0
    /\ \/ /\ p.from + p.len = naluArray[tailIndex].len
          /\ tailIndex' = tailIndex + 1
          /\ fuAPacketizationState'.naluDataIndex = 0
       \/ /\ p.from + p.len # naluArray[tailIndex].len
          /\ tailIndex' = tailIndex
          /\ fuAPacketizationState'.naluDataIndex = p.from + p.len

(* GetPacket fills a packet the receiver can make sense of, and the cursor *)
(* passes over it.                                                         *)
LEMMA FillsSentPacket ==
    ASSUME RoomForPayload, IInv,
           currentlyProcessingPacket = "FU_A" =>
                fuAPacketizationState.naluDataIndex >= 2,
           GetPacket, result' = "OK"
    PROVE  /\ SentPacket(packet') /\ PassesOver(packet')
           /\ naluArray' = naluArray /\ headIndex' = headIndex
           /\ currentlyProcessingPacket' = "FU_A" =>
                fuAPacketizationState'.naluDataIndex >= 2
<1>1. PICK size \in PacketSizes : H264Packetizer_GetPacket(size)
    BY DEF GetPacket
<1>2. /\ size # 0 /\ naluCount # 0
      /\ \/ /\ currentlyProcessingPacket = "NONE"
            /\ naluArray[tailIndex].len <= size
            /\ PacketizeSingleNaluPacket
         \/ /\ \/ currentlyProcessingPacket = "FU_A"
               \/ naluArray[tailIndex].len > size
            /\ PacketizeFragmentationUnitPacket(size)
      /\ UNCHANGED <<added, naluArrayLength>>
    BY <1>1 DEF H264Packetizer_GetPacket, Refuse
<1>3. /\ naluArray' = naluArray /\ headIndex' = headIndex
    BY <1>2 DEF added
<1>4. IInv'
    BY <1>1, GetPacketInv
<1>5. /\ naluArray[tailIndex].header \in HeaderByte
      /\ naluArray[tailIndex].len \in Nat /\ naluArray[tailIndex].len >= 1
      /\ tailIndex \in 0..(headIndex - 1)
    BY <1>2, TailNalu
<1>6. CASE /\ currentlyProcessingPacket = "NONE" /\ PacketizeSingleNaluPacket
    <2>1. packet' = [first |-> naluArray[tailIndex].header, fu |-> NoFuHeader,
                     nalu |-> tailIndex, from |-> 0,
                     len |-> naluArray[tailIndex].len,
                     packetDataLength |-> naluArray[tailIndex].len]
        BY <1>6 DEF PacketizeSingleNaluPacket
    <2>2. currentlyProcessingPacket' = "NONE"
        BY <1>6 DEF PacketizeSingleNaluPacket
    <2>3. tailIndex \in Nat
        BY DEF IInv, TypeOK
    <2>4. packet' \in Packet
        BY <1>5, <2>1, <2>3 DEF Packet, NoFuHeader, FuHeader
    <2>5. SentWhole(packet')
        BY <1>3, <2>1 DEF SentWhole
    <2>6. PassesOver(packet')
        <3>1. /\ packet'.nalu = tailIndex /\ packet'.from = 0
              /\ packet'.len = naluArray[tailIndex].len
            BY <2>1
        <3>2. /\ fuAPacketizationState.naluDataIndex = 0
              /\ fuAPacketizationState'.naluDataIndex = 0 /\ tailIndex' = tailIndex + 1
            BY <1>6 DEF PacketizeSingleNaluPacket, NextNalu, IInv, FuStateConsistent,
                ZeroFuState
        <3> QED BY <1>5, <3>1, <3>2 DEF PassesOver
    <2> QED BY <1>3, <1>5, <2>1, <2>2, <2>4, <2>5, <2>6 DEF SentPacket
<1>7. CASE /\ currentlyProcessingPacket = "FU_A" \/ naluArray[tailIndex].len > size
           /\ PacketizeFragmentationUnitPacket(size)
    <2> DEFINE fu == FuState
               max == MaxNaluDataLengthToSend(size)
               n == H264_MIN(max, fu.remainingNaluLength)
               last == n = fu.remainingNaluLength
    <2>1. /\ packet' = [first |-> FuIndicator(fu.naluHeader),
                        fu |-> [s |-> currentlyProcessingPacket = "NONE",
                                e |-> last, type |-> fu.naluHeader.type],
                        nalu |-> tailIndex, from |-> fu.naluDataIndex, len |-> n,
                        packetDataLength |-> n + FU_A_HEADER_SIZE]
          /\ \/ /\ last /\ currentlyProcessingPacket' = "NONE"
                /\ fuAPacketizationState'.naluDataIndex = 0
                /\ tailIndex' = tailIndex + 1
             \/ /\ ~last /\ tailIndex' = tailIndex
                /\ fuAPacketizationState'.naluDataIndex = fu.naluDataIndex + n
        BY <1>7 DEF PacketizeFragmentationUnitPacket, ZeroFuState, NextNalu
    <2>2. /\ size \in Nat /\ max \in Nat /\ (size # 1 => max = size - 2)
        BY <1>2, MaxPayload
    <2>3. size # 2
        BY DEF RoomForPayload, FU_A_HEADER_SIZE
    <2>4. max >= 1
        <3>1. CASE size = 1
            <4>1. SizeMod \in Nat /\ SizeMod >= 3
                BY SizeAssumption DEF FU_A_HEADER_SIZE
            <4>2. (0 - 1) % SizeMod = SizeMod - 1
                BY <4>1, SMTT(20)
            <4>3. 1 - 2 = 0 - 1
                OBVIOUS
            <4> QED BY <3>1, <4>1, <4>2, <4>3
                    DEF MaxNaluDataLengthToSend, FU_A_HEADER_SIZE
        <3> QED BY <1>2, <2>2, <2>3, <3>1
    <2>5. currentlyProcessingPacket = "FU_A" \/ naluArray[tailIndex].len >= 2
        BY <1>2, <1>5, <1>7, <2>2
    <2>6. /\ fu \in [naluHeader : HeaderByte, naluDataIndex : Nat,
                     remainingNaluLength : Nat]
          /\ fu.naluHeader = naluArray[tailIndex].header
          /\ fu.naluDataIndex >= 1 /\ fu.remainingNaluLength >= 1
          /\ fu.naluDataIndex + fu.remainingNaluLength = naluArray[tailIndex].len
          /\ fu.naluDataIndex = IF fuAPacketizationState.naluDataIndex = 0
                THEN 1 ELSE fuAPacketizationState.naluDataIndex
          /\ fuAPacketizationState.naluDataIndex = 0
                <=> currentlyProcessingPacket = "NONE"
        BY <1>2, <2>5, FuStateFacts
    <2>7. currentlyProcessingPacket \in {"NONE", "FU_A"}
        BY DEF IInv, TypeOK
    <2>8. currentlyProcessingPacket = "NONE" <=> fu.naluDataIndex = 1
        BY <2>6, <2>7
    <2> HIDE DEF fu, max
    <2>9. n \in Nat /\ n >= 1 /\ n <= fu.remainingNaluLength
        BY <2>2, <2>4, <2>6 DEF H264_MIN
    <2> HIDE DEF n
    <2>10. last <=> fu.naluDataIndex + n = naluArray[tailIndex].len
        BY <2>6, <2>9
    <2>11. packet' \in Packet
        <3>1. FuIndicator(fu.naluHeader) \in HeaderByte
            BY <2>6 DEF FuIndicator, HeaderByte, FU_A_PACKET_TYPE
        <3>2. [s |-> currentlyProcessingPacket = "NONE", e |-> last,
               type |-> fu.naluHeader.type] \in FuHeader
            BY <2>6 DEF FuHeader, HeaderByte
        <3>3. tailIndex \in Nat
            BY DEF IInv, TypeOK
        <3> QED BY <2>1, <2>6, <2>9, <3>1, <3>2, <3>3 DEF Packet, FU_A_HEADER_SIZE
    <2>12. SentFragment(packet')
        <3> DEFINE p == packet'
        <3>1. /\ p.first.type = FU_A_PACKET_TYPE
              /\ p.first.nri = naluArray[tailIndex].header.nri
            BY <2>1, <2>6 DEF FuIndicator
        <3>2. /\ p.fu.type = naluArray[tailIndex].header.type
              /\ p.packetDataLength = n + FU_A_HEADER_SIZE
              /\ p.from = fu.naluDataIndex /\ p.len = n /\ p.nalu = tailIndex
            BY <2>1, <2>6
        <3>3. p.fu.s = (currentlyProcessingPacket = "NONE") /\ p.fu.e = last
            BY <2>1
        <3>4. (p.fu.s <=> p.from = 1) /\ (p.fu.e <=> p.from + p.len = naluArray[tailIndex].len)
            BY <2>8, <2>10, <3>2, <3>3
        <3>5. fu.naluDataIndex + n <= naluArray[tailIndex].len
            BY <2>6, <2>9
        <3> HIDE DEF p
        <3>6. SentFragment(p)
            BY <2>6, <2>9, <3>1, <3>2, <3>4, <3>5, Zenon DEF SentFragment
        <3> QED BY <3>6 DEF p
    <2>13. currentlyProcessingPacket' = "FU_A" => fuAPacketizationState'.naluDataIndex >= 2
        BY <2>1, <2>6, <2>9
    <2>14. /\ packet'.nalu = tailIndex /\ packet'.from = fu.naluDataIndex
           /\ packet'.len = n
        BY <2>1
    <2>15. PassesOver(packet')
        BY <2>1, <2>6, <2>10, <2>14 DEF PassesOver
    <2> QED BY <1>3, <1>5, <2>11, <2>12, <2>13, <2>14, <2>15 DEF SentPacket
<1> QED BY <1>2, <1>6, <1>7

(* The sender's variables take a step of H264Packetizer or none.           *)
LEMMA SenderSteps ==
    ASSUME SessionNext \/ UNCHANGED sessionVars
    PROVE  [Next]_vars
<1>1. ASSUME NextFrame PROVE \E n \in ArrayLengths : H264Packetizer_Init(n)
    BY <1>1 DEF NextFrame
<1>2. ASSUME AddUnits PROVE FrameNext
    BY <1>2, Zenon DEF AddUnits, FrameNext
<1>3. ASSUME Send PROVE FrameNext
    BY <1>3, Zenon DEF Send, SendPacket, StopSending, FrameNext
<1>4. ASSUME Read \/ UNCHANGED sessionVars PROVE UNCHANGED vars
    BY <1>4, Zenon DEF Read, ReadNalu, ReadFrame, ReadFrameTurn, sessionVars
<1> QED BY <1>1, <1>2, <1>3, <1>4, Zenon DEF SessionNext, Next

(* What was sent stays what it is while the NAL units in the array do.     *)
LEMMA SentPacketKept ==
    ASSUME naluArray' = naluArray, headIndex' = headIndex, NEW p, SentPacket(p)
    PROVE  SentPacket(p)'
BY DEF SentPacket, SentWhole, SentFragment

(* Nothing has been sent yet.                                              *)
LEMMA SenderInitInv == SessionInit => SenderInv
BY InitInv DEF SessionInit, SenderInv, Init

(* No step of the session leaves a packet behind that is not a NAL unit or *)
(* a fragment of one.                                                      *)
LEMMA SenderStepInv ==
    ASSUME RoomForPayload, SenderInv, SessionNext \/ UNCHANGED sessionVars
    PROVE  SenderInv'
<1>1. IInv'
    BY SenderSteps, NextInv DEF SenderInv
<1>2. CASE AddUnits
    <2>1. /\ stage' = stage /\ sent' = sent /\ sent = {}
        BY <1>2 DEF AddUnits, session, SenderInv
    <2>2. /\ currentlyProcessingPacket' = currentlyProcessingPacket
          /\ fuAPacketizationState' = fuAPacketizationState
        BY <1>2 DEF AddUnits, H264Packetizer_AddNalu, H264Packetizer_AddFrame, Refuse,
            Queue, sending
    <2> QED BY <1>1, <2>1, <2>2 DEF SenderInv
<1>3. CASE SendPacket
    <2>1. /\ GetPacket /\ result' = "OK" /\ sent' = sent \cup {packet'}
          /\ stage' = "sending"
        BY <1>3 DEF SendPacket
    <2>2. /\ SentPacket(packet')
          /\ naluArray' = naluArray /\ headIndex' = headIndex
          /\ currentlyProcessingPacket' = "FU_A" =>
                fuAPacketizationState'.naluDataIndex >= 2
        BY <2>1, FillsSentPacket DEF SenderInv
    <2>3. \A p : SentPacket(p) => SentPacket(p)'
        BY <2>2, SentPacketKept
    <2>4. \A p \in sent' : SentPacket(p)'
        BY <2>1, <2>2, <2>3 DEF SenderInv
    <2> QED BY <1>1, <2>1, <2>2, <2>4 DEF SenderInv
<1>4. CASE StopSending
    <2>1. /\ sent' = sent /\ stage' = "receiving" /\ UNCHANGED <<added, sending>>
        BY <1>4 DEF StopSending, GetPacket, H264Packetizer_GetPacket, Refuse
    <2>2. /\ naluArray' = naluArray /\ headIndex' = headIndex
          /\ currentlyProcessingPacket' = currentlyProcessingPacket
          /\ fuAPacketizationState' = fuAPacketizationState
        BY <2>1 DEF added, sending
    <2>3. \A p : SentPacket(p) => SentPacket(p)'
        BY <2>2, SentPacketKept
    <2> QED BY <1>1, <2>1, <2>2, <2>3 DEF SenderInv
<1>5. CASE NextFrame
    <2>1. /\ sent' = {} /\ currentlyProcessingPacket' = "NONE"
        BY <1>5, ArrayLengthsAssumption DEF NextFrame, H264Packetizer_Init
    <2> QED BY <1>1, <2>1 DEF SenderInv
<1>6. CASE Read \/ UNCHANGED sessionVars
    <2>1. /\ UNCHANGED vars /\ sent' = sent
          /\ stage' = "adding" => stage = "adding"
        BY <1>6, Zenon DEF Read, ReadNalu, ReadFrame, ReadFrameTurn, sessionVars, session
    <2>2. /\ naluArray' = naluArray /\ headIndex' = headIndex
          /\ currentlyProcessingPacket' = currentlyProcessingPacket
          /\ fuAPacketizationState' = fuAPacketizationState
        BY <2>1 DEF vars
    <2>3. \A p : SentPacket(p) => SentPacket(p)'
        BY <2>2, SentPacketKept
    <2> QED BY <1>1, <2>1, <2>2, <2>3 DEF SenderInv
<1> QED BY <1>2, <1>3, <1>4, <1>5, <1>6 DEF SessionNext, Send

(* What GetPacketProperties says of a packet of the sender.                *)
LEMMA MarksOfSent ==
    ASSUME NaluTypes, IInv, NEW p, SentPacket(p)
    PROVE  Receiver!GetPacketProperties(p) =
            (IF p.from <= NALU_HEADER_SIZE THEN {"START"} ELSE {}) \cup
            (IF ~Whole(p) /\ p.from + p.len = naluArray[p.nalu].len
                THEN {"END"} ELSE {})
<1>1. /\ p.from \in Nat /\ p.len \in Nat /\ p.first.type \in 0..31
      /\ p.fu.s \in BOOLEAN /\ p.fu.e \in BOOLEAN
      /\ naluArray[p.nalu] \in Nalu
      /\ naluArray[p.nalu].len \in Nat /\ naluArray[p.nalu].len >= 1
    BY NaluAssumption DEF SentPacket, Packet, HeaderByte, FuHeader, IInv, QueueConsistent,
        NALU_HEADER_SIZE
<1>2. CASE SentWhole(p)
    <2>1. p.first.type \in 1..23
        BY <1>1, <1>2 DEF SentWhole, NaluTypes, SINGLE_NALU_PACKET_TYPE_START,
            SINGLE_NALU_PACKET_TYPE_END
    <2>2. p.packetDataLength >= 1 /\ p.from = 0 /\ Whole(p)
        BY <1>1, <1>2 DEF SentWhole, Whole
    <2>3. /\ ~(p.packetDataLength < Receiver!NALU_HEADER_SIZE) /\ p.from <= NALU_HEADER_SIZE
          /\ Receiver!SingleType(p.first.type)
        BY <1>1, <1>2, <2>1, <2>2 DEF SentWhole, Receiver!SingleType, NALU_HEADER_SIZE,
            Receiver!NALU_HEADER_SIZE, Receiver!SINGLE_NALU_PACKET_TYPE_START,
            Receiver!SINGLE_NALU_PACKET_TYPE_END
    <2>4. Receiver!GetPacketProperties(p) = {"START"}
        BY <2>3, Zenon DEF Receiver!GetPacketProperties
    <2> QED BY <2>2, <2>3, <2>4, Zenon
<1>3. CASE SentFragment(p)
    <2>1. /\ p.packetDataLength = p.len + 2 /\ ~Whole(p)
          /\ p.first.type = 28
          /\ p.fu.s <=> p.from <= 1
          /\ p.fu.e <=> p.from + p.len = naluArray[p.nalu].len
        BY <1>1, <1>3 DEF SentFragment, Whole, FU_A_HEADER_SIZE, FU_A_PACKET_TYPE
    <2>2. /\ ~(p.packetDataLength < Receiver!NALU_HEADER_SIZE)
          /\ ~(p.packetDataLength < Receiver!FU_A_HEADER_SIZE)
          /\ p.fu.s <=> p.from <= NALU_HEADER_SIZE
          /\ ~Receiver!SingleType(p.first.type) /\ p.first.type = Receiver!FU_A_PACKET_TYPE
        BY <1>1, <2>1 DEF Receiver!SingleType, NALU_HEADER_SIZE,
            Receiver!NALU_HEADER_SIZE, Receiver!FU_A_HEADER_SIZE,
            Receiver!SINGLE_NALU_PACKET_TYPE_START,
            Receiver!SINGLE_NALU_PACKET_TYPE_END, Receiver!FU_A_PACKET_TYPE
    <2>3. Receiver!GetPacketProperties(p) =
            (IF p.fu.s THEN {"START"} ELSE {}) \cup (IF p.fu.e THEN {"END"} ELSE {})
        BY <2>2, Zenon DEF Receiver!GetPacketProperties
    <2> QED BY <2>1, <2>2, <2>3
<1> QED BY <1>2, <1>3 DEF SentPacket

(* What GetPacketProperties tells a receiver agrees with what the          *)
(* packetizer did: see MarksAgree.                                         *)
THEOREM MarksStayTrue ==
    ASSUME NaluTypes, RoomForPayload
    PROVE  SessionSpec => []MarksAgree
<1>1. SenderInv => MarksAgree
    BY MarksOfSent DEF SenderInv, MarksAgree
<1>2. SessionInit => SenderInv
    BY SenderInitInv
<1>3. SenderInv /\ [SessionNext]_sessionVars => SenderInv'
    BY SenderStepInv
<1> QED BY <1>1, <1>2, <1>3, PTL DEF SessionSpec

-----------------------------------------------------------------------------
(* Where in the frame a packet starts, and where the one behind it does:   *)
(* NAL unit and offset, 0 for its first packet of either kind.             *)
StartOf(p) == <<p.nalu, IF p.from <= NALU_HEADER_SIZE THEN 0 ELSE p.from>>

EndOf(p) ==
    IF p.from + p.len = naluArray[p.nalu].len
        THEN <<p.nalu + 1, 0>> ELSE <<p.nalu, p.from + p.len>>

(* Where the sender is.                                                    *)
Cursor == <<tailIndex, fuAPacketizationState.naluDataIndex>>

Lost == sent \ Stored

(* Right before that place is the end of what lies in the slots below i,   *)
(* or of a packet that was lost.                                           *)
Continues(place, i) ==
    \/ place = IF i = 0 THEN <<0, 0>> ELSE EndOf(packetsArray[i - 1])
    \/ \E q \in Lost : place = EndOf(q)

Before(p, q) == p.nalu < q.nalu \/ (p.nalu = q.nalu /\ p.from + p.len <= q.from)

(* The packets stored are of those sent, in their order, and between two   *)
(* of them is what was lost.                                               *)
NetworkInv ==
    /\ Stored \subseteq sent
    /\ \A i \in 0..(rHeadIndex - 1) : Continues(StartOf(packetsArray[i]), i)
    /\ Continues(Cursor, rHeadIndex)
    /\ \A j \in 0..(rHeadIndex - 1) : \A i \in 0..(j - 1) :
        Before(packetsArray[i], packetsArray[j])
    /\ \A p \in sent :
        \/ p.nalu < tailIndex
        \/ /\ p.nalu = tailIndex
           /\ p.from + p.len <= fuAPacketizationState.naluDataIndex
    /\ \A u \in 0..(tailIndex - 1) :
        \E p \in sent : p.nalu = u /\ p.from + p.len = naluArray[u].len

IsSending == stage \in {"adding", "sending"}

(* What the two callers are at.                                            *)
StageInv ==
    /\ stage \in {"adding", "sending", "receiving", "reading", "reading frame",
                  "done"}
    /\ stage = "adding" =>
        /\ rHeadIndex = 0 /\ tailIndex = 0
        /\ currentlyProcessingPacket = "NONE"
    /\ stage # "adding" => sent # {}
    /\ stage \in {"adding", "sending", "receiving"} =>
        rTailIndex = 0 /\ delivered = << >>
    /\ ~IsSending => tailIndex = headIndex
    /\ frameDataLength = IF stage = "reading frame" THEN BufferSize ELSE 0

(* The packets of NAL unit u lie in the slots from s to j.                 *)
UnitAt(u, s, j) ==
    /\ s \in 0..j /\ j \in 0..(rHeadIndex - 1)
    /\ \A i \in s..j : packetsArray[i].nalu = u
    /\ packetsArray[s].from <= NALU_HEADER_SIZE
    /\ \A i \in (s + 1)..j :
        packetsArray[i].from = packetsArray[i - 1].from + packetsArray[i - 1].len
    /\ packetsArray[j].from + packetsArray[j].len = naluArray[u].len

ReadSoFar ==
    IF stage = "reading frame"
        THEN [i \in DOMAIN frame |-> [pieces |-> frame[i], result |-> "OK"]]
        ELSE delivered

(* NAL unit u is the i-th that was read, intact.                           *)
DeliveredAs(i, u) ==
    /\ i \in DOMAIN ReadSoFar
    /\ ReadSoFar[i].result = "OK" /\ Intact(ReadSoFar[i].pieces, u)

IsReading ==
    \/ stage \in {"receiving", "reading", "reading frame"}
    \/ stage = "done" /\ rResult \in {"NO_MORE_NALUS", "OK"}

Arrived(u) == PacketsOf(u) \subseteq Stored /\ ~BehindOpenFragment(u)

(* A NAL unit that arrived is ahead of the receiver or has been delivered. *)
ContainmentInv ==
    IsReading =>
        /\ stage = "done" => rTailIndex = rHeadIndex
        /\ \A u \in 0..(headIndex - 1), s, j \in 0..(rHeadIndex - 1) :
            Arrived(u) /\ UnitAt(u, s, j) =>
                \/ rTailIndex <= s
                \/ /\ rTailIndex > j
                   /\ \E i \in DOMAIN ReadSoFar : DeliveredAs(i, u)

(* The receiver is proved about with the packets it may be given.          *)
Sendable == {p \in Packet : p.first.type # STAP_A_PACKET_TYPE}

Reader == INSTANCE H264DepacketizerProofs
    WITH headIndex <- rHeadIndex, tailIndex <- rTailIndex, result <- rResult,
         Packets <- Sendable, ArrayLengths <- PacketArrayLengths,
         NaluSizes <- {BufferSize}, FrameSizes <- {BufferSize}

(* The packets sent are what H264DepacketizerProofs assumes of packets.    *)
LEMMA SendablePackets ==
    \A p \in Sendable :
        /\ p.first \in Reader!HeaderByte /\ p.fu \in Reader!FuHeader
        /\ p.packetDataLength \in Nat
        /\ p.first.type = Reader!STAP_A_PACKET_TYPE =>
            /\ DOMAIN p.sizes \subseteq Nat
            /\ \A at \in DOMAIN p.sizes : p.sizes[at] \in Nat
            /\ \A at \in Reader!UnitOffsets(p) :
                at + Reader!STAP_A_NALU_SIZE <= p.packetDataLength =>
                    at \in DOMAIN p.sizes
BY Zenon DEF Sendable, Packet, STAP_A_PACKET_TYPE, Reader!STAP_A_PACKET_TYPE, HeaderByte,
    Reader!HeaderByte, FuHeader, Reader!FuHeader

(* So are the lengths the receiver is used with.                           *)
LEMMA ReceiverLengths ==
    /\ PacketArrayLengths \subseteq Nat
    /\ {BufferSize} \subseteq Nat
BY ReceiverAssumption

(* The invariant of the receiver alone is kept by its own steps.           *)
LEMMA ReaderKept ==
    ASSUME Reader!IInv, [Reader!Next]_(Reader!vars)
    PROVE  Reader!IInv'
<1>1. (\A p \in Sendable :
        /\ p.first \in Reader!HeaderByte /\ p.fu \in Reader!FuHeader
        /\ p.packetDataLength \in Nat
        /\ p.first.type = Reader!STAP_A_PACKET_TYPE =>
            /\ DOMAIN p.sizes \subseteq Nat
            /\ \A at \in DOMAIN p.sizes : p.sizes[at] \in Nat
            /\ \A at \in Reader!UnitOffsets(p) :
                at + Reader!STAP_A_NALU_SIZE <= p.packetDataLength =>
                    at \in DOMAIN p.sizes)
    BY SendablePackets
<1> QED BY SendablePackets, ReceiverLengths, Reader!NextInv

(* The fields of a packet that was sent.                                   *)
LEMMA SentTypes ==
    ASSUME IInv, NEW p, SentPacket(p)
    PROVE  /\ p.nalu \in Nat /\ p.from \in Nat /\ p.len \in Nat /\ p.len >= 1
           /\ p.packetDataLength \in Nat /\ p.fu.s \in BOOLEAN /\ p.fu.e \in BOOLEAN
           /\ naluArray[p.nalu] \in Nalu /\ naluArray[p.nalu].len \in Nat
           /\ p.nalu < headIndex
           /\ p.from + p.len <= naluArray[p.nalu].len
<1>1. /\ p.nalu \in Nat /\ p.from \in Nat /\ p.len \in Nat
      /\ p.packetDataLength \in Nat /\ p.fu.s \in BOOLEAN /\ p.fu.e \in BOOLEAN
      /\ p.nalu \in 0..(headIndex - 1) /\ headIndex \in Nat
    BY DEF SentPacket, Packet, FuHeader, IInv, TypeOK
<1>2. /\ naluArray[p.nalu] \in Nalu /\ naluArray[p.nalu].len \in Nat
      /\ naluArray[p.nalu].len >= 1
    BY <1>1, NaluAssumption DEF IInv, QueueConsistent, NALU_HEADER_SIZE
<1> QED BY <1>1, <1>2 DEF SentPacket, SentWhole, SentFragment

(* A packet starts at the cursor and ends at the next one, behind all that *)
(* was sent before.                                                        *)
LEMMA SenderMoves ==
    ASSUME RoomForPayload, SenderInv, NetworkInv, SendPacket
    PROVE  /\ SentPacket(packet') /\ PassesOver(packet') /\ packet' \notin sent
           /\ StartOf(packet') = Cursor /\ EndOf(packet') = Cursor'
           /\ \A q \in sent : Before(q, packet')
           /\ naluArray' = naluArray /\ headIndex' = headIndex
<1> DEFINE p == packet'
           at == fuAPacketizationState.naluDataIndex
           next == fuAPacketizationState'.naluDataIndex
<1>1. GetPacket /\ result' = "OK"
    BY DEF SendPacket
<1>2. /\ SentPacket(p) /\ PassesOver(p)
      /\ naluArray' = naluArray /\ headIndex' = headIndex
    BY <1>1, FillsSentPacket DEF SenderInv
<1>3. /\ p.nalu \in Nat /\ p.from \in Nat /\ p.len \in Nat /\ p.len >= 1
      /\ IInv /\ tailIndex \in Nat /\ at \in Nat
    BY <1>2, SentTypes DEF SenderInv, IInv, TypeOK
<1>4. at # 1
    BY DEF SenderInv, IInv, FuStateConsistent, ZeroFuState
<1>5. /\ p.nalu = tailIndex
      /\ p.from = at \/ (p.from = 1 /\ at = 0)
      /\ \/ /\ p.from + p.len = naluArray[tailIndex].len
            /\ tailIndex' = tailIndex + 1 /\ next = 0
         \/ /\ p.from + p.len # naluArray[tailIndex].len
            /\ tailIndex' = tailIndex /\ next = p.from + p.len
    BY <1>2 DEF PassesOver
<1> HIDE DEF at, next, p
<1>6. \A q \in sent : Before(q, p) /\ q # p
    <2> TAKE q \in sent
    <2>1. /\ q.nalu \in Nat /\ q.from \in Nat /\ q.len \in Nat /\ q.len >= 1
          /\ \/ q.nalu < tailIndex
             \/ q.nalu = tailIndex /\ q.from + q.len <= at
        BY <1>3, SentTypes DEF SenderInv, NetworkInv, at
    <2> QED BY <1>3, <1>5, <2>1 DEF Before
<1>7. StartOf(p) = Cursor
    BY <1>3, <1>4, <1>5 DEF StartOf, Cursor, NALU_HEADER_SIZE, at
<1>8. EndOf(p) = Cursor'
    BY <1>3, <1>5 DEF EndOf, Cursor, next
<1> QED BY <1>2, <1>6, <1>7, <1>8 DEF p

(* Whether the packet just sent is stored or not.                          *)
LEMMA SendInv ==
    ASSUME RoomForPayload, SenderInv, NetworkInv, SendPacket, rHeadIndex \in Nat,
           0..(rHeadIndex - 1) \subseteq DOMAIN packetsArray,
           \/ UNCHANGED <<packetsArray, rHeadIndex>>
           \/ /\ rHeadIndex \in DOMAIN packetsArray
              /\ packetsArray' = [packetsArray EXCEPT ![rHeadIndex] = packet']
              /\ rHeadIndex' = rHeadIndex + 1
    PROVE  NetworkInv'
<1> DEFINE p == packet'
           n == rHeadIndex
<1>1. /\ SentPacket(p) /\ PassesOver(p) /\ p \notin sent
      /\ StartOf(p) = Cursor /\ EndOf(p) = Cursor'
      /\ \A q \in sent : Before(q, p)
      /\ naluArray' = naluArray /\ headIndex' = headIndex
    BY SenderMoves
<1>2. sent' = sent \cup {p}
    BY DEF SendPacket
<1>3. IInv /\ Stored \subseteq sent
    BY DEF SenderInv, NetworkInv
<1>4. \/ n' = n /\ packetsArray' = packetsArray
      \/ /\ n' = n + 1 /\ packetsArray'[n] = p
         /\ \A i \in 0..(n - 1) : packetsArray'[i] = packetsArray[i]
    BY SMTT(20)
<1>5. /\ n \in Nat
      /\ \A i \in 0..(n - 1) : packetsArray'[i] = packetsArray[i]
    BY <1>4
<1>6. \A q : EndOf(q)' = EndOf(q) /\ StartOf(q)' = StartOf(q)
    BY <1>1 DEF EndOf, StartOf
<1> HIDE DEF p
<1>7. \/ n' = n /\ Stored' = Stored /\ p \in Lost' /\ Lost \subseteq Lost'
      \/ n' = n + 1 /\ packetsArray'[n] = p /\ Stored' = Stored \cup {p} /\ Lost' = Lost
    <2>1. CASE n' = n /\ packetsArray' = packetsArray
        BY <1>1, <1>2, <1>3, <2>1 DEF Stored, Lost
    <2>2. CASE n' = n + 1 /\ packetsArray'[n] = p
        <3>1. \A i \in 0..(n' - 1) : i = n \/ i \in 0..(n - 1)
            BY <1>5, <2>2
        <3>2. n \in 0..(n' - 1) /\ \A i \in 0..(n - 1) : i \in 0..(n' - 1)
            BY <1>5, <2>2
        <3>3. Stored' = Stored \cup {p}
            BY <1>5, <2>2, <3>1, <3>2 DEF Stored
        <3> QED BY <1>1, <1>2, <2>2, <3>3 DEF Lost
    <2> QED BY <1>4, <2>1, <2>2
<1>8. Lost \subseteq Lost' /\ sent' = sent \cup {p} /\ Stored' \subseteq sent'
    BY <1>2, <1>3, <1>7
<1>9. ASSUME NEW place, NEW i \in 0..n, Continues(place, i)
      PROVE  \/ place = IF i = 0 THEN <<0, 0>> ELSE EndOf(packetsArray'[i - 1])
             \/ \E q \in Lost' : place = EndOf(q)
    <2>1. i # 0 => i - 1 \in 0..(n - 1)
        BY <1>5
    <2>2. i # 0 => packetsArray'[i - 1] = packetsArray[i - 1]
        BY <1>5, <2>1
    <2> QED BY <1>8, <1>9, <2>2, Zenon DEF Continues
<1>10. \A i \in 0..(n' - 1) : Continues(StartOf(packetsArray[i]), i)'
    <2> TAKE i \in 0..(n' - 1)
    <2>1. /\ StartOf(packetsArray[i])' = StartOf(packetsArray'[i])
          /\ EndOf(packetsArray[i - 1])' = EndOf(packetsArray'[i - 1])
        BY <1>1 DEF StartOf, EndOf
    <2>2. SUFFICES
            \/ StartOf(packetsArray'[i]) =
                    IF i = 0 THEN <<0, 0>> ELSE EndOf(packetsArray'[i - 1])
            \/ \E q \in Lost' : StartOf(packetsArray'[i]) = EndOf(q)
        BY <1>6, <2>1, Zenon DEF Continues
    <2>3. CASE i \in 0..(n - 1)
        <3>1. Continues(StartOf(packetsArray[i]), i) /\ i \in 0..n
            BY <1>5, <2>3 DEF NetworkInv
        <3>2. packetsArray'[i] = packetsArray[i]
            BY <1>5, <2>3
        <3> HIDE DEF n
        <3> QED BY <1>9, <3>1, <3>2, Zenon
    <2>4. CASE i = n /\ packetsArray'[n] = p
        <3>1. Continues(Cursor, n) /\ n \in 0..n
            BY <1>5 DEF NetworkInv
        <3>2. StartOf(packetsArray'[i]) = Cursor
            BY <1>1, <2>4
        <3>3. Continues(Cursor, i) /\ i \in 0..n
            BY <2>4, <3>1
        <3> HIDE DEF n
        <3> QED BY <1>9, <3>2, <3>3, Zenon
    <2> QED BY <1>5, <1>7, <2>3, <2>4
<1>11. Continues(Cursor, rHeadIndex)'
    <2>1. CASE p \in Lost'
        BY <1>1, <1>6, <2>1, Zenon DEF Continues
    <2>2. CASE n' = n + 1 /\ packetsArray'[n] = p
        <3>1. n' # 0 /\ n' - 1 = n
            BY <1>5, <2>2
        <3>2. Cursor' = EndOf(packetsArray[rHeadIndex - 1])'
            BY <1>1, <2>2, <3>1 DEF EndOf
        <3> QED BY <3>1, <3>2, Zenon DEF Continues
    <2> QED BY <1>7, <2>1, <2>2
<1>12. \A j \in 0..(n' - 1) : \A i \in 0..(j - 1) :
        Before(packetsArray'[i], packetsArray'[j])
    <2> TAKE j \in 0..(n' - 1)
    <2> TAKE i \in 0..(j - 1)
    <2>1. i \in 0..(n - 1) /\ j \in Nat
        BY <1>5, <1>7
    <2>2. CASE j \in 0..(n - 1)
        BY <1>5, <2>1, <2>2 DEF NetworkInv
    <2>3. CASE j = n /\ packetsArray'[n] = p
        <3>1. packetsArray[i] \in Stored
            BY <2>1 DEF Stored
        <3> QED BY <1>1, <1>3, <1>5, <2>1, <2>3, <3>1
    <2> QED BY <1>5, <1>7, <2>2, <2>3
<1>13. /\ p.nalu \in Nat /\ p.from \in Nat /\ p.len \in Nat /\ tailIndex \in Nat
       /\ fuAPacketizationState.naluDataIndex \in Nat
       /\ \A q \in sent : q.nalu \in Nat /\ q.from \in Nat /\ q.len \in Nat
    BY <1>1, <1>3, SentTypes DEF SenderInv, IInv, TypeOK
<1>14. \A q \in sent' :
        \/ q.nalu < tailIndex'
        \/ /\ q.nalu = tailIndex'
           /\ q.from + q.len <= fuAPacketizationState'.naluDataIndex
    <2> TAKE q \in sent'
    <2>1. CASE q \in sent
        BY <1>1, <1>13, <2>1 DEF PassesOver, NetworkInv
    <2>2. CASE q = p
        BY <1>1, <1>13, <2>2 DEF PassesOver
    <2> QED BY <1>2, <2>1, <2>2
<1>15. \A u \in 0..(tailIndex' - 1) :
        \E q \in sent' : q.nalu = u /\ q.from + q.len = naluArray'[u].len
    <2> TAKE u \in 0..(tailIndex' - 1)
    <2>1. CASE u \in 0..(tailIndex - 1)
        BY <1>1, <1>2, <2>1 DEF NetworkInv
    <2>2. CASE u = tailIndex /\ tailIndex' = tailIndex + 1
        BY <1>1, <1>2, <1>13, <2>2 DEF PassesOver
    <2> QED BY <1>1, <1>13, <2>1, <2>2 DEF PassesOver
<1>16. \A j \in 0..(n' - 1) : \A i \in 0..(j - 1) :
        Before(packetsArray[i], packetsArray[j])'
    BY <1>12 DEF Before
<1> QED BY <1>8, <1>10, <1>11, <1>14, <1>15, <1>16 DEF NetworkInv

(* Receiver and Reader are the same program.                               *)
LEMMA SameCalls ==
    /\ Receiver!Init <=> Reader!Init
    /\ \A n : Receiver!H264Depacketizer_Init(n) <=> Reader!H264Depacketizer_Init(n)
    /\ \A p : Receiver!H264Depacketizer_AddPacket(p)
                <=> Reader!H264Depacketizer_AddPacket(p)
    /\ Receiver!GetNalu <=> Reader!GetNalu
    /\ Receiver!GetFrame <=> Reader!GetFrame
    /\ Receiver!GetFrameTurn <=> Reader!GetFrameTurn
BY Zenon DEF Receiver!Idle, Reader!Idle, Receiver!queue, Reader!queue, Receiver!reading, Reader!reading, Receiver!naluOut, Reader!naluOut, Receiver!frameOut, Reader!frameOut, Receiver!vars, Reader!vars, Receiver!Refuse, Reader!Refuse, Receiver!CurrentPacket, Reader!CurrentPacket, Receiver!Consume, Reader!Consume, Receiver!Bytes, Reader!Bytes, Receiver!RestatedHeader, Reader!RestatedHeader, Receiver!Fragment, Reader!Fragment, Receiver!IsFragment, Reader!IsFragment, Receiver!HeaderLength, Reader!HeaderLength, Receiver!Pieces, Reader!Pieces, Receiver!Assembled, Reader!Assembled, Receiver!AssembledLength, Reader!AssembledLength, Receiver!MoveTo, Reader!MoveTo, Receiver!SingleType, Reader!SingleType, Receiver!DepacketizeSingleNaluPacket, Reader!DepacketizeSingleNaluPacket, Receiver!DepacketizeFragmentationUnitPacket, Reader!DepacketizeFragmentationUnitPacket, Receiver!DepacketizeAggregationPacket, Reader!DepacketizeAggregationPacket, Receiver!DepacketizeCurrent, Reader!DepacketizeCurrent, Receiver!ReadResults, Reader!ReadResults, Receiver!EndFrame, Reader!EndFrame, Receiver!GetFrameTurn, Reader!GetFrameTurn, Receiver!H264Depacketizer_GetNalu, Reader!H264Depacketizer_GetNalu, Receiver!H264Depacketizer_GetFrame, Reader!H264Depacketizer_GetFrame, Receiver!GetNalu, Reader!GetNalu, Receiver!GetFrame, Reader!GetFrame, Receiver!H264Depacketizer_Init, Reader!H264Depacketizer_Init, Receiver!H264Depacketizer_AddPacket, Reader!H264Depacketizer_AddPacket, Receiver!SlotFree, Reader!SlotFree, Receiver!Init, Reader!Init, Receiver!STARTCODE_SIZE, Reader!STARTCODE_SIZE, Receiver!FU_A_HEADER_SIZE, Reader!FU_A_HEADER_SIZE, Receiver!NALU_HEADER_SIZE, Reader!NALU_HEADER_SIZE, Receiver!FU_A_PACKET_TYPE, Reader!FU_A_PACKET_TYPE, Receiver!STAP_A_PACKET_TYPE, Reader!STAP_A_PACKET_TYPE, Receiver!STAP_A_HEADER_SIZE, Reader!STAP_A_HEADER_SIZE, Receiver!STAP_A_NALU_SIZE, Reader!STAP_A_NALU_SIZE, Receiver!SINGLE_NALU_PACKET_TYPE_START, Reader!SINGLE_NALU_PACKET_TYPE_START, Receiver!SINGLE_NALU_PACKET_TYPE_END, Reader!SINGLE_NALU_PACKET_TYPE_END

SessionInv == SenderInv /\ Reader!IInv /\ StageInv /\ NetworkInv

(* What the packetizer sends is what a receiver may be given.              *)
LEMMA SentIsSendable ==
    ASSUME NaluTypes, IInv, NEW p, SentPacket(p)
    PROVE  p \in Sendable
<1>1. p \in Packet /\ naluArray[p.nalu] \in Nalu
    BY SentTypes DEF SentPacket
<1>2. CASE SentWhole(p)
    BY <1>1, <1>2 DEF SentWhole, NaluTypes, SINGLE_NALU_PACKET_TYPE_START,
        SINGLE_NALU_PACKET_TYPE_END, Sendable, STAP_A_PACKET_TYPE
<1>3. CASE SentFragment(p)
    BY <1>1, <1>3 DEF SentFragment, FU_A_PACKET_TYPE, Sendable, STAP_A_PACKET_TYPE
<1> QED BY <1>2, <1>3 DEF SentPacket

(* The receiver's variables take a step of H264Depacketizer or none.       *)
LEMMA ReceiverSteps ==
    ASSUME NaluTypes, RoomForPayload, SessionInv, SessionNext \/ UNCHANGED sessionVars
    PROVE  [Reader!Next]_(Reader!vars)
<1>1. CASE UNCHANGED receiver
    BY <1>1 DEF Reader!vars, receiver
<1>2. CASE SendPacket
    <2>1. packet' \in Sendable
        BY <1>2, SenderMoves, SentIsSendable DEF SessionInv, SenderInv
    <2>2. Reader!Idle
        BY <1>2 DEF SessionInv, StageInv, SendPacket, Reader!Idle
    <2>3. CASE Receiver!H264Depacketizer_AddPacket(packet')
        <3>1. Reader!H264Depacketizer_AddPacket(packet')
            BY <2>3, SameCalls
        <3> QED BY <2>1, <2>2, <3>1 DEF Reader!Next, Reader!FrameNext
    <2> QED BY <1>1, <1>2, <2>3 DEF SendPacket, Arrives, IsLost
<1>3. CASE Read
    BY <1>3, SameCalls, Zenon DEF Read, ReadNalu, ReadFrame, ReadFrameTurn, Reader!Next,
        Reader!FrameNext
<1>4. CASE NextFrame
    <2>1. Reader!Idle
        BY <1>4 DEF SessionInv, StageInv, NextFrame, Reader!Idle
    <2>2. PICK n \in PacketArrayLengths : Receiver!H264Depacketizer_Init(n)
        BY <1>4 DEF NextFrame
    <2>3. Reader!H264Depacketizer_Init(n)
        BY <2>2, SameCalls
    <2> QED BY <2>1, <2>3 DEF Reader!Next
<1> QED BY <1>1, <1>2, <1>3, <1>4
        DEF SessionNext, AddUnits, Send, StopSending, sessionVars

(* The session invariant holds initially.                                  *)
LEMMA SessionInitInv == SessionInit => SessionInv
<1> SUFFICES ASSUME SessionInit PROVE SessionInv
    OBVIOUS
<1>1. SenderInv
    BY SenderInitInv
<1>2. Reader!IInv
    <2>1. Reader!Init
        BY SameCalls DEF SessionInit
    <2> QED BY <2>1, SendablePackets, ReceiverLengths, Reader!InitInv
<1>3. /\ rHeadIndex = 0 /\ rTailIndex = 0 /\ frameDataLength = 0
      /\ tailIndex = 0 /\ currentlyProcessingPacket = "NONE"
      /\ fuAPacketizationState.naluDataIndex = 0
      /\ sent = {} /\ delivered = << >> /\ stage = "adding"
    BY DEF SessionInit, Receiver!Init, Init, ZeroFuState
<1>4. StageInv
    BY <1>3 DEF StageInv, IsSending
<1>5. NetworkInv
    BY <1>3 DEF NetworkInv, Stored, Continues, Cursor
<1> QED BY <1>1, <1>2, <1>4, <1>5 DEF SessionInv

(* No step but one of the network changes what it has done.                *)
LEMMA NetworkKept ==
    ASSUME NetworkInv,
           UNCHANGED <<naluArray, tailIndex, fuAPacketizationState, packetsArray,
                       rHeadIndex, sent>>
    PROVE  NetworkInv'
<1>1. Stored' = Stored /\ Lost' = Lost /\ Cursor' = Cursor
    BY DEF Stored, Lost, Cursor
<1>2. ASSUME NEW i PROVE Continues(Cursor, i)' <=> Continues(Cursor, i)
    BY <1>1, Zenon DEF Continues, EndOf
<1>3. ASSUME NEW i
      PROVE  Continues(StartOf(packetsArray[i]), i)'
                <=> Continues(StartOf(packetsArray[i]), i)
    BY <1>1, Zenon DEF Continues, EndOf, StartOf
<1>4. Continues(Cursor, rHeadIndex)'
    BY <1>2 DEF NetworkInv, Continues
<1> QED BY <1>1, <1>3, <1>4 DEF NetworkInv, Before

(* Before the first packet the network has nothing to say.                 *)
LEMMA NothingSent ==
    ASSUME sent' = {}, rHeadIndex' = 0, tailIndex' = 0,
           fuAPacketizationState'.naluDataIndex = 0
    PROVE  NetworkInv'
BY DEF NetworkInv, Stored, Continues, Cursor

(* Reading leaves the packets where they are.                              *)
LEMMA ReadingKeeps ==
    ASSUME Read
    PROVE  UNCHANGED <<vars, sent, packetsArray, packetsArrayLength, rHeadIndex>>
<1>1. UNCHANGED <<vars, sent>>
    BY DEF Read, ReadNalu, ReadFrame, ReadFrameTurn
<1>2. UNCHANGED Receiver!queue
    BY Zenon DEF Read, ReadNalu, ReadFrame, ReadFrameTurn, Receiver!GetNalu,
        Receiver!GetFrame, Receiver!GetFrameTurn, Receiver!H264Depacketizer_GetNalu,
        Receiver!H264Depacketizer_GetFrame, Receiver!Refuse
<1> QED BY <1>1, <1>2 DEF Receiver!queue

(* A step keeps what the stage says of the two contexts.                   *)
LEMMA StageStepInv ==
    ASSUME SenderInv, SenderInv', StageInv, SessionNext
    PROVE  StageInv'
<1>1. /\ IInv /\ BufferSize \in Nat
      /\ headIndex = tailIndex + naluCount
      /\ headIndex \in Nat /\ tailIndex \in Nat /\ naluCount \in Nat
    BY ReceiverAssumption DEF SenderInv, IInv, TypeOK, QueueConsistent
<1>2. CASE AddUnits
    <2>1. /\ UNCHANGED <<receiver, session>>
          /\ tailIndex' = tailIndex
          /\ currentlyProcessingPacket' = currentlyProcessingPacket
        BY <1>2 DEF AddUnits, H264Packetizer_AddNalu, H264Packetizer_AddFrame, Refuse,
            Queue, sending
    <2> QED BY <1>2, <2>1 DEF AddUnits, StageInv, IsSending, receiver, session
<1>3. CASE SendPacket
    <2>1. /\ stage' = "sending" /\ sent' # {} /\ delivered' = delivered
        BY <1>3 DEF SendPacket
    <2>2. rTailIndex' = rTailIndex /\ frameDataLength' = frameDataLength
        BY <1>3, Zenon DEF SendPacket, Arrives, IsLost, receiver,
            Receiver!H264Depacketizer_AddPacket, Receiver!Refuse, Receiver!reading,
            Receiver!frameOut
    <2> QED BY <1>3, <2>1, <2>2 DEF SendPacket, StageInv, IsSending
<1>4. CASE StopSending
    <2>1. naluCount = 0 /\ tailIndex' = tailIndex /\ headIndex' = headIndex
        BY <1>4 DEF StopSending, GetPacket, H264Packetizer_GetPacket, Refuse, added,
            sending
    <2> QED BY <1>1, <1>4, <2>1 DEF StopSending, StageInv, IsSending, receiver
<1>5. CASE Read
    <2>1. /\ tailIndex' = tailIndex /\ headIndex' = headIndex /\ sent' = sent
          /\ ~IsSending
        BY <1>5, ReadingKeeps DEF vars, Read, ReadNalu, ReadFrame, ReadFrameTurn,
            IsSending
    <2>2. CASE ReadNalu
        <3>1. frameDataLength' = 0
            BY <2>2, Zenon DEF ReadNalu, Receiver!GetNalu, Receiver!Idle,
                Receiver!H264Depacketizer_GetNalu, Receiver!Refuse, Receiver!frameOut
        <3>2. stage' \in {"reading", "done"}
            BY <2>2 DEF ReadNalu
        <3> QED BY <2>1, <3>1, <3>2 DEF StageInv, IsSending
    <2>3. CASE ReadFrame
        <3>1. frameDataLength' \in {0, BufferSize}
            BY <2>3, Zenon DEF ReadFrame, Receiver!GetFrame, Receiver!Idle,
                Receiver!H264Depacketizer_GetFrame, Receiver!Refuse, Receiver!frameOut
        <3>2. stage' = IF frameDataLength' = 0 THEN "done" ELSE "reading frame"
            BY <2>3 DEF ReadFrame
        <3> QED BY <2>1, <3>1, <3>2 DEF StageInv, IsSending
    <2>4. CASE ReadFrameTurn
        <3>1. frameDataLength' \in {0, frameDataLength}
            BY <2>4, Zenon DEF ReadFrameTurn, Receiver!GetFrameTurn, Receiver!EndFrame
        <3>2. /\ stage = "reading frame"
              /\ stage' = IF frameDataLength' = 0 THEN "done" ELSE stage
            BY <2>4 DEF ReadFrameTurn
        <3>3. frameDataLength = BufferSize
            BY <3>2 DEF StageInv
        <3> QED BY <2>1, <3>1, <3>2, <3>3 DEF StageInv, IsSending
    <2> QED BY <1>5, <2>2, <2>3, <2>4 DEF Read
<1>6. CASE NextFrame
    <2>1. /\ tailIndex' = 0 /\ currentlyProcessingPacket' = "NONE"
        BY <1>6, ArrayLengthsAssumption DEF NextFrame, H264Packetizer_Init
    <2>2. PICK n \in PacketArrayLengths \ {0} : Receiver!H264Depacketizer_Init(n)
        BY <1>6 DEF NextFrame
    <2>3. rHeadIndex' = 0 /\ rTailIndex' = 0 /\ frameDataLength' = 0
        BY <2>2 DEF Receiver!H264Depacketizer_Init
    <2> QED BY <1>6, <2>1, <2>3 DEF NextFrame, StageInv, IsSending
<1> QED BY <1>2, <1>3, <1>4, <1>5, <1>6 DEF SessionNext, Send

(* A step keeps the packets stored in order, with only what was lost       *)
(* between them.                                                           *)
LEMMA NetworkStepInv ==
    ASSUME RoomForPayload, SenderInv, Reader!IInv, StageInv, NetworkInv, SessionNext
    PROVE  NetworkInv'
<1>1. CASE AddUnits
    <2>1. /\ sent = {} /\ rHeadIndex = 0 /\ tailIndex = 0
          /\ fuAPacketizationState.naluDataIndex = 0
        BY <1>1 DEF AddUnits, SenderInv, StageInv, IInv, FuStateConsistent, ZeroFuState
    <2>2. /\ sent' = sent /\ rHeadIndex' = rHeadIndex /\ tailIndex' = tailIndex
          /\ fuAPacketizationState' = fuAPacketizationState
        BY <1>1 DEF AddUnits, H264Packetizer_AddNalu, H264Packetizer_AddFrame, Refuse,
            Queue, sending, receiver, session
    <2> QED BY <2>1, <2>2, NothingSent
<1>2. CASE SendPacket
    <2>1. /\ rHeadIndex \in Nat /\ packetCount \in Nat /\ packetsArrayLength \in Nat
          /\ DOMAIN packetsArray = 0..(packetsArrayLength - 1)
          /\ rHeadIndex = rTailIndex + packetCount /\ rHeadIndex <= packetsArrayLength
        BY DEF Reader!IInv, Reader!QueueTypes, Reader!QueueConsistent
    <2>2. rTailIndex = 0
        BY <1>2 DEF SendPacket, StageInv
    <2>3. \/ UNCHANGED <<packetsArray, rHeadIndex>>
          \/ /\ packetCount < packetsArrayLength
             /\ packetsArray' = [packetsArray EXCEPT ![rHeadIndex] = packet']
             /\ rHeadIndex' = rHeadIndex + 1
        BY <1>2, Zenon DEF SendPacket, Arrives, IsLost, receiver,
            Receiver!H264Depacketizer_AddPacket, Receiver!Refuse, Receiver!queue
    <2> QED BY <1>2, <2>1, <2>2, <2>3, SendInv
<1>3. CASE StopSending
    BY <1>3, NetworkKept DEF StopSending, GetPacket, H264Packetizer_GetPacket, Refuse,
        added, sending, receiver
<1>4. CASE Read
    BY <1>4, ReadingKeeps, NetworkKept DEF vars
<1>5. CASE NextFrame
    <2>1. /\ tailIndex' = 0 /\ fuAPacketizationState' = ZeroFuState
        BY <1>5, ArrayLengthsAssumption DEF NextFrame, H264Packetizer_Init
    <2>2. PICK n \in PacketArrayLengths \ {0} : Receiver!H264Depacketizer_Init(n)
        BY <1>5 DEF NextFrame
    <2>3. rHeadIndex' = 0 /\ sent' = {}
        BY <1>5, <2>2 DEF NextFrame, Receiver!H264Depacketizer_Init
    <2> QED BY <2>1, <2>3, NothingSent DEF ZeroFuState
<1> QED BY <1>1, <1>2, <1>3, <1>4, <1>5 DEF SessionNext, Send

(* A step keeps the session invariant.                                     *)
LEMMA SessionStepInv ==
    ASSUME NaluTypes, RoomForPayload, SessionInv, [SessionNext]_sessionVars
    PROVE  SessionInv'
<1>1. SenderInv'
    BY SenderStepInv DEF SessionInv
<1>2. Reader!IInv'
    BY ReceiverSteps, ReaderKept DEF SessionInv
<1>3. CASE SessionNext
    BY <1>1, <1>2, <1>3, StageStepInv, NetworkStepInv DEF SessionInv
<1>4. CASE UNCHANGED sessionVars
    <2>1. StageInv'
        BY <1>4 DEF SessionInv, StageInv, IsSending, sessionVars, vars, receiver, session
    <2>2. NetworkInv'
        BY <1>4, NetworkKept DEF SessionInv, sessionVars, vars, receiver, session
    <2> QED BY <1>1, <1>2, <2>1, <2>2 DEF SessionInv
<1> QED BY <1>3, <1>4

(* Both contexts are consistent, what lies in the receiver's slots is what *)
(* was sent, in order, and between two of them only what was lost is       *)
(* missing: the invariant the other theorems rest on.                      *)
THEOREM SessionIsConsistent ==
    ASSUME NaluTypes, RoomForPayload
    PROVE  SessionSpec => []SessionInv
BY SessionInitInv, SessionStepInv, PTL DEF SessionSpec

-----------------------------------------------------------------------------
(* What lies in the receiver's slots.                                      *)

(* The fields of a packet in the receiver's array.                         *)
LEMMA SlotFacts ==
    ASSUME NaluTypes, SenderInv, NetworkInv, NEW i \in 0..(rHeadIndex - 1)
    PROVE  LET p == packetsArray[i]
           IN  /\ p \in Stored /\ SentPacket(p)
               /\ p.nalu \in Nat /\ p.nalu < headIndex
               /\ p.from \in Nat /\ p.len \in Nat /\ p.len >= 1
               /\ p.packetDataLength \in Nat
               /\ naluArray[p.nalu] \in Nalu /\ naluArray[p.nalu].len \in Nat
               /\ p.from + p.len <= naluArray[p.nalu].len
               /\ Whole(p) => SentWhole(p) /\ Reader!SingleType(p.first.type)
               /\ ~Whole(p) =>
                    /\ SentFragment(p)
                    /\ p.first.type = Reader!FU_A_PACKET_TYPE
                    /\ p.packetDataLength >= Reader!FU_A_HEADER_SIZE
<1> DEFINE p == packetsArray[i]
<1>1. p \in Stored /\ p \in sent
    BY DEF Stored, NetworkInv
<1>2. SentPacket(p) /\ IInv
    BY <1>1 DEF SenderInv
<1> HIDE DEF p
<1>3. /\ p.nalu \in Nat /\ p.nalu < headIndex
      /\ p.from \in Nat /\ p.len \in Nat /\ p.len >= 1 /\ p.packetDataLength \in Nat
      /\ naluArray[p.nalu] \in Nalu /\ naluArray[p.nalu].len \in Nat
      /\ p.from + p.len <= naluArray[p.nalu].len
    BY <1>2, SentTypes
<1>4. SentWhole(p) => Whole(p) /\ Reader!SingleType(p.first.type)
    BY <1>3 DEF SentWhole, Whole, NaluTypes, Reader!SingleType,
        SINGLE_NALU_PACKET_TYPE_START, SINGLE_NALU_PACKET_TYPE_END,
        Reader!SINGLE_NALU_PACKET_TYPE_START, Reader!SINGLE_NALU_PACKET_TYPE_END
<1>5. SentFragment(p) =>
        /\ ~Whole(p) /\ p.first.type = Reader!FU_A_PACKET_TYPE
        /\ p.packetDataLength >= Reader!FU_A_HEADER_SIZE
    BY <1>3 DEF SentFragment, Whole, FU_A_PACKET_TYPE, FU_A_HEADER_SIZE,
        Reader!FU_A_PACKET_TYPE, Reader!FU_A_HEADER_SIZE
<1>6. SentWhole(p) \/ SentFragment(p)
    BY <1>2 DEF SentPacket
<1> QED BY <1>1, <1>2, <1>3, <1>4, <1>5, <1>6 DEF p

(* A NAL unit starts in one slot only.                                     *)
LEMMA StartsOnce ==
    ASSUME NaluTypes, SenderInv, NetworkInv,
           NEW i \in 0..(rHeadIndex - 1), NEW j \in 0..(rHeadIndex - 1), i < j,
           packetsArray[i].nalu = packetsArray[j].nalu
    PROVE  packetsArray[j].from > NALU_HEADER_SIZE
<1> DEFINE p == packetsArray[i]
           q == packetsArray[j]
<1>1. /\ SentPacket(p) /\ p.nalu \in Nat /\ p.from \in Nat /\ p.len \in Nat /\ p.len >= 1
      /\ SentPacket(q) /\ q.from \in Nat /\ q.len \in Nat /\ q.len >= 1
      /\ naluArray[p.nalu].len \in Nat
      /\ q.from + q.len <= naluArray[p.nalu].len
    BY SlotFacts
<1>2. p.from + p.len <= q.from
    <2>1. Before(p, q) /\ p.nalu = q.nalu
        BY DEF NetworkInv
    <2> HIDE DEF p, q
    <2> QED BY <1>1, <2>1 DEF Before
<1> HIDE DEF p, q
<1>3. ~SentWhole(p)
    BY <1>1, <1>2 DEF SentWhole
<1>4. p.from >= 1
    BY <1>1, <1>3 DEF SentPacket, SentFragment
<1>5. q.from > 1
    BY <1>1, <1>2, <1>4
<1> QED BY <1>5 DEF q, NALU_HEADER_SIZE

(* One packet, or fragments of which the first is marked as start, the     *)
(* last as end, and no other as either.                                    *)
LEMMA UnitShape ==
    ASSUME NaluTypes, SenderInv, NetworkInv, rHeadIndex \in Nat,
           NEW u, NEW s, NEW j, UnitAt(u, s, j)
    PROVE  /\ Whole(packetsArray[s]) => s = j
           /\ ~Whole(packetsArray[s]) =>
                \A i \in s..j :
                    /\ ~Whole(packetsArray[i])
                    /\ packetsArray[i].fu.s <=> i = s
                    /\ packetsArray[i].fu.e <=> i = j
<1>1. /\ s \in Nat /\ j \in Nat /\ s <= j /\ j <= rHeadIndex - 1
      /\ packetsArray[s].from <= 1
      /\ packetsArray[j].from + packetsArray[j].len = naluArray[u].len
    BY DEF UnitAt, NALU_HEADER_SIZE
<1>2. ASSUME NEW i \in s..j
      PROVE  /\ i \in 0..(rHeadIndex - 1)
             /\ packetsArray[i].nalu = u /\ naluArray[u].len \in Nat
             /\ packetsArray[i].from \in Nat
             /\ packetsArray[i].len \in Nat /\ packetsArray[i].len >= 1
             /\ packetsArray[i].from + packetsArray[i].len <= naluArray[u].len
             /\ Whole(packetsArray[i]) => SentWhole(packetsArray[i])
             /\ ~Whole(packetsArray[i]) => SentFragment(packetsArray[i])
    <2>1. i \in 0..(rHeadIndex - 1) /\ packetsArray[i].nalu = u
        BY <1>1 DEF UnitAt
    <2> QED BY <2>1, SlotFacts
<1>3. ASSUME NEW i \in s..j, i < j
      PROVE  /\ ~Whole(packetsArray[i])
             /\ packetsArray[i].from + packetsArray[i].len # naluArray[u].len
    <2>1. i + 1 \in (s + 1)..j /\ i + 1 - 1 = i
        BY <1>1, <1>3
    <2>2. packetsArray[i + 1].from = packetsArray[i].from + packetsArray[i].len
        BY <2>1 DEF UnitAt
    <2>3. i + 1 \in s..j
        BY <1>1, <1>3
    <2>4. packetsArray[i].from + packetsArray[i].len # naluArray[u].len
        BY <1>2, <2>2, <2>3
    <2>5. ~SentWhole(packetsArray[i])
        BY <1>2, <2>4 DEF SentWhole
    <2> QED BY <1>2, <2>4, <2>5
<1>4. ASSUME NEW i \in s..j, i > s
      PROVE  packetsArray[i].from >= 2
    <2>1. i - 1 \in s..j /\ i - 1 < j /\ i \in (s + 1)..j
        BY <1>1, <1>4
    <2>2. packetsArray[i].from = packetsArray[i - 1].from + packetsArray[i - 1].len
        BY <2>1 DEF UnitAt
    <2>3. SentFragment(packetsArray[i - 1])
        BY <1>2, <1>3, <2>1
    <2>4. packetsArray[i - 1].from >= 1 /\ packetsArray[i - 1].len >= 1
        BY <2>3 DEF SentFragment
    <2> QED BY <1>2, <2>1, <2>2, <2>4
<1>5. s \in s..j /\ j \in s..j
    BY <1>1
<1>6. Whole(packetsArray[s]) => s = j
    BY <1>1, <1>3, <1>5
<1>7. ASSUME ~Whole(packetsArray[s]), NEW i \in s..j
      PROVE  /\ ~Whole(packetsArray[i])
             /\ packetsArray[i].fu.s <=> i = s
             /\ packetsArray[i].fu.e <=> i = j
    <2>1. SentFragment(packetsArray[i])
        <3>1. CASE i = s
            BY <1>2, <1>7, <3>1
        <3>2. CASE i # s
            <4>1. packetsArray[i].from >= 2
                BY <1>1, <1>4, <3>2
            <4>2. ~SentWhole(packetsArray[i])
                BY <4>1 DEF SentWhole
            <4> QED BY <1>2, <4>2
        <3> QED BY <3>1, <3>2
    <2>2. ~Whole(packetsArray[i])
        BY <1>2, <2>1 DEF SentFragment, SentWhole
    <2>3. /\ packetsArray[i].fu.s <=> packetsArray[i].from = 1
          /\ packetsArray[i].fu.e
                <=> packetsArray[i].from + packetsArray[i].len = naluArray[u].len
          /\ packetsArray[i].from >= 1
        BY <1>2, <2>1 DEF SentFragment
    <2>4. packetsArray[i].from = 1 <=> i = s
        <3>1. i # s => i > s
            BY <1>1
        <3>2. i # s => packetsArray[i].from >= 2
            BY <1>4, <3>1
        <3>3. i = s => packetsArray[i].from <= 1 /\ packetsArray[i].from >= 1
            BY <1>1, <2>3
        <3> QED BY <1>2, <3>2, <3>3
    <2>5. packetsArray[i].from + packetsArray[i].len = naluArray[u].len <=> i = j
        <3>1. i # j => i < j
            BY <1>1
        <3> QED BY <1>1, <1>3, <3>1
    <2> QED BY <2>2, <2>3, <2>4, <2>5
<1> QED BY <1>6, <1>7

(* If every packet of a NAL unit arrived, they lie in slots that follow    *)
(* each other: back from the last, each continues the one before it,       *)
(* because none that it could continue was lost.                           *)
LEMMA UnitExists ==
    ASSUME NaluTypes, SenderInv, NetworkInv, tailIndex = headIndex, rHeadIndex \in Nat,
           NEW u \in 0..(headIndex - 1), PacketsOf(u) \subseteq Stored
    PROVE  \E s, j \in 0..(rHeadIndex - 1) : UnitAt(u, s, j)
<1>1. PICK last \in sent :
        last.nalu = u /\ last.from + last.len = naluArray[u].len
    BY DEF NetworkInv
<1>2. PICK j \in 0..(rHeadIndex - 1) : packetsArray[j] = last
    BY <1>1 DEF PacketsOf, Stored
<1> DEFINE P(a) == /\ \A i \in a..j : packetsArray[i].nalu = u
                   /\ \A i \in (a + 1)..j :
                        packetsArray[i].from
                            = packetsArray[i - 1].from + packetsArray[i - 1].len
           S == {a \in 0..j : P(a)}
<1>3. j \in S
    <2>1. \A i \in j..j : i = j
        BY <1>2
    <2>2. \A i \in (j + 1)..j : FALSE
        BY <1>2
    <2> QED BY <1>1, <1>2, <2>1, <2>2
<1>4. S \subseteq Nat
    OBVIOUS
<1>5. PICK s \in S : \A a \in S : s <= a
    <2> HIDE DEF S
    <2> QED BY <1>3, <1>4, SendablePackets, ReceiverLengths, Reader!Least
<1>6. s \in 0..j /\ P(s) /\ packetsArray[s].nalu = u /\ s \in 0..(rHeadIndex - 1)
    <2>1. s \in 0..j /\ P(s)
        BY <1>5
    <2> QED BY <1>2, <2>1
<1>7. /\ packetsArray[s].from \in Nat /\ packetsArray[s].nalu = u /\ u \in Nat
      /\ SentPacket(packetsArray[s])
    BY <1>6, SlotFacts
<1>8. packetsArray[s].from <= NALU_HEADER_SIZE
    <2> SUFFICES ASSUME packetsArray[s].from > 1 PROVE FALSE
        BY <1>7 DEF NALU_HEADER_SIZE
    <2>1. StartOf(packetsArray[s]) = <<u, packetsArray[s].from>>
        BY <1>7 DEF StartOf, NALU_HEADER_SIZE
    <2>2. Continues(StartOf(packetsArray[s]), s)
        BY <1>6 DEF NetworkInv
    <2>3. ASSUME NEW q, q.nalu \in Nat, <<u, packetsArray[s].from>> = EndOf(q)
          PROVE  q.nalu = u /\ q.from + q.len = packetsArray[s].from
        BY <2>3, <1>7 DEF EndOf
    <2>4. CASE \E q \in Lost : <<u, packetsArray[s].from>> = EndOf(q)
        <3>1. PICK q \in Lost : <<u, packetsArray[s].from>> = EndOf(q)
            BY <2>4
        <3>2. q \in sent /\ q \notin Stored /\ q.nalu \in Nat
            BY <3>1, SentTypes DEF Lost, SenderInv
        <3>3. q \in PacketsOf(u)
            BY <2>3, <3>1, <3>2 DEF PacketsOf
        <3> QED BY <3>2, <3>3
    <2>5. CASE s = 0 /\ <<u, packetsArray[s].from>> = <<0, 0>>
        BY <2>5, <1>7
    <2>6. CASE s # 0 /\ <<u, packetsArray[s].from>> = EndOf(packetsArray[s - 1])
        <3>1. s - 1 \in 0..(rHeadIndex - 1) /\ s - 1 \in 0..j
            BY <1>2, <1>6, <2>6
        <3>2. packetsArray[s - 1].nalu \in Nat
            BY <3>1, SlotFacts
        <3>3. /\ packetsArray[s - 1].nalu = u
              /\ packetsArray[s - 1].from + packetsArray[s - 1].len = packetsArray[s].from
            BY <2>3, <2>6, <3>2
        <3>4. P(s - 1)
            <4>1. \A i \in (s - 1)..j : i = s - 1 \/ i \in s..j
                BY <1>2, <1>6
            <4>2. \A i \in (s - 1 + 1)..j : i = s \/ i \in (s + 1)..j
                BY <1>2, <1>6
            <4> QED BY <1>6, <3>3, <4>1, <4>2
        <3>5. s - 1 \in S
            BY <3>1, <3>4
        <3>6. s <= s - 1 /\ s \in Nat
            BY <1>5, <1>6, <3>5
        <3> QED BY <3>6
    <2> QED BY <2>1, <2>2, <2>4, <2>5, <2>6 DEF Continues
<1>9. UnitAt(u, s, j)
    BY <1>1, <1>2, <1>6, <1>8 DEF UnitAt
<1> QED BY <1>2, <1>6, <1>9

(* A NAL unit sent in one packet is read from it intact.                   *)
LEMMA WholeIntact ==
    ASSUME NaluTypes, SenderInv, NetworkInv, NEW s \in 0..(rHeadIndex - 1),
           Whole(packetsArray[s]), NEW u, packetsArray[s].nalu = u,
           NEW pieces,
           pieces = <<Receiver!Bytes(s, 0, packetsArray[s].packetDataLength)>>
    PROVE  Intact(pieces, u)
<1> DEFINE p == packetsArray[s]
<1>1. /\ SentWhole(p) /\ p.nalu = u /\ naluArray[u].len \in Nat /\ p.len \in Nat
    BY SlotFacts
<1>2. p.len = naluArray[u].len /\ p.packetDataLength = p.len /\ Whole(p)
    BY <1>1 DEF SentWhole
<1>3. Len(pieces) = 1 /\ pieces[1] = Receiver!Bytes(s, 0, p.packetDataLength)
    OBVIOUS
<1>4. RunOf(pieces[1]) = [unit |-> u, len |-> p.len, from |-> 0]
    BY <1>1, <1>2, <1>3, Zenon DEF RunOf, Receiver!Bytes
<1>5. HeaderOf(pieces) = naluArray[u].header
    BY <1>3, <1>4 DEF HeaderOf, Receiver!Bytes
<1> HIDE DEF p
<1>6. /\ \A i \in 1..Len(pieces) : RunOf(pieces[i]).unit = u
      /\ \A i \in 1..(Len(pieces) - 1) : FALSE
      /\ RunOf(pieces[1]).from = 0
      /\ RunOf(pieces[Len(pieces)]).from + RunOf(pieces[Len(pieces)]).len
            = naluArray[u].len
    BY <1>1, <1>2, <1>3, <1>4
<1> QED BY <1>3, <1>5, <1>6 DEF Intact

(* A header restated and the payloads of all its fragments make up a NAL   *)
(* unit intact.                                                            *)
LEMMA FragmentsIntact ==
    ASSUME NaluTypes, SenderInv, NetworkInv, rHeadIndex \in Nat,
           NEW u, NEW s, NEW j, UnitAt(u, s, j), ~Whole(packetsArray[s]),
           rTailIndex = s, NEW pieces, Reader!HeaderAndPayloads(pieces, j - s + 1)
    PROVE  Intact(pieces, u)
<1> DEFINE n == j - s + 1
           p == [i \in 1..n |-> packetsArray[s + i - 1]]
<1>1. /\ s \in Nat /\ j \in Nat /\ s <= j /\ j <= rHeadIndex - 1
      /\ packetsArray[s].from <= 1
      /\ packetsArray[j].from + packetsArray[j].len = naluArray[u].len
    BY DEF UnitAt, NALU_HEADER_SIZE
<1>2. n \in Nat /\ n >= 1 /\ s + n - 1 = j /\ s + 1 - 1 = s
    BY <1>1
<1> HIDE DEF n
<1>3. /\ Len(pieces) = n + 1
      /\ pieces[1] = Receiver!RestatedHeader(s)
      /\ \A i \in 1..n :
            pieces[i + 1] = Receiver!Bytes(s + i - 1, 2, p[i].packetDataLength - 2)
    BY Zenon DEF Reader!HeaderAndPayloads, Reader!RestatedHeader, Receiver!RestatedHeader,
        Reader!Bytes, Receiver!Bytes, Reader!Fragment, Reader!FU_A_HEADER_SIZE, n,
        Reader!NALU_HEADER_SIZE, Receiver!NALU_HEADER_SIZE
<1>4. ASSUME NEW i \in 1..n
      PROVE  /\ ~Whole(p[i]) /\ p[i].nalu = u
             /\ p[i].from \in Nat /\ p[i].len \in Nat
             /\ p[i].packetDataLength - 2 = p[i].len
    <2>1. s + i - 1 \in s..j /\ s + i - 1 \in 0..(rHeadIndex - 1)
        BY <1>1, <1>2
    <2>2. /\ ~Whole(packetsArray[s + i - 1])
          /\ packetsArray[s + i - 1].nalu = u /\ p[i] = packetsArray[s + i - 1]
        BY <2>1, UnitShape DEF UnitAt
    <2>3. SentFragment(p[i]) /\ p[i].from \in Nat /\ p[i].len \in Nat
        BY <2>1, <2>2, SlotFacts
    <2> QED BY <2>2, <2>3 DEF SentFragment, FU_A_HEADER_SIZE
<1>5. p[1] = packetsArray[s] /\ p[n] = packetsArray[j]
    BY <1>2
<1>6. p[1].from = 1 /\ p[1].nalu = u
    <2>1. SentFragment(packetsArray[s]) /\ packetsArray[s].from \in Nat
        BY <1>1, SlotFacts
    <2> QED BY <1>1, <1>2, <1>4, <1>5, <2>1 DEF SentFragment
<1>7. ASSUME NEW i \in 2..n PROVE p[i].from = p[i - 1].from + p[i - 1].len
    <2>1. s + i - 1 \in (s + 1)..j /\ s + i - 1 - 1 = s + (i - 1) - 1
        BY <1>1, <1>2
    <2>2. p[i] = packetsArray[s + i - 1] /\ p[i - 1] = packetsArray[s + (i - 1) - 1]
        BY <1>2
    <2> HIDE DEF p
    <2> QED BY <2>1, <2>2 DEF UnitAt
<1>8. RunOf(pieces[1]) = [unit |-> u, len |-> 1, from |-> 0]
    BY <1>3, <1>5, <1>6 DEF RunOf, Receiver!RestatedHeader, Receiver!NALU_HEADER_SIZE
<1>9. ASSUME NEW i \in 1..n
      PROVE  LET run == RunOf(pieces[i + 1])
             IN  run.unit = u /\ run.len = p[i].len /\ run.from = p[i].from
    <2>1. p[i].from + 2 - FU_A_HEADER_SIZE = p[i].from
        BY <1>4 DEF FU_A_HEADER_SIZE
    <2>2. pieces[i + 1] = Receiver!Bytes(s + i - 1, 2, p[i].len)
        BY <1>3, <1>4
    <2>3. ~Whole(p[i]) /\ p[i].nalu = u /\ packetsArray[s + i - 1] = p[i]
        BY <1>4
    <2> QED BY <2>1, <2>2, <2>3 DEF RunOf, Receiver!Bytes
<1>10. [HeaderOf(pieces) EXCEPT !.f = 0] = [naluArray[u].header EXCEPT !.f = 0]
    <2> DEFINE h == naluArray[u].header
    <2>1. SentFragment(packetsArray[s]) /\ naluArray[u] \in Nalu
        BY <1>1, <1>4, <1>5, <1>6, SlotFacts
    <2>2. h \in HeaderByte
        BY <2>1, NaluAssumption
    <2>3. HeaderOf(pieces) = [f |-> 0, nri |-> h.nri, type |-> h.type]
        BY <1>3, <1>5, <1>6, <2>1 DEF HeaderOf, Receiver!RestatedHeader,
            Receiver!RestatedHeaderByte, SentFragment
    <2>4. [h EXCEPT !.f = 0] = [f |-> 0, nri |-> h.nri, type |-> h.type]
        BY <2>2 DEF HeaderByte
    <2> HIDE DEF h
    <2>5. [HeaderOf(pieces) EXCEPT !.f = 0] = [f |-> 0, nri |-> h.nri, type |-> h.type]
        BY <2>3
    <2> QED BY <2>4, <2>5 DEF h
<1> HIDE DEF p
<1>11. \A i \in 1..(n + 1) : RunOf(pieces[i]).unit = u
    <2> TAKE i \in 1..(n + 1)
    <2>1. CASE i = 1
        BY <1>8, <2>1
    <2>2. CASE i # 1
        <3>1. i - 1 \in 1..n /\ i - 1 + 1 = i
            BY <1>2, <2>2
        <3> QED BY <1>9, <3>1
    <2> QED BY <2>1, <2>2
<1>12. \A i \in 1..(n + 1 - 1) :
        RunOf(pieces[i + 1]).from = RunOf(pieces[i]).from + RunOf(pieces[i]).len
    <2> TAKE i \in 1..(n + 1 - 1)
    <2>1. i \in 1..n
        BY <1>2
    <2>2. RunOf(pieces[i + 1]).from = p[i].from
        BY <1>9, <2>1
    <2>3. CASE i = 1
        BY <1>6, <1>8, <2>2, <2>3
    <2>4. CASE i # 1
        <3>1. i \in 2..n /\ i - 1 \in 1..n /\ i - 1 + 1 = i
            BY <1>2, <2>1, <2>4
        <3>2. /\ RunOf(pieces[i]).len = p[i - 1].len
              /\ RunOf(pieces[i]).from = p[i - 1].from
            BY <1>9, <3>1
        <3> QED BY <1>7, <2>2, <3>1, <3>2
    <2> QED BY <2>3, <2>4
<1>13. RunOf(pieces[n + 1]).from + RunOf(pieces[n + 1]).len = naluArray[u].len
    BY <1>1, <1>2, <1>5, <1>9
<1> QED BY <1>2, <1>3, <1>8, <1>10, <1>11, <1>12, <1>13 DEF Intact

-----------------------------------------------------------------------------
(* What a turn of the receiver does to a NAL unit that arrived.            *)

(* The types the session invariant implies.                                *)
LEMMA TailFacts ==
    ASSUME SessionInv
    PROVE  /\ rHeadIndex \in Nat /\ rTailIndex \in Nat /\ packetCount \in Nat
           /\ rHeadIndex = rTailIndex + packetCount
           /\ tailIndex \in Nat /\ headIndex \in Nat
           /\ frameDataLength \in Nat /\ BufferSize \in Nat
<1>1. BufferSize \in Nat
    BY ReceiverAssumption
<1> QED BY <1>1 DEF SessionInv, Reader!IInv, Reader!QueueTypes, Reader!QueueConsistent,
        SenderInv, IInv, TypeOK, StageInv

(* Reading a NAL unit sent whole.                                          *)
LEMMA ReadWhole ==
    ASSUME NaluTypes, SessionInv, NEW s \in 0..(rHeadIndex - 1), rTailIndex = s,
           Whole(packetsArray[s]), NEW size \in Int, NEW r,
           Reader!DepacketizeCurrent(size, r)
    PROVE  /\ r = "OK"
           /\ \/ /\ rTailIndex' = s /\ packetsArray[s].packetDataLength > size
              \/ /\ rTailIndex' = s + 1
                 /\ naluDataLength' = packetsArray[s].packetDataLength
                 /\ nalu' = <<Receiver!Bytes(s, 0, packetsArray[s].packetDataLength)>>
<1> DEFINE p == packetsArray[s]
<1>1. Reader!SingleType(p.first.type) /\ p.packetDataLength \in Nat
    BY SlotFacts DEF SessionInv
<1>2. Reader!CurrentPacket = p
    BY DEF Reader!CurrentPacket
<1>3. p.first.type \notin {Reader!FU_A_PACKET_TYPE, Reader!STAP_A_PACKET_TYPE}
    BY <1>1 DEF Reader!SingleType, Reader!FU_A_PACKET_TYPE, Reader!STAP_A_PACKET_TYPE,
        Reader!SINGLE_NALU_PACKET_TYPE_START, Reader!SINGLE_NALU_PACKET_TYPE_END
<1>4. /\ r = "OK"
      /\ \E dropped \in {"OK", "OUT_OF_MEMORY"} :
            Reader!DepacketizeSingleNaluPacket(size, dropped)
    BY <1>1, <1>2, <1>3, Zenon DEF Reader!DepacketizeCurrent
<1>5. PICK dropped \in {"OK", "OUT_OF_MEMORY"} :
            Reader!DepacketizeSingleNaluPacket(size, dropped)
    BY <1>4
<1>6. \/ /\ nalu' = <<Reader!Bytes(rTailIndex, 0, p.packetDataLength)>>
         /\ naluDataLength' = p.packetDataLength
         /\ rTailIndex' = rTailIndex + 1
      \/ /\ p.packetDataLength > size
         /\ rTailIndex' = rTailIndex
    BY <1>2, <1>5, Zenon DEF Reader!DepacketizeSingleNaluPacket, Reader!Consume,
        Reader!reading
<1> QED BY <1>4, <1>6 DEF Reader!Bytes, Receiver!Bytes

(* The fragments of a NAL unit that arrived are what the depacketizer      *)
(* takes for one.                                                          *)
LEMMA UnitFragments ==
    ASSUME NaluTypes, SessionInv, NEW u, NEW s, NEW j, UnitAt(u, s, j),
           rTailIndex = s, ~Whole(packetsArray[s]), NEW n, n = j - s + 1
    PROVE  /\ n \in 1..packetCount
           /\ Reader!FragmentsOfUnit(n)
           /\ \A i \in 1..n : Reader!AssembledLength[i] <= naluArray[u].len
           /\ Reader!AssembledLength[n] = naluArray[u].len
           /\ naluArray[u].len \in Nat
<1> DEFINE p == [i \in 1..n |-> packetsArray[s + i - 1]]
           end == [i \in 1..n |-> p[i].from + p[i].len]
<1>1. /\ s \in Nat /\ j \in Nat /\ s <= j /\ j <= rHeadIndex - 1
      /\ packetsArray[s].from <= 1
      /\ packetsArray[j].from + packetsArray[j].len = naluArray[u].len
    BY DEF UnitAt, NALU_HEADER_SIZE
<1>2. /\ n \in Nat /\ n >= 1 /\ s + n - 1 = j /\ s + 1 - 1 = s
      /\ n \in 1..packetCount
      /\ rHeadIndex \in Nat /\ packetCount \in Nat
    BY <1>1, TailFacts
<1>3. ASSUME NEW i \in 1..n
      PROVE  /\ Reader!Fragment(i) = p[i]
             /\ SentFragment(p[i])
             /\ p[i].first.type = Reader!FU_A_PACKET_TYPE
             /\ p[i].packetDataLength >= Reader!FU_A_HEADER_SIZE
             /\ p[i].nalu = u
             /\ p[i].from \in Nat /\ p[i].len \in Nat /\ naluArray[u].len \in Nat
             /\ p[i].from + p[i].len <= naluArray[u].len
             /\ p[i].fu.s <=> i = 1
             /\ p[i].fu.e <=> i = n
    <2> DEFINE k == s + i - 1
    <2>1. /\ k \in s..j /\ k \in 0..(rHeadIndex - 1)
          /\ k = s <=> i = 1
          /\ k = j <=> i = n
        BY <1>1, <1>2
    <2>2. p[i] = packetsArray[k] /\ Reader!Fragment(i) = packetsArray[k]
        BY DEF Reader!Fragment
    <2> HIDE DEF k
    <2>3. /\ ~Whole(packetsArray[k])
          /\ packetsArray[k].fu.s <=> k = s
          /\ packetsArray[k].fu.e <=> k = j
        BY <1>2, <2>1, UnitShape DEF SessionInv
    <2>4. packetsArray[k].nalu = u
        BY <2>1 DEF UnitAt
    <2>5. /\ SentFragment(packetsArray[k])
          /\ packetsArray[k].first.type = Reader!FU_A_PACKET_TYPE
          /\ packetsArray[k].packetDataLength >= Reader!FU_A_HEADER_SIZE
          /\ packetsArray[k].from \in Nat /\ packetsArray[k].len \in Nat
          /\ naluArray[u].len \in Nat
          /\ packetsArray[k].from + packetsArray[k].len <= naluArray[u].len
        BY <2>1, <2>3, <2>4, SlotFacts DEF SessionInv
    <2> HIDE DEF p
    <2> QED BY <2>1, <2>2, <2>3, <2>4, <2>5
<1>4. Reader!FragmentsOfUnit(n)
    BY <1>3 DEF Reader!FragmentsOfUnit, Reader!IsFragment
<1>5. ASSUME NEW i \in 1..n PROVE p[i].packetDataLength - Reader!FU_A_HEADER_SIZE = p[i].len
    BY <1>3 DEF SentFragment, FU_A_HEADER_SIZE, Reader!FU_A_HEADER_SIZE
<1>6. p[1].from = 1 /\ p[n] = packetsArray[j]
    <2>1. p[1] = packetsArray[s] /\ p[n] = packetsArray[j]
        BY <1>2
    <2> HIDE DEF p
    <2>2. SentFragment(p[1]) /\ p[1].fu.s
        BY <1>2, <1>3
    <2> QED BY <2>1, <2>2 DEF SentFragment
<1>7. \A i \in 2..n : p[i].from = p[i - 1].from + p[i - 1].len
    <2> TAKE i \in 2..n
    <2>1. s + i - 1 \in (s + 1)..j /\ s + i - 1 - 1 = s + (i - 1) - 1
        BY <1>1, <1>2
    <2>2. p[i] = packetsArray[s + i - 1] /\ p[i - 1] = packetsArray[s + (i - 1) - 1]
        BY <1>2
    <2> HIDE DEF p
    <2> QED BY <2>1, <2>2 DEF UnitAt
<1>8. \A i \in 1..n : end[i] = p[i].from + p[i].len
    OBVIOUS
<1> HIDE DEF p, end
<1>9. end[1] = Reader!NALU_HEADER_SIZE
                + (Reader!Fragment(1).packetDataLength - Reader!FU_A_HEADER_SIZE)
    <2>1. 1 \in 1..n
        BY <1>2
    <2> QED BY <1>3, <1>5, <1>6, <1>8, <2>1 DEF Reader!NALU_HEADER_SIZE
<1>10. \A i \in 2..n :
        end[i] = end[i - 1]
                    + (Reader!Fragment(i).packetDataLength - Reader!FU_A_HEADER_SIZE)
    <2> TAKE i \in 2..n
    <2>1. i \in 1..n /\ i - 1 \in 1..n
        BY <1>2
    <2> QED BY <1>3, <1>5, <1>7, <1>8, <2>1
<1>11. \A i \in 1..n : Reader!AssembledLength[i] = end[i]
    BY <1>2, <1>4, <1>9, <1>10, SendablePackets, ReceiverLengths, Reader!LengthOfUnit
        DEF SessionInv
<1>12. \A i \in 1..n : Reader!AssembledLength[i] <= naluArray[u].len
    BY <1>3, <1>8, <1>11
<1>13. Reader!AssembledLength[n] = naluArray[u].len /\ naluArray[u].len \in Nat
    <2>1. n \in 1..n
        BY <1>2
    <2> QED BY <1>1, <1>3, <1>6, <1>8, <1>11, <2>1
<1> QED BY <1>2, <1>4, <1>12, <1>13

(* A NAL unit at the tail is read whole into a buffer that takes it; a     *)
(* call that reports success otherwise has left it there.                  *)
LEMMA UnitRead ==
    ASSUME NaluTypes, SessionInv, NEW u, NEW s, NEW j, UnitAt(u, s, j),
           rTailIndex = s, NEW size \in Int, NEW r,
           Reader!DepacketizeCurrent(size, r),
           r = "OK" \/ naluArray[u].len <= size
    PROVE  /\ r = "OK"
           /\ \/ rTailIndex' = s /\ naluArray[u].len > size
              \/ /\ rTailIndex' = j + 1
                 /\ naluDataLength' = naluArray[u].len
                 /\ Intact(nalu', u)
<1>1. /\ s \in Nat /\ j \in Nat /\ s <= j /\ s \in 0..(rHeadIndex - 1)
      /\ packetsArray[s].nalu = u
    BY TailFacts DEF UnitAt
<1>2. CASE Whole(packetsArray[s])
    <2>1. j = s
        BY <1>2, UnitShape, TailFacts DEF SessionInv
    <2>2. /\ SentWhole(packetsArray[s]) /\ naluArray[u].len \in Nat
        BY <1>1, <1>2, SlotFacts DEF SessionInv
    <2>3. packetsArray[s].packetDataLength = naluArray[u].len
        BY <1>1, <2>2 DEF SentWhole
    <2>4. /\ r = "OK"
          /\ \/ /\ rTailIndex' = s /\ packetsArray[s].packetDataLength > size
             \/ /\ rTailIndex' = s + 1
                /\ naluDataLength' = packetsArray[s].packetDataLength
                /\ nalu' = <<Receiver!Bytes(s, 0, packetsArray[s].packetDataLength)>>
        BY <1>1, <1>2, ReadWhole
    <2>5. ASSUME nalu' = <<Receiver!Bytes(s, 0, packetsArray[s].packetDataLength)>>
          PROVE  Intact(nalu', u)
        BY <1>1, <1>2, <2>5, WholeIntact DEF SessionInv
    <2> QED BY <2>1, <2>3, <2>4, <2>5
<1>3. CASE ~Whole(packetsArray[s])
    <2> DEFINE n == j - s + 1
    <2>1. /\ n \in 1..packetCount
          /\ Reader!FragmentsOfUnit(n)
          /\ \A i \in 1..n : Reader!AssembledLength[i] <= naluArray[u].len
          /\ Reader!AssembledLength[n] = naluArray[u].len
          /\ naluArray[u].len \in Nat
        BY <1>3, UnitFragments
    <2>2. Reader!CurrentPacket.first.type = Reader!FU_A_PACKET_TYPE
        BY <1>1, <1>3, SlotFacts DEF SessionInv, Reader!CurrentPacket
    <2>3. Reader!DepacketizeFragmentationUnitPacket(size, r)
        <3>1. ~Reader!SingleType(Reader!FU_A_PACKET_TYPE)
            BY DEF Reader!SingleType, Reader!FU_A_PACKET_TYPE,
                Reader!SINGLE_NALU_PACKET_TYPE_START, Reader!SINGLE_NALU_PACKET_TYPE_END
        <3>2. Reader!FU_A_PACKET_TYPE # Reader!STAP_A_PACKET_TYPE
            BY DEF Reader!FU_A_PACKET_TYPE, Reader!STAP_A_PACKET_TYPE
        <3> QED BY <2>2, <3>1, <3>2, Zenon DEF Reader!DepacketizeCurrent
    <2>4. s + n = j + 1
        BY <1>1
    <2> HIDE DEF n
    <2>5. r = "OK" \/ \A i \in 1..n : Reader!AssembledLength[i] <= size
        <3>1. ASSUME naluArray[u].len <= size, NEW i \in 1..n
              PROVE  Reader!AssembledLength[i] <= size
            <4>1. Reader!AssembledLength[i] \in Int
                <5>1. i \in 0..packetCount
                    BY <2>1, TailFacts
                <5>2. Reader!WrittenBy(i)
                    BY <5>1, SendablePackets, ReceiverLengths, Reader!TurnsWrite
                        DEF SessionInv
                <5> QED BY <5>2 DEF Reader!WrittenBy
            <4> QED BY <2>1, <3>1, <4>1
        <3> QED BY <3>1
    <2>6. /\ r = "OK" /\ rTailIndex' = rTailIndex + n
          /\ naluDataLength' = Reader!AssembledLength[n]
          /\ Reader!HeaderAndPayloads(nalu', n)
        BY <2>1, <2>3, <2>5, SendablePackets, ReceiverLengths, Reader!FragmentsRead
            DEF SessionInv
    <2>7. Intact(nalu', u)
        BY <1>3, <2>6, FragmentsIntact, TailFacts DEF SessionInv, n
    <2> QED BY <2>1, <2>4, <2>6, <2>7
<1> QED BY <1>2, <1>3

(* A turn at a fragment is one of DepacketizeFragmentationUnitPacket.      *)
LEMMA FragmentTurn ==
    ASSUME NaluTypes, SessionInv, packetCount # 0, ~Whole(packetsArray[rTailIndex]),
           NEW size, NEW r, Reader!DepacketizeCurrent(size, r)
    PROVE  Reader!DepacketizeFragmentationUnitPacket(size, r)
<1>1. rTailIndex \in 0..(rHeadIndex - 1)
    BY TailFacts
<1>2. Reader!CurrentPacket.first.type = Reader!FU_A_PACKET_TYPE
    BY <1>1, SlotFacts DEF SessionInv, Reader!CurrentPacket
<1>3. ~Reader!SingleType(Reader!FU_A_PACKET_TYPE)
    BY DEF Reader!SingleType, Reader!FU_A_PACKET_TYPE,
        Reader!SINGLE_NALU_PACKET_TYPE_START, Reader!SINGLE_NALU_PACKET_TYPE_END
<1>4. Reader!FU_A_PACKET_TYPE # Reader!STAP_A_PACKET_TYPE
    BY DEF Reader!FU_A_PACKET_TYPE, Reader!STAP_A_PACKET_TYPE
<1> QED BY <1>2, <1>3, <1>4, Zenon DEF Reader!DepacketizeCurrent

(* The tail goes forward, and stops where a NAL unit starts that is not    *)
(* behind an open fragment.                                                *)
LEMMA TailStops ==
    ASSUME NaluTypes, SessionInv, packetCount # 0,
           NEW size \in Int, NEW r, Reader!DepacketizeCurrent(size, r)
    PROVE  /\ rTailIndex' \in Nat /\ rTailIndex <= rTailIndex'
           /\ \A u, s, j : UnitAt(u, s, j) /\ ~BehindOpenFragment(u) /\ rTailIndex < s
                => rTailIndex' <= s
<1>1. /\ rTailIndex \in 0..(rHeadIndex - 1) /\ rTailIndex \in Nat /\ rHeadIndex \in Nat
      /\ packetCount \in Nat
    BY TailFacts
<1>2. ASSUME NEW u, NEW s, NEW j, UnitAt(u, s, j)
      PROVE  s \in Nat /\ s \in 0..(rHeadIndex - 1) /\ packetsArray[s].nalu = u
             /\ packetsArray[s].from <= NALU_HEADER_SIZE
    BY <1>1, <1>2 DEF UnitAt
<1>3. CASE Whole(packetsArray[rTailIndex])
    <2>1. rTailIndex' = rTailIndex \/ rTailIndex' = rTailIndex + 1
        BY <1>1, <1>3, ReadWhole
    <2> QED BY <1>1, <1>2, <2>1
<1>4. CASE ~Whole(packetsArray[rTailIndex])
    <2>1. Reader!DepacketizeFragmentationUnitPacket(size, r)
        BY <1>4, FragmentTurn
    <2>2. PICK k \in 0..packetCount :
            /\ rTailIndex' = rTailIndex + k
            /\ \A i \in 1..k : Reader!IsFragment(i)
            /\ \A i \in 1..(k - 1) : ~Reader!Fragment(i).fu.e
        BY <2>1, SendablePackets, ReceiverLengths, Reader!FragmentsConsumed
    <2>3. ASSUME NEW u, NEW s, NEW j, UnitAt(u, s, j), rTailIndex < s, s < rTailIndex'
          PROVE  BehindOpenFragment(u)
        <3>1. /\ s \in Nat /\ s \in 1..(rHeadIndex - 1) /\ s - 1 \in 0..(rHeadIndex - 1)
              /\ packetsArray[s].nalu = u /\ packetsArray[s].from <= NALU_HEADER_SIZE
            BY <1>1, <1>2, <2>3
        <3> DEFINE i == s - rTailIndex + 1
        <3>2. /\ i \in 1..k /\ i - 1 \in 1..k /\ i - 1 \in 1..(k - 1)
              /\ rTailIndex + i - 1 = s /\ rTailIndex + (i - 1) - 1 = s - 1
            BY <1>1, <2>2, <2>3, <3>1
        <3> HIDE DEF i
        <3>3. /\ Reader!Fragment(i) = packetsArray[s]
              /\ Reader!Fragment(i - 1) = packetsArray[s - 1]
            BY <3>2, Zenon DEF Reader!Fragment
        <3>4. /\ packetsArray[s].first.type = Reader!FU_A_PACKET_TYPE
              /\ packetsArray[s - 1].first.type = Reader!FU_A_PACKET_TYPE
              /\ ~packetsArray[s - 1].fu.e
            BY <2>2, <3>2, <3>3 DEF Reader!IsFragment
        <3>5. ~Reader!SingleType(Reader!FU_A_PACKET_TYPE)
            BY DEF Reader!SingleType, Reader!FU_A_PACKET_TYPE,
                Reader!SINGLE_NALU_PACKET_TYPE_START, Reader!SINGLE_NALU_PACKET_TYPE_END
        <3>6. s \in 0..(rHeadIndex - 1)
            BY <3>1
        <3>7. ~Whole(packetsArray[s]) /\ ~Whole(packetsArray[s - 1])
            BY <3>1, <3>4, <3>5, <3>6, SlotFacts DEF SessionInv
        <3>8. \A h \in 0..(s - 1) : packetsArray[h].nalu # u
            <4> TAKE h \in 0..(s - 1)
            <4>1. h \in 0..(rHeadIndex - 1) /\ h < s /\ s \in 0..(rHeadIndex - 1)
                BY <1>1, <3>1
            <4>2. packetsArray[h].nalu = packetsArray[s].nalu
                    => packetsArray[s].from > NALU_HEADER_SIZE
                BY <4>1, StartsOnce DEF SessionInv
            <4>3. packetsArray[s].from \in Nat
                BY <4>1, SlotFacts DEF SessionInv
            <4> QED BY <3>1, <4>2, <4>3 DEF NALU_HEADER_SIZE
        <3> QED BY <3>1, <3>4, <3>7, <3>8, Zenon DEF BehindOpenFragment
    <2>4. rTailIndex' \in Nat /\ rTailIndex <= rTailIndex'
        BY <1>1, <2>2
    <2> QED BY <1>2, <2>3, <2>4
<1> QED BY <1>3, <1>4

(* A receiver that reads moves nothing.                                    *)
LEMMA UnitsKept ==
    ASSUME UNCHANGED <<naluArray, sent, packetsArray, rHeadIndex>>
    PROVE  /\ Stored' = Stored
           /\ \A u : Arrived(u)' <=> Arrived(u)
           /\ \A u, s, j : UnitAt(u, s, j)' <=> UnitAt(u, s, j)
<1>1. Stored' = Stored
    BY DEF Stored
<1>2. \A u : Arrived(u)' <=> Arrived(u)
    BY <1>1, Zenon DEF Arrived, PacketsOf, BehindOpenFragment
<1>3. \A u, s, j : UnitAt(u, s, j)' <=> UnitAt(u, s, j)
    BY Zenon DEF UnitAt
<1> QED BY <1>1, <1>2, <1>3

(* What was delivered stays delivered.                                     *)
LEMMA DeliveredKept ==
    ASSUME UNCHANGED <<naluArray, packetsArray>>,
           NEW i, NEW u, DeliveredAs(i, u),
           i \in DOMAIN ReadSoFar', ReadSoFar'[i] = ReadSoFar[i]
    PROVE  DeliveredAs(i, u)'
<1>1. ReadSoFar'[i].result = "OK" /\ Intact(ReadSoFar'[i].pieces, u)
    BY DEF DeliveredAs
<1>2. Intact(ReadSoFar'[i].pieces, u) => Intact(ReadSoFar[i].pieces, u)'
    BY Zenon DEF Intact, HeaderOf, RunOf
<1> QED BY <1>1, <1>2 DEF DeliveredAs

(* What a turn read intact is delivered with it.                           *)
LEMMA DeliveredNow ==
    ASSUME UNCHANGED <<naluArray, packetsArray>>, NEW i, NEW u, NEW r, r = "OK",
           Intact(nalu', u),
           i \in DOMAIN ReadSoFar', ReadSoFar'[i] = [pieces |-> nalu', result |-> r]
    PROVE  DeliveredAs(i, u)'
<1>1. ReadSoFar'[i].result = "OK" /\ Intact(ReadSoFar'[i].pieces, u)
    OBVIOUS
<1>2. Intact(ReadSoFar'[i].pieces, u) => Intact(ReadSoFar[i].pieces, u)'
    BY Zenon DEF Intact, HeaderOf, RunOf
<1> QED BY <1>1, <1>2 DEF DeliveredAs

-----------------------------------------------------------------------------
(* What has been read, as a sequence.                                      *)

IsList(q) == q \in Seq({q[i] : i \in DOMAIN q})

ListsInv == IsList(delivered) /\ IsList(frame)

(* Nothing read is a sequence.                                             *)
LEMMA EmptyList == IsList(<< >>)
BY DEF IsList

(* A list is a sequence.                                                   *)
LEMMA ListFacts ==
    ASSUME NEW q, IsList(q)
    PROVE  Len(q) \in Nat /\ DOMAIN q = 1..Len(q)
<1> DEFINE T == {q[i] : i \in DOMAIN q}
<1>1. q \in Seq(T)
    BY DEF IsList
<1> HIDE DEF T
<1> QED BY <1>1

(* One item more.                                                          *)
LEMMA AppendList ==
    ASSUME NEW q, IsList(q), NEW x
    PROVE  /\ IsList(Append(q, x))
           /\ Len(q) \in Nat /\ DOMAIN q = 1..Len(q)
           /\ Len(Append(q, x)) = Len(q) + 1
           /\ DOMAIN Append(q, x) = 1..(Len(q) + 1)
           /\ \A i \in 1..Len(q) : Append(q, x)[i] = q[i]
           /\ Append(q, x)[Len(q) + 1] = x
<1> DEFINE T == {q[i] : i \in DOMAIN q}
           a == Append(q, x)
           R == {a[i] : i \in DOMAIN a}
<1>1. q \in Seq(T)
    BY DEF IsList
<1> HIDE DEF T
<1>2. q \in Seq(T \cup {x}) /\ x \in T \cup {x}
    BY <1>1
<1>3. /\ Len(q) \in Nat /\ DOMAIN q = 1..Len(q)
      /\ a \in Seq(T \cup {x})
      /\ Len(a) = Len(q) + 1
      /\ \A i \in 1..Len(q) : a[i] = q[i]
      /\ a[Len(q) + 1] = x
    BY <1>1, <1>2
<1>4. DOMAIN a = 1..(Len(q) + 1)
    BY <1>3
<1>5. IsList(a)
    <2>1. \A i \in 1..Len(a) : a[i] \in R
        BY <1>3, <1>4
    <2> HIDE DEF R, a
    <2>2. a = [i \in 1..Len(a) |-> a[i]] /\ Len(a) \in Nat
        BY <1>3
    <2>3. a \in [1..Len(a) -> R]
        BY <2>1, <2>2
    <2>4. a \in Seq(R)
        BY <2>2, <2>3
    <2> QED BY <2>4 DEF IsList, R
<1> QED BY <1>3, <1>4, <1>5

(* A frame as the caller has it.                                           *)
Items(f) == [i \in DOMAIN f |-> [pieces |-> f[i], result |-> "OK"]]

(* The items of a frame are as many as its NAL units.                      *)
LEMMA ItemsList ==
    ASSUME NEW f, IsList(f)
    PROVE  /\ IsList(Items(f)) /\ Len(Items(f)) = Len(f)
           /\ Len(f) \in Nat /\ DOMAIN Items(f) = 1..Len(f)
<1> DEFINE a == Items(f)
           R == {a[i] : i \in DOMAIN a}
<1>1. Len(f) \in Nat /\ DOMAIN f = 1..Len(f)
    BY ListFacts
<1>2. /\ DOMAIN a = 1..Len(f)
      /\ a = [i \in 1..Len(f) |-> a[i]]
    BY <1>1, Zenon DEF Items
<1>3. \A i \in 1..Len(f) : a[i] \in R
    BY <1>2
<1> HIDE DEF R, a
<1>4. a \in [1..Len(f) -> R]
    BY <1>2, <1>3
<1>5. a \in Seq(R) /\ Len(a) = Len(f)
    BY <1>1, <1>4
<1> QED BY <1>1, <1>2, <1>5 DEF IsList, R, a

(* What was read of r with the pieces written last has been added.         *)
OneMore(r) ==
    LET n == Len(ReadSoFar)
    IN  /\ n \in Nat /\ DOMAIN ReadSoFar = 1..n
        /\ Len(ReadSoFar') = n + 1 /\ DOMAIN ReadSoFar' = 1..(n + 1)
        /\ \A i \in 1..n : ReadSoFar'[i] = ReadSoFar[i]
        /\ ReadSoFar'[n + 1] = [pieces |-> nalu', result |-> r]

(* GetNalu adds one item.                                                  *)
LEMMA OneMoreNalu ==
    ASSUME ListsInv, NEW r, stage # "reading frame", stage' # "reading frame",
           delivered' = Append(delivered, [pieces |-> nalu', result |-> r])
    PROVE  OneMore(r) /\ IsList(delivered')
<1>1. ReadSoFar = delivered /\ ReadSoFar' = delivered'
    BY DEF ReadSoFar
<1> DEFINE x == [pieces |-> nalu', result |-> r]
<1>2. IsList(delivered) /\ delivered' = Append(delivered, x)
    BY DEF ListsInv
<1> HIDE DEF x
<1>3. /\ IsList(Append(delivered, x))
      /\ Len(delivered) \in Nat /\ DOMAIN delivered = 1..Len(delivered)
      /\ Len(Append(delivered, x)) = Len(delivered) + 1
      /\ DOMAIN Append(delivered, x) = 1..(Len(delivered) + 1)
      /\ \A i \in 1..Len(delivered) : Append(delivered, x)[i] = delivered[i]
      /\ Append(delivered, x)[Len(delivered) + 1] = x
    BY <1>2, AppendList
<1>4. IsList(delivered')
    BY <1>2, <1>3
<1>5. /\ Len(delivered) \in Nat /\ DOMAIN delivered = 1..Len(delivered)
      /\ Len(delivered') = Len(delivered) + 1
      /\ DOMAIN delivered' = 1..(Len(delivered) + 1)
      /\ \A i \in 1..Len(delivered) : delivered'[i] = delivered[i]
      /\ delivered'[Len(delivered) + 1] = x
    BY <1>2, <1>3
<1> QED BY <1>1, <1>4, <1>5, Zenon DEF OneMore, x

(* The places of a sequence stay places of a longer one.                   *)
LEMMA OneFurther ==
    \A n \in Nat : (\A i \in 1..n : i \in 1..(n + 1)) /\ n + 1 \in 1..(n + 1)
OBVIOUS

(* A turn of GetFrame adds one item.                                       *)
LEMMA OneMoreTurn ==
    ASSUME ListsInv, stage = "reading frame", stage' = "reading frame",
           frame' = Append(frame, nalu')
    PROVE  OneMore("OK") /\ IsList(frame')
<1>1. ReadSoFar = Items(frame) /\ ReadSoFar' = Items(frame')
    BY DEF ReadSoFar, Items
<1> DEFINE n == Len(frame)
<1>2. /\ n \in Nat /\ DOMAIN frame = 1..n
      /\ IsList(frame') /\ Len(frame') = n + 1 /\ DOMAIN frame' = 1..(n + 1)
      /\ \A i \in 1..n : frame'[i] = frame[i]
      /\ frame'[n + 1] = nalu'
    <2>1. IsList(frame)
        BY DEF ListsInv
    <2>2. ASSUME NEW x, frame' = Append(frame, x)
          PROVE  /\ n \in Nat /\ DOMAIN frame = 1..n
                 /\ IsList(frame') /\ Len(frame') = n + 1 /\ DOMAIN frame' = 1..(n + 1)
                 /\ \A i \in 1..n : frame'[i] = frame[i]
                 /\ frame'[n + 1] = x
        <3>1. /\ IsList(Append(frame, x))
              /\ Len(frame) \in Nat /\ DOMAIN frame = 1..Len(frame)
              /\ Len(Append(frame, x)) = Len(frame) + 1
              /\ DOMAIN Append(frame, x) = 1..(Len(frame) + 1)
              /\ \A i \in 1..Len(frame) : Append(frame, x)[i] = frame[i]
              /\ Append(frame, x)[Len(frame) + 1] = x
            BY <2>1, AppendList
        <3> QED BY <2>2, <3>1
    <2> QED BY <2>2
<1> HIDE DEF n
<1>3. /\ Len(Items(frame)) = n /\ DOMAIN Items(frame) = 1..n
      /\ Len(Items(frame')) = n + 1 /\ DOMAIN Items(frame') = 1..(n + 1)
    <2>1. /\ Len(Items(frame)) = Len(frame) /\ DOMAIN Items(frame) = 1..Len(frame)
        BY ItemsList DEF ListsInv
    <2>2. ASSUME NEW f, f = frame'
          PROVE  Len(Items(f)) = Len(f) /\ DOMAIN Items(f) = 1..Len(f)
        <3>1. IsList(f)
            BY <1>2, <2>2 DEF IsList
        <3> QED BY <3>1, ItemsList
    <2>3. /\ Len(Items(frame')) = Len(frame') /\ DOMAIN Items(frame') = 1..Len(frame')
        BY <2>2 DEF Items
    <2> QED BY <1>2, <2>1, <2>3 DEF n
<1>4. /\ \A i \in 1..n : Items(frame)[i] = [pieces |-> frame[i], result |-> "OK"]
      /\ \A i \in 1..(n + 1) :
            Items(frame')[i] = [pieces |-> frame'[i], result |-> "OK"]
    BY <1>2 DEF Items
<1>5. /\ \A i \in 1..n : i \in 1..(n + 1)
      /\ n + 1 \in 1..(n + 1)
    BY <1>2, OneFurther, Zenon
<1>6. /\ \A i \in 1..n : Items(frame')[i] = Items(frame)[i]
      /\ Items(frame')[n + 1] = [pieces |-> nalu', result |-> "OK"]
    BY <1>2, <1>4, <1>5
<1>7. OneMore("OK")
    BY <1>1, <1>2, <1>3, <1>6, Zenon DEF OneMore
<1> QED BY <1>2, <1>7

(* What has been read can be counted.                                      *)
LEMMA CountRead ==
    ASSUME ListsInv
    PROVE  Len(ReadSoFar) \in Nat
<1>1. IsList(ReadSoFar)
    <2>1. CASE stage = "reading frame"
        <3>1. ReadSoFar = Items(frame) /\ IsList(frame)
            BY <2>1 DEF ReadSoFar, Items, ListsInv
        <3>2. IsList(Items(frame))
            BY <3>1, ItemsList
        <3> QED BY <3>1, <3>2
    <2>2. CASE stage # "reading frame"
        BY <2>2 DEF ReadSoFar, ListsInv
    <2> QED BY <2>1, <2>2
<1> QED BY <1>1, ListFacts

-----------------------------------------------------------------------------
(* The calls of a receiver that reads.                                     *)

Room == BufferSize - frameIndex - Reader!STARTCODE_SIZE

(* A turn whose result is r, with so much room: one NAL unit more is read. *)
Turn(size, r) ==
    /\ packetCount # 0
    /\ Reader!DepacketizeCurrent(size, r)
    /\ OneMore(r)

Pauses == UNCHANGED <<rTailIndex, ReadSoFar>>

(* GetNalu reads one NAL unit more, or there is none left.                 *)
LEMMA ReadNaluSteps ==
    ASSUME SessionInv, ListsInv, ReadNalu
    PROVE  /\ ListsInv'
           /\ \/ /\ stage' = "reading"
                 /\ \E r : Turn(BufferSize, r)
              \/ stage' = "done" /\ packetCount = 0 /\ Pauses
<1>1. /\ stage # "reading frame" /\ stage' # "reading frame"
      /\ \/ /\ rResult' = "NO_MORE_NALUS" /\ stage' = "done" /\ delivered' = delivered
         \/ /\ rResult' # "NO_MORE_NALUS" /\ stage' = "reading"
            /\ delivered' = Append(delivered, [pieces |-> nalu', result |-> rResult'])
    BY DEF ReadNalu
<1>2. Reader!H264Depacketizer_GetNalu(BufferSize)
    <2>1. Reader!GetNalu
        BY SameCalls DEF ReadNalu
    <2> QED BY <2>1, Zenon DEF Reader!GetNalu
<1>3. /\ frame' = frame /\ frameIndex' = frameIndex
      /\ \/ packetCount = 0 /\ rResult' = "NO_MORE_NALUS" /\ rTailIndex' = rTailIndex
         \/ /\ packetCount # 0
            /\ rResult' \in Reader!ReadResults
            /\ Reader!DepacketizeCurrent(BufferSize, rResult')
    <2>1. CASE packetCount = 0 /\ Reader!Refuse("NO_MORE_NALUS")
        BY <2>1 DEF Reader!Refuse, Reader!frameOut, Reader!reading
    <2>2. CASE /\ packetCount # 0
               /\ \E r \in Reader!ReadResults :
                    Reader!DepacketizeCurrent(BufferSize, r) /\ rResult' = r
               /\ UNCHANGED <<Reader!queue, Reader!frameOut>>
        <3>1. PICK r \in Reader!ReadResults :
                Reader!DepacketizeCurrent(BufferSize, r) /\ rResult' = r
            BY <2>2
        <3> QED BY <2>2, <3>1, Zenon DEF Reader!frameOut
    <2> QED BY <1>2, <2>1, <2>2, Zenon DEF Reader!H264Depacketizer_GetNalu
<1>4. CASE rResult' = "NO_MORE_NALUS"
    <2>1. packetCount = 0 /\ rTailIndex' = rTailIndex
        BY <1>3, <1>4 DEF Reader!ReadResults
    <2>2. stage' = "done" /\ delivered' = delivered
        BY <1>1, <1>4
    <2>3. ReadSoFar' = ReadSoFar
        BY <1>1, <2>2 DEF ReadSoFar
    <2>4. ListsInv'
        BY <1>3, <2>2 DEF ListsInv, IsList
    <2> QED BY <2>1, <2>2, <2>3, <2>4 DEF Pauses
<1>5. CASE rResult' # "NO_MORE_NALUS"
    <2>1. /\ stage' = "reading"
          /\ delivered' = Append(delivered, [pieces |-> nalu', result |-> rResult'])
        BY <1>1, <1>5
    <2>2. packetCount # 0 /\ Reader!DepacketizeCurrent(BufferSize, rResult')
        BY <1>3, <1>5
    <2>3. ASSUME NEW r, r = rResult'
          PROVE  OneMore(r) /\ IsList(delivered')
        BY <1>1, <2>1, <2>3, OneMoreNalu
    <2>4. ListsInv'
        BY <1>3, <2>3 DEF ListsInv, IsList
    <2>5. \E r : Turn(BufferSize, r)
        <3>1. OneMore(rResult')
            BY <2>3
        <3> QED BY <2>2, <3>1 DEF Turn
    <2> QED BY <2>1, <2>4, <2>5
<1> QED BY <1>4, <1>5

(* GetFrame starts at the tail, or is refused.                             *)
LEMMA ReadFrameSteps ==
    ASSUME SessionInv, ListsInv, ReadFrame
    PROVE  /\ ListsInv'
           /\ Pauses
           /\ \/ stage' = "reading frame" /\ frameIndex' = 0
              \/ /\ stage' = "done" /\ rResult' \notin {"NO_MORE_NALUS", "OK"}
                 /\ BufferSize = 0 \/ packetCount = 0
<1>1. /\ stage = "receiving" /\ delivered' = delivered /\ delivered = << >>
      /\ stage' = IF frameDataLength' = 0 THEN "done" ELSE "reading frame"
      /\ frameDataLength = 0
    BY DEF ReadFrame, SessionInv, StageInv
<1>2. Reader!H264Depacketizer_GetFrame(BufferSize)
    <2>1. Reader!GetFrame
        BY SameCalls DEF ReadFrame
    <2> QED BY <2>1, Zenon DEF Reader!GetFrame
<1>3. CASE /\ BufferSize = 0 \/ packetCount = 0
           /\ \E r \in {"BAD_PARAM", "NO_MORE_FRAMES"} : Reader!Refuse(r)
    <2>1. /\ rResult' \in {"BAD_PARAM", "NO_MORE_FRAMES"}
          /\ UNCHANGED <<rTailIndex, frame, frameIndex, frameDataLength>>
        BY <1>3 DEF Reader!Refuse, Reader!reading, Reader!frameOut
    <2>2. stage' = "done"
        BY <1>1, <2>1
    <2>3. ReadSoFar' = ReadSoFar
        BY <1>1, <2>2 DEF ReadSoFar
    <2> QED BY <1>1, <1>3, <2>1, <2>2, <2>3 DEF ListsInv, IsList, Pauses
<1>4. CASE /\ BufferSize # 0
           /\ frame' = << >> /\ frameIndex' = 0 /\ frameDataLength' = BufferSize
           /\ UNCHANGED Reader!reading
    <2>1. stage' = "reading frame" /\ rTailIndex' = rTailIndex
        BY <1>1, <1>4 DEF Reader!reading
    <2>2. ReadSoFar = << >> /\ ReadSoFar' = << >>
        <3>1. ReadSoFar' = Items(frame')
            BY <2>1 DEF ReadSoFar, Items
        <3>2. Items(<< >>) = << >>
            BY DEF Items
        <3> QED BY <1>1, <1>4, <3>1, <3>2 DEF ReadSoFar
    <2>3. ListsInv'
        <3>1. IsList(delivered')
            BY <1>1, EmptyList
        <3>2. IsList(frame')
            BY <1>4, EmptyList
        <3> QED BY <3>1, <3>2 DEF ListsInv, IsList
    <2> QED BY <1>4, <2>1, <2>2, <2>3 DEF Pauses
<1> QED BY <1>2, <1>3, <1>4, Zenon DEF Reader!H264Depacketizer_GetFrame

(* A turn of GetFrame reads one NAL unit more, or ends it: no packet left, *)
(* no room, or a NAL unit that cannot be read.                             *)
LEMMA ReadFrameTurnSteps ==
    ASSUME SessionInv, ListsInv, ReadFrameTurn
    PROVE  /\ ListsInv'
           /\ \/ /\ stage' = "reading frame" /\ Room > 0 /\ Turn(Room, "OK")
                 /\ frameIndex'
                        = frameIndex + Reader!STARTCODE_SIZE + naluDataLength'
              \/ stage' = "done" /\ packetCount = 0 /\ Pauses
              \/ /\ stage' = "done" /\ rResult' \notin {"NO_MORE_NALUS", "OK"}
                 /\ \/ Room <= 0
                    \/ /\ Room > 0 /\ packetCount # 0
                       /\ \E r : r # "OK" /\ Reader!DepacketizeCurrent(Room, r)
<1>1. /\ stage = "reading frame"
      /\ stage' = IF frameDataLength' = 0 THEN "done" ELSE stage
      /\ delivered' = IF frameDataLength' = 0 /\ rResult' = "OK"
                        THEN Items(frame') ELSE delivered
      /\ frameDataLength = BufferSize
    BY DEF ReadFrameTurn, SessionInv, StageInv, Items
<1>2. Reader!GetFrameTurn
    BY SameCalls DEF ReadFrameTurn
<1>3. BufferSize # 0 /\ Room = frameDataLength - frameIndex - Reader!STARTCODE_SIZE
    BY <1>1, <1>2, Zenon DEF Reader!GetFrameTurn, Reader!Idle, Room
<1>4. CASE /\ Room <= 0 /\ Reader!EndFrame("OUT_OF_MEMORY")
           /\ UNCHANGED <<frame, frameIndex>>
    <2>1. stage' = "done" /\ rResult' = "OUT_OF_MEMORY" /\ delivered' = delivered
        BY <1>1, <1>4 DEF Reader!EndFrame
    <2> QED BY <1>4, <2>1 DEF ListsInv, IsList
<1>5. CASE /\ packetCount = 0 /\ Reader!EndFrame("OK")
           /\ UNCHANGED <<rTailIndex, frame, frameIndex>>
    <2>1. stage' = "done" /\ rResult' = "OK" /\ delivered' = Items(frame)
        BY <1>1, <1>5 DEF Reader!EndFrame
    <2>2. IsList(Items(frame))
        BY ItemsList DEF ListsInv
    <2>3. ReadSoFar' = ReadSoFar
        BY <1>1, <2>1 DEF ReadSoFar, Items
    <2> QED BY <1>5, <2>1, <2>2, <2>3 DEF ListsInv, IsList, Pauses
<1>6. CASE /\ Room > 0 /\ packetCount # 0
           /\ Reader!DepacketizeCurrent(Room, "OK")
           /\ frame' = Append(frame, nalu')
           /\ frameIndex' = frameIndex + Reader!STARTCODE_SIZE + naluDataLength'
           /\ frameDataLength' = frameDataLength
    <2>1. stage' = "reading frame" /\ delivered' = delivered
        BY <1>1, <1>3, <1>6
    <2>2. OneMore("OK") /\ IsList(frame')
        BY <1>1, <1>6, <2>1, OneMoreTurn
    <2>3. ListsInv'
        BY <2>1, <2>2 DEF ListsInv, IsList
    <2> QED BY <1>6, <2>1, <2>2, <2>3 DEF Turn
<1>7. CASE /\ Room > 0 /\ packetCount # 0
           /\ \E r \in Reader!ReadResults \ {"OK"} :
                Reader!DepacketizeCurrent(Room, r) /\ Reader!EndFrame(r)
           /\ UNCHANGED <<frame, frameIndex>>
    <2>1. PICK r \in Reader!ReadResults \ {"OK"} :
            Reader!DepacketizeCurrent(Room, r) /\ Reader!EndFrame(r)
        BY <1>7
    <2>2. /\ stage' = "done" /\ rResult' = r /\ r \notin {"NO_MORE_NALUS", "OK"}
          /\ delivered' = delivered
        BY <1>1, <2>1 DEF Reader!EndFrame, Reader!ReadResults
    <2> QED BY <1>7, <2>1, <2>2 DEF ListsInv, IsList
<1>8. \/ /\ Room <= 0 /\ Reader!EndFrame("OUT_OF_MEMORY")
         /\ UNCHANGED <<frame, frameIndex>>
      \/ /\ packetCount = 0 /\ Reader!EndFrame("OK")
         /\ UNCHANGED <<rTailIndex, frame, frameIndex>>
      \/ /\ Room > 0 /\ packetCount # 0
         /\ Reader!DepacketizeCurrent(Room, "OK")
         /\ frame' = Append(frame, nalu')
         /\ frameIndex' = frameIndex + Reader!STARTCODE_SIZE + naluDataLength'
         /\ frameDataLength' = frameDataLength
      \/ /\ Room > 0 /\ packetCount # 0
         /\ \E r \in Reader!ReadResults \ {"OK"} :
                Reader!DepacketizeCurrent(Room, r) /\ Reader!EndFrame(r)
         /\ UNCHANGED <<frame, frameIndex>>
    BY <1>1, <1>2, <1>3, Zenon DEF Reader!GetFrameTurn, Room, Reader!reading
<1> QED BY <1>4, <1>5, <1>6, <1>7, <1>8

-----------------------------------------------------------------------------
(* Loss is contained.                                                      *)

(* The receiver's buffer takes each NAL unit.                              *)
RoomForNalus == \A n \in Nalu : n.len <= BufferSize

ReadingInv == SessionInv /\ Reader!FrameInv /\ ListsInv

(* A step of the session keeps what H264DepacketizerProofs proves of the   *)
(* index into the frame.                                                   *)
LEMMA FrameInvKept ==
    ASSUME NaluTypes, RoomForPayload, SessionInv, Reader!FrameInv,
           SessionNext \/ UNCHANGED sessionVars
    PROVE  Reader!FrameInv'
<1>1. [Reader!Next]_(Reader!vars)
    BY ReceiverSteps
<1> QED BY <1>1, SendablePackets, ReceiverLengths, Reader!NextFrameInv DEF SessionInv

(* A step of the session keeps what was read a sequence.                   *)
LEMMA ListsKept ==
    ASSUME SessionInv, ListsInv, SessionNext \/ UNCHANGED sessionVars
    PROVE  ListsInv'
<1>1. CASE Read
    BY <1>1, ReadNaluSteps, ReadFrameSteps, ReadFrameTurnSteps DEF Read
<1>2. CASE UNCHANGED <<frame, delivered>>
    BY <1>2 DEF ListsInv, IsList
<1>3. CASE SendPacket
    <2>1. UNCHANGED <<frame, delivered>>
        BY <1>3, Zenon DEF SendPacket, Arrives, IsLost, receiver, Receiver!frameOut,
            Receiver!H264Depacketizer_AddPacket, Receiver!Refuse
    <2> QED BY <1>2, <2>1
<1>4. CASE NextFrame
    <2>1. PICK n \in PacketArrayLengths \ {0} : Receiver!H264Depacketizer_Init(n)
        BY <1>4 DEF NextFrame
    <2>2. frame' = << >> /\ delivered' = << >>
        BY <1>4, <2>1 DEF NextFrame, Receiver!H264Depacketizer_Init
    <2>3. IsList(frame') /\ IsList(delivered')
        BY <2>2, EmptyList
    <2> QED BY <2>3 DEF ListsInv, IsList
<1> QED BY <1>1, <1>2, <1>3, <1>4
        DEF SessionNext, AddUnits, Send, StopSending, sessionVars, receiver, session

(* The invariant of the receiver in the session holds initially.           *)
LEMMA ReadingInitInv == SessionInit => ReadingInv
<1> SUFFICES ASSUME SessionInit PROVE ReadingInv
    OBVIOUS
<1>1. frame = << >> /\ delivered = << >> /\ frameIndex = 0 /\ frameDataLength = 0
    BY DEF SessionInit, Receiver!Init
<1>2. ListsInv
    BY <1>1, EmptyList DEF ListsInv
<1>3. Reader!FrameInv
    BY <1>1 DEF Reader!FrameInv, Reader!Idle
<1> QED BY <1>2, <1>3, SessionInitInv DEF ReadingInv

(* A step of the session keeps it.                                         *)
LEMMA ReadingStepInv ==
    ASSUME NaluTypes, RoomForPayload, ReadingInv, SessionNext \/ UNCHANGED sessionVars
    PROVE  ReadingInv'
BY SessionStepInv, FrameInvKept, ListsKept DEF ReadingInv

(* The slots of a NAL unit are slots of the array.                         *)
LEMMA SlotsAt ==
    ASSUME SessionInv, NEW u, NEW s, NEW j, UnitAt(u, s, j)
    PROVE  s \in Nat /\ j \in Nat /\ s <= j /\ j < rHeadIndex
BY TailFacts DEF UnitAt

(* A turn reads the NAL unit at the tail, if all of it arrived, and passes *)
(* by no other that did.                                                   *)
LEMMA TurnContained ==
    ASSUME NaluTypes, SessionInv, ContainmentInv, IsReading, stage # "done",
           NEW size \in Int, NEW r, Turn(size, r),
           r = "OK" \/ \A n \in Nalu : n.len <= size,
           UNCHANGED <<naluArray, headIndex, sent, packetsArray, rHeadIndex>>,
           stage' # "done"
    PROVE  ContainmentInv'
<1>1. /\ rTailIndex' \in Nat /\ rTailIndex <= rTailIndex'
      /\ \A u, s, j : UnitAt(u, s, j) /\ ~BehindOpenFragment(u) /\ rTailIndex < s
            => rTailIndex' <= s
    BY TailStops DEF Turn
<1>2. rTailIndex \in Nat /\ rHeadIndex \in Nat
    BY TailFacts
<1> DEFINE n == Len(ReadSoFar)
<1>3. /\ n \in Nat /\ DOMAIN ReadSoFar = 1..n /\ DOMAIN ReadSoFar' = 1..(n + 1)
      /\ \A i \in 1..n : ReadSoFar'[i] = ReadSoFar[i]
      /\ ReadSoFar'[n + 1] = [pieces |-> nalu', result |-> r]
    BY Zenon DEF Turn, OneMore
<1> HIDE DEF n
<1>4. (\A i \in 1..n : i \in DOMAIN ReadSoFar') /\ n + 1 \in DOMAIN ReadSoFar'
    BY <1>3, OneFurther
<1>5. ASSUME NEW u \in 0..(headIndex - 1), NEW s \in 0..(rHeadIndex - 1),
             NEW j \in 0..(rHeadIndex - 1), Arrived(u), UnitAt(u, s, j)
      PROVE  \/ rTailIndex' <= s
             \/ rTailIndex' > j /\ \E i \in DOMAIN ReadSoFar' : DeliveredAs(i, u)'
    <2>1. \/ rTailIndex <= s
          \/ rTailIndex > j /\ \E i \in DOMAIN ReadSoFar : DeliveredAs(i, u)
        BY <1>5 DEF ContainmentInv
    <2>2. CASE rTailIndex > j /\ \E i \in DOMAIN ReadSoFar : DeliveredAs(i, u)
        <3>1. PICK i \in DOMAIN ReadSoFar : DeliveredAs(i, u)
            BY <2>2
        <3>2. i \in DOMAIN ReadSoFar' /\ ReadSoFar'[i] = ReadSoFar[i]
            BY <1>3, <1>4
        <3>3. DeliveredAs(i, u)'
            BY <3>1, <3>2, DeliveredKept
        <3>4. rTailIndex' > j
            BY <1>1, <1>2, <2>2
        <3> QED BY <3>2, <3>3, <3>4
    <2>3. CASE rTailIndex < s
        BY <1>1, <1>5, <2>3 DEF Arrived
    <2>4. CASE rTailIndex = s
        <3>1. r = "OK" \/ naluArray[u].len <= size
            <4>1. naluArray[u] \in Nalu
                BY DEF SessionInv, SenderInv, IInv, QueueConsistent
            <4> QED BY <4>1
        <3>2. /\ r = "OK"
              /\ \/ rTailIndex' = s /\ naluArray[u].len > size
                 \/ rTailIndex' = j + 1 /\ Intact(nalu', u)
            BY <1>5, <2>4, <3>1, UnitRead DEF Turn
        <3>3. CASE rTailIndex' = s
            BY <3>3, SlotsAt, <1>5
        <3>4. CASE rTailIndex' = j + 1 /\ Intact(nalu', u)
            <4>1. PICK i : i = n + 1
                OBVIOUS
            <4>2. i \in DOMAIN ReadSoFar' /\ ReadSoFar'[i] = [pieces |-> nalu', result |-> r]
                BY <1>3, <1>4, <4>1
            <4>3. DeliveredAs(i, u)'
                BY <3>2, <3>4, <4>2, DeliveredNow
            <4>4. rTailIndex' > j
                BY <1>5, <3>4, SlotsAt
            <4> QED BY <4>2, <4>3, <4>4
        <3> QED BY <3>2, <3>3, <3>4
    <2> QED BY <1>2, <2>1, <2>2, <2>3, <2>4
<1>6. ASSUME NEW u \in 0..(headIndex' - 1), NEW s \in 0..(rHeadIndex' - 1),
             NEW j \in 0..(rHeadIndex' - 1), Arrived(u)', UnitAt(u, s, j)'
      PROVE  \/ rTailIndex' <= s
             \/ rTailIndex' > j /\ \E i \in DOMAIN ReadSoFar' : DeliveredAs(i, u)'
    <2>1. Arrived(u) /\ UnitAt(u, s, j)
        BY <1>6, UnitsKept
    <2> QED BY <1>5, <2>1
<1> QED BY <1>6 DEF ContainmentInv

(* A call that reads nothing loses nothing.                                *)
LEMMA PauseContained ==
    ASSUME ContainmentInv, IsReading, Pauses,
           UNCHANGED <<naluArray, headIndex, sent, packetsArray, rHeadIndex>>,
           stage' = "done" => rTailIndex = rHeadIndex
    PROVE  ContainmentInv'
<1>1. ASSUME NEW u \in 0..(headIndex' - 1), NEW s \in 0..(rHeadIndex' - 1),
             NEW j \in 0..(rHeadIndex' - 1), Arrived(u)', UnitAt(u, s, j)'
      PROVE  \/ rTailIndex' <= s
             \/ rTailIndex' > j /\ \E i \in DOMAIN ReadSoFar' : DeliveredAs(i, u)'
    <2>1. Arrived(u) /\ UnitAt(u, s, j)
        BY <1>1, UnitsKept
    <2>2. \/ rTailIndex <= s
          \/ rTailIndex > j /\ \E i \in DOMAIN ReadSoFar : DeliveredAs(i, u)
        BY <1>1, <2>1 DEF ContainmentInv
    <2>3. ASSUME NEW i \in DOMAIN ReadSoFar, DeliveredAs(i, u)
          PROVE  i \in DOMAIN ReadSoFar' /\ DeliveredAs(i, u)'
        <3>1. i \in DOMAIN ReadSoFar' /\ ReadSoFar'[i] = ReadSoFar[i]
            BY DEF Pauses
        <3> QED BY <2>3, <3>1, DeliveredKept
    <2> QED BY <2>2, <2>3 DEF Pauses
<1> QED BY <1>1 DEF ContainmentInv, Pauses

(* A step of the session keeps every NAL unit that arrived ahead of the    *)
(* receiver or delivered.                                                  *)
LEMMA ContainmentStepInv ==
    ASSUME NaluTypes, RoomForPayload, RoomForNalus, ReadingInv, ContainmentInv,
           SessionNext \/ UNCHANGED sessionVars
    PROVE  ContainmentInv'
<1>1. SessionInv /\ ListsInv /\ frameIndex \in Int
    BY DEF ReadingInv, Reader!FrameInv
<1>2. CASE AddUnits \/ SendPacket \/ NextFrame
    <2>1. stage' \in {"adding", "sending"}
        BY <1>2 DEF AddUnits, SendPacket, NextFrame, session
    <2> QED BY <2>1 DEF ContainmentInv, IsReading
<1>3. CASE StopSending
    <2>1. stage' = "receiving" /\ rTailIndex' = 0
        BY <1>1, <1>3 DEF StopSending, receiver, SessionInv, StageInv
    <2> QED BY <2>1 DEF ContainmentInv
<1>4. CASE Read
    <2>1. UNCHANGED <<naluArray, headIndex, sent, packetsArray, rHeadIndex>>
        BY <1>4, ReadingKeeps DEF vars
    <2>2. IsReading /\ stage # "done"
        BY <1>4 DEF Read, ReadNalu, ReadFrame, ReadFrameTurn, IsReading
    <2>3. rHeadIndex = rTailIndex + packetCount /\ rTailIndex \in Nat /\ BufferSize \in Nat
        BY <1>1, TailFacts
    <2>4. CASE ReadNalu
        <3>1. CASE stage' = "done" /\ packetCount = 0 /\ Pauses
            BY <2>1, <2>2, <2>3, <3>1, PauseContained
        <3>2. CASE stage' = "reading" /\ \E r : Turn(BufferSize, r)
            <4>1. PICK r : Turn(BufferSize, r)
                BY <3>2
            <4>2. \A n \in Nalu : n.len <= BufferSize
                BY DEF RoomForNalus
            <4>3. BufferSize \in Int /\ stage' # "done"
                BY <2>3, <3>2
            <4> QED BY <1>1, <2>1, <2>2, <4>1, <4>2, <4>3, TurnContained
        <3> QED BY <1>1, <2>4, <3>1, <3>2, ReadNaluSteps
    <2>5. CASE ReadFrame
        <3>1. CASE Pauses /\ stage' = "reading frame"
            BY <2>1, <2>2, <3>1, PauseContained
        <3>2. CASE stage' = "done" /\ rResult' \notin {"NO_MORE_NALUS", "OK"}
            BY <3>2 DEF ContainmentInv, IsReading
        <3> QED BY <1>1, <2>5, <3>1, <3>2, ReadFrameSteps
    <2>6. CASE ReadFrameTurn
        <3>1. CASE stage' = "reading frame" /\ Turn(Room, "OK")
            <4>1. Room \in Int
                BY <1>1, <2>3 DEF Room, Reader!STARTCODE_SIZE
            <4> QED BY <1>1, <2>1, <2>2, <3>1, <4>1, TurnContained
        <3>2. CASE stage' = "done" /\ packetCount = 0 /\ Pauses
            BY <2>1, <2>2, <2>3, <3>2, PauseContained
        <3>3. CASE stage' = "done" /\ rResult' \notin {"NO_MORE_NALUS", "OK"}
            BY <3>3 DEF ContainmentInv, IsReading
        <3> QED BY <1>1, <2>6, <3>1, <3>2, <3>3, ReadFrameTurnSteps
    <2> QED BY <1>4, <2>4, <2>5, <2>6 DEF Read
<1>5. CASE UNCHANGED sessionVars
    <2>1. /\ UNCHANGED <<naluArray, headIndex, sent, packetsArray, rHeadIndex>>
          /\ UNCHANGED <<rTailIndex, stage, frame, delivered, rResult>>
        BY <1>5 DEF sessionVars, vars, receiver, session
    <2>2. CASE IsReading
        <3>1. Pauses
            BY <2>1 DEF Pauses, ReadSoFar
        <3>2. stage' = "done" => rTailIndex = rHeadIndex
            BY <2>1, <2>2 DEF ContainmentInv
        <3> QED BY <2>1, <2>2, <3>1, <3>2, PauseContained
    <2>3. CASE ~IsReading
        BY <2>1, <2>3 DEF IsReading, ContainmentInv
    <2> QED BY <2>2, <2>3
<1> QED BY <1>2, <1>3, <1>4, <1>5 DEF SessionNext, Send

(* A lost packet costs the NAL unit it belongs to, and at most the         *)
(* fragmented one right behind it: see LossIsContained.                    *)
THEOREM LossStaysContained ==
    ASSUME NaluTypes, RoomForPayload, RoomForNalus
    PROVE  SessionSpec => []LossIsContained
<1> DEFINE Inv == ReadingInv /\ ContainmentInv
<1>1. SessionInit => Inv
    <2> SUFFICES ASSUME SessionInit PROVE Inv
        OBVIOUS
    <2>1. ~IsReading
        BY DEF SessionInit, IsReading
    <2> QED BY <2>1, ReadingInitInv DEF ContainmentInv
<1>2. Inv /\ [SessionNext]_sessionVars => Inv'
    BY ReadingStepInv, ContainmentStepInv
<1>3. Inv => LossIsContained
    <2> SUFFICES ASSUME Inv, stage = "done", rResult \in {"NO_MORE_NALUS", "OK"},
                        NEW u \in 0..(headIndex - 1),
                        PacketsOf(u) \subseteq Stored, ~BehindOpenFragment(u)
                 PROVE  \E i \in DOMAIN delivered :
                            delivered[i].result = "OK" /\ Intact(delivered[i].pieces, u)
        BY DEF LossIsContained
    <2>1. IsReading /\ Arrived(u) /\ ~IsSending
        BY DEF IsReading, Arrived, IsSending
    <2>2. SessionInv /\ tailIndex = headIndex /\ rHeadIndex \in Nat
        BY <2>1, TailFacts DEF ReadingInv, SessionInv, StageInv
    <2>3. PICK s, j \in 0..(rHeadIndex - 1) : UnitAt(u, s, j)
        BY <2>2, UnitExists DEF SessionInv
    <2>4. rTailIndex = rHeadIndex
        BY <2>1 DEF ContainmentInv
    <2>5. ~(rTailIndex <= s)
        BY <2>2, <2>4
    <2>6. PICK i \in DOMAIN ReadSoFar : DeliveredAs(i, u)
        BY <2>1, <2>3, <2>5 DEF ContainmentInv
    <2>7. ReadSoFar = delivered
        BY DEF ReadSoFar
    <2> QED BY <2>6, <2>7 DEF DeliveredAs
<1> HIDE DEF Inv
<1> QED BY <1>1, <1>2, <1>3, PTL DEF SessionSpec

-----------------------------------------------------------------------------
(* Nothing is lost: every NAL unit comes back.                             *)

(* No NAL unit is longer than m bytes, and the receiver's buffer takes as  *)
(* many of them, each behind a start code, as the sender's array, and the  *)
(* room that the turn behind the last still asks for.                      *)
RoomForFrame(m) ==
    /\ \A n \in Nalu : n.len <= m
    /\ \A a \in ArrayLengths :
        BufferSize > a * (m + Reader!STARTCODE_SIZE) + Reader!STARTCODE_SIZE

(* As many NAL units have been read as lie below the tail.                 *)
RoundTripInv(m) ==
    LET c == Len(ReadSoFar)
    IN  ~IsSending /\ Lossless =>
        /\ stage = "done" => c = headIndex
        /\ c <= headIndex
        /\ IF c = headIndex THEN rTailIndex = rHeadIndex
           ELSE rTailIndex < rHeadIndex /\ StartOf(packetsArray[rTailIndex]) = <<c, 0>>
        /\ \A u \in 0..(c - 1) : \E i : i = u + 1 /\ DeliveredAs(i, u)
        /\ stage = "reading frame" => frameIndex <= c * (m + Reader!STARTCODE_SIZE)

(* Products of lengths that the provers know nothing of.                   *)
LEMMA TimesGrows ==
    ASSUME NEW c \in Nat, NEW a \in Nat, c <= a, NEW k \in Nat
    PROVE  /\ c * k \in Nat /\ a * k \in Nat /\ c * k <= a * k
           /\ (c + 1) * k = c * k + k
           /\ c < a => c * k + k <= a * k
<1>1. \A d \in Nat : c * k \in Nat /\ d * k \in Nat /\ (c + d) * k = c * k + d * k
    BY SMTT(30)
<1>2. a - c \in Nat /\ c + (a - c) = a
    OBVIOUS
<1>3. a * k = c * k + (a - c) * k /\ (a - c) * k \in Nat /\ c * k \in Nat
    BY <1>1, <1>2
<1>4. (c + 1) * k = c * k + k
    BY SMTT(30)
<1>5. ASSUME c < a PROVE c * k + k <= a * k
    <2>1. a - c - 1 \in Nat /\ (c + 1) + (a - c - 1) = a
        BY <1>5
    <2>2. \A d \in Nat : d * k \in Nat /\ ((c + 1) + d) * k = (c + 1) * k + d * k
        BY SMTT(30)
    <2>3. a * k = (c + 1) * k + (a - c - 1) * k /\ (a - c - 1) * k \in Nat
        BY <2>1, <2>2
    <2> QED BY <1>3, <1>4, <2>3
<1>6. a * k \in Nat
    BY SMTT(30)
<1> QED BY <1>3, <1>4, <1>5, <1>6

(* Behind a NAL unit lies the next, if none was lost.                      *)
LEMMA NextUnit ==
    ASSUME NaluTypes, SessionInv, Lossless, tailIndex = headIndex,
           NEW u, NEW s, NEW j, UnitAt(u, s, j)
    PROVE  IF u + 1 = headIndex THEN j + 1 = rHeadIndex
           ELSE j + 1 < rHeadIndex /\ StartOf(packetsArray[j + 1]) = <<u + 1, 0>>
<1>1. /\ j \in Nat /\ j < rHeadIndex /\ j \in 0..(rHeadIndex - 1) /\ rHeadIndex \in Nat
      /\ packetsArray[j].nalu = u
      /\ packetsArray[j].from + packetsArray[j].len = naluArray[u].len
    BY SlotsAt, TailFacts DEF UnitAt
<1>2. EndOf(packetsArray[j]) = <<u + 1, 0>>
    BY <1>1 DEF EndOf
<1>3. Lost = {}
    BY DEF Lossless, Lost
<1>4. CASE j + 1 = rHeadIndex
    <2>1. Continues(Cursor, rHeadIndex) /\ rHeadIndex # 0 /\ rHeadIndex - 1 = j
        BY <1>1, <1>4 DEF SessionInv, NetworkInv
    <2>2. Cursor = EndOf(packetsArray[j])
        BY <1>3, <2>1, Zenon DEF Continues
    <2> QED BY <1>2, <1>4, <2>2 DEF Cursor
<1>5. CASE j + 1 < rHeadIndex
    <2>0. j + 1 - 1 = j
        BY <1>1
    <2>1. j + 1 \in 0..(rHeadIndex - 1) /\ j + 1 # 0
        BY <1>1, <1>5
    <2>2. Continues(StartOf(packetsArray[j + 1]), j + 1)
        BY <2>1 DEF SessionInv, NetworkInv
    <2>3. StartOf(packetsArray[j + 1]) = EndOf(packetsArray[j])
        <3>1. PICK k : k = j + 1
            OBVIOUS
        <3>2. Continues(StartOf(packetsArray[k]), k) /\ k # 0
            BY <2>1, <2>2, <3>1
        <3>3. StartOf(packetsArray[k]) = EndOf(packetsArray[k - 1])
            BY <1>3, <3>2, Zenon DEF Continues
        <3>4. k - 1 = j
            BY <1>1, <3>1
        <3> QED BY <3>1, <3>3, <3>4, Zenon
    <2>4. packetsArray[j + 1].nalu = u + 1
        BY <1>2, <2>3 DEF StartOf
    <2>5. packetsArray[j + 1].nalu < headIndex /\ headIndex \in Nat
        BY <2>1, SlotFacts, TailFacts DEF SessionInv
    <2> QED BY <1>2, <1>5, <2>3, <2>4, <2>5
<1> QED BY <1>1, <1>4, <1>5

(* The NAL unit that starts at the tail lies there whole.                  *)
LEMMA UnitAtTail ==
    ASSUME NaluTypes, SessionInv, Lossless, tailIndex = headIndex,
           rTailIndex < rHeadIndex,
           NEW u, StartOf(packetsArray[rTailIndex]) = <<u, 0>>
    PROVE  /\ u \in 0..(headIndex - 1) /\ naluArray[u] \in Nalu
           /\ \E j \in 0..(rHeadIndex - 1) : UnitAt(u, rTailIndex, j)
<1> DEFINE t == rTailIndex
<1>1. t \in 0..(rHeadIndex - 1) /\ t \in Nat /\ rHeadIndex \in Nat /\ headIndex \in Nat
    BY TailFacts
<1>2. /\ packetsArray[t].nalu \in Nat /\ packetsArray[t].nalu < headIndex
      /\ packetsArray[t].from \in Nat /\ naluArray[packetsArray[t].nalu] \in Nalu
    BY <1>1, SlotFacts DEF SessionInv
<1>3. packetsArray[t].nalu = u /\ packetsArray[t].from <= NALU_HEADER_SIZE
    BY <1>2 DEF StartOf, NALU_HEADER_SIZE
<1>4. u \in 0..(headIndex - 1) /\ naluArray[u] \in Nalu
    BY <1>1, <1>2, <1>3
<1>5. PacketsOf(u) \subseteq Stored
    BY DEF PacketsOf, Lossless
<1>6. PICK s, j \in 0..(rHeadIndex - 1) : UnitAt(u, s, j)
    BY <1>1, <1>4, <1>5, UnitExists DEF SessionInv
<1>7. s \in Nat /\ packetsArray[s].nalu = u /\ packetsArray[s].from <= NALU_HEADER_SIZE
    BY <1>6, SlotsAt DEF UnitAt
<1>8. packetsArray[s].from \in Nat
    BY <1>6, SlotFacts DEF SessionInv
<1>9. ~(s < t) /\ ~(t < s)
    <2>1. s < t => packetsArray[t].from > NALU_HEADER_SIZE
        BY <1>1, <1>3, <1>6, <1>7, StartsOnce DEF SessionInv
    <2>2. t < s => packetsArray[s].from > NALU_HEADER_SIZE
        BY <1>1, <1>3, <1>6, <1>7, StartsOnce DEF SessionInv
    <2> QED BY <1>2, <1>3, <1>7, <1>8, <2>1, <2>2 DEF NALU_HEADER_SIZE
<1>10. s = t
    BY <1>1, <1>7, <1>9
<1> QED BY <1>4, <1>6, <1>10

(* A turn with room for the NAL unit at the tail reads it.                 *)
LEMMA TurnReadsNext ==
    ASSUME NaluTypes, SessionInv, Lossless, tailIndex = headIndex,
           rTailIndex < rHeadIndex,
           NEW c, StartOf(packetsArray[rTailIndex]) = <<c, 0>>,
           NEW size \in Int, \A n \in Nalu : n.len <= size, NEW r,
           Reader!DepacketizeCurrent(size, r)
    PROVE  /\ r = "OK" /\ Intact(nalu', c) /\ naluDataLength' = naluArray[c].len
           /\ c \in 0..(headIndex - 1) /\ naluArray[c] \in Nalu
           /\ IF c + 1 = headIndex THEN rTailIndex' = rHeadIndex
              ELSE /\ rTailIndex' < rHeadIndex
                   /\ StartOf(packetsArray[rTailIndex']) = <<c + 1, 0>>
<1>1. /\ c \in 0..(headIndex - 1) /\ naluArray[c] \in Nalu
      /\ \E j \in 0..(rHeadIndex - 1) : UnitAt(c, rTailIndex, j)
    BY UnitAtTail
<1>2. PICK s, j : s = rTailIndex /\ UnitAt(c, s, j)
    BY <1>1
<1>3. naluArray[c].len <= size /\ naluArray[c].len \in Nat
    BY <1>1, NaluAssumption
<1>4. /\ r = "OK"
      /\ \/ rTailIndex' = s /\ naluArray[c].len > size
         \/ /\ rTailIndex' = j + 1
            /\ naluDataLength' = naluArray[c].len
            /\ Intact(nalu', c)
    BY <1>2, <1>3, UnitRead
<1>5. /\ rTailIndex' = j + 1 /\ naluDataLength' = naluArray[c].len /\ Intact(nalu', c)
    BY <1>3, <1>4
<1>6. IF c + 1 = headIndex THEN j + 1 = rHeadIndex
      ELSE j + 1 < rHeadIndex /\ StartOf(packetsArray[j + 1]) = <<c + 1, 0>>
    BY <1>2, NextUnit
<1> QED BY <1>1, <1>4, <1>5, <1>6

(* The last of n + 1 numbers is n.                                         *)
LEMMA CountTo ==
    \A n \in Nat : \A u \in 0..(n + 1 - 1) : u = n \/ u \in 0..(n - 1)
OBVIOUS

(* The index into the frame moves with what is read into it, or does not.  *)
IndexFollows(m) ==
    stage' = "reading frame" =>
        /\ stage = "reading frame" /\ frameIndex \in Int
        /\ \A n \in Nalu : n.len <= m
        /\ frameIndex' = frameIndex + Reader!STARTCODE_SIZE + naluDataLength'

IndexKept ==
    stage' = "reading frame" =>
        frameIndex' = 0 \/ (stage = "reading frame" /\ frameIndex' = frameIndex)

(* The bound on the index into the frame grows by what one NAL unit takes  *)
(* at most.                                                                *)
LEMMA IndexGrows ==
    ASSUME NEW c \in Nat, NEW m \in Nat
    PROVE  /\ 0 <= c * (m + Reader!STARTCODE_SIZE)
           /\ \A x \in Int, l \in Nat :
                x <= c * (m + Reader!STARTCODE_SIZE) /\ l <= m =>
                    x + Reader!STARTCODE_SIZE + l <= (c + 1) * (m + Reader!STARTCODE_SIZE)
<1> DEFINE k == m + Reader!STARTCODE_SIZE
<1>1. k \in Nat /\ k = m + 4 /\ Reader!STARTCODE_SIZE = 4
    BY DEF Reader!STARTCODE_SIZE
<1> HIDE DEF k
<1>2. c * k \in Nat /\ (c + 1) * k = c * k + k
    BY <1>1, TimesGrows
<1>3. PICK y \in Nat : y = c * k /\ (c + 1) * k = y + k
    BY <1>2
<1>4. 0 <= y /\ \A x \in Int, l \in Nat : x <= y /\ l <= m => x + 4 + l <= y + k
    BY <1>1
<1>5. /\ 0 <= c * k
      /\ \A x \in Int, l \in Nat :
            x <= c * k /\ l <= m => x + Reader!STARTCODE_SIZE + l <= (c + 1) * k
    BY <1>1, <1>3, <1>4, Zenon
<1> QED BY <1>5 DEF k

(* A turn reads the next NAL unit, and the one behind it is next.          *)
LEMMA RoundTripTurn ==
    ASSUME NaluTypes, SessionInv, tailIndex = headIndex, ~IsSending, ~IsSending',
           NEW m \in Nat, RoundTripInv(m), Lossless, stage # "done", stage' # "done",
           NEW size \in Int, NEW r, Turn(size, r), \A n \in Nalu : n.len <= size,
           UNCHANGED <<naluArray, headIndex, sent, packetsArray, rHeadIndex>>,
           IndexFollows(m)
    PROVE  RoundTripInv(m)'
<1> DEFINE c == Len(ReadSoFar)
           K == m + Reader!STARTCODE_SIZE
<1>1. /\ c \in Nat /\ DOMAIN ReadSoFar = 1..c
      /\ Len(ReadSoFar') = c + 1 /\ DOMAIN ReadSoFar' = 1..(c + 1)
      /\ \A i \in 1..c : ReadSoFar'[i] = ReadSoFar[i]
      /\ ReadSoFar'[c + 1] = [pieces |-> nalu', result |-> r]
    BY Zenon DEF Turn, OneMore
<1>2. /\ c <= headIndex
      /\ IF c = headIndex THEN rTailIndex = rHeadIndex
         ELSE rTailIndex < rHeadIndex /\ StartOf(packetsArray[rTailIndex]) = <<c, 0>>
      /\ \A u \in 0..(c - 1) : \E i : i = u + 1 /\ DeliveredAs(i, u)
      /\ stage = "reading frame" => frameIndex <= c * K
    BY DEF RoundTripInv
<1> HIDE DEF c
<1>3. /\ rHeadIndex = rTailIndex + packetCount /\ packetCount # 0 /\ packetCount \in Nat
      /\ rTailIndex \in Nat /\ headIndex \in Nat
    BY TailFacts DEF Turn
<1>4. c # headIndex /\ rTailIndex < rHeadIndex
      /\ StartOf(packetsArray[rTailIndex]) = <<c, 0>>
    <2>1. rTailIndex < rHeadIndex /\ rTailIndex # rHeadIndex
        BY <1>3
    <2> QED BY <1>2, <2>1, Zenon
<1>5. /\ r = "OK" /\ Intact(nalu', c) /\ naluDataLength' = naluArray[c].len
      /\ c \in 0..(headIndex - 1) /\ naluArray[c] \in Nalu
      /\ IF c + 1 = headIndex THEN rTailIndex' = rHeadIndex
         ELSE /\ rTailIndex' < rHeadIndex
              /\ StartOf(packetsArray[rTailIndex']) = <<c + 1, 0>>
    BY <1>4, TurnReadsNext DEF Turn
<1>6. PICK d : d = c + 1
    OBVIOUS
<1>7. /\ \A i \in 1..c : i \in 1..(c + 1)
      /\ c + 1 \in 1..(c + 1)
      /\ \A u \in 0..(d - 1) : u = c \/ u \in 0..(c - 1)
    BY <1>1, <1>6, OneFurther, CountTo
<1>8. ASSUME NEW u \in 0..(d - 1)
      PROVE  \E i : i = u + 1 /\ DeliveredAs(i, u)'
    <2>1. CASE u \in 0..(c - 1)
        <3>1. PICK i : i = u + 1 /\ DeliveredAs(i, u)
            BY <1>2, <2>1
        <3>2. i \in DOMAIN ReadSoFar
            BY <3>1 DEF DeliveredAs
        <3>3. i \in DOMAIN ReadSoFar' /\ ReadSoFar'[i] = ReadSoFar[i]
            BY <1>1, <1>7, <3>2
        <3>4. DeliveredAs(i, u)'
            BY <3>1, <3>3, DeliveredKept
        <3> QED BY <3>1, <3>4
    <2>2. CASE u = c
        <3>1. PICK i : i = u + 1
            OBVIOUS
        <3>2. i \in DOMAIN ReadSoFar' /\ ReadSoFar'[i] = [pieces |-> nalu', result |-> r]
            BY <1>1, <1>7, <2>2, <3>1
        <3>3. Intact(nalu', u)
            BY <1>5, <2>2
        <3>4. DeliveredAs(i, u)'
            BY <1>5, <3>2, <3>3, DeliveredNow
        <3> QED BY <3>1, <3>4
    <2> QED BY <1>7, <2>1, <2>2
<1>9. stage' = "reading frame" => frameIndex' <= (c + 1) * K
    <2> SUFFICES ASSUME stage' = "reading frame" PROVE frameIndex' <= (c + 1) * K
        OBVIOUS
    <2>0. naluArray[c].len <= m /\ naluArray[c].len \in Nat
        BY <1>5, NaluAssumption DEF IndexFollows
    <2>1. /\ frameIndex <= c * K /\ frameIndex \in Int
          /\ frameIndex' = frameIndex + Reader!STARTCODE_SIZE + naluArray[c].len
        BY <1>2, <1>5, Zenon DEF IndexFollows
    <2> QED BY <1>1, <2>0, <2>1, IndexGrows
<1>10. c + 1 <= headIndex
    BY <1>1, <1>3, <1>5
<1>11. StartOf(packetsArray[rTailIndex])' = StartOf(packetsArray[rTailIndex'])
    BY DEF StartOf
<1>12. headIndex' = headIndex /\ rHeadIndex' = rHeadIndex
    OBVIOUS
<1>13. IF c + 1 = headIndex' THEN rTailIndex' = rHeadIndex'
       ELSE /\ rTailIndex' < rHeadIndex'
            /\ StartOf(packetsArray[rTailIndex])' = <<c + 1, 0>>
    BY <1>5, <1>11, <1>12, Zenon
<1>14. c + 1 <= headIndex' /\ Len(ReadSoFar') = c + 1
    BY <1>1, <1>10, <1>12
<1> HIDE DEF K
<1>15. /\ stage' = "done" => c + 1 = headIndex'
       /\ stage' = "reading frame" => frameIndex' <= (c + 1) * K
    BY <1>9
<1>16. /\ Len(ReadSoFar)' = d /\ d <= headIndex'
       /\ stage' = "done" => d = headIndex'
       /\ IF d = headIndex' THEN rTailIndex' = rHeadIndex'
          ELSE /\ rTailIndex' < rHeadIndex'
               /\ StartOf(packetsArray[rTailIndex])' = <<d, 0>>
       /\ \A u \in 0..(d - 1) : \E i : i = u + 1 /\ DeliveredAs(i, u)'
       /\ stage' = "reading frame" => frameIndex' <= d * K
    <2>1. Len(ReadSoFar)' = d /\ d <= headIndex'
        BY <1>14, <1>6, Zenon
    <2>2. stage' = "done" => d = headIndex'
        OBVIOUS
    <2>3. IF d = headIndex' THEN rTailIndex' = rHeadIndex'
          ELSE /\ rTailIndex' < rHeadIndex'
               /\ StartOf(packetsArray[rTailIndex])' = <<d, 0>>
        BY <1>13, <1>6, Zenon
    <2>4. \A u \in 0..(d - 1) : \E i : i = u + 1 /\ DeliveredAs(i, u)'
        BY <1>8
    <2>5. stage' = "reading frame" => frameIndex' <= d * K
        BY <1>15, <1>6, Zenon
    <2> QED BY <2>1, <2>2, <2>3, <2>4, <2>5, Zenon
<1> QED BY <1>16, Zenon DEF RoundTripInv, K

(* A call that reads nothing changes nothing.                              *)
LEMMA RoundTripPause ==
    ASSUME SessionInv, ListsInv, NEW m \in Nat, RoundTripInv(m), Lossless, Pauses, ~IsSending,
           UNCHANGED <<naluArray, headIndex, sent, packetsArray, rHeadIndex>>,
           stage' = "done" => packetCount = 0 \/ stage = "done",
           IndexKept
    PROVE  RoundTripInv(m)'
<1> DEFINE c == Len(ReadSoFar)
           K == m + Reader!STARTCODE_SIZE
<1>1. /\ c <= headIndex
      /\ stage = "done" => c = headIndex
      /\ IF c = headIndex THEN rTailIndex = rHeadIndex
         ELSE rTailIndex < rHeadIndex /\ StartOf(packetsArray[rTailIndex]) = <<c, 0>>
      /\ \A u \in 0..(c - 1) : \E i : i = u + 1 /\ DeliveredAs(i, u)
      /\ stage = "reading frame" => frameIndex <= c * K
    BY DEF RoundTripInv
<1>2. c \in Nat
    BY CountRead
<1>3. Len(ReadSoFar') = c /\ ReadSoFar' = ReadSoFar /\ rTailIndex' = rTailIndex
    BY DEF Pauses
<1> HIDE DEF c
<1>4. rHeadIndex = rTailIndex + packetCount /\ rTailIndex \in Nat
    BY TailFacts
<1>5. stage' = "done" => c = headIndex
    <2>1. packetCount = 0 => ~(rTailIndex < rHeadIndex)
        BY <1>4
    <2> QED BY <1>1, <2>1, Zenon
<1>6. ASSUME NEW u \in 0..(c - 1) PROVE \E i : i = u + 1 /\ DeliveredAs(i, u)'
    <2>1. PICK i : i = u + 1 /\ DeliveredAs(i, u)
        BY <1>1
    <2>2. i \in DOMAIN ReadSoFar' /\ ReadSoFar'[i] = ReadSoFar[i]
        BY <1>3, <2>1 DEF DeliveredAs
    <2> QED BY <2>1, <2>2, DeliveredKept
<1>7. stage' = "reading frame" => frameIndex' <= c * K
    <2>1. 0 <= c * K
        BY <1>2, IndexGrows
    <2>2. CASE stage = "reading frame" /\ frameIndex' = frameIndex
        BY <1>1, <2>2
    <2>3. CASE frameIndex' = 0
        BY <2>1, <2>3
    <2> QED BY <2>2, <2>3 DEF IndexKept
<1>8. StartOf(packetsArray[rTailIndex])' = StartOf(packetsArray[rTailIndex'])
    BY DEF StartOf
<1> QED BY <1>1, <1>3, <1>5, <1>6, <1>7, <1>8, Zenon DEF RoundTripInv

(* The sender is done: the receiver starts at the first NAL unit.          *)
LEMMA RoundTripStart ==
    ASSUME SessionInv, NEW m \in Nat, StopSending
    PROVE  RoundTripInv(m)'
<1>1. /\ stage = "sending" /\ stage' = "receiving" /\ sent' = sent /\ sent # {}
      /\ UNCHANGED <<packetsArray, rHeadIndex, delivered>>
      /\ rTailIndex' = 0 /\ delivered = << >>
      /\ headIndex' = headIndex
    BY DEF StopSending, receiver, SessionInv, StageInv, GetPacket, H264Packetizer_GetPacket,
        Refuse, added
<1>2. SUFFICES ASSUME Lossless'
               PROVE  /\ 0 < rHeadIndex /\ StartOf(packetsArray[0]) = <<0, 0>>
                      /\ 0 < headIndex
    <2>1. ReadSoFar' = << >>
        BY <1>1 DEF ReadSoFar
    <2>2. Len(ReadSoFar') = 0 /\ ~(\E u \in 0..(0 - 1) : TRUE)
        BY <2>1
    <2>3. StartOf(packetsArray[rTailIndex])' = StartOf(packetsArray[0])
        BY <1>1 DEF StartOf
    <2>4. headIndex \in Nat
        BY TailFacts
    <2>5. ASSUME Lossless'
          PROVE  /\ 0 # headIndex' /\ 0 <= headIndex' /\ rTailIndex' < rHeadIndex'
                 /\ StartOf(packetsArray[rTailIndex])' = <<0, 0>>
                 /\ stage' # "done" /\ stage' # "reading frame"
        BY <1>1, <1>2, <2>3, <2>4, <2>5
    <2> QED BY <2>2, <2>5, Zenon DEF RoundTripInv
<1>3. Lossless /\ Lost = {}
    <2>1. Lossless
        BY <1>1, <1>2 DEF Lossless, Stored
    <2> QED BY <2>1 DEF Lossless, Lost
<1>4. PICK i \in 0..(rHeadIndex - 1) : TRUE
    BY <1>1, <1>3 DEF Lossless, Stored
<1>5. 0 \in 0..(rHeadIndex - 1) /\ rHeadIndex > 0
    BY <1>4, TailFacts
<1>6. Continues(StartOf(packetsArray[0]), 0)
    BY <1>5 DEF SessionInv, NetworkInv
<1>7. StartOf(packetsArray[0]) = <<0, 0>>
    BY <1>3, <1>6, Zenon DEF Continues
<1>8. headIndex > 0
    <2>1. PICK p \in sent : TRUE
        BY <1>1
    <2>2. p.nalu \in Nat /\ p.nalu < headIndex
        BY SentTypes DEF SessionInv, SenderInv
    <2> QED BY <2>2, TailFacts
<1> QED BY <1>5, <1>7, <1>8

(* The sender's array keeps a length it was given.                         *)
LEMMA ArrayStepInv ==
    ASSUME naluArrayLength \in ArrayLengths, SessionNext \/ UNCHANGED sessionVars
    PROVE  naluArrayLength' \in ArrayLengths
<1>1. CASE UNCHANGED naluArrayLength
    BY <1>1
<1>2. CASE AddUnits
    <2>1. UNCHANGED naluArrayLength
        BY <1>2, Zenon DEF AddUnits, H264Packetizer_AddNalu, H264Packetizer_AddFrame, Refuse,
            Queue
    <2> QED BY <2>1
<1>3. CASE Send
    <2>1. UNCHANGED naluArrayLength
        BY <1>3, Zenon DEF Send, SendPacket, StopSending, GetPacket,
            H264Packetizer_GetPacket, Refuse
    <2> QED BY <2>1
<1>4. CASE NextFrame
    BY <1>4, ArrayLengthsAssumption DEF NextFrame, H264Packetizer_Init, Refuse
<1>5. CASE Read
    BY <1>5, ReadingKeeps DEF vars
<1>6. CASE UNCHANGED sessionVars
    BY <1>6 DEF sessionVars, vars
<1> QED BY <1>2, <1>3, <1>4, <1>5, <1>6 DEF SessionNext

(* As long as packets are left, the next NAL unit lies at the tail, and    *)
(* there is room for it.                                                   *)
LEMMA NextAtTail ==
    ASSUME SessionInv, NEW m \in Nat, RoundTripInv(m), Lossless, ~IsSending,
           packetCount # 0
    PROVE  /\ rTailIndex < rHeadIndex
           /\ StartOf(packetsArray[rTailIndex]) = <<Len(ReadSoFar), 0>>
           /\ Len(ReadSoFar) # headIndex
<1>1. rTailIndex # rHeadIndex
    BY TailFacts
<1> QED BY <1>1, Zenon DEF RoundTripInv

(* The length of a start code.                                             *)
LEMMA StartCode ==
    ASSUME NEW m \in Nat
    PROVE  /\ m + Reader!STARTCODE_SIZE \in Nat /\ Reader!STARTCODE_SIZE = 4
           /\ m + Reader!STARTCODE_SIZE = m + 4
BY DEF Reader!STARTCODE_SIZE

(* The NAL units added fit in the sender's array.                          *)
LEMMA ArrayFacts ==
    ASSUME SessionInv
    PROVE  /\ naluArrayLength \in Nat /\ 0 < naluArrayLength
           /\ headIndex \in Nat /\ headIndex <= naluArrayLength
BY DEF SessionInv, SenderInv, IInv, QueueConsistent, TypeOK

(* A buffer that takes a frame takes each NAL unit of it.                  *)
LEMMA RoomTakesNalus ==
    ASSUME SessionInv, NEW m \in Nat, RoomForFrame(m), naluArrayLength \in ArrayLengths
    PROVE  (\A n \in Nalu : n.len <= BufferSize) /\ BufferSize # 0
<1> DEFINE K == m + Reader!STARTCODE_SIZE
<1>1. BufferSize > naluArrayLength * K + Reader!STARTCODE_SIZE /\ BufferSize \in Nat
      /\ \A n \in Nalu : n.len <= m
    BY ReceiverAssumption DEF RoomForFrame
<1>2. K \in Nat /\ Reader!STARTCODE_SIZE = 4 /\ K = m + 4
    BY StartCode
<1> HIDE DEF K
<1>3. /\ 0 * K \in Nat /\ naluArrayLength * K \in Nat
      /\ 0 * K + K <= naluArrayLength * K
    BY <1>2, ArrayFacts, TimesGrows
<1>4. PICK x \in Nat, y \in Nat : x = 0 * K /\ y = naluArrayLength * K
    BY <1>3
<1>5. x + m + 4 <= y /\ BufferSize > y + 4
    BY <1>1, <1>2, <1>3, <1>4
<1>6. m <= BufferSize /\ BufferSize # 0
    BY <1>1, <1>5
<1>7. \A n \in Nalu : n.len \in Nat
    BY NaluAssumption
<1> QED BY <1>1, <1>6, <1>7

IndexBounded(m) == frameIndex <= Len(ReadSoFar) * (m + Reader!STARTCODE_SIZE)

(* The room a turn of GetFrame finds is never used up.                     *)
LEMMA RoomStays ==
    ASSUME SessionInv, ListsInv, NEW m \in Nat, RoomForFrame(m), frameIndex \in Int,
           naluArrayLength \in ArrayLengths, RoundTripInv(m), Lossless, ~IsSending,
           IndexBounded(m)
    PROVE  Room > 0 /\ Room \in Int
<1> DEFINE c == Len(ReadSoFar)
           K == m + Reader!STARTCODE_SIZE
<1>1. c \in Nat /\ c <= headIndex
    BY CountRead DEF RoundTripInv
<1>0. frameIndex <= c * K
    BY DEF IndexBounded
<1>2. headIndex \in Nat /\ naluArrayLength \in Nat /\ headIndex <= naluArrayLength
    BY ArrayFacts
<1>3. BufferSize > naluArrayLength * K + Reader!STARTCODE_SIZE /\ BufferSize \in Nat
    BY ReceiverAssumption DEF RoomForFrame
<1> HIDE DEF c
<1>4. K \in Nat /\ Reader!STARTCODE_SIZE = 4
    BY StartCode
<1> HIDE DEF K
<1>5. c * K \in Nat /\ naluArrayLength * K \in Nat /\ c * K <= naluArrayLength * K
    <2>1. c <= naluArrayLength
        BY <1>1, <1>2
    <2> QED BY <1>1, <1>2, <1>4, <2>1, TimesGrows, Zenon
<1>6. PICK x \in Nat, y \in Nat : x = c * K /\ y = naluArrayLength * K
    BY <1>5
<1>7. frameIndex <= x /\ x <= y /\ BufferSize > y + Reader!STARTCODE_SIZE
    BY <1>0, <1>3, <1>5, <1>6, Zenon
<1> QED
    <2>1. BufferSize \in Nat /\ BufferSize > y + 4 /\ Room = BufferSize - frameIndex - 4
        BY <1>3, <1>4, <1>7 DEF Room
    <2> HIDE <1>3
    <2> QED BY <1>7, <2>1

(* While a NAL unit is left to read, there is room for it.                 *)
LEMMA RoomLeft ==
    ASSUME SessionInv, ListsInv, NEW m \in Nat, RoomForFrame(m), frameIndex \in Int,
           naluArrayLength \in ArrayLengths, RoundTripInv(m), Lossless, ~IsSending,
           IndexBounded(m), packetCount # 0
    PROVE  Room \in Int /\ \A n \in Nalu : n.len <= Room
<1> DEFINE c == Len(ReadSoFar)
           K == m + Reader!STARTCODE_SIZE
<1>1. c \in Nat /\ c <= headIndex /\ c # headIndex
    BY CountRead, NextAtTail DEF RoundTripInv
<1>0. frameIndex <= c * K
    BY DEF IndexBounded
<1>2. headIndex \in Nat /\ naluArrayLength \in Nat /\ headIndex <= naluArrayLength
    BY ArrayFacts
<1>3. BufferSize > naluArrayLength * K + Reader!STARTCODE_SIZE /\ BufferSize \in Nat
      /\ \A n \in Nalu : n.len <= m
    BY ReceiverAssumption DEF RoomForFrame
<1> HIDE DEF c
<1>4. K \in Nat /\ Reader!STARTCODE_SIZE = 4 /\ K = m + 4
    BY StartCode
<1> HIDE DEF K
<1>5. c * K \in Nat /\ naluArrayLength * K \in Nat /\ c * K + K <= naluArrayLength * K
    <2>1. c < naluArrayLength /\ c <= naluArrayLength
        BY <1>1, <1>2
    <2> QED BY <1>1, <1>2, <1>4, <2>1, TimesGrows, Zenon
<1>6. PICK x \in Nat, y \in Nat : x = c * K /\ y = naluArrayLength * K
    BY <1>5
<1>7. frameIndex <= x /\ x + K <= y /\ BufferSize > y + Reader!STARTCODE_SIZE
    BY <1>0, <1>3, <1>5, <1>6, Zenon
<1>8. Room \in Int /\ m <= Room
    <2>1. BufferSize > y + 4 /\ Room = BufferSize - frameIndex - 4 /\ x + m + 4 <= y
        BY <1>4, <1>7 DEF Room
    <2>2. BufferSize \in Nat /\ frameIndex <= x
        BY <1>3, <1>7
    <2> QED BY <2>1, <2>2
<1>9. \A n \in Nalu : n.len \in Nat
    BY NaluAssumption
<1> QED BY <1>3, <1>8, <1>9

(* A step of the session keeps as many NAL units read as lie below the     *)
(* tail.                                                                   *)
LEMMA RoundTripStepInv ==
    ASSUME NaluTypes, RoomForPayload, ReadingInv, NEW m \in Nat, RoomForFrame(m),
           naluArrayLength \in ArrayLengths, RoundTripInv(m),
           SessionNext \/ UNCHANGED sessionVars
    PROVE  RoundTripInv(m)'
<1>1. SessionInv /\ ListsInv /\ frameIndex \in Int
    BY DEF ReadingInv, Reader!FrameInv
<1>2. CASE AddUnits \/ SendPacket \/ NextFrame
    <2>1. stage' \in {"adding", "sending"}
        BY <1>2 DEF AddUnits, SendPacket, NextFrame, session
    <2> QED BY <2>1 DEF RoundTripInv, IsSending
<1>3. CASE StopSending
    BY <1>1, <1>3, RoundTripStart
<1>4. CASE Read
    <2>1. UNCHANGED <<naluArray, headIndex, sent, packetsArray, rHeadIndex>>
        BY <1>4, ReadingKeeps DEF vars
    <2>2. CASE ~Lossless
        <3>1. ~Lossless'
            BY <2>1, <2>2 DEF Lossless, Stored
        <3> QED BY <3>1 DEF RoundTripInv
    <2>3. SUFFICES ASSUME Lossless PROVE RoundTripInv(m)'
        BY <2>2
    <2>4. ~IsSending /\ ~IsSending' /\ stage # "done" /\ tailIndex = headIndex
        <3>1. stage \in {"receiving", "reading", "reading frame"}
            BY <1>4 DEF Read, ReadNalu, ReadFrame, ReadFrameTurn
        <3>2. stage' \in {"done", "reading", "reading frame"}
            BY <1>4, <3>1 DEF Read, ReadNalu, ReadFrame, ReadFrameTurn
        <3> QED BY <1>1, <3>1, <3>2 DEF IsSending, SessionInv, StageInv
    <2>5. CASE ReadNalu
        <3>1. CASE stage' = "done" /\ packetCount = 0 /\ Pauses
            <4>1. IndexKept
                BY <3>1 DEF IndexKept
            <4> QED BY <1>1, <2>1, <2>3, <2>4, <3>1, <4>1, RoundTripPause
        <3>2. CASE stage' = "reading" /\ \E r : Turn(BufferSize, r)
            <4>1. PICK r : Turn(BufferSize, r)
                BY <3>2
            <4>2. \A n \in Nalu : n.len <= BufferSize
                BY <1>1, RoomTakesNalus
            <4>3. BufferSize \in Int /\ stage' # "done"
                BY <3>2, ReceiverAssumption
            <4>4. IndexFollows(m)
                BY <3>2 DEF IndexFollows
            <4> QED BY <1>1, <2>1, <2>3, <2>4, <4>1, <4>2, <4>3, <4>4, RoundTripTurn
        <3> QED BY <1>1, <2>5, <3>1, <3>2, ReadNaluSteps
    <2>6. CASE ReadFrame
        <3>1. Pauses
            BY <1>1, <2>6, ReadFrameSteps
        <3>2. \/ stage' = "reading frame" /\ frameIndex' = 0
              \/ stage' = "done" /\ packetCount = 0
            <4>1. BufferSize # 0
                BY <1>1, RoomTakesNalus
            <4> QED BY <1>1, <2>6, <4>1, ReadFrameSteps
        <3>3. IndexKept
            BY <3>2 DEF IndexKept
        <3> QED BY <1>1, <2>1, <2>3, <2>4, <3>1, <3>2, <3>3, RoundTripPause
    <2>7. CASE ReadFrameTurn
        <3>0. stage = "reading frame"
            BY <2>7 DEF ReadFrameTurn
        <3>6. IndexBounded(m)
            BY <2>3, <2>4, <3>0 DEF RoundTripInv, IndexBounded
        <3>1. packetCount # 0 => Room \in Int /\ \A n \in Nalu : n.len <= Room
            BY <1>1, <2>3, <2>4, <3>6, RoomLeft
        <3>2. CASE stage' = "done" /\ packetCount = 0 /\ Pauses
            <4>1. IndexKept
                BY <3>2 DEF IndexKept
            <4> QED BY <1>1, <2>1, <2>3, <2>4, <3>2, <4>1, RoundTripPause
        <3>3. CASE /\ stage' = "reading frame" /\ Turn(Room, "OK")
                   /\ frameIndex' = frameIndex + Reader!STARTCODE_SIZE + naluDataLength'
            <4>1. Room \in Int /\ \A n \in Nalu : n.len <= Room
                BY <3>1, <3>3 DEF Turn
            <4>2. IndexFollows(m)
                BY <1>1, <3>0, <3>3 DEF IndexFollows, RoomForFrame
            <4>3. stage' # "done" /\ Turn(Room, "OK")
                BY <3>3
            <4> HIDE <3>3
            <4> QED BY <1>1, <2>1, <2>3, <2>4, <4>1, <4>2, <4>3, RoundTripTurn
        <3>4. CASE /\ Room > 0 /\ packetCount # 0
                   /\ \E r : r # "OK" /\ Reader!DepacketizeCurrent(Room, r)
            <4>1. PICK r : r # "OK" /\ Reader!DepacketizeCurrent(Room, r)
                BY <3>4
            <4>2. packetCount # 0
                BY <3>4
            <4>3. rTailIndex < rHeadIndex
                  /\ StartOf(packetsArray[rTailIndex]) = <<Len(ReadSoFar), 0>>
                BY <1>1, <2>3, <2>4, <4>2, NextAtTail
            <4>4. PICK c : c = Len(ReadSoFar)
                OBVIOUS
            <4> QED BY <1>1, <2>3, <2>4, <3>1, <4>1, <4>2, <4>3, <4>4, TurnReadsNext
        <3>5. ~(Room <= 0)
            BY <1>1, <2>3, <2>4, <3>6, RoomStays
        <3> QED BY <1>1, <2>7, <3>2, <3>3, <3>4, <3>5, ReadFrameTurnSteps
    <2> QED BY <1>4, <2>5, <2>6, <2>7 DEF Read
<1>5. CASE UNCHANGED sessionVars
    <2>1. /\ UNCHANGED <<naluArray, headIndex, sent, packetsArray, rHeadIndex>>
          /\ UNCHANGED <<rTailIndex, stage, frame, delivered, frameIndex>>
        BY <1>5 DEF sessionVars, vars, receiver, session
    <2>2. CASE ~IsSending /\ Lossless
        <3>1. Pauses
            BY <2>1 DEF Pauses, ReadSoFar
        <3>2. IndexKept
            BY <2>1 DEF IndexKept
        <3>3. stage' = stage
            BY <2>1
        <3> QED BY <1>1, <2>1, <2>2, <3>1, <3>2, <3>3, RoundTripPause
    <2>3. CASE IsSending \/ ~Lossless
        <3>1. IsSending' \/ ~Lossless'
            BY <2>1, <2>3 DEF IsSending, Lossless, Stored
        <3> QED BY <3>1 DEF RoundTripInv
    <2> QED BY <2>2, <2>3
<1> QED BY <1>2, <1>3, <1>4, <1>5 DEF SessionNext, Send

(* A frame comes back as it was added: see RoundTrip.                      *)
THEOREM FramesComeBack ==
    ASSUME NaluTypes, RoomForPayload, NEW m \in Nat, RoomForFrame(m)
    PROVE  SessionSpec => []RoundTrip
<1> DEFINE Inv == ReadingInv /\ naluArrayLength \in ArrayLengths /\ RoundTripInv(m)
<1>1. SessionInit => Inv
    <2> SUFFICES ASSUME SessionInit PROVE Inv
        OBVIOUS
    <2>1. IsSending
        BY DEF SessionInit, IsSending
    <2>2. naluArrayLength \in ArrayLengths
        BY DEF SessionInit, Init
    <2> QED BY <2>1, <2>2, ReadingInitInv DEF RoundTripInv
<1>2. Inv /\ [SessionNext]_sessionVars => Inv'
    BY ReadingStepInv, ArrayStepInv, RoundTripStepInv
<1>3. Inv => RoundTrip
    <2> SUFFICES ASSUME Inv, stage = "done", Lossless PROVE RoundTrip
        BY DEF RoundTrip
    <2>1. ~IsSending /\ ReadSoFar = delivered
        BY DEF IsSending, ReadSoFar
    <2>2. /\ Len(delivered) = headIndex
          /\ \A u \in 0..(Len(delivered) - 1) : \E i : i = u + 1 /\ DeliveredAs(i, u)
        BY <2>1 DEF RoundTripInv
    <2>3. ASSUME NEW u \in 0..(headIndex - 1)
          PROVE  delivered[u + 1].result = "OK" /\ Intact(delivered[u + 1].pieces, u)
        <3>1. PICK i : i = u + 1 /\ DeliveredAs(i, u)
            BY <2>2
        <3>2. delivered[i].result = "OK" /\ Intact(delivered[i].pieces, u)
            BY <2>1, <3>1, Zenon DEF DeliveredAs
        <3> QED BY <3>1, <3>2, Zenon
    <2> QED BY <2>2, <2>3, Zenon DEF RoundTrip
<1> HIDE DEF Inv
<1> QED BY <1>1, <1>2, <1>3, PTL DEF SessionSpec
=============================================================================
