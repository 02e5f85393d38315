-------------------------- MODULE H265SessionProofs -------------------------
(***************************************************************************)
(* Proofs about H265Packetizer, and about H265Session, which joins it to a *)
(* network and to H265Depacketizer, for every set of NAL units, frames,    *)
(* array lengths and buffer lengths.  The length of an aggregation packet  *)
(* is a recursive function of the NAL units in it; the packetizer's own    *)
(* proofs need only that the scan compared it with the buffer's.           *)
(***************************************************************************)
EXTENDS H265Session, SequenceTheorems, FiniteSetTheorems, TLAPS

(* The inductive invariant.  A fragment is right only because the saved    *)
(* state describes the NAL unit at the tail, and there is one only because *)
(* the indices agree and the slots between them are filled.                *)
IInv == TypeOK /\ FuStateConsistent

(* A packet is known for a fragment by its type, so that no NAL unit may   *)
(* have this type (RFC 7798, 4.4: 48 to 50 are those of packets).          *)
NaluTypes == \A n \in Nalu : n.header.type # FU_PACKET_TYPE

-----------------------------------------------------------------------------

(* The header of a packet that was never filled is a header.               *)
LEMMA NoHeaderType == NoHeader \in Header
BY DEF NoHeader, Header

(* A packet that was never filled holds nothing of a NAL unit.             *)
LEMMA NoSlices == SlicesOf(NoPacket) = << >>
<1>1. DOMAIN NoPacket.runs = {}
    BY DEF NoPacket
<1> QED BY <1>1 DEF SlicesOf

(* The invariant holds, and nothing is sent, in the first states.          *)
LEMMA InitInv == Init => IInv /\ Stream!Init
<1> SUFFICES ASSUME Init PROVE IInv /\ Stream!Init
    OBVIOUS
<1>1. naluArrayLength \in Nat /\ naluArrayLength > 0
    BY LengthsAssumption DEF Init
<1>2. ZeroFuState \in FuStates
    BY NoHeaderType DEF ZeroFuState, FuStates
<1>3. TypeOK
    BY <1>1, <1>2 DEF Init, TypeOK, Results
<1>4. FuStateConsistent
    BY DEF Init, FuStateConsistent
<1>5. Stream!Init
    BY NoSlices DEF Init, Stream!Init, Accepted, ZeroFuState
<1> QED BY <1>3, <1>4, <1>5 DEF IInv

(* A step that leaves array and indices alone keeps the invariant and      *)
(* sends nothing.                                                          *)
LEMMA UnchangedInv ==
    ASSUME IInv, result' \in Results, UNCHANGED <<added, naluArrayLength, sending>>
    PROVE  IInv' /\ UNCHANGED Stream!streamVars
<1>1. TypeOK'
    BY DEF IInv, TypeOK, added, sending
<1>2. FuStateConsistent'
    BY DEF IInv, FuStateConsistent, Waiting, added, sending
<1> QED BY <1>1, <1>2
        DEF IInv, Stream!streamVars, Accepted, SlicesOf, IsFragment, added, sending

(* A refused call changes nothing a NAL unit or packet can be seen by.     *)
LEMMA RefuseInv ==
    ASSUME IInv, NEW r \in Results, Refuse(r)
    PROVE  IInv' /\ UNCHANGED Stream!streamVars
BY UnchangedInv DEF Refuse

(* H265Packetizer_Init keeps the invariant and starts the stream afresh.   *)
LEMMA InitCallInv ==
    ASSUME IInv, NEW n \in ArrayLengths, H265Packetizer_Init(n)
    PROVE  IInv' /\ [Stream!Next]_(Stream!streamVars)
<1>1. CASE n = 0 /\ Refuse("BAD_PARAM")
    BY <1>1, RefuseInv DEF Results
<1>2. CASE n > 0
    <2>1. n \in Nat
        BY LengthsAssumption
    <2>2. /\ naluArray' = [i \in 0..(n - 1) |-> NoNalu] /\ naluArrayLength' = n
          /\ headIndex' = 0 /\ tailIndex' = 0 /\ naluCount' = 0
          /\ currentlyProcessingPacket' = "NONE"
          /\ fuPacketizationState' = ZeroFuState
          /\ packet' = NoPacket /\ result' = "OK"
        BY <1>2, <2>1 DEF H265Packetizer_Init
    <2>3. ZeroFuState \in FuStates
        BY NoHeaderType DEF ZeroFuState, FuStates
    <2>4. TypeOK'
        BY <1>2, <2>1, <2>2, <2>3 DEF TypeOK, Results
    <2>5. FuStateConsistent'
        BY <2>2 DEF FuStateConsistent
    <2>6. SlicesOf(packet)' = << >>
        <3>1. SlicesOf(packet)' = SlicesOf(NoPacket)
            BY <2>2 DEF SlicesOf, IsFragment
        <3> QED BY <3>1, NoSlices
    <2>7. Stream!Restart
        BY <2>2, <2>6 DEF Stream!Restart, Accepted, ZeroFuState
    <2> QED BY <2>4, <2>5, <2>7 DEF IInv, Stream!Next
<1> QED BY <1>1, <1>2 DEF H265Packetizer_Init

(* Storing NAL units that have a header, in slots the array has.           *)
LEMMA QueueInv ==
    ASSUME IInv, NEW nalus \in Seq(Nalu), Queue(nalus), result' \in Results,
           \A i \in 1..Len(nalus) : nalus[i].len >= NALU_HEADER_SIZE,
           headIndex + Len(nalus) <= naluArrayLength
    PROVE  IInv' /\ [Stream!Next]_(Stream!streamVars)
<1>1. Len(nalus) \in Nat /\ \A i \in 1..Len(nalus) : nalus[i] \in Nalu
    OBVIOUS
<1>2. /\ headIndex' = headIndex + Len(nalus)
      /\ naluCount' = naluCount + Len(nalus)
      /\ naluArrayLength' = naluArrayLength /\ tailIndex' = tailIndex
      /\ currentlyProcessingPacket' = currentlyProcessingPacket
      /\ fuPacketizationState' = fuPacketizationState
      /\ packet' = packet
    BY DEF Queue
<1>3. /\ headIndex \in Nat /\ tailIndex \in Nat /\ naluCount \in Nat
      /\ naluArrayLength \in Nat /\ naluArrayLength > 0
      /\ headIndex = tailIndex + naluCount
      /\ DOMAIN naluArray = 0..(naluArrayLength - 1)
    BY DEF IInv, TypeOK
<1>4. \A i \in 0..(headIndex - 1) : naluArray'[i] = naluArray[i]
    BY <1>1, <1>3 DEF Queue
<1>5. \A i \in headIndex..(headIndex + Len(nalus) - 1) :
        naluArray'[i] = nalus[i - headIndex + 1] /\ i - headIndex + 1 \in 1..Len(nalus)
    BY <1>1, <1>3 DEF Queue
<1>6. naluArray' \in [0..(naluArrayLength - 1) -> Nalu \cup {NoNalu}]
    <2>1. \A i \in 0..(naluArrayLength - 1) : naluArray[i] \in Nalu \cup {NoNalu}
        BY DEF IInv, TypeOK
    <2> QED BY <1>1, <1>3, <2>1 DEF Queue
<1>7. \A i \in 0..(headIndex' - 1) :
        naluArray'[i] \in Nalu /\ naluArray'[i].len >= NALU_HEADER_SIZE
    <2> TAKE i \in 0..(headIndex' - 1)
    <2>1. CASE i < headIndex
        <3>1. i \in 0..(headIndex - 1)
            BY <1>3, <2>1
        <3> QED BY <1>4, <3>1 DEF IInv, TypeOK
    <2>2. CASE i >= headIndex
        <3>1. i \in headIndex..(headIndex + Len(nalus) - 1)
            BY <1>1, <1>2, <1>3, <2>2
        <3> QED BY <1>1, <1>5, <3>1
    <2> QED BY <1>1, <1>2, <1>3, <2>1, <2>2
<1>8. TypeOK'
    BY <1>1, <1>2, <1>3, <1>6, <1>7 DEF IInv, TypeOK
<1>9. FuStateConsistent'
    <2>1. naluCount > 0 => naluArray'[tailIndex] = naluArray[tailIndex]
        BY <1>3, <1>4
    <2>2. tailIndex + 1 - 1 = tailIndex
        BY <1>3
    <2> QED BY <1>1, <1>2, <1>3, <2>1, <2>2 DEF IInv, FuStateConsistent, Waiting
<1>10. Stream!Accept
    <2>1. /\ Accepted' \in Seq(Nalu) /\ Len(Accepted') = headIndex + Len(nalus)
          /\ \A i \in 1..Len(Accepted') : Accepted'[i] = naluArray'[i - 1]
        BY <1>1, <1>2, <1>3, <1>7 DEF Accepted
    <2>2. /\ Len(Accepted) = headIndex
          /\ \A i \in 1..headIndex : Accepted[i] = naluArray[i - 1]
        BY <1>3 DEF Accepted
    <2>3. \A i \in 1..Len(Accepted) : Accepted'[i] = Accepted[i]
        <3> SUFFICES ASSUME NEW i \in 1..headIndex
                     PROVE  Accepted'[i] = Accepted[i]
            BY <2>2
        <3>1. i - 1 \in 0..(headIndex - 1) /\ i \in 1..(headIndex + Len(nalus))
            BY <1>1, <1>3
        <3> QED BY <1>4, <2>1, <2>2, <3>1
    <2>4. SlicesOf(packet)' = SlicesOf(packet)
        BY <1>2 DEF SlicesOf, IsFragment
    <2> QED BY <1>1, <1>2, <1>3, <2>1, <2>2, <2>3, <2>4 DEF Stream!Accept
<1> QED BY <1>8, <1>9, <1>10 DEF IInv, Stream!Next

(* H265Packetizer_AddNalu keeps the invariant and accepts what it stores.  *)
LEMMA AddNaluInv ==
    ASSUME IInv, NEW n \in Nalu, H265Packetizer_AddNalu(n)
    PROVE  IInv' /\ [Stream!Next]_(Stream!streamVars)
<1>1. CASE Refuse("MALFORMED_PACKET") \/ Refuse("OUT_OF_MEMORY")
    BY <1>1, RefuseInv DEF Results
<1>2. CASE /\ n.len >= NALU_HEADER_SIZE /\ naluCount < naluArrayLength
           /\ Queue(<<n>>) /\ result' = "OK"
    <2>1. /\ <<n>> \in Seq(Nalu) /\ Len(<<n>>) = 1
          /\ \A i \in 1..Len(<<n>>) : <<n>>[i].len >= NALU_HEADER_SIZE
        BY <1>2
    <2>2. headIndex + 1 <= naluArrayLength
        BY <1>2 DEF H265Packetizer_AddNalu, SlotsFor, IInv, TypeOK
    <2> QED BY <1>2, <2>1, <2>2, QueueInv DEF Results
<1> QED BY <1>1, <1>2 DEF H265Packetizer_AddNalu

(* H265Packetizer_AddFrame does, also when it stops at a NAL unit it       *)
(* refuses.                                                                *)
LEMMA AddFrameInv ==
    ASSUME IInv, NEW f \in Frames, H265Packetizer_AddFrame(f)
    PROVE  IInv' /\ [Stream!Next]_(Stream!streamVars)
<1>1. f \in Seq(Nalu) /\ Len(f) \in Nat
    BY FramesAssumption
<1>2. PICK k \in 0..Len(f) :
        /\ \A i \in 1..k : f[i].len >= NALU_HEADER_SIZE
        /\ k > 0 => naluCount + k <= naluArrayLength
        /\ Queue(SubSeq(f, 1, k))
        /\ result' \in Results
    BY DEF H265Packetizer_AddFrame, Results
<1>3. /\ SubSeq(f, 1, k) \in Seq(Nalu) /\ Len(SubSeq(f, 1, k)) = k
      /\ \A i \in 1..k : SubSeq(f, 1, k)[i] = f[i]
    <2>1. \A i \in 1..k : f[i] \in Nalu
        BY <1>1
    <2> QED BY <1>1, <2>1
<1>4. headIndex + k <= naluArrayLength
    BY <1>1, <1>2 DEF H265Packetizer_AddFrame, SlotsFor, IInv, TypeOK
<1> QED BY <1>2, <1>3, <1>4, QueueInv

-----------------------------------------------------------------------------
(* What a call of GetPacket finds when there is a packet to make.          *)

(* The NAL units that wait are those of the array from the tail on.        *)
LEMMA WaitingNalus ==
    ASSUME IInv, NEW i \in 1..naluCount
    PROVE  /\ Waiting(i) \in Nalu
           /\ Waiting(i).header \in Header
           /\ Waiting(i).len \in Nat /\ Waiting(i).len >= NALU_HEADER_SIZE
           /\ tailIndex + i <= Len(Accepted)
           /\ Accepted[tailIndex + i] = Waiting(i)
<1>1. /\ headIndex \in Nat /\ tailIndex \in Nat /\ naluCount \in Nat
      /\ headIndex = tailIndex + naluCount
    BY DEF IInv, TypeOK
<1>2. tailIndex + i - 1 \in 0..(headIndex - 1) /\ tailIndex + i \in 1..headIndex
    BY <1>1
<1>3. Waiting(i) \in Nalu /\ Waiting(i).len >= NALU_HEADER_SIZE
    BY <1>2 DEF IInv, TypeOK, Waiting
<1>4. Len(Accepted) = headIndex /\ Accepted[tailIndex + i] = Waiting(i)
    BY <1>1, <1>2 DEF Accepted, Waiting
<1> QED BY <1>1, <1>2, <1>3, <1>4, NaluAssumption

(* Whole NAL units leave: the indices agree, the array stays.              *)
LEMMA WholeInv ==
    ASSUME IInv, NEW n \in 1..naluCount, NextNalus(n), result' = "OK",
           currentlyProcessingPacket = "NONE",
           UNCHANGED <<added, naluArrayLength, currentlyProcessingPacket,
                       fuPacketizationState>>
    PROVE  IInv'
<1>1. /\ tailIndex' \in Nat /\ naluCount' \in Nat
      /\ headIndex' = tailIndex' + naluCount'
    BY DEF NextNalus, IInv, TypeOK, added
<1>2. TypeOK'
    BY <1>1 DEF IInv, TypeOK, Results, added
<1>3. FuStateConsistent'
    BY DEF IInv, FuStateConsistent
<1> QED BY <1>2, <1>3 DEF IInv

(* The next n NAL units leave in the packet, each as one run.              *)
LEMMA WholeStream ==
    ASSUME IInv, NEW n \in 1..naluCount, NextNalus(n),
           currentlyProcessingPacket = "NONE",
           UNCHANGED <<added, fuPacketizationState>>,
           ~IsFragment(packet'),
           packet'.runs = [i \in 1..n |-> Run(tailIndex + i - 1, 0, Waiting(i).len)]
    PROVE  Stream!Next
<1>1. fuPacketizationState.naluDataIndex = 0 /\ Accepted' = Accepted
    BY DEF IInv, FuStateConsistent, ZeroFuState, Accepted, added
<1>2. /\ tailIndex \in Nat /\ n \in Nat /\ n >= 1
      /\ tailIndex' = tailIndex + n
    BY DEF NextNalus, IInv, TypeOK
<1>3. n \in 1..naluCount /\ tailIndex + n <= Len(Accepted)
    BY WaitingNalus
<1> DEFINE whole == [i \in 1..n |-> Stream!Slice(tailIndex + i - 1, 0,
                        Accepted[tailIndex + i].len, TRUE, TRUE)]
<1>4. SlicesOf(packet') = whole
    <2>1. \A i \in 1..n : Waiting(i).len = Accepted[tailIndex + i].len
        <3> TAKE i \in 1..n
        <3>1. i \in 1..naluCount
            BY DEF IInv, TypeOK
        <3> QED BY <3>1, WaitingNalus
    <2>2. DOMAIN packet'.runs = 1..n
        OBVIOUS
    <2>3. \A i \in 1..n :
            /\ packet'.runs[i].nalu = tailIndex + i - 1
            /\ packet'.runs[i].from = 0
            /\ packet'.runs[i].len = Accepted[tailIndex + i].len
        BY <2>1 DEF Run
    <2>4. /\ (IsFragment(packet') => packet'.fu.s) = TRUE
          /\ (IsFragment(packet') => packet'.fu.e) = TRUE
        BY Zenon
    <2> QED BY <2>2, <2>3, <2>4 DEF SlicesOf, Stream!Slice
<1>5. Len(whole) = n
    BY <1>2
<1>6. SlicesOf(packet)' = whole
    BY <1>4 DEF SlicesOf, IsFragment
<1>7. Stream!SendWhole(n)
    BY <1>1, <1>2, <1>3, <1>6 DEF Stream!SendWhole
<1> QED BY <1>5, <1>6, <1>7 DEF Stream!Next

(* A single NAL unit packet sends the whole NAL unit at the tail.          *)
LEMMA SingleInv ==
    ASSUME IInv, naluCount # 0, currentlyProcessingPacket = "NONE",
           PacketizeSingleNaluPacket, result' = "OK",
           UNCHANGED <<added, naluArrayLength>>
    PROVE  IInv' /\ (NaluTypes => Stream!Next)
<1>1. 1 \in 1..naluCount
    BY DEF IInv, TypeOK
<1>2. /\ NextNalus(1)
      /\ UNCHANGED <<currentlyProcessingPacket, fuPacketizationState>>
      /\ packet'.header = Waiting(1).header
      /\ packet'.runs = <<Run(tailIndex, 0, Waiting(1).len)>>
    BY DEF PacketizeSingleNaluPacket
<1>3. packet'.runs = [i \in 1..1 |-> Run(tailIndex + i - 1, 0, Waiting(i).len)]
    <2>1. tailIndex + 1 - 1 = tailIndex
        BY DEF IInv, TypeOK
    <2> QED BY <1>2, <2>1
<1>4. NaluTypes => ~IsFragment(packet')
    BY <1>1, <1>2, WaitingNalus DEF NaluTypes, IsFragment
<1> QED BY <1>1, <1>2, <1>3, <1>4, WholeInv, WholeStream

(* An aggregation packet sends the next NAL units whole and in order.      *)
LEMMA ApInv ==
    ASSUME IInv, currentlyProcessingPacket = "NONE", NEW n \in 1..naluCount,
           PacketizeAggregationPacket(n), result' = "OK",
           UNCHANGED <<added, naluArrayLength>>
    PROVE  IInv' /\ Stream!Next
<1>1. /\ NextNalus(n)
      /\ UNCHANGED <<currentlyProcessingPacket, fuPacketizationState>>
      /\ packet'.header = ApPayloadHeader(n)
      /\ packet'.runs = [i \in 1..n |-> Run(tailIndex + i - 1, 0, Waiting(i).len)]
    BY DEF PacketizeAggregationPacket
<1>2. ~IsFragment(packet')
    BY <1>1 DEF IsFragment, ApPayloadHeader, AP_PACKET_TYPE, FU_PACKET_TYPE
<1> QED BY <1>1, <1>2, WholeInv, WholeStream

-----------------------------------------------------------------------------

(* The state a fragment is made from accounts for the whole NAL unit.      *)
LEMMA FuStateFacts ==
    ASSUME IInv, naluCount # 0,
           currentlyProcessingPacket = "FU" \/ Waiting(1).len > NALU_HEADER_SIZE
    PROVE  /\ FuState \in FuStates
           /\ FuState.payloadHeader = FuPayloadHeader(Waiting(1).header)
           /\ FuState.fuHeader = Waiting(1).header.type
           /\ FuState.naluDataIndex >= NALU_HEADER_SIZE
           /\ FuState.remainingNaluLength >= 1
           /\ FuState.naluDataIndex + FuState.remainingNaluLength = Waiting(1).len
           /\ FuState.naluDataIndex = IF fuPacketizationState.naluDataIndex = 0
                THEN NALU_HEADER_SIZE ELSE fuPacketizationState.naluDataIndex
           /\ fuPacketizationState.naluDataIndex = 0
                <=> currentlyProcessingPacket = "NONE"
<1>1. /\ Waiting(1).header \in Header /\ Waiting(1).len \in Nat
      /\ Waiting(1).len >= NALU_HEADER_SIZE
    <2>1. 1 \in 1..naluCount
        BY DEF IInv, TypeOK
    <2> QED BY <2>1, WaitingNalus
<1>2. CASE currentlyProcessingPacket = "NONE"
    <2>1. fuPacketizationState.naluDataIndex = 0
        BY <1>2 DEF IInv, FuStateConsistent, ZeroFuState
    <2>2. FuPayloadHeader(Waiting(1).header) \in Header
        BY <1>1 DEF FuPayloadHeader, Header, FU_PACKET_TYPE
    <2>3. Waiting(1).header.type \in 0..63
        BY <1>1 DEF Header
    <2> QED BY <1>1, <1>2, <2>1, <2>2, <2>3 DEF FuState, FuStates, NALU_HEADER_SIZE
<1>3. CASE currentlyProcessingPacket = "FU"
    BY <1>3 DEF FuState, IInv, TypeOK, FuStates, FuStateConsistent, NALU_HEADER_SIZE
<1> QED BY <1>2, <1>3 DEF IInv, TypeOK

(* A fragment sends the next bytes of the NAL unit at the tail.            *)
LEMMA FragmentInv ==
    ASSUME IInv, naluCount # 0, NEW size \in PacketSizes, size > FuHeadersSize,
           currentlyProcessingPacket = "FU" \/ Waiting(1).len > size,
           PacketizeFragmentationUnitPacket(size)
    PROVE  /\ IInv' /\ Stream!Next
           /\ packet'.packetDataLength <= size
<1> DEFINE fu == FuState
           n == H265_MIN(size - FuHeadersSize, fu.remainingNaluLength)
           last == n = fu.remainingNaluLength
           next == [fu EXCEPT !.naluDataIndex = @ + n, !.remainingNaluLength = @ - n]
<1>1. /\ size \in Nat /\ size > 3 /\ FuHeadersSize = 3
      /\ Waiting(1).len \in Nat /\ tailIndex \in Nat /\ naluCount \in Nat
      /\ tailIndex < Len(Accepted) /\ Accepted[tailIndex + 1] = Waiting(1)
    <2>1. 1 \in 1..naluCount /\ tailIndex \in Nat /\ naluCount \in Nat
        BY DEF IInv, TypeOK
    <2>2. size \in Nat
        BY LengthsAssumption
    <2>3. Len(Accepted) \in Nat
        BY DEF Accepted, IInv, TypeOK
    <2> QED BY <2>1, <2>2, <2>3, WaitingNalus
            DEF FuHeadersSize, FU_PAYLOAD_HEADER_SIZE, FU_HEADER_SIZE
<1>2. /\ packet' = [header |-> fu.payloadHeader,
                    fu |-> [s |-> currentlyProcessingPacket = "NONE",
                            e |-> last, type |-> fu.fuHeader],
                    sizes |-> NoSizes,
                    runs |-> <<Run(tailIndex, fu.naluDataIndex, n)>>,
                    packetDataLength |-> n + FuHeadersSize]
      /\ \/ /\ last
            /\ fuPacketizationState' = ZeroFuState
            /\ currentlyProcessingPacket' = "NONE"
            /\ NextNalus(1)
         \/ /\ ~last
            /\ fuPacketizationState' = next
            /\ currentlyProcessingPacket' = "FU"
            /\ UNCHANGED <<tailIndex, naluCount>>
      /\ result' = "OK"
      /\ UNCHANGED <<added, naluArrayLength>>
    BY <1>1 DEF PacketizeFragmentationUnitPacket
<1>3. /\ fu \in FuStates
      /\ fu.payloadHeader = FuPayloadHeader(Waiting(1).header)
      /\ fu.fuHeader = Waiting(1).header.type
      /\ fu.naluDataIndex >= NALU_HEADER_SIZE
      /\ fu.remainingNaluLength >= 1
      /\ fu.naluDataIndex + fu.remainingNaluLength = Waiting(1).len
      /\ fu.naluDataIndex = IF fuPacketizationState.naluDataIndex = 0
            THEN NALU_HEADER_SIZE ELSE fuPacketizationState.naluDataIndex
      /\ fuPacketizationState.naluDataIndex = 0
            <=> currentlyProcessingPacket = "NONE"
    BY <1>1, FuStateFacts DEF NALU_HEADER_SIZE
<1>4. fu.naluDataIndex \in Nat /\ fu.remainingNaluLength \in Nat
    BY <1>3 DEF FuStates
<1> HIDE DEF fu
<1>5. n \in Nat /\ n <= size - 3 /\ n <= fu.remainingNaluLength /\ n >= 1
    BY <1>1, <1>3, <1>4 DEF H265_MIN
(* A first fragment was too long for the buffer, so it is not the last.    *)
<1>6. currentlyProcessingPacket = "NONE" => ~last
    BY <1>1, <1>3, <1>4, <1>5 DEF NALU_HEADER_SIZE
<1> HIDE DEF n
<1>7. ~last => n < fu.remainingNaluLength
    BY <1>4, <1>5
<1>8. ASSUME ~last
      PROVE  /\ fuPacketizationState' \in FuStates
             /\ fuPacketizationState'.payloadHeader = fu.payloadHeader
             /\ fuPacketizationState'.fuHeader = fu.fuHeader
             /\ fuPacketizationState'.naluDataIndex = fu.naluDataIndex + n
             /\ fuPacketizationState'.remainingNaluLength
                    = fu.remainingNaluLength - n
             /\ fuPacketizationState'.remainingNaluLength > 0
    <2>1. /\ fu.naluDataIndex + n \in Nat
          /\ fu.remainingNaluLength - n \in Nat /\ fu.remainingNaluLength - n > 0
        BY <1>4, <1>5, <1>7, <1>8
    <2>2. fuPacketizationState' = next
        BY <1>2, <1>8
    <2> QED BY <1>3, <2>1, <2>2 DEF FuStates
<1>9. /\ tailIndex' \in Nat /\ naluCount' \in Nat
      /\ headIndex' = tailIndex' + naluCount' /\ Accepted' = Accepted
    BY <1>1, <1>2 DEF NextNalus, IInv, TypeOK, added, Accepted
<1>10. TypeOK'
    <2>1. ZeroFuState \in FuStates
        BY NoHeaderType DEF ZeroFuState, FuStates
    <2>2. fuPacketizationState' \in FuStates /\ currentlyProcessingPacket' \in {"NONE", "FU"}
        BY <1>2, <1>8, <2>1
    <2> QED BY <1>2, <1>9, <2>2 DEF IInv, TypeOK, Results, added
<1>11. FuStateConsistent'
    <2>1. CASE last
        BY <1>2, <2>1 DEF FuStateConsistent
    <2>2. CASE ~last
        <3>1. /\ currentlyProcessingPacket' = "FU"
              /\ naluCount' > 0 /\ Waiting(1)' = Waiting(1)
            BY <1>1, <1>2, <2>2 DEF added, Waiting
        <3>2. /\ fuPacketizationState'.naluDataIndex >= NALU_HEADER_SIZE
              /\ fuPacketizationState'.naluDataIndex
                    + fuPacketizationState'.remainingNaluLength = Waiting(1).len
            <4>1. /\ fu.naluDataIndex + n >= NALU_HEADER_SIZE
                  /\ (fu.naluDataIndex + n) + (fu.remainingNaluLength - n)
                        = Waiting(1).len
                BY <1>1, <1>3, <1>4, <1>5 DEF NALU_HEADER_SIZE
            <4> QED BY <1>8, <2>2, <4>1
        <3> QED BY <1>3, <1>8, <2>2, <3>1, <3>2 DEF FuStateConsistent
    <2> QED BY <2>1, <2>2
<1>12. SlicesOf(packet)' = <<Stream!Slice(tailIndex, fu.naluDataIndex, n,
                              fuPacketizationState.naluDataIndex = 0, last)>>
    <2>1. IsFragment(packet')
        BY <1>2, <1>3 DEF IsFragment, FuPayloadHeader
    <2>2. /\ packet'.runs = <<Run(tailIndex, fu.naluDataIndex, n)>>
          /\ packet'.fu.s = (fuPacketizationState.naluDataIndex = 0)
          /\ packet'.fu.e = last
        <3>1. (currentlyProcessingPacket = "NONE")
                = (fuPacketizationState.naluDataIndex = 0)
            BY <1>3, Zenon
        <3> HIDE DEF last
        <3> QED BY <1>2, <3>1
    <2>3. /\ (IsFragment(packet') => packet'.fu.s)
                = (fuPacketizationState.naluDataIndex = 0)
          /\ (IsFragment(packet') => packet'.fu.e) = last
        BY <2>1, <2>2, Zenon
    <2>4. SlicesOf(packet') = <<Stream!Slice(tailIndex, fu.naluDataIndex, n,
                              fuPacketizationState.naluDataIndex = 0, last)>>
        <3> HIDE DEF last
        <3> QED BY <2>2, <2>3 DEF SlicesOf, Stream!Slice, Run
    <2> QED BY <2>4 DEF SlicesOf, IsFragment
<1>13. Stream!SendSlice(n)
    <2>1. fu.remainingNaluLength = Accepted[tailIndex + 1].len - fu.naluDataIndex
        BY <1>1, <1>3, <1>4
    <2>2. last => fuPacketizationState'.naluDataIndex = 0
                  /\ tailIndex' = tailIndex + 1
        BY <1>2 DEF ZeroFuState, NextNalus
    <2>3. ~last => fuPacketizationState'.naluDataIndex = fu.naluDataIndex + n
                   /\ tailIndex' = tailIndex
        BY <1>2, <1>8
    <2>4. ~(fuPacketizationState.naluDataIndex = 0 /\ last)
        BY <1>3, <1>6
    <2> QED BY <1>1, <1>3, <1>5, <1>7, <1>9, <1>12, <2>1, <2>2, <2>3, <2>4
            DEF Stream!SendSlice
<1>14. SlicesOf(packet)' # << >> /\ SlicesOf(packet)'[1].len = n
    BY <1>12 DEF Stream!Slice
<1>15. packet'.packetDataLength <= size
    BY <1>1, <1>2, <1>5
<1> QED BY <1>10, <1>11, <1>13, <1>14, <1>15 DEF IInv, Stream!Next

(* H265Packetizer_GetPacket keeps the invariant, fits the buffer and       *)
(* continues the stream.                                                   *)
LEMMA GetPacketInv ==
    ASSUME IInv, NEW size \in PacketSizes, H265Packetizer_GetPacket(size)
    PROVE  /\ IInv'
           /\ NaluTypes => [Stream!Next]_(Stream!streamVars)
           /\ result' = "OK" => packet'.packetDataLength <= size
<1>1. CASE \E r \in Results \ {"OK"} : Refuse(r)
    BY <1>1, RefuseInv DEF Refuse
<1>2. CASE /\ naluCount # 0 /\ size > FuHeadersSize
           /\ currentlyProcessingPacket = "FU" \/ Waiting(1).len > size
           /\ PacketizeFragmentationUnitPacket(size)
    BY <1>2, FragmentInv
<1>3. ASSUME naluCount # 0, currentlyProcessingPacket = "NONE",
             Waiting(1).len <= size, PacketizeSingleNaluPacket, result' = "OK",
             UNCHANGED <<added, naluArrayLength>>
      PROVE  /\ IInv'
             /\ NaluTypes => [Stream!Next]_(Stream!streamVars)
             /\ packet'.packetDataLength <= size
    <2>1. packet'.packetDataLength = Waiting(1).len
        BY <1>3 DEF PacketizeSingleNaluPacket
    <2> QED BY <1>3, <2>1, SingleInv
<1>4. ASSUME currentlyProcessingPacket = "NONE", NEW n \in 0..naluCount, n > 1,
             Fits(n, size), PacketizeAggregationPacket(n), result' = "OK",
             UNCHANGED <<added, naluArrayLength>>
      PROVE  /\ IInv'
             /\ NaluTypes => [Stream!Next]_(Stream!streamVars)
             /\ packet'.packetDataLength <= size
    <2>1. packet'.packetDataLength = ApLength[n]
        BY <1>4 DEF PacketizeAggregationPacket
    <2>2. n \in 1..naluCount
        BY <1>4 DEF IInv, TypeOK
    <2> QED BY <1>4, <2>1, <2>2, ApInv DEF Fits
<1> QED
    <2>1. CASE size < NALU_HEADER_SIZE + 1 /\ Refuse("BAD_PARAM")
        BY <1>1, <2>1 DEF Results
    <2>2. CASE naluCount = 0 /\ Refuse("NO_MORE_PACKETS")
        BY <1>1, <2>2 DEF Results
    <2>3. CASE /\ naluCount # 0
               /\ currentlyProcessingPacket = "FU" \/ Waiting(1).len > size
               /\ PacketizeFragmentationUnitPacket(size)
        <3>1. CASE Refuse("OUT_OF_MEMORY")
            BY <1>1, <3>1 DEF Results
        <3>2. CASE size > FuHeadersSize
            BY <1>2, <2>3, <3>2
        <3> QED BY <2>3, <3>1, <3>2 DEF PacketizeFragmentationUnitPacket
    <2>4. CASE /\ naluCount # 0 /\ currentlyProcessingPacket = "NONE"
               /\ Waiting(1).len <= size
               /\ \E n \in 0..naluCount :
                    /\ Fits(n, size)
                    /\ \/ n > 1 /\ PacketizeAggregationPacket(n)
                       \/ n <= 1 /\ PacketizeSingleNaluPacket
               /\ result' = "OK"
               /\ UNCHANGED <<added, naluArrayLength>>
        BY <1>3, <1>4, <2>4
    <2> QED BY <2>1, <2>2, <2>3, <2>4 DEF H265Packetizer_GetPacket

(* Every step of the packetizer keeps the invariant and is one of the      *)
(* stream.                                                                 *)
LEMMA NextInv ==
    ASSUME IInv, [Next]_vars
    PROVE  /\ IInv'
           /\ NaluTypes => [Stream!Next]_(Stream!streamVars)
<1>1. CASE \E n \in ArrayLengths : H265Packetizer_Init(n)
    BY <1>1, InitCallInv
<1>2. CASE \E n \in Nalu : H265Packetizer_AddNalu(n)
    BY <1>2, AddNaluInv
<1>3. CASE \E f \in Frames : H265Packetizer_AddFrame(f)
    BY <1>3, AddFrameInv
<1>4. CASE GetPacket
    BY <1>4, GetPacketInv DEF GetPacket
<1>5. CASE NullArgument
    BY <1>5, RefuseInv DEF NullArgument, Results
<1>6. CASE UNCHANGED vars
    <2>1. result' \in Results
        BY <1>6 DEF vars, IInv, TypeOK
    <2> QED BY <1>6, <2>1, UnchangedInv DEF vars, added, sending
<1> QED BY <1>1, <1>2, <1>3, <1>4, <1>5, <1>6 DEF Next

-----------------------------------------------------------------------------
(* Whatever a caller does who keeps to SlotsFor, and whatever its buffer   *)
(* lengths: the indices agree and stay in the array, and the saved state   *)
(* describes the NAL unit being fragmented.                                *)
THEOREM PacketizerIsConsistent == Spec => []IInv
<1>1. Init => IInv
    BY InitInv
<1>2. IInv /\ [Next]_vars => IInv'
    BY NextInv
<1> QED BY <1>1, <1>2, PTL DEF Spec

(* AddNalu, which never checks headIndex, writes inside the array.         *)
THEOREM TypeCorrect == Spec => []TypeOK
BY PacketizerIsConsistent, PTL DEF IInv

(* What was sent of the NAL unit at the tail and what remains make it up,  *)
(* and its fragments restate the header bits of that NAL unit.             *)
THEOREM FuStateStaysConsistent == Spec => []FuStateConsistent
BY PacketizerIsConsistent, PTL DEF IInv

(* No packet of any kind is longer than its buffer, however short that is. *)
THEOREM PacketsFit == Spec => PacketFitsBuffer
<1>1. IInv /\ [Next]_vars =>
        [\A size \in PacketSizes :
            H265Packetizer_GetPacket(size) /\ result' = "OK"
                => packet'.packetDataLength <= size]_vars
    BY GetPacketInv
<1> QED BY <1>1, PacketizerIsConsistent, PTL DEF Spec, PacketFitsBuffer

(* Every byte of every NAL unit leaves once and in order, in fragments     *)
(* properly marked, alone or aggregated.                                   *)
THEOREM RefinesStream ==
    ASSUME NaluTypes
    PROVE  Spec => ImplementsStream
<1>1. Init => IInv /\ Stream!Init
    BY InitInv
<1>2. IInv /\ [Next]_vars => IInv' /\ [Stream!Next]_(Stream!streamVars)
    BY NextInv
<1> QED BY <1>1, <1>2, PTL DEF Spec, ImplementsStream, Stream!Spec

-----------------------------------------------------------------------------
(* The session.                                                            *)

(* A NAL unit has a type of its own, none of those the packets of RFC 7798 *)
(* are given: what the packetizer passes on is then read back as sent.     *)
SingleTypes ==
    \A n \in Nalu :
        n.header.type \in SINGLE_NALU_PACKET_TYPE_START..SINGLE_NALU_PACKET_TYPE_END

(* A buffer is no longer than a datagram can be, so that no NAL unit in an *)
(* aggregation packet is too long for its 16-bit size.                     *)
DatagramSizes == \A size \in PacketSizes : size <= NaluSizeMod

(* The receiver is proved about with the packets it may be given.          *)
Sendable == {p \in Packet : Receiver!WellTyped(p)} \cup Strays

Reader == INSTANCE H265DepacketizerProofs
    WITH headIndex <- rHeadIndex, tailIndex <- rTailIndex, result <- rResult,
         Packets <- Sendable, ArrayLengths <- PacketArrayLengths,
         NaluSizes <- BufferSizes, FrameSizes <- BufferSizes

(* Where the bytes of a packet start, and where they end.                  *)
FirstOf(p) == p.runs[1].nalu
FromOf(p) == p.runs[1].from
LastOf(p) == p.runs[Len(p.runs)].nalu
ToOf(p) == p.runs[Len(p.runs)].from + p.runs[Len(p.runs)].len

(* Each run of a packet is a NAL unit, the next one to the run before.     *)
WholeRuns(p) ==
    \A i \in 1..Len(p.runs) :
        /\ p.runs[i].nalu = FirstOf(p) + i - 1
        /\ p.runs[i].from = 0
        /\ p.runs[i].len = naluArray[FirstOf(p) + i - 1].len

(* A packet, as it was made of NAL units still in the array.               *)
SentSingle(p) ==
    /\ Len(p.runs) = 1 /\ WholeRuns(p)
    /\ p.header = naluArray[FirstOf(p)].header
    /\ p.sizes = NoSizes
    /\ p.packetDataLength = naluArray[FirstOf(p)].len

SentFragment(p) ==
    /\ Len(p.runs) = 1
    /\ p.header = FuPayloadHeader(naluArray[FirstOf(p)].header)
    /\ p.fu.type = naluArray[FirstOf(p)].header.type
    /\ p.packetDataLength = p.runs[1].len + FuHeadersSize
    /\ FromOf(p) >= NALU_HEADER_SIZE /\ p.runs[1].len >= 1
    /\ ToOf(p) <= naluArray[FirstOf(p)].len
    /\ p.fu.s <=> FromOf(p) = NALU_HEADER_SIZE
    /\ p.fu.e <=> ToOf(p) = naluArray[FirstOf(p)].len

(* The NAL units of an aggregation packet lie in it from these offsets on, *)
(* the size of each first.                                                 *)
OffsetsIn(p, l) ==
    /\ l \in [0..Len(p.runs) -> Nat]
    /\ l[0] = AP_HEADER_SIZE
    /\ \A i \in 1..Len(p.runs) :
        /\ l[i] = l[i - 1] + AP_NALU_LENGTH_FIELD_SIZE + p.runs[i].len
        /\ l[i - 1] \in DOMAIN p.sizes
        /\ p.sizes[l[i - 1]] = p.runs[i].len
    /\ \A at \in DOMAIN p.sizes : \E i \in 1..Len(p.runs) : at = l[i - 1]
    /\ p.packetDataLength = l[Len(p.runs)]

SentAggregate(p) ==
    /\ Len(p.runs) > 1 /\ WholeRuns(p)
    /\ p.header.type = AP_PACKET_TYPE
    /\ \E l : OffsetsIn(p, l)

(* A packet of the sender, of one of the three kinds.                      *)
SentPacket(p) ==
    /\ p \in Packet /\ p.runs # << >>
    /\ LastOf(p) < headIndex
    /\ SentSingle(p) \/ SentFragment(p) \/ SentAggregate(p)

(* What the sender has produced of the frame.                              *)
SenderInv ==
    /\ IInv
    /\ currentlyProcessingPacket = "FU" =>
        fuPacketizationState.naluDataIndex >= NALU_HEADER_SIZE + 1
    /\ stage = "adding" => sent = {}
    /\ \A p \in sent : SentPacket(p)

(* The sender goes from where packet p starts to where it ends.            *)
PassesOver(p) ==
    /\ FirstOf(p) = tailIndex
    /\ \/ FromOf(p) = fuPacketizationState.naluDataIndex
       \/ FromOf(p) = NALU_HEADER_SIZE /\ fuPacketizationState.naluDataIndex = 0
    /\ \/ /\ ToOf(p) = naluArray[LastOf(p)].len
          /\ tailIndex' = LastOf(p) + 1
          /\ fuPacketizationState'.naluDataIndex = 0
       \/ /\ ToOf(p) # naluArray[LastOf(p)].len
          /\ tailIndex' = LastOf(p)
          /\ fuPacketizationState'.naluDataIndex = ToOf(p)

(* What each waiting NAL unit adds to an aggregation packet.               *)
WaitingLengths == [i \in 1..naluCount |-> AP_NALU_LENGTH_FIELD_SIZE + Waiting(i).len]

(* ApLength is the running sum of the NAL units' lengths and size fields.  *)
LEMMA ApLengthSum ==
    ASSUME IInv
    PROVE  Reader!Adds(ApLength, naluCount, AP_HEADER_SIZE, WaitingLengths)
<1> DEFINE n == naluCount
           v == [i \in 1..n |-> AP_NALU_LENGTH_FIELD_SIZE]
           w == [i \in 1..n |-> Waiting(i).len]
           Is(l) == l = [i \in 0..n |->
                IF i = 0 THEN AP_HEADER_SIZE
                ELSE l[i - 1] + AP_NALU_LENGTH_FIELD_SIZE + Waiting(i).len]
           l == CHOOSE l : Is(l)
<1>1. n \in Nat /\ AP_HEADER_SIZE \in Int
    BY DEF IInv, TypeOK, AP_HEADER_SIZE
<1>2. \A i \in 1..n :
        /\ v[i] = AP_NALU_LENGTH_FIELD_SIZE
        /\ w[i] = Waiting(i).len
        /\ v[i] \in Int /\ w[i] \in Int /\ WaitingLengths[i] \in Int
        /\ WaitingLengths[i] = v[i] + w[i]
    BY WaitingNalus DEF WaitingLengths, AP_NALU_LENGTH_FIELD_SIZE
<1>3. ASSUME NEW m PROVE Is(m) <=> Reader!Adds2(m, n, AP_HEADER_SIZE, v, w)
    <2>1. \A i \in 0..n : i = 0 \/ i \in 1..n
        BY <1>1
    <2>2. 0 \in 0..n /\ \A i \in 1..n : i # 0 /\ i \in 0..n
        BY <1>1
    <2> HIDE DEF n, v, w
    <2>3. ASSUME Is(m) PROVE Reader!Adds2(m, n, AP_HEADER_SIZE, v, w)
        <3>1. m = [i \in 0..n |-> m[i]] /\ m[0] = AP_HEADER_SIZE
            BY <2>2, <2>3
        <3>2. ASSUME NEW i \in 1..n
              PROVE  m[i] = m[i - 1] + AP_NALU_LENGTH_FIELD_SIZE + Waiting(i).len
            BY <2>2, <2>3
        <3> QED BY <1>2, <3>1, <3>2, Zenon DEF Reader!Adds2
    <2>4. ASSUME Reader!Adds2(m, n, AP_HEADER_SIZE, v, w) PROVE Is(m)
        <3>1. \A i \in 1..n :
                m[i] = m[i - 1] + AP_NALU_LENGTH_FIELD_SIZE + Waiting(i).len
            BY <1>2, <2>4, Zenon DEF Reader!Adds2
        <3>2. m = [i \in 0..n |-> m[i]] /\ m[0] = AP_HEADER_SIZE
            BY <2>4, Zenon DEF Reader!Adds2
        <3>3. \A i \in 0..n : m[i] = IF i = 0 THEN AP_HEADER_SIZE
                ELSE m[i - 1] + AP_NALU_LENGTH_FIELD_SIZE + Waiting(i).len
            BY <2>1, <3>1, <3>2, Zenon
        <3> QED BY <3>2, <3>3, Zenon
    <2> QED BY <2>3, <2>4
<1>4. ASSUME NEW m PROVE Is(m) <=> Reader!Adds(m, n, AP_HEADER_SIZE, WaitingLengths)
    <2> HIDE DEF n, v, w, Is
    <2> QED BY <1>1, <1>2, <1>3, Reader!TwoWeights
<1>5. \E m : Reader!Adds(m, n, AP_HEADER_SIZE, WaitingLengths)
    BY <1>1, <1>2, Reader!AddsExists
<1>6. Reader!Adds(l, n, AP_HEADER_SIZE, WaitingLengths)
    <2> HIDE DEF Is
    <2> QED BY <1>4, <1>5, Zenon
<1>7. ApLength = l
    BY DEF ApLength
<1> QED BY <1>6, <1>7

(* ApLength starts at the packet's header and grows with each NAL unit.    *)
LEMMA ApLengthFacts ==
    ASSUME IInv
    PROVE  /\ ApLength[0] = 2
           /\ \A i \in 0..naluCount : ApLength[i] \in Nat /\ ApLength[i] >= 2
           /\ \A i \in 1..naluCount : ApLength[i] = ApLength[i - 1] + 2 + Waiting(i).len
           /\ \A i, j \in 0..naluCount : i < j => ApLength[i] < ApLength[j]
<1> DEFINE l == ApLength
           n == naluCount
<1>1. n \in Nat
    BY DEF IInv, TypeOK
<1>2. \A i \in 1..n : WaitingLengths[i] \in Nat /\ WaitingLengths[i] = 2 + Waiting(i).len
                       /\ Waiting(i).len \in Nat
    BY WaitingNalus DEF WaitingLengths, AP_NALU_LENGTH_FIELD_SIZE
<1>3. Reader!Adds(l, n, 2, WaitingLengths)
    BY ApLengthSum DEF AP_HEADER_SIZE
<1> HIDE DEF l, n
<1>4. l[0] = 2 /\ \A i \in 1..n : l[i] = l[i - 1] + WaitingLengths[i]
    BY <1>3, Zenon DEF Reader!Adds
<1> DEFINE S == {i \in 0..n : /\ l[i] \in Nat /\ l[i] >= 2
                              /\ \A j \in 0..n : j < i => l[j] \in Nat /\ l[j] < l[i]}
<1>5. 0 \in S
    BY <1>1, <1>4
<1>6. ASSUME NEW i \in 1..n, i - 1 \in S PROVE i \in S
    <2>1. /\ l[i - 1] \in Nat /\ l[i - 1] >= 2 /\ l[i] = l[i - 1] + WaitingLengths[i]
          /\ WaitingLengths[i] \in Nat /\ WaitingLengths[i] >= 2
        BY <1>2, <1>4, <1>6
    <2>2. ASSUME NEW j \in 0..n, j < i PROVE l[j] \in Nat /\ l[j] < l[i]
        <3>1. CASE j = i - 1
            BY <2>1, <3>1
        <3>2. CASE j < i - 1
            <4>1. l[j] < l[i - 1]
                BY <1>6, <3>2
            <4>2. l[j] \in Nat
                BY <1>6, <3>2, <4>1
            <4> QED BY <2>1, <4>1, <4>2
        <3> QED BY <2>2, <3>1, <3>2
    <2> QED BY <2>1, <2>2
<1>7. \A i \in 0..n : i \in S
    <2> HIDE DEF S
    <2> QED BY <1>1, <1>5, <1>6, Reader!UpTo
<1>8. \A i, j \in 0..n : i < j => l[i] < l[j]
    BY <1>7
<1>9. \A i \in 0..n : l[i] \in Nat /\ l[i] >= 2
    BY <1>7
<1>10. \A i \in 1..n : l[i] = l[i - 1] + 2 + Waiting(i).len
    <2> TAKE i \in 1..n
    <2>1. i - 1 \in 0..n /\ i \in 1..n
        BY <1>1
    <2>2. l[i - 1] \in Nat
        BY <1>9, <2>1
    <2> QED BY <1>2, <1>4, <2>2
<1> QED BY <1>4, <1>8, <1>9, <1>10 DEF l, n

(* A length below the modulus is its own remainder.                        *)
LEMMA ModSmall ==
    ASSUME NEW n \in Nat, NEW x \in Nat, x < n
    PROVE  x % n = x
BY SMTT(20)

(* The payload header of an aggregation packet is one, with the type of an *)
(* aggregation packet.                                                     *)
LEMMA ApHeader ==
    ASSUME IInv, NEW n \in 1..naluCount
    PROVE  ApPayloadHeader(n) \in Header /\ ApPayloadHeader(n).type = AP_PACKET_TYPE
<1>1. \A i \in 1..n : Waiting(i).header.tid \in 0..7
    <2> TAKE i \in 1..n
    <2>1. i \in 1..naluCount
        BY DEF IInv, TypeOK
    <2>2. Waiting(i).header \in Header
        BY <2>1, WaitingNalus
    <2> QED BY <2>2 DEF Header
<1>2. n \in Nat /\ n >= 1
    BY DEF IInv, TypeOK
<1> DEFINE T == {Waiting(i).header.tid : i \in 1..n}
           Lowest(t) == /\ \E i \in 1..n : Waiting(i).header.tid = t
                        /\ \A i \in 1..n : t <= Waiting(i).header.tid
<1>3. \E t \in 0..7 : Lowest(t)
    <2>1. T \in SUBSET Nat /\ T # {}
        BY <1>1, <1>2
    <2>2. PICK t \in T : \A m \in T : t <= m
        <3> HIDE DEF T
        <3> QED BY <2>1, Reader!Least
    <2>3. t \in 0..7 /\ Lowest(t)
        BY <1>1, <2>2
    <2> QED BY <2>3
<1>4. (CHOOSE t \in 0..7 : Lowest(t)) \in 0..7
    <2> HIDE DEF Lowest
    <2> QED BY <1>3
<1> DEFINE f == IF \E i \in 1..n : Waiting(i).header.f = 1 THEN 1 ELSE 0
           c == CHOOSE t \in 0..7 : Lowest(t)
<1>5. ApPayloadHeader(n) = [f |-> f, type |-> AP_PACKET_TYPE, layerId |-> 0, tid |-> c]
    BY DEF ApPayloadHeader
<1>6. f \in 0..1
    OBVIOUS
<1> HIDE DEF f, c
<1> QED BY <1>4, <1>5, <1>6 DEF Header, AP_PACKET_TYPE, c

(* The sizes in an aggregation packet no longer than a datagram are the    *)
(* lengths of its NAL units, each at the offset where it starts.           *)
LEMMA ApSizes ==
    ASSUME IInv, NEW n \in 1..naluCount, ApLength[n] <= NaluSizeMod,
           NEW sizes,
           sizes = [at \in {ApLength[i - 1] : i \in 1..n} |->
                        Waiting(CHOOSE i \in 1..n : ApLength[i - 1] = at).len
                            % NaluSizeMod]
    PROVE  /\ DOMAIN sizes = {ApLength[i - 1] : i \in 1..n}
           /\ \A i \in 1..n : sizes[ApLength[i - 1]] = Waiting(i).len
           /\ sizes \in UNION {[D -> Nat] : D \in SUBSET Nat}
<1> DEFINE D == {ApLength[i - 1] : i \in 1..n}
           At(at) == CHOOSE i \in 1..n : ApLength[i - 1] = at
<1>1. /\ n \in Nat /\ \A i \in 1..n : i \in 1..naluCount /\ i - 1 \in 0..naluCount
                                      /\ i \in 0..naluCount
      /\ \A i \in 0..naluCount : ApLength[i] \in Nat /\ ApLength[i] >= 2
      /\ \A i \in 1..naluCount : ApLength[i] = ApLength[i - 1] + 2 + Waiting(i).len
      /\ \A i, j \in 0..naluCount : i < j => ApLength[i] < ApLength[j]
    BY ApLengthFacts DEF IInv, TypeOK
<1>2. \A i \in 1..n : Waiting(i).len \in Nat
    BY <1>1, WaitingNalus
<1>3. ASSUME NEW i \in 1..n PROVE At(ApLength[i - 1]) = i
    <2>1. \A j \in 1..n : ApLength[j - 1] = ApLength[i - 1] => j = i
        <3> TAKE j \in 1..n
        <3>1. /\ i - 1 \in 0..naluCount /\ j - 1 \in 0..naluCount
              /\ ApLength[i - 1] \in Nat /\ ApLength[j - 1] \in Nat
            BY <1>1
        <3>2. CASE j < i
            <4>1. j - 1 < i - 1
                BY <3>2
            <4>2. ApLength[j - 1] < ApLength[i - 1]
                BY <1>1, <3>1, <4>1
            <4> QED BY <3>1, <4>2
        <3>3. CASE i < j
            <4>1. i - 1 < j - 1
                BY <3>3
            <4>2. ApLength[i - 1] < ApLength[j - 1]
                BY <1>1, <3>1, <4>1
            <4> QED BY <3>1, <4>2
        <3> QED BY <3>2, <3>3
    <2>2. At(ApLength[i - 1]) \in 1..n /\ ApLength[At(ApLength[i - 1]) - 1] = ApLength[i - 1]
        BY Zenon
    <2> HIDE DEF At
    <2> QED BY <2>1, <2>2
<1>4. ASSUME NEW i \in 1..n PROVE Waiting(i).len % NaluSizeMod = Waiting(i).len
    <2>1. ApLength[i] <= ApLength[n] /\ ApLength[i] \in Nat /\ ApLength[n] \in Nat
        <3>1. CASE i = n
            BY <1>1, <3>1
        <3>2. CASE i < n
            BY <1>1, <3>2
        <3> QED BY <3>1, <3>2
    <2>2. ApLength[i - 1] \in Nat /\ ApLength[i - 1] >= 2
        BY <1>1
    <2>3. ApLength[i] = ApLength[i - 1] + 2 + Waiting(i).len
        BY <1>1
    <2>4. Waiting(i).len < NaluSizeMod /\ NaluSizeMod \in Nat
        BY <1>2, <2>1, <2>2, <2>3, LengthsAssumption
    <2> QED BY <1>2, <2>4, ModSmall
<1>5. DOMAIN sizes = D /\ \A at \in D : sizes[at] = Waiting(At(at)).len % NaluSizeMod
    OBVIOUS
<1>6. \A i \in 1..n : ApLength[i - 1] \in D
    OBVIOUS
<1>7. \A i \in 1..n : sizes[ApLength[i - 1]] = Waiting(i).len
    <2> HIDE DEF At, D
    <2> QED BY <1>3, <1>4, <1>5, <1>6
<1>8. D \in SUBSET Nat
    BY <1>1
<1>9. \A at \in D : sizes[at] \in Nat
    BY <1>2, <1>7
<1>10. sizes = [at \in D |-> sizes[at]]
    OBVIOUS
<1>11. sizes \in [D -> Nat]
    <2> HIDE DEF D
    <2> QED BY <1>9, <1>10
<1> QED BY <1>5, <1>7, <1>8, <1>11

(* PacketizeAggregationPacket makes an aggregation packet of whole NAL     *)
(* units and passes over them.                                             *)
LEMMA AggregateSent ==
    ASSUME IInv, currentlyProcessingPacket = "NONE", NEW n \in 1..naluCount, n > 1,
           ApLength[n] <= NaluSizeMod, PacketizeAggregationPacket(n), UNCHANGED added
    PROVE  SentPacket(packet') /\ PassesOver(packet')
<1> DEFINE p == packet'
           sizes == [at \in {ApLength[i - 1] : i \in 1..n} |->
                        Waiting(CHOOSE i \in 1..n : ApLength[i - 1] = at).len
                            % NaluSizeMod]
           runs == [i \in 1..n |-> Run(tailIndex + i - 1, 0, Waiting(i).len)]
           l == [i \in 0..n |-> ApLength[i]]
<1>1. p = [header |-> ApPayloadHeader(n), fu |-> NoFuHeader, sizes |-> sizes,
           runs |-> runs, packetDataLength |-> ApLength[n]]
    BY Zenon DEF PacketizeAggregationPacket
<1>2. /\ naluArray' = naluArray /\ headIndex' = headIndex
      /\ tailIndex' = tailIndex + n /\ fuPacketizationState' = fuPacketizationState
    BY DEF PacketizeAggregationPacket, NextNalus, added
<1>3. /\ n \in Nat /\ tailIndex \in Nat /\ headIndex \in Nat /\ naluCount \in Nat
      /\ tailIndex + n <= headIndex
      /\ \A i \in 1..n : i \in 1..naluCount /\ i - 1 \in 0..naluCount /\ i \in 0..naluCount
      /\ fuPacketizationState.naluDataIndex = 0
    BY DEF IInv, TypeOK, FuStateConsistent, ZeroFuState
<1>4. /\ \A i \in 0..naluCount : ApLength[i] \in Nat
      /\ ApLength[0] = 2
      /\ \A i \in 1..naluCount : ApLength[i] = ApLength[i - 1] + 2 + Waiting(i).len
    BY ApLengthFacts
<1>5. \A i \in 1..n : Waiting(i).len \in Nat
                       /\ Waiting(i).len = naluArray[tailIndex + i - 1].len
    BY <1>3, WaitingNalus DEF Waiting
<1>6. /\ DOMAIN sizes = {ApLength[i - 1] : i \in 1..n}
      /\ \A i \in 1..n : sizes[ApLength[i - 1]] = Waiting(i).len
      /\ sizes \in UNION {[D -> Nat] : D \in SUBSET Nat}
    BY ApSizes
<1> HIDE DEF sizes
<1>7. /\ runs \in Seq([nalu : Nat, from : Nat, len : Nat]) /\ Len(runs) = n
      /\ \A i \in 1..n : /\ runs[i].nalu = tailIndex + i - 1 /\ runs[i].from = 0
                         /\ runs[i].len = Waiting(i).len
    <2>1. \A i \in 1..n : Run(tailIndex + i - 1, 0, Waiting(i).len)
                            \in [nalu : Nat, from : Nat, len : Nat]
        BY <1>3, <1>5 DEF Run
    <2>2. runs \in [1..n -> [nalu : Nat, from : Nat, len : Nat]]
        BY <2>1
    <2> QED BY <1>3, <2>2 DEF Run
<1> HIDE DEF runs
<1>8. /\ p.header = ApPayloadHeader(n) /\ p.fu = NoFuHeader /\ p.sizes = sizes
      /\ p.runs = runs /\ p.packetDataLength = ApLength[n]
    BY <1>1
<1>9. p \in Packet
    <2>1. NoFuHeader \in FuHeader
        BY DEF NoFuHeader, FuHeader
    <2>2. ApPayloadHeader(n) \in Header /\ ApLength[n] \in Nat
        BY <1>3, <1>4, ApHeader
    <2> QED BY <1>1, <1>6, <1>7, <2>1, <2>2 DEF Packet
<1> HIDE DEF p
<1>10. /\ FirstOf(p) = tailIndex /\ FromOf(p) = 0 /\ LastOf(p) = tailIndex + n - 1
       /\ Len(p.runs) = n /\ p.runs # << >>
       /\ ToOf(p) = Waiting(n).len
    <2>1. 1 \in 1..n /\ n \in 1..n /\ tailIndex + 1 - 1 = tailIndex
        BY <1>3
    <2>2. /\ runs[1].nalu = tailIndex /\ runs[1].from = 0 /\ Len(runs) = n
          /\ runs[n].nalu = tailIndex + n - 1 /\ runs[n].from + runs[n].len = Waiting(n).len
        <3>1. \A i \in 1..n : /\ runs[i].nalu = tailIndex + i - 1 /\ runs[i].from = 0
                              /\ runs[i].len = Waiting(i).len
            BY <1>7
        <3>2. Len(runs) = n
            BY <1>7
        <3>3. runs[n].from + runs[n].len = Waiting(n).len
            <4>1. runs[n].from = 0 /\ runs[n].len = Waiting(n).len /\ Waiting(n).len \in Nat
                BY <1>5, <2>1, <3>1, Zenon
            <4> QED BY <4>1
        <3> QED BY <2>1, <3>1, <3>2, <3>3
    <2>3. p.runs # << >>
        BY <1>3, <1>8, <2>2
    <2> QED BY <1>8, <2>2, <2>3 DEF FirstOf, FromOf, LastOf, ToOf
<1>11. WholeRuns(p)
    <2>1. \A i \in 1..n : /\ p.runs[i].nalu = FirstOf(p) + i - 1 /\ p.runs[i].from = 0
                          /\ p.runs[i].len = naluArray[FirstOf(p) + i - 1].len
        BY <1>5, <1>7, <1>8, <1>10
    <2> QED BY <1>10, <2>1 DEF WholeRuns
<1>12. OffsetsIn(p, l)
    <2>1. l \in [0..n -> Nat] /\ l[0] = 2 /\ \A i \in 0..n : l[i] = ApLength[i]
        BY <1>3, <1>4
    <2>2. \A i \in 1..n : i - 1 \in 0..n /\ i \in 0..n
        BY <1>3
    <2>3. n \in 0..n
        BY <1>3
    <2> HIDE DEF l
    <2>4. ASSUME NEW i \in 1..n
          PROVE  /\ l[i] = l[i - 1] + AP_NALU_LENGTH_FIELD_SIZE + p.runs[i].len
                 /\ l[i - 1] \in DOMAIN p.sizes
                 /\ p.sizes[l[i - 1]] = p.runs[i].len
        <3>1. l[i] = ApLength[i] /\ l[i - 1] = ApLength[i - 1]
            BY <2>1, <2>2
        <3>2. ApLength[i] = ApLength[i - 1] + 2 + Waiting(i).len
            BY <1>3, <1>4
        <3> QED BY <1>6, <1>7, <1>8, <3>1, <3>2 DEF AP_NALU_LENGTH_FIELD_SIZE
    <2>5. \A at \in DOMAIN p.sizes : \E i \in 1..n : at = l[i - 1]
        BY <1>6, <1>8, <2>1, <2>2
    <2>6. p.packetDataLength = l[n]
        BY <1>8, <2>1, <2>3
    <2> QED BY <1>10, <2>1, <2>4, <2>5, <2>6, Zenon DEF OffsetsIn, AP_HEADER_SIZE
<1>13. SentAggregate(p)
    <2>1. p.header.type = AP_PACKET_TYPE
        BY <1>8, ApHeader
    <2> HIDE DEF l
    <2> QED BY <1>10, <1>11, <1>12, <2>1 DEF SentAggregate
<1>14. SentPacket(p)
    <2>1. LastOf(p) < headIndex
        BY <1>3, <1>10
    <2> QED BY <1>9, <1>10, <1>13, <2>1 DEF SentPacket
<1>15. PassesOver(p)
    <2>1. LastOf(p) + 1 = tailIndex + n
        BY <1>3, <1>10
    <2>2. ToOf(p) = naluArray[LastOf(p)].len
        BY <1>3, <1>5, <1>10
    <2> QED BY <1>2, <1>3, <1>10, <2>1, <2>2 DEF PassesOver
<1> QED BY <1>14, <1>15 DEF p

(* PacketizeSingleNaluPacket makes a packet of one whole NAL unit and      *)
(* passes over it.                                                         *)
LEMMA SingleSent ==
    ASSUME IInv, naluCount # 0, currentlyProcessingPacket = "NONE",
           PacketizeSingleNaluPacket, UNCHANGED added
    PROVE  SentPacket(packet') /\ PassesOver(packet')
<1> DEFINE p == packet'
           run == Run(tailIndex, 0, Waiting(1).len)
<1>1. p = [header |-> Waiting(1).header, fu |-> NoFuHeader, sizes |-> NoSizes,
           runs |-> <<run>>, packetDataLength |-> Waiting(1).len]
    BY Zenon DEF PacketizeSingleNaluPacket
<1>2. /\ naluArray' = naluArray /\ headIndex' = headIndex
      /\ tailIndex' = tailIndex + 1 /\ fuPacketizationState' = fuPacketizationState
    BY DEF PacketizeSingleNaluPacket, NextNalus, added
<1>3. /\ tailIndex \in Nat /\ headIndex \in Nat /\ tailIndex < headIndex
      /\ 1 \in 1..naluCount
      /\ fuPacketizationState.naluDataIndex = 0
    BY DEF IInv, TypeOK, FuStateConsistent, ZeroFuState
<1>4. /\ Waiting(1).len \in Nat /\ Waiting(1).header \in Header
      /\ Waiting(1) = naluArray[tailIndex]
    BY <1>3, WaitingNalus DEF Waiting
<1>5. /\ run.nalu = tailIndex /\ run.from = 0 /\ run.len = Waiting(1).len
      /\ run \in [nalu : Nat, from : Nat, len : Nat]
    BY <1>3, <1>4 DEF Run
<1> HIDE DEF run
<1>6. /\ p.header = Waiting(1).header /\ p.fu = NoFuHeader /\ p.sizes = NoSizes
      /\ p.runs = <<run>> /\ p.packetDataLength = Waiting(1).len
    BY <1>1
<1>7. p \in Packet
    <2>1. NoFuHeader \in FuHeader
        BY DEF NoFuHeader, FuHeader
    <2>2. NoSizes \in UNION {[D -> Nat] : D \in SUBSET Nat}
        <3>1. NoSizes \in [{} -> Nat]
            BY DEF NoSizes
        <3> QED BY <3>1
    <2>3. <<run>> \in Seq([nalu : Nat, from : Nat, len : Nat])
        BY <1>5
    <2> QED BY <1>1, <1>4, <2>1, <2>2, <2>3 DEF Packet
<1>8. Len(p.runs) = 1 /\ p.runs[1] = run /\ p.runs # << >>
    BY <1>6
<1> HIDE DEF p
<1>9. /\ FirstOf(p) = tailIndex /\ FromOf(p) = 0 /\ LastOf(p) = tailIndex
      /\ ToOf(p) = Waiting(1).len
    BY <1>4, <1>5, <1>8 DEF FirstOf, FromOf, LastOf, ToOf
<1>10. WholeRuns(p)
    BY <1>3, <1>4, <1>5, <1>8, <1>9 DEF WholeRuns
<1>11. SentSingle(p)
    BY <1>4, <1>6, <1>8, <1>9, <1>10 DEF SentSingle
<1>12. SentPacket(p)
    BY <1>3, <1>7, <1>8, <1>9, <1>11 DEF SentPacket
<1>13. PassesOver(p)
    BY <1>2, <1>3, <1>4, <1>9 DEF PassesOver
<1> QED BY <1>12, <1>13 DEF p

(* PacketizeFragmentationUnitPacket makes a fragment that starts where the *)
(* last one ended, and moves to its end.                                   *)
LEMMA FragmentSent ==
    ASSUME IInv, naluCount # 0, NEW size \in PacketSizes, size > FuHeadersSize,
           currentlyProcessingPacket = "FU" =>
                fuPacketizationState.naluDataIndex >= NALU_HEADER_SIZE + 1,
           currentlyProcessingPacket = "FU" \/ Waiting(1).len > size,
           PacketizeFragmentationUnitPacket(size), UNCHANGED added
    PROVE  /\ SentPacket(packet') /\ PassesOver(packet')
           /\ currentlyProcessingPacket' = "FU" =>
                fuPacketizationState'.naluDataIndex >= NALU_HEADER_SIZE + 1
<1> DEFINE p == packet'
           fu == FuState
           n == H265_MIN(size - FuHeadersSize, fu.remainingNaluLength)
           last == n = fu.remainingNaluLength
           run == Run(tailIndex, fu.naluDataIndex, n)
<1>1. /\ p = [header |-> fu.payloadHeader,
              fu |-> [s |-> currentlyProcessingPacket = "NONE",
                      e |-> last, type |-> fu.fuHeader],
              sizes |-> NoSizes, runs |-> <<run>>,
              packetDataLength |-> n + FuHeadersSize]
      /\ \/ /\ last /\ currentlyProcessingPacket' = "NONE"
            /\ fuPacketizationState' = ZeroFuState /\ NextNalus(1)
         \/ /\ ~last /\ UNCHANGED <<tailIndex, naluCount>>
            /\ fuPacketizationState' =
                [fu EXCEPT !.naluDataIndex = @ + n, !.remainingNaluLength = @ - n]
    <2>1. ~(size <= FuHeadersSize)
        BY LengthsAssumption DEF FuHeadersSize, FU_PAYLOAD_HEADER_SIZE, FU_HEADER_SIZE
    <2> QED BY <2>1, Zenon DEF PacketizeFragmentationUnitPacket
<1>2. naluArray' = naluArray /\ headIndex' = headIndex
    BY DEF added
<1>3. /\ size \in Nat /\ size > 3 /\ FuHeadersSize = 3
      /\ tailIndex \in Nat /\ headIndex \in Nat /\ tailIndex < headIndex
      /\ 1 \in 1..naluCount
    BY LengthsAssumption
       DEF IInv, TypeOK, FuHeadersSize, FU_PAYLOAD_HEADER_SIZE, FU_HEADER_SIZE
<1>4. /\ Waiting(1).len \in Nat /\ Waiting(1).header \in Header
      /\ Waiting(1) = naluArray[tailIndex]
    BY <1>3, WaitingNalus DEF Waiting
<1>5. /\ fu \in FuStates
      /\ fu.payloadHeader = FuPayloadHeader(Waiting(1).header)
      /\ fu.fuHeader = Waiting(1).header.type
      /\ fu.naluDataIndex >= 2 /\ fu.remainingNaluLength >= 1
      /\ fu.naluDataIndex + fu.remainingNaluLength = Waiting(1).len
      /\ fu.naluDataIndex = IF fuPacketizationState.naluDataIndex = 0
            THEN 2 ELSE fuPacketizationState.naluDataIndex
      /\ fuPacketizationState.naluDataIndex = 0
            <=> currentlyProcessingPacket = "NONE"
    BY <1>3, <1>4, FuStateFacts DEF NALU_HEADER_SIZE
<1>6. /\ fu.naluDataIndex \in Nat /\ fu.remainingNaluLength \in Nat
      /\ fu.payloadHeader \in Header /\ fu.fuHeader \in 0..63
      /\ fu = [payloadHeader |-> fu.payloadHeader, fuHeader |-> fu.fuHeader,
               naluDataIndex |-> fu.naluDataIndex,
               remainingNaluLength |-> fu.remainingNaluLength]
    BY <1>5 DEF FuStates
<1>7. currentlyProcessingPacket = "NONE" <=> fu.naluDataIndex = 2
    <2>1. currentlyProcessingPacket \in {"NONE", "FU"}
        BY DEF IInv, TypeOK
    <2> QED BY <1>5, <2>1 DEF NALU_HEADER_SIZE
<1> HIDE DEF fu
<1>8. n \in Nat /\ n >= 1 /\ n <= fu.remainingNaluLength
    BY <1>3, <1>5, <1>6 DEF H265_MIN
<1> HIDE DEF n
<1>9. last <=> fu.naluDataIndex + n = Waiting(1).len
    BY <1>5, <1>6, <1>8
<1>10. \/ /\ last /\ tailIndex' = tailIndex + 1
          /\ currentlyProcessingPacket' = "NONE"
          /\ fuPacketizationState'.naluDataIndex = 0
       \/ /\ ~last /\ tailIndex' = tailIndex
          /\ fuPacketizationState'.naluDataIndex = fu.naluDataIndex + n
    <2>1. CASE last /\ fuPacketizationState' = ZeroFuState /\ NextNalus(1)
                /\ currentlyProcessingPacket' = "NONE"
        BY <2>1 DEF ZeroFuState, NextNalus
    <2>2. CASE /\ ~last /\ UNCHANGED <<tailIndex, naluCount>>
               /\ fuPacketizationState' =
                [fu EXCEPT !.naluDataIndex = @ + n, !.remainingNaluLength = @ - n]
        <3> HIDE DEF last
        <3> QED BY <1>6, <2>2
    <2> QED BY <1>1, <2>1, <2>2
<1>11. /\ run.nalu = tailIndex /\ run.from = fu.naluDataIndex /\ run.len = n
       /\ run \in [nalu : Nat, from : Nat, len : Nat]
    BY <1>3, <1>6, <1>8 DEF Run
<1> HIDE DEF run
<1>12. /\ p.header = fu.payloadHeader /\ p.fu.type = fu.fuHeader
       /\ p.fu.s = (currentlyProcessingPacket = "NONE") /\ p.fu.e = last
       /\ p.sizes = NoSizes /\ p.runs = <<run>> /\ p.packetDataLength = n + FuHeadersSize
    <2> HIDE DEF last
    <2> QED BY <1>1
<1>13. p \in Packet
    <2>1. [s |-> currentlyProcessingPacket = "NONE", e |-> last, type |-> fu.fuHeader]
            \in FuHeader
        BY <1>6 DEF FuHeader
    <2>2. NoSizes \in UNION {[D -> Nat] : D \in SUBSET Nat}
        <3>1. NoSizes \in [{} -> Nat]
            BY DEF NoSizes
        <3> QED BY <3>1
    <2>3. <<run>> \in Seq([nalu : Nat, from : Nat, len : Nat])
        BY <1>11
    <2>4. n + FuHeadersSize \in Nat
        BY <1>3, <1>8
    <2> HIDE DEF last
    <2> QED BY <1>1, <1>6, <2>1, <2>2, <2>3, <2>4 DEF Packet
<1>14. Len(p.runs) = 1 /\ p.runs[1] = run /\ p.runs # << >>
    BY <1>12
<1>15. (p.fu.s <=> fu.naluDataIndex = 2) /\ (p.fu.e <=> fu.naluDataIndex + n = Waiting(1).len)
    <2> HIDE DEF last
    <2> QED BY <1>7, <1>9, <1>12, Zenon
<1>16. p.header = fu.payloadHeader /\ p.fu.type = fu.fuHeader /\ p.packetDataLength = n + 3
    BY <1>3, <1>12
<1> HIDE DEF p
<1>17. /\ FirstOf(p) = tailIndex /\ FromOf(p) = fu.naluDataIndex /\ LastOf(p) = tailIndex
       /\ ToOf(p) = fu.naluDataIndex + n
    BY <1>11, <1>14 DEF FirstOf, FromOf, LastOf, ToOf
<1>18. ToOf(p) <= naluArray[tailIndex].len
    BY <1>4, <1>5, <1>6, <1>8, <1>17
<1>19. SentFragment(p)
    <2>1. (p.fu.s <=> FromOf(p) = 2) /\ (p.fu.e <=> ToOf(p) = naluArray[FirstOf(p)].len)
        BY <1>4, <1>15, <1>17, Zenon
    <2> QED BY <1>3, <1>4, <1>5, <1>8, <1>11, <1>14, <1>16, <1>17, <1>18, <2>1
            DEF SentFragment, NALU_HEADER_SIZE
<1>20. SentPacket(p)
    BY <1>3, <1>13, <1>14, <1>17, <1>19 DEF SentPacket
<1>21. PassesOver(p)
    <2> HIDE DEF last
    <2> QED BY <1>4, <1>5, <1>9, <1>10, <1>17 DEF PassesOver, NALU_HEADER_SIZE
<1>22. currentlyProcessingPacket' = "FU" =>
        fuPacketizationState'.naluDataIndex >= NALU_HEADER_SIZE + 1
    <2> HIDE DEF last
    <2> QED BY <1>5, <1>6, <1>8, <1>10 DEF NALU_HEADER_SIZE
<1> QED BY <1>20, <1>21, <1>22 DEF p

(* GetPacket, when it returns OK, makes one of the three.                  *)
LEMMA FillsSentPacket ==
    ASSUME DatagramSizes, IInv,
           currentlyProcessingPacket = "FU" =>
                fuPacketizationState.naluDataIndex >= NALU_HEADER_SIZE + 1,
           GetPacket, result' = "OK"
    PROVE  /\ SentPacket(packet') /\ PassesOver(packet')
           /\ naluArray' = naluArray /\ headIndex' = headIndex
           /\ currentlyProcessingPacket' = "FU" =>
                fuPacketizationState'.naluDataIndex >= NALU_HEADER_SIZE + 1
<1>1. PICK size \in PacketSizes : H265Packetizer_GetPacket(size)
    BY DEF GetPacket
<1>2. /\ naluCount # 0
      /\ \/ /\ currentlyProcessingPacket = "FU" \/ Waiting(1).len > size
            /\ size > FuHeadersSize
            /\ PacketizeFragmentationUnitPacket(size)
         \/ /\ currentlyProcessingPacket = "NONE"
            /\ \/ PacketizeSingleNaluPacket
               \/ \E n \in 0..naluCount :
                    n > 1 /\ Fits(n, size) /\ PacketizeAggregationPacket(n)
      /\ UNCHANGED added
    BY <1>1 DEF H265Packetizer_GetPacket, PacketizeFragmentationUnitPacket, Refuse
<1>3. naluArray' = naluArray /\ headIndex' = headIndex
    BY <1>2 DEF added
<1>4. CASE /\ currentlyProcessingPacket = "FU" \/ Waiting(1).len > size
           /\ size > FuHeadersSize /\ PacketizeFragmentationUnitPacket(size)
    BY <1>2, <1>3, <1>4, FragmentSent
<1>5. CASE currentlyProcessingPacket = "NONE" /\ PacketizeSingleNaluPacket
    <2>1. currentlyProcessingPacket' = "NONE"
        BY <1>5 DEF PacketizeSingleNaluPacket
    <2> QED BY <1>2, <1>3, <1>5, <2>1, SingleSent
<1>6. CASE /\ currentlyProcessingPacket = "NONE"
           /\ \E n \in 0..naluCount :
                n > 1 /\ Fits(n, size) /\ PacketizeAggregationPacket(n)
    <2>1. PICK n \in 0..naluCount :
            n > 1 /\ Fits(n, size) /\ PacketizeAggregationPacket(n)
        BY <1>6
    <2>2. n \in 1..naluCount /\ naluCount \in Nat
        BY <2>1 DEF IInv, TypeOK
    <2>3. ApLength[n] <= NaluSizeMod
        <3>1. ApLength[n] \in Nat /\ ApLength[n] <= size
            BY <2>1, <2>2, ApLengthFacts DEF Fits
        <3> QED BY <3>1, LengthsAssumption DEF DatagramSizes
    <2>4. currentlyProcessingPacket' = "NONE"
        BY <1>6, <2>1 DEF PacketizeAggregationPacket
    <2> QED BY <1>2, <1>3, <1>6, <2>1, <2>2, <2>3, <2>4, AggregateSent
<1> QED BY <1>2, <1>4, <1>5, <1>6

(* A sequence that is not empty has a first element and a last.            *)
LEMMA NonEmpty ==
    ASSUME NEW R, NEW s \in Seq(R), s # << >>
    PROVE  Len(s) \in Nat /\ Len(s) >= 1 /\ \A i \in 1..Len(s) : s[i] \in R
OBVIOUS

(* The runs of a packet of the sender are numbers, of NAL units below the  *)
(* head index.                                                             *)
LEMMA SentTypes ==
    ASSUME IInv, NEW p, SentPacket(p)
    PROVE  /\ Len(p.runs) \in Nat /\ Len(p.runs) >= 1
           /\ FirstOf(p) \in Nat /\ LastOf(p) \in Nat /\ LastOf(p) < headIndex
           /\ LastOf(p) = FirstOf(p) + Len(p.runs) - 1
           /\ FromOf(p) \in Nat /\ ToOf(p) \in Nat
           /\ p.header \in Header /\ p.fu \in FuHeader /\ p.packetDataLength \in Nat
           /\ \A i \in 1..Len(p.runs) :
                p.runs[i].nalu \in Nat /\ p.runs[i].from \in Nat /\ p.runs[i].len \in Nat
<1> DEFINE R == [nalu : Nat, from : Nat, len : Nat]
           n == Len(p.runs)
<1>1. /\ p.runs \in Seq(R) /\ p.runs # << >>
      /\ p.header \in Header /\ p.fu \in FuHeader /\ p.packetDataLength \in Nat
    BY DEF SentPacket, Packet
<1>2. /\ n \in Nat /\ n >= 1
      /\ \A i \in 1..n : p.runs[i] \in R
    <2> HIDE DEF R
    <2> QED BY <1>1, NonEmpty
<1>3. \A i \in 1..n :
        p.runs[i].nalu \in Nat /\ p.runs[i].from \in Nat /\ p.runs[i].len \in Nat
    BY <1>2
<1> HIDE DEF n, R
<1>4. 1 \in 1..n /\ n \in 1..n
    BY <1>2
<1>5. LastOf(p) < headIndex
    BY Zenon DEF SentPacket
<1>6. /\ FirstOf(p) \in Nat /\ LastOf(p) \in Nat /\ FromOf(p) \in Nat /\ ToOf(p) \in Nat
    BY <1>3, <1>4 DEF FirstOf, LastOf, FromOf, ToOf, n
<1>7. LastOf(p) = FirstOf(p) + n - 1
    <2>1. CASE n = 1
        BY <1>6, <2>1 DEF FirstOf, LastOf, n
    <2>2. CASE WholeRuns(p)
        BY <1>4, <2>2 DEF WholeRuns, LastOf, n
    <2> QED BY <2>1, <2>2, Zenon DEF SentPacket, SentSingle, SentFragment, SentAggregate, n
<1> QED BY <1>1, <1>2, <1>3, <1>5, <1>6, <1>7 DEF n

(* A NAL unit a packet was made of is in the array and has a header.       *)
LEMMA SentNalus ==
    ASSUME IInv, NEW p, SentPacket(p), NEW u \in FirstOf(p)..LastOf(p)
    PROVE  /\ naluArray[u] \in Nalu /\ naluArray[u].header \in Header
           /\ naluArray[u].len \in Nat /\ naluArray[u].len >= 2
<1>1. u \in 0..(headIndex - 1)
    BY SentTypes DEF IInv, TypeOK
<1>2. naluArray[u] \in Nalu /\ naluArray[u].len >= 2
    BY <1>1 DEF IInv, TypeOK, NALU_HEADER_SIZE
<1> QED BY <1>2, NaluAssumption

(* A packet of whole NAL units starts and ends with one.                   *)
LEMMA WholeEnds ==
    ASSUME IInv, NEW p, SentPacket(p), WholeRuns(p)
    PROVE  FromOf(p) = 0 /\ ToOf(p) = naluArray[LastOf(p)].len
<1>1. /\ Len(p.runs) \in Nat /\ Len(p.runs) >= 1 /\ FirstOf(p) \in Nat
      /\ LastOf(p) = FirstOf(p) + Len(p.runs) - 1 /\ FirstOf(p) <= LastOf(p)
    BY SentTypes
<1>2. LastOf(p) \in FirstOf(p)..LastOf(p)
    BY <1>1
<1>3. naluArray[LastOf(p)].len \in Nat
    BY <1>2, SentNalus
<1>4. 1 \in 1..Len(p.runs) /\ Len(p.runs) \in 1..Len(p.runs)
    BY <1>1
<1>5. /\ p.runs[1].from = 0 /\ p.runs[Len(p.runs)].from = 0
      /\ p.runs[Len(p.runs)].len = naluArray[LastOf(p)].len
    BY <1>1, <1>4, Zenon DEF WholeRuns
<1> QED BY <1>3, <1>5 DEF FromOf, ToOf

(* A fragment lies in one NAL unit, behind its header.                     *)
LEMMA FragmentEnds ==
    ASSUME IInv, NEW p, SentPacket(p), SentFragment(p)
    PROVE  /\ LastOf(p) = FirstOf(p)
           /\ ToOf(p) = FromOf(p) + p.runs[1].len
           /\ p.runs[1].len \in Nat /\ p.runs[1].len >= 1
           /\ FromOf(p) >= 2 /\ ToOf(p) <= naluArray[FirstOf(p)].len
           /\ p.header.type = FU_PACKET_TYPE
           /\ p.packetDataLength = p.runs[1].len + 3
           /\ p.fu.s <=> FromOf(p) = 2
           /\ p.fu.e <=> ToOf(p) = naluArray[FirstOf(p)].len
<1>1. Len(p.runs) = 1 /\ p.runs[1].len \in Nat
    BY SentTypes DEF SentFragment
<1> QED BY <1>1 DEF SentFragment, FirstOf, LastOf, ToOf, FromOf, NALU_HEADER_SIZE, FuPayloadHeader,
        FuHeadersSize, FU_PAYLOAD_HEADER_SIZE, FU_HEADER_SIZE

(* The offsets of NAL units in an aggregation packet increase.             *)
LEMMA OffsetsFacts ==
    ASSUME IInv, NEW p, SentPacket(p), NEW l, OffsetsIn(p, l)
    PROVE  /\ \A i \in 0..Len(p.runs) : l[i] \in Nat /\ l[i] >= 2
           /\ \A i \in 1..Len(p.runs) : l[i] = l[i - 1] + 2 + p.runs[i].len
           /\ \A i, j \in 0..Len(p.runs) : i < j => l[i] < l[j]
           /\ \A i, j \in 0..Len(p.runs) : i <= j => l[i] <= l[j]
           /\ l[0] = 2
<1> DEFINE n == Len(p.runs)
           w == [i \in 1..n |-> p.runs[i].len]
<1>1. n \in Nat /\ \A i \in 1..n : w[i] \in Nat /\ w[i] = p.runs[i].len
    BY SentTypes
<1>2. /\ l \in [0..n -> Nat] /\ l[0] = 2
      /\ \A i \in 1..n : l[i] = l[i - 1] + 2 + p.runs[i].len
    BY DEF OffsetsIn, AP_HEADER_SIZE, AP_NALU_LENGTH_FIELD_SIZE
<1> HIDE DEF n
<1>3. \A i \in 1..n : l[i] = l[i - 1] + 2 + w[i] /\ w[i] \in Nat
    BY <1>1, <1>2
<1> HIDE DEF w
<1> DEFINE S == {i \in 0..n : l[i] >= 2 /\ \A j \in 0..n : j < i => l[j] < l[i]}
<1>4. 0 \in S
    BY <1>1, <1>2
<1>5. ASSUME NEW i \in 1..n, i - 1 \in S PROVE i \in S
    <2>1. /\ l[i - 1] \in Nat /\ l[i - 1] >= 2 /\ l[i] = l[i - 1] + 2 + w[i] /\ w[i] \in Nat
          /\ l[i] \in Nat
        BY <1>1, <1>2, <1>3, <1>5
    <2>2. ASSUME NEW j \in 0..n, j < i PROVE l[j] < l[i]
        <3>1. l[j] \in Nat
            BY <1>2
        <3>2. j = i - 1 \/ j < i - 1
            BY <1>1, <2>2
        <3>3. j < i - 1 => l[j] < l[i - 1]
            BY <1>5
        <3> QED BY <2>1, <3>1, <3>2, <3>3
    <2> QED BY <2>1, <2>2
<1>6. \A i \in 0..n : i \in S
    <2> HIDE DEF S
    <2> QED BY <1>1, <1>4, <1>5, Reader!UpTo
<1>7. \A i, j \in 0..n : i < j => l[i] < l[j]
    BY <1>6
<1>8. \A i, j \in 0..n : i <= j => l[i] <= l[j]
    <2> TAKE i, j \in 0..n
    <2>1. l[i] \in Nat /\ l[j] \in Nat
        BY <1>2
    <2>2. i <= j => i = j \/ i < j
        BY <1>1
    <2> QED BY <1>7, <2>1, <2>2
<1>9. \A i \in 0..n : l[i] \in Nat /\ l[i] >= 2
    BY <1>2, <1>6
<1> QED BY <1>2, <1>7, <1>8, <1>9 DEF n

(* What GetPacketProperties says of a packet of the sender.                *)
LEMMA MarksOfSent ==
    ASSUME SingleTypes, IInv, NEW p, SentPacket(p)
    PROVE  Receiver!GetPacketProperties(p) =
            (IF FromOf(p) <= NALU_HEADER_SIZE THEN {"START"} ELSE {}) \cup
            (IF ToOf(p) = naluArray[LastOf(p)].len THEN {"END"} ELSE {})
<1>1. /\ FirstOf(p) \in Nat /\ LastOf(p) \in Nat /\ FirstOf(p) <= LastOf(p)
      /\ FromOf(p) \in Nat /\ p.packetDataLength \in Nat
      /\ p.header \in Header
    BY SentTypes
<1>2. /\ naluArray[FirstOf(p)] \in Nalu
      /\ naluArray[FirstOf(p)].len \in Nat /\ naluArray[FirstOf(p)].len >= 2
    <2>1. FirstOf(p) \in FirstOf(p)..LastOf(p)
        BY <1>1
    <2> QED BY <2>1, SentNalus
<1>3. ASSUME SentSingle(p) \/ SentAggregate(p)
      PROVE  Receiver!GetPacketProperties(p) =
            (IF FromOf(p) <= NALU_HEADER_SIZE THEN {"START"} ELSE {}) \cup
            (IF ToOf(p) = naluArray[LastOf(p)].len THEN {"END"} ELSE {})
    <2>1. FromOf(p) <= NALU_HEADER_SIZE /\ ToOf(p) = naluArray[LastOf(p)].len
        <3>1. WholeRuns(p)
            BY <1>3 DEF SentSingle, SentAggregate
        <3> QED BY <3>1, WholeEnds DEF NALU_HEADER_SIZE
    <2>2. /\ ~(p.packetDataLength < Receiver!NALU_HEADER_SIZE)
          /\ Receiver!SingleType(p.header.type) \/ p.header.type = Receiver!AP_PACKET_TYPE
        <3>1. CASE SentSingle(p)
            <4>1. p.header.type \in 1..47 /\ p.packetDataLength >= 2
                BY <1>2, <3>1 DEF SentSingle, SingleTypes, SINGLE_NALU_PACKET_TYPE_START,
                    SINGLE_NALU_PACKET_TYPE_END
            <4> QED BY <1>1, <4>1 DEF Receiver!NALU_HEADER_SIZE, Receiver!SingleType,
                    Receiver!SINGLE_NALU_PACKET_TYPE_START,
                    Receiver!SINGLE_NALU_PACKET_TYPE_END
        <3>2. CASE SentAggregate(p)
            <4>1. PICK l : OffsetsIn(p, l)
                BY <3>2 DEF SentAggregate
            <4>2. Len(p.runs) \in 0..Len(p.runs)
                BY SentTypes
            <4>3. p.packetDataLength >= 2
                <5>1. p.packetDataLength = l[Len(p.runs)]
                    BY <4>1, Zenon DEF OffsetsIn
                <5> QED BY <4>1, <4>2, <5>1, OffsetsFacts
            <4> QED BY <1>1, <3>2, <4>3 DEF SentAggregate, Receiver!NALU_HEADER_SIZE,
                    AP_PACKET_TYPE, Receiver!AP_PACKET_TYPE
        <3> QED BY <1>3, <3>1, <3>2
    <2>3. Receiver!GetPacketProperties(p) = {"START", "END"}
        BY <2>2, Zenon DEF Receiver!GetPacketProperties
    <2> QED BY <2>1, <2>3
<1>4. CASE SentFragment(p)
    <2>1. /\ p.packetDataLength >= 4 /\ p.header.type = 49
          /\ p.fu.s <=> FromOf(p) <= 2
          /\ p.fu.e <=> ToOf(p) = naluArray[LastOf(p)].len
        <3>1. /\ LastOf(p) = FirstOf(p)
              /\ p.runs[1].len \in Nat /\ p.runs[1].len >= 1
              /\ FromOf(p) >= 2
              /\ p.header.type = FU_PACKET_TYPE
              /\ p.packetDataLength = p.runs[1].len + 3
              /\ p.fu.s <=> FromOf(p) = 2
              /\ p.fu.e <=> ToOf(p) = naluArray[FirstOf(p)].len
            BY <1>4, FragmentEnds
        <3>2. p.packetDataLength >= 4
            BY <3>1
        <3>3. FromOf(p) = 2 <=> FromOf(p) <= 2
            BY <1>1, <3>1
        <3> QED BY <3>1, <3>2, <3>3, Zenon DEF FU_PACKET_TYPE
    <2>2. /\ ~(p.packetDataLength < Receiver!NALU_HEADER_SIZE)
          /\ ~(p.packetDataLength < Receiver!FuHeadersSize)
          /\ ~(Receiver!SingleType(p.header.type) \/ p.header.type = Receiver!AP_PACKET_TYPE)
          /\ ~(p.header.type # Receiver!FU_PACKET_TYPE)
        BY <1>1, <2>1 DEF Receiver!SingleType, Receiver!NALU_HEADER_SIZE,
            Receiver!FuHeadersSize, Receiver!FU_PAYLOAD_HEADER_SIZE,
            Receiver!FU_HEADER_SIZE, Receiver!SINGLE_NALU_PACKET_TYPE_START,
            Receiver!SINGLE_NALU_PACKET_TYPE_END, Receiver!FU_PACKET_TYPE,
            Receiver!AP_PACKET_TYPE
    <2>3. Receiver!GetPacketProperties(p) =
            (IF p.fu.s THEN {"START"} ELSE {}) \cup (IF p.fu.e THEN {"END"} ELSE {})
        BY <2>2, Zenon DEF Receiver!GetPacketProperties
    <2> QED BY <2>1, <2>3 DEF NALU_HEADER_SIZE
<1> QED BY <1>3, <1>4 DEF SentPacket

(* The sender's variables take a step of H265Packetizer or none.           *)
LEMMA SenderSteps ==
    ASSUME SessionNext \/ UNCHANGED sessionVars
    PROVE  [Next]_vars
<1>1. ASSUME NextFrame PROVE Next
    <2>1. \E n \in ArrayLengths : H265Packetizer_Init(n)
        BY <1>1, Zenon DEF NextFrame
    <2> QED BY <2>1, Zenon DEF Next
<1>2. ASSUME AddFrame PROVE Next
    BY <1>2, Zenon DEF AddFrame, Next
<1>3. ASSUME SendPacket \/ StopSending PROVE Next
    BY <1>3, Zenon DEF SendPacket, StopSending, Next
<1>4. ASSUME StrayArrives \/ ReadNalu \/ ReadFrame \/ ReadFrameTurn \/ UNCHANGED sessionVars
      PROVE  UNCHANGED vars
    BY <1>4, Zenon DEF StrayArrives, ReadNalu, ReadFrame, ReadFrameTurn, sessionVars
<1> QED BY <1>1, <1>2, <1>3, <1>4, Zenon DEF SessionNext

(* What was sent stays what it is while the NAL units in the array do.     *)
LEMMA SentPacketKept ==
    ASSUME naluArray' = naluArray, headIndex' = headIndex, NEW p, SentPacket(p)
    PROVE  SentPacket(p)'
BY DEF SentPacket, SentSingle, SentFragment, SentAggregate, OffsetsIn, WholeRuns, FirstOf,
    LastOf, FromOf, ToOf

(* Nothing has been sent yet.                                              *)
LEMMA SenderInitInv == SessionInit => SenderInv
BY InitInv DEF SessionInit, SenderInv, Init

(* No step of the session leaves a packet behind that is not made of the   *)
(* NAL units in the array.                                                 *)
LEMMA SenderStepInv ==
    ASSUME DatagramSizes, SenderInv, SessionNext \/ UNCHANGED sessionVars
    PROVE  SenderInv'
<1>1. IInv'
    BY SenderSteps, NextInv DEF SenderInv
<1>2. CASE AddFrame
    <2>1. /\ stage' = stage /\ sent' = sent /\ sent = {}
        BY <1>2 DEF AddFrame, session, SenderInv
    <2>2. /\ currentlyProcessingPacket' = currentlyProcessingPacket
          /\ fuPacketizationState' = fuPacketizationState
        BY <1>2, Zenon DEF AddFrame, H265Packetizer_AddFrame, Queue
    <2> QED BY <1>1, <2>1, <2>2 DEF SenderInv
<1>3. CASE SendPacket
    <2>1. /\ GetPacket /\ result' = "OK" /\ sent' = sent \cup {packet'}
          /\ stage' = "sending"
        BY <1>3 DEF SendPacket
    <2>2. /\ SentPacket(packet')
          /\ naluArray' = naluArray /\ headIndex' = headIndex
          /\ currentlyProcessingPacket' = "FU" =>
                fuPacketizationState'.naluDataIndex >= NALU_HEADER_SIZE + 1
        BY <2>1, FillsSentPacket DEF SenderInv
    <2>3. \A p : SentPacket(p) => SentPacket(p)'
        BY <2>2, SentPacketKept
    <2>4. \A p \in sent' : SentPacket(p)'
        BY <2>1, <2>2, <2>3 DEF SenderInv
    <2> QED BY <1>1, <2>1, <2>2, <2>4 DEF SenderInv
<1>4. CASE StopSending
    <2>1. /\ sent' = sent /\ stage' = "receiving"
          /\ GetPacket /\ result' = "NO_MORE_PACKETS"
        BY <1>4 DEF StopSending
    <2>2. UNCHANGED <<added, sending>>
        BY <2>1 DEF GetPacket, H265Packetizer_GetPacket, PacketizeFragmentationUnitPacket, Refuse
    <2>3. /\ naluArray' = naluArray /\ headIndex' = headIndex
          /\ currentlyProcessingPacket' = currentlyProcessingPacket
          /\ fuPacketizationState' = fuPacketizationState
        BY <2>2 DEF added, sending
    <2>4. \A p : SentPacket(p) => SentPacket(p)'
        BY <2>3, SentPacketKept
    <2> QED BY <1>1, <2>1, <2>3, <2>4 DEF SenderInv
<1>5. CASE NextFrame
    <2>1. /\ sent' = {} /\ currentlyProcessingPacket' = "NONE"
        BY <1>5, LengthsAssumption DEF NextFrame, H265Packetizer_Init
    <2> QED BY <1>1, <2>1 DEF SenderInv
<1>6. CASE StrayArrives \/ ReadNalu \/ ReadFrame \/ ReadFrameTurn \/ UNCHANGED sessionVars
    <2>1. /\ UNCHANGED vars /\ sent' = sent
          /\ stage' = "adding" => stage = "adding"
        BY <1>6, Zenon DEF StrayArrives, ReadNalu, ReadFrame, ReadFrameTurn, sessionVars, session
    <2>2. /\ naluArray' = naluArray /\ headIndex' = headIndex
          /\ currentlyProcessingPacket' = currentlyProcessingPacket
          /\ fuPacketizationState' = fuPacketizationState
        BY <2>1 DEF vars
    <2>3. \A p : SentPacket(p) => SentPacket(p)'
        BY <2>2, SentPacketKept
    <2> QED BY <1>1, <2>1, <2>2, <2>3 DEF SenderInv
<1> QED BY <1>2, <1>3, <1>4, <1>5, <1>6 DEF SessionNext

(* What GetPacketProperties tells a receiver agrees with what the          *)
(* packetizer did: see MarksAgree.                                         *)
THEOREM MarksStayTrue ==
    ASSUME SingleTypes, DatagramSizes
    PROVE  SessionSpec => []MarksAgree
<1>1. SenderInv => MarksAgree
    <2> SUFFICES ASSUME SenderInv PROVE MarksAgree
        OBVIOUS
    <2>1. \A p \in sent : IInv /\ SentPacket(p)
        BY DEF SenderInv
    <2> QED BY <2>1, MarksOfSent DEF MarksAgree, FromOf, ToOf, LastOf
<1>2. SessionInit => SenderInv
    BY SenderInitInv
<1>3. SenderInv /\ [SessionNext]_sessionVars => SenderInv'
    BY SenderStepInv
<1> QED BY <1>1, <1>2, <1>3, PTL DEF SessionSpec

(* Receiver and Reader are the same program.                               *)
LEMMA SameCalls ==
    /\ Receiver!Init <=> Reader!Init
    /\ \A n : Receiver!H265Depacketizer_Init(n) <=> Reader!H265Depacketizer_Init(n)
    /\ \A p : Receiver!H265Depacketizer_AddPacket(p)
                <=> Reader!H265Depacketizer_AddPacket(p)
    /\ \A size : Receiver!H265Depacketizer_GetNalu(size)
                    <=> Reader!H265Depacketizer_GetNalu(size)
    /\ \A size : Receiver!H265Depacketizer_GetFrame(size)
                    <=> Reader!H265Depacketizer_GetFrame(size)
    /\ Receiver!GetFrameTurn <=> Reader!GetFrameTurn
BY Zenon DEF Receiver!Idle, Reader!Idle, Receiver!queue, Reader!queue, Receiver!reading,
    Reader!reading, Receiver!naluOut, Reader!naluOut, Receiver!frameOut,
    Reader!frameOut, Receiver!vars, Reader!vars, Receiver!Refuse, Reader!Refuse,
    Receiver!CurrentPacket, Reader!CurrentPacket, Receiver!Consume, Reader!Consume,
    Receiver!Bytes, Reader!Bytes, Receiver!RestatedHeader, Reader!RestatedHeader,
    Receiver!Fragment, Reader!Fragment, Receiver!IsFragment, Reader!IsFragment,
    Receiver!HeaderLength, Reader!HeaderLength, Receiver!Pieces, Reader!Pieces,
    Receiver!Assembled, Reader!Assembled, Receiver!AssembledLength,
    Reader!AssembledLength, Receiver!MoveTo, Reader!MoveTo, Receiver!SingleType,
    Reader!SingleType, Receiver!DepacketizeSingleNaluPacket,
    Reader!DepacketizeSingleNaluPacket, Receiver!DepacketizeFragmentationUnitPacket,
    Reader!DepacketizeFragmentationUnitPacket, Receiver!DepacketizeAggregationPacket,
    Reader!DepacketizeAggregationPacket, Receiver!DepacketizeCurrent,
    Reader!DepacketizeCurrent, Receiver!ReadResults, Reader!ReadResults,
    Receiver!EndFrame, Reader!EndFrame, Receiver!GetFrameTurn, Reader!GetFrameTurn,
    Receiver!H265Depacketizer_GetNalu, Reader!H265Depacketizer_GetNalu,
    Receiver!H265Depacketizer_GetFrame, Reader!H265Depacketizer_GetFrame,
    Receiver!H265Depacketizer_Init, Reader!H265Depacketizer_Init,
    Receiver!H265Depacketizer_AddPacket, Reader!H265Depacketizer_AddPacket,
    Receiver!SlotFree, Reader!SlotFree, Receiver!Init, Reader!Init,
    Receiver!STARTCODE_SIZE, Reader!STARTCODE_SIZE, Receiver!NALU_HEADER_SIZE,
    Reader!NALU_HEADER_SIZE, Receiver!FU_PAYLOAD_HEADER_SIZE,
    Reader!FU_PAYLOAD_HEADER_SIZE, Receiver!FU_HEADER_SIZE, Reader!FU_HEADER_SIZE,
    Receiver!FuHeadersSize, Reader!FuHeadersSize, Receiver!FU_PACKET_TYPE,
    Reader!FU_PACKET_TYPE, Receiver!AP_PACKET_TYPE, Reader!AP_PACKET_TYPE,
    Receiver!AP_HEADER_SIZE, Reader!AP_HEADER_SIZE, Receiver!AP_NALU_LENGTH_FIELD_SIZE,
    Reader!AP_NALU_LENGTH_FIELD_SIZE, Receiver!SINGLE_NALU_PACKET_TYPE_START,
    Reader!SINGLE_NALU_PACKET_TYPE_START, Receiver!SINGLE_NALU_PACKET_TYPE_END,
    Reader!SINGLE_NALU_PACKET_TYPE_END

(* A packet is well typed to the receiver and to its proofs alike.         *)
LEMMA SameTypes == \A p : Receiver!WellTyped(p) <=> Reader!WellTyped(p)
BY Zenon DEF Receiver!WellTyped, Reader!WellTyped, Receiver!Header, Reader!Header,
    Receiver!FuHeader, Reader!FuHeader, Receiver!UnitOffsets, Reader!UnitOffsets,
    Receiver!AP_PACKET_TYPE, Reader!AP_PACKET_TYPE,
    Receiver!AP_HEADER_SIZE, Reader!AP_HEADER_SIZE,
    Receiver!AP_NALU_LENGTH_FIELD_SIZE, Reader!AP_NALU_LENGTH_FIELD_SIZE

(* The receiver's callers keep to what its proofs assume.                  *)
LEMMA CallersAgree == Reader!Callers
BY ReceiverAssumption, StraysAssumption, SameTypes DEF Reader!Callers, Sendable

(* What the packetizer sends is what a receiver may be given.              *)
LEMMA SentIsSendable ==
    ASSUME SingleTypes, IInv, NEW p, SentPacket(p)
    PROVE  p \in Sendable
<1>1. /\ p \in Packet /\ p.header \in Header /\ p.fu \in FuHeader
      /\ p.packetDataLength \in Nat
      /\ FirstOf(p) \in FirstOf(p)..LastOf(p)
    BY SentTypes DEF SentPacket
<1>2. CASE p.header.type # AP_PACKET_TYPE
    <2>1. Receiver!WellTyped(p)
        BY <1>1, <1>2, Zenon DEF Receiver!WellTyped, Receiver!Header, Header,
            Receiver!FuHeader, FuHeader, Receiver!AP_PACKET_TYPE, AP_PACKET_TYPE
    <2> QED BY <1>1, <2>1 DEF Sendable
<1>3. CASE SentAggregate(p)
    <2>1. PICK l : OffsetsIn(p, l)
        BY <1>3 DEF SentAggregate
    <2> DEFINE n == Len(p.runs)
    <2>2. /\ n \in Nat /\ n >= 1
          /\ \A i \in 1..n : p.runs[i].len \in Nat
        BY SentTypes
    <2>3. /\ \A i \in 0..n : l[i] \in Nat /\ l[i] >= 2
          /\ \A i \in 1..n : l[i] = l[i - 1] + 2 + p.runs[i].len
          /\ l[0] = 2
        BY <2>1, OffsetsFacts
    <2>4. /\ \A i \in 1..n : l[i - 1] \in DOMAIN p.sizes /\ p.sizes[l[i - 1]] = p.runs[i].len
          /\ \A at \in DOMAIN p.sizes : \E i \in 1..n : at = l[i - 1]
          /\ p.packetDataLength = l[n]
        BY <2>1, Zenon DEF OffsetsIn
    <2> HIDE DEF n
    <2>5. \A i \in 1..n : i - 1 \in 0..n /\ i \in 0..n /\ (i < n => i + 1 \in 1..n)
        BY <2>2
    <2>6. ASSUME NEW at \in DOMAIN p.sizes
          PROVE  /\ at \in Nat /\ p.sizes[at] \in Nat
                 /\ \/ at + 2 + p.sizes[at] \in DOMAIN p.sizes
                    \/ at + 2 + p.sizes[at] = p.packetDataLength
        <3>1. PICK i \in 1..n : at = l[i - 1]
            BY <2>4
        <3>2. at \in Nat /\ p.sizes[at] = p.runs[i].len
            BY <2>3, <2>4, <2>5, <3>1
        <3>3. at + 2 + p.sizes[at] = l[i]
            BY <2>3, <3>1, <3>2
        <3>4. CASE i = n
            BY <2>2, <2>4, <3>2, <3>3, <3>4
        <3>5. CASE i < n
            <4>1. i + 1 \in 1..n /\ (i + 1) - 1 = i
                BY <2>5, <3>5
            <4>2. l[i] \in DOMAIN p.sizes
                BY <2>4, <4>1
            <4> QED BY <2>2, <3>2, <3>3, <4>2
        <3> QED BY <2>2, <3>4, <3>5
    <2>7. 2 \in DOMAIN p.sizes
        <3>1. 1 \in 1..n /\ 1 - 1 = 0
            BY <2>2
        <3> QED BY <2>3, <2>4, <3>1
    <2>8. \A at \in Receiver!UnitOffsets(p) :
            at + 2 <= p.packetDataLength => at \in DOMAIN p.sizes
        <3> TAKE at \in Receiver!UnitOffsets(p)
        <3>1. CASE at = 2
            BY <2>7, <3>1
        <3>2. CASE \E b \in DOMAIN p.sizes : at = b + 2 + p.sizes[b]
            <4>1. PICK b \in DOMAIN p.sizes : at = b + 2 + p.sizes[b]
                BY <3>2
            <4>2. at \in DOMAIN p.sizes \/ at = p.packetDataLength
                BY <2>6, <4>1
            <4> QED BY <1>1, <4>2
        <3> QED BY <3>1, <3>2 DEF Receiver!UnitOffsets, Receiver!AP_HEADER_SIZE,
                Receiver!AP_NALU_LENGTH_FIELD_SIZE
    <2>9. Receiver!WellTyped(p)
        <3>1. DOMAIN p.sizes \subseteq Nat /\ \A at \in DOMAIN p.sizes : p.sizes[at] \in Nat
            BY <2>6
        <3>2. p.header \in Receiver!Header /\ p.fu \in Receiver!FuHeader
            BY <1>1, Zenon DEF Receiver!Header, Header, Receiver!FuHeader, FuHeader
        <3> QED BY <1>1, <2>8, <3>1, <3>2, Zenon
                DEF Receiver!WellTyped, Receiver!AP_NALU_LENGTH_FIELD_SIZE
    <2> QED BY <1>1, <2>9 DEF Sendable
<1>4. CASE SentSingle(p)
    <2>1. p.header.type \in 1..47
        BY <1>1, <1>4, SentNalus DEF SentSingle, SingleTypes, SINGLE_NALU_PACKET_TYPE_START,
            SINGLE_NALU_PACKET_TYPE_END
    <2> QED BY <1>2, <2>1 DEF AP_PACKET_TYPE
<1>5. CASE SentFragment(p)
    BY <1>2, <1>5, FragmentEnds DEF AP_PACKET_TYPE, FU_PACKET_TYPE
<1> QED BY <1>3, <1>4, <1>5 DEF SentPacket

(* Packets are still made, and none is read.                               *)
IsSending == stage \in {"adding", "sending"}

(* What the two callers are at.                                            *)
StageInv ==
    /\ stage \in {"adding", "sending", "receiving", "reading", "reading frame",
                  "done"}
    /\ stage = "adding" => tailIndex = 0 /\ currentlyProcessingPacket = "NONE"
    /\ stage # "adding" => sent # {}
    /\ stage \in {"adding", "sending", "receiving"} =>
        rTailIndex = 0 /\ curPacketIndex = 0 /\ delivered = << >>
    /\ ~IsSending => tailIndex = headIndex /\ bufferSize \in BufferSizes
    /\ frameDataLength = IF stage = "reading frame" THEN bufferSize ELSE 0

(* The receiver's variables take a step of H265Depacketizer or none.       *)
LEMMA ReceiverSteps ==
    ASSUME SingleTypes, DatagramSizes, SenderInv, StageInv,
           SessionNext \/ UNCHANGED sessionVars
    PROVE  [Reader!Next]_(Reader!vars)
<1>1. CASE UNCHANGED receiver
    BY <1>1 DEF Reader!vars, receiver
<1>2. ASSUME NEW p \in Sendable, Arrives(p), IsSending
      PROVE  Reader!Next
    <2>1. Reader!Idle
        BY <1>2 DEF StageInv, IsSending, Reader!Idle
    <2>2. Reader!H265Depacketizer_AddPacket(p)
        BY <1>2, SameCalls DEF Arrives
    <2> QED BY <2>1, <2>2 DEF Reader!Next
<1>3. CASE SendPacket
    <2>1. /\ GetPacket /\ result' = "OK" /\ IsSending
          /\ Arrives(packet') \/ UNCHANGED receiver
        BY <1>3, Zenon DEF SendPacket, IsLost, IsSending
    <2>2. SentPacket(packet')
        BY <2>1, FillsSentPacket DEF SenderInv
    <2>3. packet' \in Sendable
        BY <2>2, SentIsSendable DEF SenderInv
    <2> QED BY <1>1, <1>2, <2>1, <2>3
<1>4. CASE StrayArrives
    <2>1. PICK p \in Strays : Arrives(p)
        BY <1>4, Zenon DEF StrayArrives
    <2>2. p \in Sendable
        BY DEF Sendable
    <2>3. IsSending
        BY <1>4, Zenon DEF StrayArrives, IsSending
    <2> QED BY <1>2, <2>1, <2>2, <2>3
<1>5. CASE ReadNalu
    <2>1. stage \in {"receiving", "reading"} /\ Reader!H265Depacketizer_GetNalu(bufferSize)
        BY <1>5, SameCalls, Zenon DEF ReadNalu
    <2>2. bufferSize \in BufferSizes /\ Reader!Idle
        BY <2>1 DEF StageInv, IsSending, Reader!Idle
    <2> QED BY <2>1, <2>2, Zenon DEF Reader!Next, Reader!GetNalu
<1>6. CASE ReadFrame
    <2>1. stage = "receiving" /\ Reader!H265Depacketizer_GetFrame(bufferSize)
        BY <1>6, SameCalls, Zenon DEF ReadFrame
    <2>2. bufferSize \in BufferSizes /\ Reader!Idle
        BY <2>1 DEF StageInv, IsSending, Reader!Idle
    <2> QED BY <2>1, <2>2, Zenon DEF Reader!Next, Reader!GetFrame
<1>7. CASE ReadFrameTurn
    BY <1>7, SameCalls, Zenon DEF ReadFrameTurn, Reader!Next
<1>8. CASE NextFrame
    <2>1. Reader!Idle
        BY <1>8 DEF StageInv, NextFrame, Reader!Idle
    <2>2. PICK n \in PacketArrayLengths : Receiver!H265Depacketizer_Init(n)
        BY <1>8 DEF NextFrame
    <2>3. Reader!H265Depacketizer_Init(n)
        BY <2>2, SameCalls
    <2> QED BY <2>1, <2>3 DEF Reader!Next
<1>9. CASE AddFrame \/ StopSending \/ UNCHANGED sessionVars
    BY <1>1, <1>9, Zenon DEF AddFrame, StopSending, sessionVars
<1> QED BY <1>3, <1>4, <1>5, <1>6, <1>7, <1>8, <1>9, Zenon DEF SessionNext

(* While it reads, the receiver stores nothing and the sender is at rest.  *)
LEMMA ReadingKeeps ==
    ASSUME ReadNalu \/ ReadFrame \/ ReadFrameTurn
    PROVE  UNCHANGED <<vars, packetsArray, packetsArrayLength, rHeadIndex, sent, bufferSize>>
<1>1. CASE ReadNalu
    BY <1>1, Zenon DEF ReadNalu, Receiver!H265Depacketizer_GetNalu, Receiver!Refuse,
        Receiver!queue
<1>2. CASE ReadFrame
    BY <1>2, Zenon DEF ReadFrame, Receiver!H265Depacketizer_GetFrame, Receiver!Refuse,
        Receiver!queue
<1>3. CASE ReadFrameTurn
    BY <1>3, Zenon DEF ReadFrameTurn, Receiver!GetFrameTurn, Receiver!queue
<1> QED BY <1>1, <1>2, <1>3

(* The callers start by adding a frame.                                    *)
LEMMA StageInit == SessionInit => StageInv
BY DEF SessionInit, Init, Receiver!Init, StageInv, IsSending

(* A packet that arrives does not move the receiver.                       *)
LEMMA ArrivesKeeps ==
    ASSUME NEW p, Arrives(p)
    PROVE  UNCHANGED <<rTailIndex, curPacketIndex, frameDataLength>>
BY Zenon DEF Arrives, Receiver!H265Depacketizer_AddPacket, Receiver!Refuse, Receiver!reading,
    Receiver!frameOut

(* Each step of the session leaves its two callers at one of their stages. *)
LEMMA StageStepInv ==
    ASSUME SenderInv, StageInv, SessionNext \/ UNCHANGED sessionVars
    PROVE  StageInv'
<1>1. CASE AddFrame
    <2>1. /\ UNCHANGED <<receiver, session>> /\ stage = "adding"
        BY <1>1 DEF AddFrame
    <2>2. tailIndex' = tailIndex /\ currentlyProcessingPacket' = currentlyProcessingPacket
        BY <1>1, Zenon DEF AddFrame, H265Packetizer_AddFrame, Queue
    <2> QED BY <2>1, <2>2 DEF StageInv, IsSending, receiver, session
<1>2. CASE SendPacket
    <2>1. /\ stage \in {"adding", "sending"} /\ stage' = "sending" /\ sent' # {}
          /\ delivered' = delivered /\ bufferSize' = bufferSize
          /\ Arrives(packet') \/ UNCHANGED receiver
        BY <1>2 DEF SendPacket, IsLost
    <2>2. UNCHANGED <<rTailIndex, curPacketIndex, frameDataLength>>
        BY <2>1, ArrivesKeeps DEF receiver
    <2> QED BY <2>1, <2>2 DEF StageInv, IsSending
<1>3. CASE StrayArrives
    <2>1. /\ UNCHANGED <<vars, session>> /\ stage \in {"adding", "sending"}
          /\ \E p : Arrives(p)
        BY <1>3, Zenon DEF StrayArrives
    <2>2. UNCHANGED <<rTailIndex, curPacketIndex, frameDataLength>>
        BY <2>1, ArrivesKeeps
    <2> QED BY <2>1, <2>2 DEF StageInv, IsSending, vars, session
<1>4. CASE StopSending
    <2>1. /\ stage = "sending" /\ stage' = "receiving" /\ bufferSize' \in BufferSizes
          /\ UNCHANGED <<receiver, sent, delivered>>
          /\ GetPacket /\ result' = "NO_MORE_PACKETS"
        BY <1>4 DEF StopSending
    <2>2. naluCount = 0 /\ UNCHANGED <<added, sending>>
        BY <2>1 DEF GetPacket, H265Packetizer_GetPacket, PacketizeFragmentationUnitPacket,
            Refuse
    <2>3. tailIndex' = headIndex'
        BY <2>2 DEF SenderInv, IInv, TypeOK, added, sending
    <2> QED BY <2>1, <2>3 DEF StageInv, IsSending, receiver
<1>5. CASE ReadNalu \/ ReadFrame \/ ReadFrameTurn
    <2>1. /\ tailIndex' = tailIndex /\ headIndex' = headIndex /\ sent' = sent
          /\ bufferSize' = bufferSize
          /\ stage \in {"receiving", "reading", "reading frame"}
          /\ currentlyProcessingPacket' = currentlyProcessingPacket
        BY <1>5, ReadingKeeps DEF vars, ReadNalu, ReadFrame, ReadFrameTurn
    <2>2. CASE ReadNalu
        <3>1. frameDataLength' = frameDataLength
            BY <2>2, Zenon DEF ReadNalu, Receiver!H265Depacketizer_GetNalu,
                Receiver!Refuse, Receiver!frameOut
        <3>2. stage' \in {"reading", "done"} /\ stage \in {"receiving", "reading"}
            BY <2>2 DEF ReadNalu
        <3> QED BY <2>1, <3>1, <3>2 DEF StageInv, IsSending
    <2>3. CASE ReadFrame
        <3>1. frameDataLength' \in {frameDataLength, bufferSize}
            BY <2>3, Zenon DEF ReadFrame, Receiver!H265Depacketizer_GetFrame,
                Receiver!Refuse, Receiver!frameOut
        <3>2. /\ stage' = IF frameDataLength' = 0 THEN "done" ELSE "reading frame"
              /\ stage = "receiving"
            BY <2>3 DEF ReadFrame
        <3> QED BY <2>1, <3>1, <3>2 DEF StageInv, IsSending
    <2>4. CASE ReadFrameTurn
        <3>1. frameDataLength' \in {0, frameDataLength}
            BY <2>4, Zenon DEF ReadFrameTurn, Receiver!GetFrameTurn, Receiver!EndFrame
        <3>2. /\ stage = "reading frame"
              /\ stage' = IF frameDataLength' = 0 THEN "done" ELSE stage
            BY <2>4 DEF ReadFrameTurn
        <3> QED BY <2>1, <3>1, <3>2 DEF StageInv, IsSending
    <2> QED BY <1>5, <2>2, <2>3, <2>4
<1>6. CASE NextFrame
    <2>1. /\ tailIndex' = 0 /\ currentlyProcessingPacket' = "NONE"
        BY <1>6, LengthsAssumption DEF NextFrame, H265Packetizer_Init
    <2>2. PICK n \in PacketArrayLengths \ {0} : Receiver!H265Depacketizer_Init(n)
        BY <1>6 DEF NextFrame
    <2>3. rTailIndex' = 0 /\ curPacketIndex' = 0 /\ frameDataLength' = 0
        BY <2>2 DEF Receiver!H265Depacketizer_Init
    <2> QED BY <1>6, <2>1, <2>3 DEF NextFrame, StageInv, IsSending
<1>7. CASE UNCHANGED sessionVars
    BY <1>7 DEF StageInv, IsSending, sessionVars, vars, receiver, session
<1> QED BY <1>1, <1>2, <1>3, <1>4, <1>5, <1>6, <1>7 DEF SessionNext

(* Sender, receiver and callers agree.                                     *)
ContextsInv == SenderInv /\ StageInv /\ Reader!IInv /\ Reader!FrameInv

(* Both contexts are consistent at the start.                              *)
LEMMA ContextsInitInv == SessionInit => ContextsInv
<1> SUFFICES ASSUME SessionInit PROVE ContextsInv
    OBVIOUS
<1>1. Reader!Init
    BY SameCalls DEF SessionInit
<1>2. Reader!IInv
    BY <1>1, CallersAgree, Reader!InitInv
<1>3. Reader!FrameInv
    BY <1>1 DEF Reader!Init, Reader!FrameInv, Reader!Idle
<1> QED BY <1>2, <1>3, SenderInitInv, StageInit DEF ContextsInv

(* Each step of the session keeps both contexts consistent.                *)
LEMMA ContextsStepInv ==
    ASSUME SingleTypes, DatagramSizes, ContextsInv, [SessionNext]_sessionVars
    PROVE  ContextsInv'
<1>1. SenderInv' /\ StageInv'
    BY SenderStepInv, StageStepInv DEF ContextsInv
<1>2. [Reader!Next]_(Reader!vars)
    BY ReceiverSteps DEF ContextsInv
<1>3. Reader!IInv'
    BY <1>2, CallersAgree, Reader!NextInv DEF ContextsInv
<1>4. Reader!FrameInv'
    BY <1>2, CallersAgree, Reader!NextFrameInv DEF ContextsInv
<1> QED BY <1>1, <1>3, <1>4 DEF ContextsInv

(* Both contexts are consistent, and no GetFrame call runs but that of the *)
(* caller who reads a frame.                                               *)
THEOREM ContextsStayConsistent ==
    ASSUME SingleTypes, DatagramSizes
    PROVE  SessionSpec => []ContextsInv
BY ContextsInitInv, ContextsStepInv, PTL DEF SessionSpec

(* With strays among the packets: no NAL unit size is read away from a     *)
(* boundary or in another packet.                                          *)
THEOREM CursorStaysInPacket ==
    ASSUME SingleTypes, DatagramSizes
    PROVE  SessionSpec => []CursorInPacket
<1>1. ContextsInv => CursorInPacket
    BY Zenon DEF ContextsInv, Reader!IInv, Reader!CursorInPacket, CursorInPacket,
        Receiver!CursorInPacket, Receiver!CurrentPacket, Reader!CurrentPacket,
        Receiver!UnitOffsets, Reader!UnitOffsets, Receiver!AP_PACKET_TYPE,
        Reader!AP_PACKET_TYPE, Receiver!AP_HEADER_SIZE, Reader!AP_HEADER_SIZE,
        Receiver!AP_NALU_LENGTH_FIELD_SIZE, Reader!AP_NALU_LENGTH_FIELD_SIZE
<1> QED BY <1>1, ContextsStayConsistent, PTL

(* With strays among the packets: an OK from GetFrame means the whole      *)
(* frame, with the length returned.                                        *)
THEOREM OkMeansComplete ==
    ASSUME SingleTypes, DatagramSizes
    PROVE  SessionSpec => OkFrameIsComplete
<1> DEFINE P == ~Receiver!Idle /\ Receiver!Idle' /\ rResult' = "OK" =>
        /\ packetCount' = 0
        /\ \A i \in DOMAIN frame' : frame'[i] # << >>
        /\ frameIndex' = Receiver!FrameLength(frame')
        /\ frameIndex' <= frameDataLength
<1>1. ContextsInv /\ [SessionNext]_sessionVars => [P]_(Receiver!vars)
    <2> SUFFICES ASSUME ContextsInv, [SessionNext]_sessionVars,
                        ~Receiver!Idle, Receiver!Idle', rResult' = "OK"
                 PROVE  /\ packetCount' = 0
                        /\ \A i \in DOMAIN frame' : frame'[i] # << >>
                        /\ frameIndex' = Receiver!FrameLength(frame')
                        /\ frameIndex' <= frameDataLength
        OBVIOUS
    <2>1. ~Reader!Idle /\ Reader!Idle'
        BY DEF Reader!Idle, Receiver!Idle
    <2>2. Reader!Next
        <3>1. [Reader!Next]_(Reader!vars)
            BY ReceiverSteps DEF ContextsInv
        <3>2. UNCHANGED Reader!vars => UNCHANGED frameDataLength
            BY DEF Reader!vars
        <3> QED BY <2>1, <3>1, <3>2 DEF Reader!Idle
    <2>3. /\ packetCount' = 0
          /\ \A i \in DOMAIN frame' : frame'[i] # << >>
          /\ frameIndex' = Reader!FrameLength(frame')
          /\ frameIndex' <= frameDataLength
        BY <2>1, <2>2, CallersAgree, Reader!StepOfOkFrame DEF ContextsInv
    <2>4. Reader!FrameLength(frame') = Receiver!FrameLength(frame')
        BY Zenon DEF Reader!FrameLength, Receiver!FrameLength, Reader!NaluLength,
            Receiver!NaluLength, Reader!STARTCODE_SIZE, Receiver!STARTCODE_SIZE
    <2> QED BY <2>3, <2>4
<1>2. SessionSpec => [][P]_(Receiver!vars)
    BY <1>1, ContextsStayConsistent, PTL DEF SessionSpec
<1> QED BY <1>2 DEF OkFrameIsComplete, Receiver!OkFrameIsComplete

-----------------------------------------------------------------------------
(* What the network delivers.                                              *)

(* Packet q begins where p ends, or behind it.                             *)
Before(p, q) ==
    LastOf(p) < FirstOf(q) \/ (LastOf(p) = FirstOf(q) /\ ToOf(p) <= FromOf(q))

(* The byte the sender has come to in the NAL unit at its tail.            *)
Done == fuPacketizationState.naluDataIndex

(* Packet q ends inside NAL unit u, at byte `at'.                          *)
EndsInside(q, u, at) == FirstOf(q) = u /\ LastOf(q) = u /\ ToOf(q) = at

(* What is sent lies before the sender's place, without a gap.             *)
StreamInv ==
    /\ \A p \in sent :
        LastOf(p) < tailIndex \/ (LastOf(p) = tailIndex /\ ToOf(p) <= Done)
    /\ \A p \in sent :
        FromOf(p) > NALU_HEADER_SIZE =>
            \E q \in sent : EndsInside(q, FirstOf(p), FromOf(p))
    /\ Done # 0 => \E q \in sent : EndsInside(q, tailIndex, Done)
    /\ \A u \in 0..(tailIndex - 1) :
        \E p \in sent :
            /\ FirstOf(p) <= u /\ u <= LastOf(p)
            /\ u = LastOf(p) => ToOf(p) = naluArray[u].len

(* The packet in slot i of the receiver's array, and the slots in use.     *)
Slot(i) == packetsArray[i]

InSlots == 0..(rHeadIndex - 1)

(* The receiver has strays and packets of the sender's, those in order.    *)
NetworkInv ==
    /\ \A i \in InSlots : IsStray(Slot(i)) \/ Slot(i) \in sent
    /\ \A i, j \in InSlots :
        i < j => IsStray(Slot(i)) \/ IsStray(Slot(j)) \/ Before(Slot(i), Slot(j))

(* The sender's place, as integers.                                        *)
LEMMA PlaceTypes ==
    ASSUME SenderInv
    PROVE  Done \in Nat /\ tailIndex \in Nat /\ headIndex \in Nat
BY DEF SenderInv, IInv, TypeOK, Done, FuStates

(* A packet that ends in the middle of a NAL unit is a fragment of it.     *)
LEMMA EndsEarly ==
    ASSUME IInv, NEW p, SentPacket(p), ToOf(p) # naluArray[LastOf(p)].len
    PROVE  SentFragment(p) /\ LastOf(p) = FirstOf(p)
<1>1. ~WholeRuns(p)
    BY WholeEnds
<1>2. SentFragment(p)
    BY <1>1 DEF SentPacket, SentSingle, SentAggregate
<1> QED BY <1>2, FragmentEnds

(* No packet ends before it begins.                                        *)
LEMMA ForwardRuns ==
    ASSUME IInv, NEW p, SentPacket(p), FirstOf(p) = LastOf(p)
    PROVE  FromOf(p) <= ToOf(p)
<1>1. CASE SentFragment(p)
    BY <1>1, FragmentEnds, SentTypes
<1>2. CASE ~SentFragment(p)
    <2>1. WholeRuns(p)
        BY <1>2 DEF SentPacket, SentSingle, SentAggregate
    <2> QED BY <2>1, WholeEnds, SentTypes
<1> QED BY <1>1, <1>2

(* The next packet begins where the sender has come to, and takes it on.   *)
LEMMA SenderMoves ==
    ASSUME DatagramSizes, SenderInv, StreamInv, SendPacket
    PROVE  /\ SentPacket(packet') /\ PassesOver(packet')
           /\ sent' = sent \cup {packet'}
           /\ naluArray' = naluArray /\ headIndex' = headIndex
           /\ \A q \in sent : Before(q, packet')
<1>1. /\ GetPacket /\ result' = "OK" /\ sent' = sent \cup {packet'}
    BY DEF SendPacket
<1>2. /\ SentPacket(packet') /\ PassesOver(packet')
      /\ naluArray' = naluArray /\ headIndex' = headIndex
    BY <1>1, FillsSentPacket DEF SenderInv
<1>3. PICK p : p = packet'
    OBVIOUS
<1>4. /\ FirstOf(p) = tailIndex /\ FromOf(p) \in Nat
      /\ FromOf(p) = Done \/ Done = 0
    BY <1>2, <1>3, SentTypes DEF PassesOver, Done, SenderInv
<1>5. ASSUME NEW q \in sent PROVE Before(q, p)
    <2>1. LastOf(q) \in Nat /\ ToOf(q) \in Nat
        BY SentTypes DEF SenderInv
    <2>2. LastOf(q) < tailIndex \/ (LastOf(q) = tailIndex /\ ToOf(q) <= Done)
        BY DEF StreamInv
    <2>3. Done <= FromOf(p)
        BY <1>4, PlaceTypes
    <2> QED BY <1>4, <2>1, <2>2, <2>3, PlaceTypes DEF Before
<1> QED BY <1>1, <1>2, <1>3, <1>5

(* What is sent stays without a gap.                                       *)
LEMMA SendStream ==
    ASSUME DatagramSizes, SenderInv, StreamInv, SendPacket
    PROVE  StreamInv'
<1>1. PICK p, t, d : p = packet' /\ t = tailIndex' /\ d = Done'
    OBVIOUS
<1>2. /\ SentPacket(p) /\ FirstOf(p) = tailIndex
      /\ FromOf(p) = Done \/ (FromOf(p) = NALU_HEADER_SIZE /\ Done = 0)
      /\ \/ ToOf(p) = naluArray[LastOf(p)].len /\ t = LastOf(p) + 1 /\ d = 0
         \/ ToOf(p) # naluArray[LastOf(p)].len /\ t = LastOf(p) /\ d = ToOf(p)
      /\ sent' = sent \cup {p} /\ naluArray' = naluArray
    BY <1>1, SenderMoves DEF PassesOver, Done
<1>3. /\ FirstOf(p) \in Nat /\ LastOf(p) \in Nat /\ FromOf(p) \in Nat /\ ToOf(p) \in Nat
      /\ FirstOf(p) <= LastOf(p)
      /\ Done \in Nat /\ tailIndex \in Nat
    BY <1>2, SentTypes, PlaceTypes DEF SenderInv
<1>4. ToOf(p) # naluArray[LastOf(p)].len =>
        LastOf(p) = FirstOf(p) /\ FromOf(p) <= ToOf(p)
    BY <1>2, EndsEarly, ForwardRuns DEF SenderInv
<1>5. \A q \in sent : LastOf(q) \in Nat /\ ToOf(q) \in Nat
    BY SentTypes DEF SenderInv
<1>6. \A q \in sent \cup {p} : LastOf(q) < t \/ (LastOf(q) = t /\ ToOf(q) <= d)
    <2>1. LastOf(p) < t \/ (LastOf(p) = t /\ ToOf(p) <= d)
        BY <1>2, <1>3
    <2>2. ASSUME NEW q \in sent PROVE LastOf(q) < t \/ (LastOf(q) = t /\ ToOf(q) <= d)
        <3>1. LastOf(q) < tailIndex \/ (LastOf(q) = tailIndex /\ ToOf(q) <= Done)
            BY DEF StreamInv
        <3>2. tailIndex < t \/ (tailIndex = t /\ Done <= d)
            BY <1>2, <1>3, <1>4
        <3>3. t \in Nat /\ d \in Nat
            BY <1>2, <1>3
        <3> QED BY <1>3, <1>5, <3>1, <3>2, <3>3
    <2> QED BY <2>1, <2>2
<1>7. \A q \in sent \cup {p} :
        FromOf(q) > NALU_HEADER_SIZE =>
            \E o \in sent \cup {p} : EndsInside(o, FirstOf(q), FromOf(q))
    <2>1. ASSUME FromOf(p) > NALU_HEADER_SIZE
          PROVE  \E o \in sent : EndsInside(o, FirstOf(p), FromOf(p))
        <3>1. FromOf(p) = Done /\ Done # 0
            BY <1>2, <1>3, <2>1 DEF NALU_HEADER_SIZE
        <3> QED BY <1>2, <3>1 DEF StreamInv
    <2> QED BY <2>1 DEF StreamInv
<1>8. d # 0 => \E q \in sent \cup {p} : EndsInside(q, t, d)
    BY <1>2, <1>4 DEF EndsInside
<1>9. \A u \in 0..(t - 1) :
        \E q \in sent \cup {p} :
            /\ FirstOf(q) <= u /\ u <= LastOf(q)
            /\ u = LastOf(q) => ToOf(q) = naluArray[u].len
    <2>1. ASSUME NEW u \in 0..(t - 1)
          PROVE  \E q \in sent \cup {p} :
                    /\ FirstOf(q) <= u /\ u <= LastOf(q)
                    /\ u = LastOf(q) => ToOf(q) = naluArray[u].len
        <3>1. CASE u < tailIndex
            <4>1. u \in 0..(tailIndex - 1)
                BY <1>3, <3>1
            <4> QED BY <4>1 DEF StreamInv
        <3>2. CASE u >= tailIndex
            <4>1. u \in Int /\ u <= t - 1 /\ t \in Nat
                BY <1>2, <1>3
            <4>2. t = LastOf(p) + 1 /\ ToOf(p) = naluArray[LastOf(p)].len
                BY <1>2, <1>3, <1>4, <3>2, <4>1
            <4>3. FirstOf(p) <= u /\ u <= LastOf(p)
                BY <1>2, <1>3, <3>2, <4>1, <4>2
            <4> QED BY <4>2, <4>3
        <3> QED BY <1>3, <3>1, <3>2
    <2> QED BY <2>1
<1> QED BY <1>1, <1>2, <1>6, <1>7, <1>8, <1>9, Zenon DEF StreamInv

(* A packet that arrives is stored behind the others, or refused.          *)
LEMMA ArrivalStored ==
    ASSUME Reader!IInv, NEW p, Arrives(p)
    PROVE  \/ UNCHANGED <<packetsArray, rHeadIndex>>
           \/ /\ rHeadIndex' = rHeadIndex + 1
              /\ packetsArray'[rHeadIndex] = p
              /\ \A i \in InSlots : packetsArray'[i] = packetsArray[i]
<1>1. /\ rHeadIndex \in Nat /\ rTailIndex \in Nat /\ packetCount \in Nat
      /\ rHeadIndex = rTailIndex + packetCount /\ rHeadIndex <= packetsArrayLength
      /\ DOMAIN packetsArray = 0..(packetsArrayLength - 1) /\ packetsArrayLength \in Nat
    BY DEF Reader!IInv, Reader!QueueTypes, Reader!QueueConsistent
<1>2. CASE UNCHANGED <<packetsArray, rHeadIndex>>
    BY <1>2
<1>3. CASE ~UNCHANGED <<packetsArray, rHeadIndex>>
    <2>1. /\ packetCount < packetsArrayLength
          /\ rTailIndex = 0 \/ rHeadIndex < packetsArrayLength
          /\ packetsArray' = [packetsArray EXCEPT ![rHeadIndex] = p]
          /\ rHeadIndex' = rHeadIndex + 1
        BY <1>3, Zenon DEF Arrives, Receiver!H265Depacketizer_AddPacket, Receiver!Refuse,
            Receiver!queue, Receiver!SlotFree
    <2>2. rHeadIndex \in DOMAIN packetsArray
        BY <1>1, <2>1
    <2>3. \A i \in InSlots : i \in DOMAIN packetsArray /\ i # rHeadIndex
        BY <1>1, <2>2 DEF InSlots
    <2> QED BY <2>1, <2>2, <2>3
<1> QED BY <1>2, <1>3

(* What the receiver has stays in order when a packet is stored.           *)
LEMMA StoredInOrder ==
    ASSUME NetworkInv, Reader!IInv, NEW p,
           \/ UNCHANGED <<packetsArray, rHeadIndex>>
           \/ /\ rHeadIndex' = rHeadIndex + 1
              /\ packetsArray'[rHeadIndex] = p
              /\ \A i \in InSlots : packetsArray'[i] = packetsArray[i],
           sent \subseteq sent',
           IsStray(p) \/ (p \in sent' /\ \A q \in sent : Before(q, p))
    PROVE  NetworkInv'
<1>1. PICK h, A : h = rHeadIndex' /\ A = packetsArray'
    OBVIOUS
<1>2. rHeadIndex \in Nat
    BY DEF Reader!IInv, Reader!QueueTypes
<1> DEFINE C(i, j) == IsStray(A[i]) \/ IsStray(A[j]) \/ Before(A[i], A[j])
<1>3. /\ \A i \in 0..(h - 1) : IsStray(A[i]) \/ A[i] \in sent'
      /\ \A i, j \in 0..(h - 1) : i < j => C(i, j)
    <2>1. CASE UNCHANGED <<packetsArray, rHeadIndex>>
        BY <1>1, <2>1 DEF NetworkInv, Slot, InSlots
    <2>2. CASE /\ rHeadIndex' = rHeadIndex + 1
               /\ packetsArray'[rHeadIndex] = p
               /\ \A i \in InSlots : packetsArray'[i] = packetsArray[i]
        <3>1. h = rHeadIndex + 1 /\ A[rHeadIndex] = p
            BY <1>1, <2>2
        <3>2. \A i \in InSlots : A[i] = packetsArray[i]
            BY <1>1, <2>2
        <3>3. \A i \in 0..(h - 1) : i \in InSlots \/ i = rHeadIndex
            BY <1>2, <3>1 DEF InSlots
        <3>4. \A i \in 0..(h - 1) : IsStray(A[i]) \/ A[i] \in sent'
            BY <3>1, <3>2, <3>3, Zenon DEF NetworkInv, Slot
        <3>5. ASSUME NEW i \in 0..(h - 1), NEW j \in 0..(h - 1), i < j PROVE C(i, j)
            <4>1. i \in InSlots
                BY <1>2, <3>1, <3>5 DEF InSlots
            <4>2. CASE j \in InSlots
                BY <3>2, <3>5, <4>1, <4>2 DEF NetworkInv, Slot
            <4>3. CASE j = rHeadIndex
                <5>1. A[j] = p /\ A[i] = packetsArray[i]
                    BY <3>1, <3>2, <4>1, <4>3
                <5>2. IsStray(A[i]) \/ A[i] \in sent
                    BY <4>1, <5>1 DEF NetworkInv, Slot
                <5> QED BY <5>1, <5>2
            <4> QED BY <3>3, <4>2, <4>3
        <3> QED BY <3>4, <3>5
    <2> QED BY <2>1, <2>2
<1> QED BY <1>1, <1>3, Zenon DEF NetworkInv, Slot, InSlots

(* The steps that change nothing of what was sent or received.             *)
LEMMA StreamKept ==
    ASSUME StreamInv, UNCHANGED <<naluArray, tailIndex, fuPacketizationState, sent>>
    PROVE  StreamInv'
BY DEF StreamInv, Done, EndsInside

(* The steps that change nothing of what was received.                     *)
LEMMA NetworkKept ==
    ASSUME NetworkInv, UNCHANGED <<packetsArray, rHeadIndex, sent>>
    PROVE  NetworkInv'
BY DEF NetworkInv, Slot, InSlots

(* Before anything is sent.                                                *)
LEMMA NothingSent ==
    ASSUME sent' = {}, tailIndex' = 0, fuPacketizationState'.naluDataIndex = 0
    PROVE  StreamInv'
<1>1. \A u : u \notin 0..(0 - 1)
    OBVIOUS
<1> QED BY <1>1 DEF StreamInv, Done

(* Before a fragment is sent.                                              *)
LEMMA NoneDone ==
    ASSUME IInv, currentlyProcessingPacket = "NONE"
    PROVE  Done = 0
BY DEF IInv, FuStateConsistent, ZeroFuState, Done

(* A step of the session keeps what is sent without a gap.                 *)
LEMMA StreamStepInv ==
    ASSUME DatagramSizes, ContextsInv, StreamInv, SessionNext \/ UNCHANGED sessionVars
    PROVE  StreamInv'
<1> USE DEF ContextsInv
<1>1. CASE AddFrame
    <2>1. /\ UNCHANGED session /\ stage = "adding"
        BY <1>1 DEF AddFrame
    <2>2. tailIndex' = tailIndex /\ fuPacketizationState' = fuPacketizationState
        BY <1>1, Zenon DEF AddFrame, H265Packetizer_AddFrame, Queue
    <2>3. /\ sent' = {} /\ tailIndex' = 0 /\ currentlyProcessingPacket = "NONE"
        BY <2>1, <2>2 DEF SenderInv, StageInv, session
    <2>4. fuPacketizationState'.naluDataIndex = 0
        BY <2>2, <2>3, NoneDone DEF Done, SenderInv
    <2> QED BY <2>3, <2>4, NothingSent
<1>2. CASE SendPacket
    BY <1>2, SendStream
<1>3. CASE StopSending
    <2>1. UNCHANGED <<sent, added, sending>>
        BY <1>3 DEF StopSending, GetPacket, H265Packetizer_GetPacket,
            PacketizeFragmentationUnitPacket, Refuse
    <2> QED BY <2>1, StreamKept DEF added, sending
<1>4. CASE StrayArrives \/ ReadNalu \/ ReadFrame \/ ReadFrameTurn \/ UNCHANGED sessionVars
    <2>1. UNCHANGED vars /\ sent' = sent
        BY <1>4, ReadingKeeps, Zenon DEF StrayArrives, sessionVars, session
    <2> QED BY <2>1, StreamKept DEF vars
<1>5. CASE NextFrame
    <2>1. PICK n \in ArrayLengths \ {0} : H265Packetizer_Init(n)
        BY <1>5 DEF NextFrame
    <2>2. /\ tailIndex' = 0 /\ fuPacketizationState' = ZeroFuState /\ sent' = {}
        BY <1>5, <2>1 DEF NextFrame, H265Packetizer_Init
    <2> QED BY <2>2, NothingSent DEF ZeroFuState
<1> QED BY <1>1, <1>2, <1>3, <1>4, <1>5 DEF SessionNext

(* A step of the session keeps what is received in order.                  *)
LEMMA NetworkStepInv ==
    ASSUME DatagramSizes, ContextsInv, StreamInv, NetworkInv,
           SessionNext \/ UNCHANGED sessionVars
    PROVE  NetworkInv'
<1> USE DEF ContextsInv
<1>1. CASE AddFrame \/ StopSending \/ UNCHANGED sessionVars
    <2>1. UNCHANGED <<packetsArray, rHeadIndex, sent>>
        BY <1>1, Zenon DEF AddFrame, StopSending, sessionVars, receiver, session
    <2> QED BY <2>1, NetworkKept
<1>2. CASE SendPacket
    <2>1. PICK p : p = packet'
        OBVIOUS
    <2>2. p \in sent' /\ sent \subseteq sent' /\ \A q \in sent : Before(q, p)
        BY <1>2, <2>1, SenderMoves
    <2>3. Arrives(p) \/ IsLost
        BY <1>2, <2>1 DEF SendPacket
    <2>4. CASE Arrives(p)
        BY <2>2, <2>4, ArrivalStored, StoredInOrder
    <2>5. CASE IsLost
        <3>1. UNCHANGED <<packetsArray, rHeadIndex>>
            BY <2>5 DEF IsLost, receiver
        <3> QED BY <2>2, <3>1, StoredInOrder
    <2> QED BY <2>3, <2>4, <2>5
<1>3. CASE StrayArrives
    <2>1. PICK p \in Strays : Arrives(p)
        BY <1>3 DEF StrayArrives
    <2>2. IsStray(p)
        BY StraysAssumption DEF IsStray
    <2>3. sent' = sent
        BY <1>3 DEF StrayArrives, session
    <2> QED BY <2>1, <2>2, <2>3, ArrivalStored, StoredInOrder
<1>4. CASE ReadNalu \/ ReadFrame \/ ReadFrameTurn
    BY <1>4, ReadingKeeps, NetworkKept
<1>5. CASE NextFrame
    <2>1. PICK n \in PacketArrayLengths \ {0} : Receiver!H265Depacketizer_Init(n)
        BY <1>5 DEF NextFrame
    <2>2. rHeadIndex' = 0
        BY <2>1 DEF Receiver!H265Depacketizer_Init
    <2>3. InSlots' = {}
        BY <2>2 DEF InSlots
    <2> QED BY <2>3 DEF NetworkInv
<1> QED BY <1>1, <1>2, <1>3, <1>4, <1>5 DEF SessionNext

(* Both contexts and what lies between them.                               *)
SessionInv == ContextsInv /\ StreamInv /\ NetworkInv

(* The invariant of the session holds initially.                           *)
LEMMA SessionInitInv == SessionInit => SessionInv
<1> SUFFICES ASSUME SessionInit PROVE SessionInv
    OBVIOUS
<1>1. ContextsInv
    BY ContextsInitInv
<1>2. sent = {} /\ tailIndex = 0 /\ Done = 0 /\ rHeadIndex = 0
    BY DEF SessionInit, Init, Receiver!Init, Done, ZeroFuState
<1>3. (\A u : u \notin 0..(0 - 1)) /\ InSlots = {}
    BY <1>2 DEF InSlots
<1>4. StreamInv
    BY <1>2, <1>3 DEF StreamInv
<1>5. NetworkInv
    BY <1>3 DEF NetworkInv
<1> QED BY <1>1, <1>4, <1>5 DEF SessionInv

(* A step of the session keeps the invariant.                              *)
LEMMA SessionStepInv ==
    ASSUME SingleTypes, DatagramSizes, SessionInv, [SessionNext]_sessionVars
    PROVE  SessionInv'
BY ContextsStepInv, StreamStepInv, NetworkStepInv DEF SessionInv

(* What was sent lies without a gap before the sender's place, and what    *)
(* the receiver has of it is in order, with strays in between.             *)
THEOREM SessionIsConsistent ==
    ASSUME SingleTypes, DatagramSizes
    PROVE  SessionSpec => []SessionInv
<1>1. SessionInv /\ [SessionNext]_sessionVars => SessionInv'
    BY SessionStepInv
<1> QED BY <1>1, SessionInitInv, PTL DEF SessionSpec

-----------------------------------------------------------------------------
(* NAL units that arrived.                                                 *)

(* Slot s has NAL unit u, all of it.                                       *)
WholeAt(u, s) ==
    /\ s \in InSlots /\ Slot(s) \in sent /\ ~IsFragment(Slot(s))
    /\ FirstOf(Slot(s)) <= u /\ u <= LastOf(Slot(s))

(* A fragment of NAL unit u that the sender made.                          *)
FragmentOf(u, p) == p \in sent /\ IsFragment(p) /\ FirstOf(p) = u

(* The slots from s to j have NAL unit u in fragments, all of it.          *)
FragmentsAt(u, s, j) ==
    /\ s \in InSlots /\ j \in InSlots /\ s <= j
    /\ \A i \in s..j : FragmentOf(u, Slot(i))
    /\ FromOf(Slot(s)) = NALU_HEADER_SIZE
    /\ \A i \in (s + 1)..j : FromOf(Slot(i)) = ToOf(Slot(i - 1))
    /\ ToOf(Slot(j)) = naluArray[u].len

(* Before slot s is a fragment that is not its NAL unit's last.            *)
BehindOpen(s) == s > 0 /\ IsFragment(Slot(s - 1)) /\ ~Slot(s - 1).fu.e

(* What is sent as no fragment is whole.                                   *)
LEMMA FragmentOrWhole ==
    ASSUME SingleTypes, IInv, NEW p, SentPacket(p)
    PROVE  /\ IsFragment(p) => SentFragment(p)
           /\ ~IsFragment(p) => WholeRuns(p) /\ (SentSingle(p) \/ SentAggregate(p))
<1>1. SentFragment(p) => IsFragment(p)
    BY FragmentEnds DEF IsFragment
<1>2. ~SentFragment(p) => WholeRuns(p) /\ (SentSingle(p) \/ SentAggregate(p))
    BY DEF SentPacket, SentSingle, SentAggregate
<1>3. SentAggregate(p) => ~IsFragment(p)
    BY DEF SentAggregate, IsFragment, AP_PACKET_TYPE, FU_PACKET_TYPE
<1>4. SentSingle(p) => ~IsFragment(p)
    <2>1. SUFFICES ASSUME SentSingle(p) PROVE ~IsFragment(p)
        OBVIOUS
    <2>2. FirstOf(p) \in FirstOf(p)..LastOf(p)
        BY SentTypes
    <2>3. naluArray[FirstOf(p)] \in Nalu
        BY <2>2, SentNalus
    <2>4. p.header = naluArray[FirstOf(p)].header
        BY <2>1 DEF SentSingle
    <2> QED BY <2>3, <2>4 DEF SingleTypes, IsFragment, FU_PACKET_TYPE,
            SINGLE_NALU_PACKET_TYPE_START, SINGLE_NALU_PACKET_TYPE_END
<1> QED BY <1>1, <1>2, <1>3, <1>4

(* The numbers of a fragment.                                              *)
LEMMA FragmentFacts ==
    ASSUME SingleTypes, SenderInv, NEW u, NEW p, FragmentOf(u, p)
    PROVE  /\ SentPacket(p) /\ SentFragment(p)
           /\ FirstOf(p) = u /\ LastOf(p) = u
           /\ u \in Nat /\ u < headIndex
           /\ FromOf(p) \in Nat /\ ToOf(p) \in Nat
           /\ 2 <= FromOf(p) /\ FromOf(p) < ToOf(p)
           /\ naluArray[u].len \in Nat /\ ToOf(p) <= naluArray[u].len
           /\ naluArray[u] \in Nalu
<1>1. SentPacket(p) /\ SentFragment(p) /\ IInv
    BY FragmentOrWhole DEF FragmentOf, SenderInv
<1>2. /\ FirstOf(p) = u /\ LastOf(p) = u
      /\ FromOf(p) \in Nat /\ ToOf(p) \in Nat
      /\ u \in Nat /\ u < headIndex
    BY <1>1, SentTypes, FragmentEnds DEF FragmentOf
<1>3. u \in FirstOf(p)..LastOf(p)
    BY <1>2
<1>4. naluArray[u] \in Nalu /\ naluArray[u].len \in Nat
    BY <1>1, <1>3, SentNalus
<1>5. /\ ToOf(p) = FromOf(p) + p.runs[1].len
      /\ p.runs[1].len \in Nat /\ p.runs[1].len >= 1
      /\ FromOf(p) >= 2 /\ ToOf(p) <= naluArray[u].len
    BY <1>1, <1>2, FragmentEnds
<1> QED BY <1>1, <1>2, <1>4, <1>5

(* The NAL units a packet carries are those from its first to its last.    *)
LEMMA CarriesRange ==
    ASSUME SenderInv, NEW p \in sent, NEW u \in Int
    PROVE  Carries(p, u) <=> FirstOf(p) <= u /\ u <= LastOf(p)
<1>1. SentPacket(p) /\ IInv
    BY DEF SenderInv
<1>2. /\ Len(p.runs) \in Nat /\ Len(p.runs) >= 1
      /\ FirstOf(p) \in Nat /\ LastOf(p) \in Nat
      /\ LastOf(p) = FirstOf(p) + Len(p.runs) - 1
    BY <1>1, SentTypes
<1>3. DOMAIN p.runs = 1..Len(p.runs)
    BY <1>1 DEF SentPacket, Packet
<1>4. \A i \in 1..Len(p.runs) : p.runs[i].nalu = FirstOf(p) + i - 1
    <2>1. CASE WholeRuns(p)
        BY <2>1 DEF WholeRuns
    <2>2. CASE ~WholeRuns(p)
        <3>1. Len(p.runs) = 1
            BY <1>1, <2>2 DEF SentPacket, SentSingle, SentFragment, SentAggregate
        <3>2. \A i \in 1..Len(p.runs) : i = 1
            BY <3>1
        <3> QED BY <1>2, <3>2 DEF FirstOf
    <2> QED BY <2>1, <2>2
<1>5. ASSUME FirstOf(p) <= u, u <= LastOf(p) PROVE Carries(p, u)
    <2>1. PICK i \in 1..Len(p.runs) : u = FirstOf(p) + i - 1
        <3>1. u - FirstOf(p) + 1 \in 1..Len(p.runs)
              /\ u = FirstOf(p) + (u - FirstOf(p) + 1) - 1
            BY <1>2, <1>5
        <3> QED BY <3>1
    <2> QED BY <1>3, <1>4, <2>1 DEF Carries
<1>6. ASSUME Carries(p, u) PROVE FirstOf(p) <= u /\ u <= LastOf(p)
    <2>1. PICK i \in 1..Len(p.runs) : u = FirstOf(p) + i - 1
        BY <1>3, <1>4, <1>6 DEF Carries
    <2> QED BY <1>2, <2>1
<1> QED BY <1>5, <1>6

(* A slot that carries a NAL unit has a packet of the sender's.            *)
LEMMA CarriedSlot ==
    ASSUME NetworkInv, NEW u \in Int, NEW i
    PROVE  i \in Slots(u) <=> i \in InSlots /\ Slot(i) \in sent /\ Carries(Slot(i), u)
<1>1. \A p : IsStray(p) => ~Carries(p, u)
    <2>1. SUFFICES ASSUME NEW p, p.runs = << >> PROVE DOMAIN p.runs = {}
        BY DEF IsStray, Carries
    <2> QED BY <2>1
<1> QED BY <1>1 DEF NetworkInv, Slots, InSlots, Slot

(* The slots of a fragmented NAL unit have its fragments in order.         *)
LEMMA FragmentOrder ==
    ASSUME SingleTypes, SenderInv, NetworkInv, NEW u, NEW i \in InSlots, NEW j \in InSlots,
           i < j, FragmentOf(u, Slot(i)), FragmentOf(u, Slot(j))
    PROVE  ToOf(Slot(i)) <= FromOf(Slot(j))
<1>1. Before(Slot(i), Slot(j))
    <2>1. ~IsStray(Slot(i)) /\ ~IsStray(Slot(j))
        BY FragmentFacts DEF SentPacket, IsStray
    <2> QED BY <2>1 DEF NetworkInv
<1>2. LastOf(Slot(i)) = u /\ FirstOf(Slot(j)) = u /\ u \in Nat
    BY FragmentFacts
<1> QED BY <1>1, <1>2 DEF Before

(* A NAL unit whose packets all arrived, in one piece, lies in slots of    *)
(* its own: the first of them is not behind an open fragment if none is.   *)
LEMMA FragmentsFound ==
    ASSUME SingleTypes, SenderInv, StreamInv, NetworkInv, rHeadIndex \in Nat,
           NEW u \in Nat, NEW j \in InSlots,
           FragmentOf(u, Slot(j)), ToOf(Slot(j)) = naluArray[u].len,
           PacketsOf(u) \subseteq Stored, ~Interrupted(u), ~BehindOpenFragment(u)
    PROVE  \E s \in InSlots : FragmentsAt(u, s, j) /\ ~BehindOpen(s)
<1>1. j \in Slots(u) /\ Slots(u) \subseteq InSlots /\ InSlots \subseteq Nat
    <2>1. Carries(Slot(j), u)
        BY FragmentFacts, CarriesRange DEF FragmentOf
    <2> QED BY <2>1, CarriedSlot DEF FragmentOf, InSlots
<1>2. PICK s \in Slots(u) : \A k \in Slots(u) : s <= k
    <2>1. Slots(u) \in SUBSET Nat /\ Slots(u) # {}
        BY <1>1
    <2> QED BY <2>1, Reader!Least
<1>3. s \in InSlots /\ s \in Nat /\ j \in Nat /\ s <= j /\ j <= rHeadIndex - 1
    BY <1>1, <1>2 DEF InSlots
<1>4. \A i \in s..j : i \in Slots(u) /\ i \in InSlots /\ i \in Nat
    <2>1. ASSUME NEW i \in s..j PROVE i \in Slots(u)
        <3>1. i \in 0..(rHeadIndex - 1) /\ i \in Int
            BY <1>3
        <3>2. i = s \/ i = j \/ (s < i /\ i < j)
            BY <1>3
        <3> QED BY <1>1, <1>2, <3>1, <3>2 DEF Interrupted
    <2> QED BY <1>1, <2>1
<1>5. \A q \in sent : FirstOf(q) = u /\ LastOf(q) = u =>
        \E k \in Slots(u) : s <= k /\ k \in InSlots /\ Slot(k) = q
    <2>1. SUFFICES ASSUME NEW q \in sent, FirstOf(q) = u, LastOf(q) = u
                   PROVE  \E k \in Slots(u) : s <= k /\ k \in InSlots /\ Slot(k) = q
        OBVIOUS
    <2>2. Carries(q, u)
        BY <2>1, CarriesRange
    <2>3. q \in Stored
        BY <2>2 DEF PacketsOf
    <2>4. PICK k \in InSlots : Slot(k) = q
        BY <2>3 DEF Stored, InSlots, Slot
    <2>5. k \in Slots(u)
        BY <2>2, <2>4, CarriedSlot
    <2> QED BY <1>2, <2>4, <2>5
<1>6. \A i \in s..j : FragmentOf(u, Slot(i))
    <2>1. SUFFICES ASSUME NEW i \in s..j PROVE FragmentOf(u, Slot(i))
        OBVIOUS
    <2>2. Slot(i) \in sent /\ Carries(Slot(i), u) /\ i \in InSlots /\ i \in Nat /\ i <= j
        BY <1>3, <1>4, CarriedSlot
    <2>3. FirstOf(Slot(i)) <= u /\ u <= LastOf(Slot(i)) /\ SentPacket(Slot(i)) /\ IInv
        BY <2>2, CarriesRange DEF SenderInv
    <2>4. CASE i = j
        BY <2>4
    <2>5. CASE i # j
        <3>1. ~IsStray(Slot(i)) /\ ~IsStray(Slot(j))
            BY <2>3, FragmentFacts DEF SentPacket, IsStray
        <3>2. Before(Slot(i), Slot(j))
            BY <1>3, <2>2, <2>5, <3>1 DEF NetworkInv
        <3>3. /\ FirstOf(Slot(j)) = u /\ FromOf(Slot(j)) \in Nat /\ ToOf(Slot(j)) \in Nat
              /\ FromOf(Slot(j)) < ToOf(Slot(j)) /\ ToOf(Slot(j)) <= naluArray[u].len
              /\ naluArray[u].len \in Nat
            BY FragmentFacts
        <3>4. LastOf(Slot(i)) \in Nat /\ FirstOf(Slot(i)) \in Nat /\ ToOf(Slot(i)) \in Nat
            BY <2>3, SentTypes
        <3>5. LastOf(Slot(i)) = u /\ ToOf(Slot(i)) <= FromOf(Slot(j))
            BY <2>3, <3>2, <3>3, <3>4 DEF Before
        <3>6. ToOf(Slot(i)) # naluArray[LastOf(Slot(i))].len
            BY <3>3, <3>4, <3>5
        <3>7. SentFragment(Slot(i)) /\ LastOf(Slot(i)) = FirstOf(Slot(i))
            BY <2>3, <3>6, EndsEarly
        <3>8. IsFragment(Slot(i))
            BY <2>3, <3>7, FragmentEnds DEF IsFragment
        <3> QED BY <2>2, <3>5, <3>7, <3>8 DEF FragmentOf
    <2> QED BY <2>4, <2>5
<1>7. \A i \in s..j : FromOf(Slot(i)) > 2 =>
        \E k \in InSlots : /\ s <= k /\ k < i /\ FragmentOf(u, Slot(k))
                           /\ ToOf(Slot(k)) = FromOf(Slot(i))
    <2>1. SUFFICES ASSUME NEW i \in s..j, FromOf(Slot(i)) > 2
                   PROVE  \E k \in InSlots :
                            /\ s <= k /\ k < i /\ FragmentOf(u, Slot(k))
                            /\ ToOf(Slot(k)) = FromOf(Slot(i))
        OBVIOUS
    <2>2. FragmentOf(u, Slot(i)) /\ i \in InSlots /\ i \in Nat /\ i <= j
        BY <1>3, <1>4, <1>6
    <2>3. PICK q \in sent : EndsInside(q, u, FromOf(Slot(i)))
        BY <2>1, <2>2 DEF StreamInv, FragmentOf, NALU_HEADER_SIZE
    <2>4. PICK k \in Slots(u) : s <= k /\ k \in InSlots /\ Slot(k) = q
        BY <1>5, <2>3 DEF EndsInside
    <2>5. /\ FromOf(Slot(i)) \in Nat /\ ToOf(Slot(i)) \in Nat
          /\ FromOf(Slot(i)) < ToOf(Slot(i))
          /\ ToOf(Slot(i)) <= naluArray[u].len /\ naluArray[u].len \in Nat
        BY <2>2, FragmentFacts
    <2>6. ToOf(q) # naluArray[LastOf(q)].len
        BY <2>3, <2>5 DEF EndsInside
    <2>7. FragmentOf(u, q)
        <3>1. SentPacket(q) /\ IInv
            BY DEF SenderInv
        <3>2. SentFragment(q)
            BY <2>6, <3>1, EndsEarly
        <3>3. IsFragment(q)
            BY <3>1, <3>2, FragmentEnds DEF IsFragment
        <3> QED BY <2>3, <3>3 DEF EndsInside, FragmentOf
    <2>8. k < i
        <3>1. k \in Nat
            BY <1>1
        <3>2. CASE k = i
            BY <2>3, <2>4, <2>5, <3>2 DEF EndsInside
        <3>3. CASE i < k
            <4>1. ToOf(Slot(i)) <= FromOf(Slot(k))
                BY <2>2, <2>4, <2>7, <3>3, FragmentOrder
            <4>2. FromOf(q) < ToOf(q) /\ FromOf(q) \in Nat /\ ToOf(q) \in Nat
                BY <2>7, FragmentFacts
            <4> QED BY <2>3, <2>4, <2>5, <4>1, <4>2 DEF EndsInside
        <3> QED BY <2>2, <3>1, <3>2, <3>3
    <2> QED BY <2>3, <2>4, <2>7, <2>8 DEF EndsInside
<1>8. FromOf(Slot(s)) = NALU_HEADER_SIZE
    <2>1. s \in s..j
        BY <1>3
    <2>2. FromOf(Slot(s)) \in Nat /\ 2 <= FromOf(Slot(s))
        BY <1>6, <2>1, FragmentFacts
    <2>3. ~(FromOf(Slot(s)) > 2)
        BY <1>1, <1>3, <1>7, <2>1
    <2> QED BY <2>2, <2>3 DEF NALU_HEADER_SIZE
<1>9. \A i \in (s + 1)..j : FromOf(Slot(i)) = ToOf(Slot(i - 1))
    <2>1. SUFFICES ASSUME NEW i \in (s + 1)..j PROVE FromOf(Slot(i)) = ToOf(Slot(i - 1))
        OBVIOUS
    <2>2. i \in s..j /\ i - 1 \in s..j /\ i \in Nat /\ i - 1 \in Nat
        BY <1>3
    <2>3. /\ FragmentOf(u, Slot(i)) /\ FragmentOf(u, Slot(i - 1))
          /\ i \in InSlots /\ i - 1 \in InSlots
        BY <1>4, <1>6, <2>2
    <2>4. ToOf(Slot(i - 1)) <= FromOf(Slot(i))
        <3>1. i - 1 < i
            BY <2>2
        <3> QED BY <2>3, <3>1, FragmentOrder
    <2>5. /\ FromOf(Slot(i - 1)) \in Nat /\ ToOf(Slot(i - 1)) \in Nat
          /\ FromOf(Slot(i - 1)) < ToOf(Slot(i - 1))
          /\ 2 <= FromOf(Slot(i - 1)) /\ FromOf(Slot(i)) \in Nat
        BY <2>3, FragmentFacts
    <2>6. FromOf(Slot(i)) > 2
        BY <2>4, <2>5
    <2>7. PICK k \in InSlots : /\ s <= k /\ k < i /\ FragmentOf(u, Slot(k))
                               /\ ToOf(Slot(k)) = FromOf(Slot(i))
        BY <1>7, <2>2, <2>6
    <2>8. CASE k < i - 1
        <3>1. ToOf(Slot(k)) <= FromOf(Slot(i - 1))
            BY <2>3, <2>7, <2>8, FragmentOrder
        <3> QED BY <2>4, <2>5, <2>7, <3>1
    <2>9. CASE k = i - 1
        BY <2>7, <2>9
    <2>10. k \in Nat
        BY <1>1
    <2> QED BY <2>2, <2>7, <2>8, <2>9, <2>10
<1>10. ~BehindOpen(s)
    <2>1. SUFFICES ASSUME s > 0, IsFragment(Slot(s - 1)), ~Slot(s - 1).fu.e PROVE FALSE
        BY DEF BehindOpen
    <2>2. s - 1 \notin Slots(u)
        BY <1>2, <1>3
    <2>3. IsFragment(Slot(s))
        <3>1. s \in s..j
            BY <1>3
        <3> QED BY <1>6, <3>1 DEF FragmentOf
    <2> QED BY <2>1, <2>2, <2>3 DEF BehindOpenFragment, Slot
<1>11. FragmentsAt(u, s, j)
    BY <1>3, <1>6, <1>8, <1>9 DEF FragmentsAt
<1> QED BY <1>3, <1>10, <1>11

(* A NAL unit whose packets arrived uninterrupted lies whole in a packet,  *)
(* or in consecutive slots with its fragments.                             *)
LEMMA UnitExists ==
    ASSUME SingleTypes, SenderInv, StreamInv, NetworkInv, rHeadIndex \in Nat,
           tailIndex = headIndex, NEW u \in 0..(headIndex - 1),
           PacketsOf(u) \subseteq Stored, ~Interrupted(u), ~BehindOpenFragment(u)
    PROVE  \/ \E s \in InSlots : WholeAt(u, s)
           \/ \E s, j \in InSlots : FragmentsAt(u, s, j) /\ ~BehindOpen(s)
<1>1. u \in Nat
    OBVIOUS
<1>2. PICK p \in sent :
        /\ FirstOf(p) <= u /\ u <= LastOf(p)
        /\ u = LastOf(p) => ToOf(p) = naluArray[u].len
    BY DEF StreamInv
<1>3. Carries(p, u)
    BY <1>1, <1>2, CarriesRange
<1>4. PICK j \in InSlots : Slot(j) = p
    BY <1>2, <1>3 DEF PacketsOf, Stored, InSlots, Slot
<1>5. CASE ~IsFragment(p)
    BY <1>2, <1>4, <1>5 DEF WholeAt
<1>6. CASE IsFragment(p)
    <2>1. SentPacket(p) /\ IInv
        BY DEF SenderInv
    <2>2. SentFragment(p)
        BY <1>6, <2>1, FragmentOrWhole
    <2>3. FirstOf(p) = LastOf(p) /\ FirstOf(p) \in Nat
        BY <2>1, <2>2, FragmentEnds, SentTypes
    <2>4. FirstOf(p) = u /\ LastOf(p) = u
        BY <1>1, <1>2, <2>3
    <2>5. FragmentOf(u, p) /\ ToOf(p) = naluArray[u].len
        BY <1>2, <1>6, <2>4 DEF FragmentOf
    <2> QED BY <1>1, <1>4, <2>5, FragmentsFound
<1> QED BY <1>5, <1>6

-----------------------------------------------------------------------------
(* What is read is intact.                                                 *)

(* The offsets of the NAL units in an aggregation packet.                  *)
OffsetsOf(p) == CHOOSE l : OffsetsIn(p, l)

(* An aggregation packet has such offsets.                                 *)
LEMMA OffsetsChosen ==
    ASSUME NEW p, SentAggregate(p)
    PROVE  OffsetsIn(p, OffsetsOf(p))
BY DEF SentAggregate, OffsetsOf

(* The first k + 1 of offsets l, which grow.                               *)
UpToOffset(l, k) == {l[i] : i \in 0..k}

Increasing(l, n) ==
    /\ \A i \in 0..n : l[i] \in Nat
    /\ \A i, j \in 0..n : i < j => l[i] < l[j]

(* As many sizes lie at or before an offset as NAL units come up to it.    *)
LEMMA CountOffsets ==
    ASSUME NEW n \in Nat, NEW l, Increasing(l, n), NEW k \in 0..n
    PROVE  Cardinality(UpToOffset(l, k)) = k + 1
<1> USE DEF Increasing
<1> DEFINE T(m) == {l[i] : i \in 0..m}
           S == {m \in 0..n : IsFiniteSet(T(m)) /\ Cardinality(T(m)) = m + 1}
<1>1. 0 \in S
    <2>1. T(0) = {l[0]}
        OBVIOUS
    <2>2. IsFiniteSet({l[0]}) /\ Cardinality({l[0]}) = 1
        BY FS_Singleton
    <2> QED BY <2>1, <2>2
<1>2. ASSUME NEW m \in 1..n, m - 1 \in S PROVE m \in S
    <2>1. IsFiniteSet(T(m - 1)) /\ Cardinality(T(m - 1)) = m
        <3>1. IsFiniteSet(T(m - 1)) /\ Cardinality(T(m - 1)) = m - 1 + 1
            BY <1>2
        <3>2. m - 1 + 1 = m
            OBVIOUS
        <3> QED BY <3>1, <3>2
    <2>2. T(m) = T(m - 1) \cup {l[m]}
        <3>1. \A i \in 0..m : i \in 0..(m - 1) \/ i = m
            OBVIOUS
        <3>2. (\A i \in 0..(m - 1) : i \in 0..m) /\ m \in 0..m
            OBVIOUS
        <3> QED BY <3>1, <3>2, Zenon
    <2>3. l[m] \notin T(m - 1)
        <3>1. \A i \in 0..(m - 1) : l[i] < l[m] /\ l[i] \in Nat
            OBVIOUS
        <3>2. l[m] \in Nat
            OBVIOUS
        <3> QED BY <3>1, <3>2
    <2> HIDE DEF T
    <2>4. IsFiniteSet(T(m)) /\ Cardinality(T(m)) = m + 1
        BY <2>1, <2>2, <2>3, FS_AddElement
    <2> QED BY <2>4
<1>3. \A m \in 0..n : m \in S
    <2> HIDE DEF S
    <2> QED BY <1>1, <1>2, Reader!UpTo
<1> QED BY <1>3 DEF UpToOffset

(* A NAL unit of its own packet, read from it.                             *)
LEMMA SingleIntact ==
    ASSUME SingleTypes, SenderInv, NEW s, NEW p, p = Slot(s), SentPacket(p), SentSingle(p),
           NEW pieces, pieces = <<Receiver!Bytes(s, 0, p.packetDataLength)>>
    PROVE  Intact(pieces, FirstOf(p))
<1>1. /\ Len(p.runs) = 1 /\ p.sizes = NoSizes /\ WholeRuns(p)
      /\ p.packetDataLength = naluArray[FirstOf(p)].len
    BY DEF SentSingle
<1>2. ~IsFragment(p) /\ ~IsStray(p)
    <2>1. ~IsStray(p)
        BY DEF SentPacket, IsStray
    <2>2. ~IsFragment(p)
        <3>1. FirstOf(p) \in FirstOf(p)..LastOf(p) /\ IInv
            BY SentTypes DEF SenderInv
        <3>2. naluArray[FirstOf(p)] \in Nalu
            BY <3>1, SentNalus
        <3> QED BY <3>2 DEF SentSingle, SingleTypes, IsFragment, FU_PACKET_TYPE,
                SINGLE_NALU_PACKET_TYPE_START, SINGLE_NALU_PACKET_TYPE_END
    <2> QED BY <2>1, <2>2
<1>3. naluArray[FirstOf(p)].len \in Nat
    <2>1. FirstOf(p) \in FirstOf(p)..LastOf(p) /\ IInv
        BY SentTypes DEF SenderInv
    <2> QED BY <2>1, SentNalus
<1>4. Len(pieces) = 1 /\ pieces[1] = Receiver!Bytes(s, 0, p.packetDataLength)
    OBVIOUS
<1>5. RunOf(pieces[1]) = Run(FirstOf(p), 0, naluArray[FirstOf(p)].len)
    <2>1. /\ pieces[1].slot = s /\ ~pieces[1].header /\ pieces[1].from = 0
          /\ pieces[1].len = naluArray[FirstOf(p)].len
        BY <1>1, <1>4 DEF Receiver!Bytes
    <2>2. packetsArray[s] = p
        BY DEF Slot
    <2> QED BY <1>1, <1>2, <2>1, <2>2, Zenon DEF RunOf, FirstOf
<1>6. HeaderOf(pieces) = naluArray[FirstOf(p)].header
    BY <1>4, <1>5 DEF HeaderOf, Receiver!Bytes, Run
<1>7. /\ \A i \in 1..Len(pieces) : RunOf(pieces[i]).nalu = FirstOf(p)
      /\ \A i \in 1..(Len(pieces) - 1) : FALSE
      /\ RunOf(pieces[1]).from = 0
      /\ RunOf(pieces[Len(pieces)]).from + RunOf(pieces[Len(pieces)]).len
            = naluArray[FirstOf(p)].len
    BY <1>3, <1>4, <1>5 DEF Run
<1> QED BY <1>4, <1>6, <1>7 DEF Intact

(* A NAL unit of an aggregation packet, read at its offset.                *)
LEMMA AggregateIntact ==
    ASSUME SingleTypes, SenderInv, NEW s, NEW p, p = Slot(s), SentPacket(p),
           SentAggregate(p), NEW l, OffsetsIn(p, l), NEW k \in 0..(Len(p.runs) - 1),
           NEW pieces,
           pieces = <<Receiver!Bytes(s, l[k] + AP_NALU_LENGTH_FIELD_SIZE, p.sizes[l[k]])>>
    PROVE  /\ Intact(pieces, FirstOf(p) + k)
           /\ p.sizes[l[k]] = naluArray[FirstOf(p) + k].len
<1> DEFINE n == Len(p.runs)
           u == FirstOf(p) + k
<1>1. /\ n \in Nat /\ n >= 1 /\ FirstOf(p) \in Nat /\ LastOf(p) = FirstOf(p) + n - 1 /\ IInv
    BY SentTypes DEF SenderInv
<1>2. k \in Nat /\ k + 1 \in 1..n /\ k + 1 - 1 = k /\ k \in 0..n
    BY <1>1
<1>3. /\ l[k] \in DOMAIN p.sizes /\ p.sizes[l[k]] = p.runs[k + 1].len
      /\ \A at \in DOMAIN p.sizes : \E i \in 1..n : at = l[i - 1]
    <2>1. \A i \in 1..n : l[i - 1] \in DOMAIN p.sizes /\ p.sizes[l[i - 1]] = p.runs[i].len
        BY DEF OffsetsIn
    <2>2. l[k + 1 - 1] \in DOMAIN p.sizes /\ p.sizes[l[k + 1 - 1]] = p.runs[k + 1].len
        BY <1>2, <2>1
    <2>3. \A at \in DOMAIN p.sizes : \E i \in 1..n : at = l[i - 1]
        BY DEF OffsetsIn
    <2> QED BY <1>2, <2>2, <2>3
<1>4. /\ \A i \in 0..n : l[i] \in Nat
      /\ \A i, j \in 0..n : i < j => l[i] < l[j]
      /\ \A i, j \in 0..n : i <= j => l[i] <= l[j]
    BY <1>1, OffsetsFacts
<1>5. p.runs[k + 1].nalu = u /\ p.runs[k + 1].len = naluArray[u].len
    <2>1. /\ p.runs[k + 1].nalu = FirstOf(p) + (k + 1) - 1
          /\ p.runs[k + 1].len = naluArray[FirstOf(p) + (k + 1) - 1].len
        BY <1>2 DEF SentAggregate, WholeRuns
    <2>2. FirstOf(p) + (k + 1) - 1 = u
        BY <1>1, <1>2
    <2> QED BY <2>1, <2>2
<1>6. naluArray[u].len \in Nat
    <2>1. u \in FirstOf(p)..LastOf(p)
        BY <1>1, <1>2
    <2> QED BY <1>1, <2>1, SentNalus
<1>7. {a \in DOMAIN p.sizes : a <= l[k]} = {l[i] : i \in 0..k}
    <2>1. ASSUME NEW a \in DOMAIN p.sizes, a <= l[k] PROVE \E i \in 0..k : a = l[i]
        <3>1. PICK i \in 1..n : a = l[i - 1]
            BY <1>3
        <3>2. i - 1 \in 0..n /\ i - 1 \in Nat
            BY <1>1
        <3>3. ~(k < i - 1)
            <4>1. l[k] \in Nat /\ l[i - 1] \in Nat
                BY <1>2, <1>4, <3>2
            <4> QED BY <1>2, <1>4, <2>1, <3>1, <3>2, <4>1
        <3>4. i - 1 \in 0..k
            BY <1>2, <3>2, <3>3
        <3> QED BY <3>1, <3>4
    <2>2. ASSUME NEW i \in 0..k PROVE l[i] \in DOMAIN p.sizes /\ l[i] <= l[k]
        <3>1. i + 1 \in 1..n /\ i + 1 - 1 = i /\ i \in 0..n /\ i <= k
            BY <1>1, <1>2
        <3>2. l[i + 1 - 1] \in DOMAIN p.sizes
            BY <3>1 DEF OffsetsIn
        <3> QED BY <1>2, <1>4, <3>1, <3>2
    <2> QED BY <2>1, <2>2, Zenon
<1>8. Cardinality({a \in DOMAIN p.sizes : a <= l[k]}) = k + 1
    <2>1. Increasing(l, n)
        BY <1>4 DEF Increasing
    <2>2. Cardinality(UpToOffset(l, k)) = k + 1
        BY <1>1, <1>2, <2>1, CountOffsets
    <2> QED BY <1>7, <2>2 DEF UpToOffset
<1>9. ~IsFragment(p) /\ ~IsStray(p) /\ p.sizes # NoSizes
    <2>1. ~IsStray(p)
        BY DEF SentPacket, IsStray
    <2>2. ~IsFragment(p)
        BY DEF SentAggregate, IsFragment, AP_PACKET_TYPE, FU_PACKET_TYPE
    <2>3. DOMAIN NoSizes = {}
        BY DEF NoSizes
    <2>4. p.sizes # NoSizes
        BY <1>3, <2>3
    <2> QED BY <2>1, <2>2, <2>4
<1> HIDE DEF n, u
<1>10. /\ Len(pieces) = 1
       /\ pieces[1] = Receiver!Bytes(s, l[k] + AP_NALU_LENGTH_FIELD_SIZE, p.sizes[l[k]])
    OBVIOUS
<1>11. RunOf(pieces[1]) = Run(u, 0, naluArray[u].len)
    <2>1. /\ pieces[1].slot = s /\ ~pieces[1].header
          /\ pieces[1].from = l[k] + AP_NALU_LENGTH_FIELD_SIZE
          /\ pieces[1].len = naluArray[u].len
        BY <1>3, <1>5, <1>10 DEF Receiver!Bytes
    <2>2. packetsArray[s] = p
        BY DEF Slot
    <2>3. pieces[1].from - AP_NALU_LENGTH_FIELD_SIZE = l[k]
        <3>1. l[k] \in Nat
            BY <1>2, <1>4
        <3> QED BY <2>1, <3>1 DEF AP_NALU_LENGTH_FIELD_SIZE
    <2>4. RunOf(pieces[1]) = Run(p.runs[k + 1].nalu, 0, pieces[1].len)
        BY <1>3, <1>8, <1>9, <2>1, <2>2, <2>3, Zenon DEF RunOf
    <2> QED BY <1>5, <2>1, <2>4
<1>12. HeaderOf(pieces) = naluArray[u].header
    BY <1>10, <1>11 DEF HeaderOf, Receiver!Bytes, Run
<1>13. /\ \A i \in 1..Len(pieces) : RunOf(pieces[i]).nalu = u
       /\ \A i \in 1..(Len(pieces) - 1) : FALSE
       /\ RunOf(pieces[1]).from = 0
       /\ RunOf(pieces[Len(pieces)]).from + RunOf(pieces[Len(pieces)]).len
            = naluArray[u].len
    BY <1>6, <1>10, <1>11 DEF Run
<1>14. Intact(pieces, u)
    BY <1>10, <1>12, <1>13 DEF Intact
<1> QED BY <1>3, <1>5, <1>14 DEF u

(* A header restated and the payloads of all its fragments make up a NAL   *)
(* unit intact.                                                            *)
LEMMA FragmentsIntact ==
    ASSUME SingleTypes, SenderInv, rHeadIndex \in Nat,
           NEW u, NEW s, NEW j, FragmentsAt(u, s, j),
           rTailIndex = s, NEW pieces, Reader!HeaderAndPayloads(pieces, j - s + 1)
    PROVE  Intact(pieces, u)
<1> DEFINE n == j - s + 1
           p == [i \in 1..n |-> Slot(s + i - 1)]
<1>1. /\ s \in Nat /\ j \in Nat /\ s <= j
      /\ FromOf(Slot(s)) = 2
      /\ ToOf(Slot(j)) = naluArray[u].len
    BY DEF FragmentsAt, InSlots, NALU_HEADER_SIZE
<1>2. n \in Nat /\ n >= 1 /\ s + n - 1 = j /\ s + 1 - 1 = s
    BY <1>1
<1> HIDE DEF n
<1>3. /\ Len(pieces) = n + 1
      /\ pieces[1] = Receiver!RestatedHeader(s)
      /\ \A i \in 1..n :
            pieces[i + 1] = Receiver!Bytes(s + i - 1, 3, p[i].packetDataLength - 3)
    <2>1. Reader!FuHeadersSize = 3
        BY DEF Reader!FuHeadersSize, Reader!FU_PAYLOAD_HEADER_SIZE, Reader!FU_HEADER_SIZE
    <2> QED BY <2>1, Zenon DEF Reader!HeaderAndPayloads, Reader!RestatedHeader,
            Receiver!RestatedHeader, Reader!Bytes, Receiver!Bytes, Reader!Fragment, n,
            Reader!NALU_HEADER_SIZE, Receiver!NALU_HEADER_SIZE, Slot
<1>4. ASSUME NEW i \in 1..n
      PROVE  /\ FragmentOf(u, p[i]) /\ p[i].runs[1].nalu = u /\ ~IsStray(p[i])
             /\ FromOf(p[i]) \in Nat /\ p[i].runs[1].len \in Nat
             /\ ToOf(p[i]) = FromOf(p[i]) + p[i].runs[1].len
             /\ p[i].packetDataLength - 3 = p[i].runs[1].len
    <2>1. s + i - 1 \in s..j
        BY <1>1, <1>2
    <2>2. FragmentOf(u, p[i])
        BY <2>1 DEF FragmentsAt
    <2> HIDE DEF p
    <2>3. SentPacket(p[i]) /\ SentFragment(p[i]) /\ FirstOf(p[i]) = u /\ IInv
          /\ FromOf(p[i]) \in Nat
        BY <2>2, FragmentFacts DEF SenderInv
    <2>4. /\ ToOf(p[i]) = FromOf(p[i]) + p[i].runs[1].len
          /\ p[i].runs[1].len \in Nat
          /\ p[i].packetDataLength = p[i].runs[1].len + 3
        BY <2>3, FragmentEnds
    <2>5. ~IsStray(p[i])
        BY <2>3 DEF SentPacket, IsStray
    <2> QED BY <2>2, <2>3, <2>4, <2>5 DEF FirstOf
<1>5. p[1] = Slot(s) /\ p[n] = Slot(j)
    BY <1>2
<1>6. FromOf(p[1]) = 2
    BY <1>1, <1>5
<1>7. ASSUME NEW i \in 2..n PROVE FromOf(p[i]) = ToOf(p[i - 1])
    <2>1. PICK k \in (s + 1)..j : k = s + i - 1 /\ k - 1 = s + (i - 1) - 1
        BY <1>1, <1>2
    <2>2. p[i] = Slot(k) /\ p[i - 1] = Slot(k - 1)
        <3>1. i \in 1..n /\ i - 1 \in 1..n
            BY <1>2
        <3> QED BY <2>1, <3>1
    <2>3. FromOf(Slot(k)) = ToOf(Slot(k - 1))
        BY <2>1 DEF FragmentsAt
    <2> QED BY <2>2, <2>3, Zenon
<1>8. /\ p[1].header = FuPayloadHeader(naluArray[u].header)
      /\ p[1].fu.type = naluArray[u].header.type /\ naluArray[u].header \in Header
    <2>1. 1 \in 1..n
        BY <1>2
    <2>2. FragmentOf(u, p[1])
        BY <1>4, <2>1
    <2> HIDE DEF p
    <2>3. SentFragment(p[1]) /\ naluArray[u] \in Nalu /\ FirstOf(p[1]) = u
        BY <2>2, FragmentFacts
    <2> QED BY <2>3, NaluAssumption DEF SentFragment
<1>9. RunOf(pieces[1]) = Run(u, 0, 2)
    <2>1. /\ pieces[1].slot = s /\ pieces[1].header /\ pieces[1].len = 2
        BY <1>3 DEF Receiver!RestatedHeader, Receiver!NALU_HEADER_SIZE
    <2>2. packetsArray[s] = p[1]
        BY <1>5 DEF Slot
    <2>3. 1 \in 1..n
        BY <1>2
    <2>4. ~IsStray(p[1]) /\ p[1].runs[1].nalu = u
        BY <1>4, <2>3
    <2> HIDE DEF p
    <2> QED BY <2>1, <2>2, <2>4, Zenon DEF RunOf
<1>10. ASSUME NEW i \in 1..n
       PROVE  /\ RunOf(pieces[i + 1]).nalu = u
              /\ RunOf(pieces[i + 1]).from = FromOf(p[i])
              /\ RunOf(pieces[i + 1]).from + RunOf(pieces[i + 1]).len = ToOf(p[i])
    <2>1. FuHeadersSize = 3
        BY DEF FuHeadersSize, FU_PAYLOAD_HEADER_SIZE, FU_HEADER_SIZE
    <2>2. pieces[i + 1] = Receiver!Bytes(s + i - 1, 3, p[i].runs[1].len)
        BY <1>3, <1>4
    <2>3. packetsArray[s + i - 1] = p[i]
        BY DEF Slot
    <2> HIDE DEF p
    <2>4. ~IsStray(p[i]) /\ IsFragment(p[i]) /\ p[i].runs[1].nalu = u
        BY <1>4 DEF FragmentOf
    <2>5. RunOf(pieces[i + 1]) = Run(u, p[i].runs[1].from + 3 - 3, p[i].runs[1].len)
        <3>1. /\ pieces[i + 1].slot = s + i - 1 /\ ~pieces[i + 1].header
              /\ pieces[i + 1].from = 3 /\ pieces[i + 1].len = p[i].runs[1].len
            BY <2>2 DEF Receiver!Bytes
        <3> QED BY <2>1, <2>3, <2>4, <3>1, Zenon DEF RunOf
    <2>6. p[i].runs[1].from + 3 - 3 = FromOf(p[i])
        BY <1>4 DEF FromOf
    <2> QED BY <1>4, <2>5, <2>6 DEF Run
<1>11. [HeaderOf(pieces) EXCEPT !.layerId = 0] = [naluArray[u].header EXCEPT !.layerId = 0]
    <2> DEFINE h == naluArray[u].header
               h0 == [f |-> h.f, type |-> h.type, layerId |-> 0, tid |-> h.tid]
               b == [f |-> p[1].header.f, type |-> p[1].fu.type,
                     layerId |-> p[1].header.layerId % 32, tid |-> p[1].header.tid]
    <2>1. HeaderOf(pieces) = b
        <3>1. pieces[1].header /\ packetsArray[pieces[1].slot] = p[1]
            BY <1>3, <1>5 DEF Receiver!RestatedHeader, Slot
        <3> HIDE DEF p
        <3> QED BY <3>1 DEF HeaderOf, Receiver!RestatedHeaderBytes
    <2> HIDE DEF p
    <2>2. /\ p[1].header.f = h.f /\ p[1].header.tid = h.tid /\ p[1].fu.type = h.type
        BY <1>8 DEF FuPayloadHeader
    <2>3. [b EXCEPT !.layerId = 0] = h0
        BY <2>2
    <2>4. [h EXCEPT !.layerId = 0] = h0
        BY <1>8 DEF Header
    <2> HIDE DEF h, h0, b
    <2> QED BY <2>1, <2>3, <2>4 DEF h
<1> HIDE DEF p
<1>12. \A i \in 1..(n + 1) : RunOf(pieces[i]).nalu = u
    <2> TAKE i \in 1..(n + 1)
    <2>1. CASE i = 1
        BY <1>9, <2>1 DEF Run
    <2>2. CASE i # 1
        <3>1. i - 1 \in 1..n /\ i - 1 + 1 = i
            BY <1>2, <2>2
        <3> QED BY <1>10, <3>1
    <2> QED BY <2>1, <2>2
<1>13. \A i \in 1..(n + 1 - 1) :
        RunOf(pieces[i + 1]).from = RunOf(pieces[i]).from + RunOf(pieces[i]).len
    <2> TAKE i \in 1..(n + 1 - 1)
    <2>1. i \in 1..n
        BY <1>2
    <2>2. RunOf(pieces[i + 1]).from = FromOf(p[i])
        BY <1>10, <2>1
    <2>3. CASE i = 1
        BY <1>6, <1>9, <2>2, <2>3 DEF Run
    <2>4. CASE i # 1
        <3>1. i \in 2..n /\ i - 1 \in 1..n /\ i - 1 + 1 = i
            BY <1>2, <2>1, <2>4
        <3>2. RunOf(pieces[i]).from + RunOf(pieces[i]).len = ToOf(p[i - 1])
            BY <1>10, <3>1
        <3> QED BY <1>7, <2>2, <3>1, <3>2
    <2> QED BY <2>3, <2>4
<1>14. RunOf(pieces[n + 1]).from + RunOf(pieces[n + 1]).len = naluArray[u].len
    <2>1. n \in 1..n
        BY <1>2
    <2> QED BY <1>1, <1>5, <1>10, <2>1
<1>15. RunOf(pieces[1]).from = 0
    BY <1>9 DEF Run
<1> QED BY <1>2, <1>3, <1>11, <1>12, <1>13, <1>14, <1>15 DEF Intact

-----------------------------------------------------------------------------
(* What a turn of the receiver's reads.                                    *)

(* Where NAL unit u of packet p is read: the receiver's curPacketIndex.    *)
OffsetOf(p, u) == IF Len(p.runs) = 1 THEN 0 ELSE OffsetsOf(p)[u - FirstOf(p)]

(* The receiver reads NAL unit u next, from slot s.                        *)
ReadsNext(u, s) ==
    /\ WholeAt(u, s) /\ rTailIndex = s
    /\ \/ curPacketIndex = OffsetOf(Slot(s), u)
       \/ curPacketIndex = 0 /\ u = FirstOf(Slot(s))

(* The receiver's numbers.                                                 *)
LEMMA TailFacts ==
    ASSUME SessionInv
    PROVE  /\ rHeadIndex \in Nat /\ rTailIndex \in Nat /\ packetCount \in Nat
           /\ rHeadIndex = rTailIndex + packetCount
           /\ tailIndex \in Nat /\ headIndex \in Nat
           /\ curPacketIndex \in Nat
           /\ SenderInv /\ IInv /\ Reader!IInv
           /\ ~IsSending => bufferSize \in Nat
<1>1. ~IsSending => bufferSize \in Nat
    BY ReceiverAssumption DEF SessionInv, ContextsInv, StageInv
<1> QED BY <1>1 DEF SessionInv, ContextsInv, Reader!IInv, Reader!QueueTypes,
        Reader!QueueConsistent, SenderInv, IInv, TypeOK

(* The NAL units of a packet that is no fragment.                          *)
LEMMA WholeFacts ==
    ASSUME SingleTypes, IInv, NEW p, SentPacket(p), ~IsFragment(p)
    PROVE  /\ WholeRuns(p)
           /\ SentSingle(p) \/ SentAggregate(p)
           /\ SentSingle(p) => Len(p.runs) = 1 /\ FirstOf(p) = LastOf(p)
           /\ SentAggregate(p) => Len(p.runs) # 1
           /\ FirstOf(p) \in Nat /\ LastOf(p) \in Nat /\ FirstOf(p) <= LastOf(p)
           /\ \A u \in FirstOf(p)..LastOf(p) :
                /\ u \in Nat /\ u < headIndex
                /\ naluArray[u] \in Nalu /\ naluArray[u].len \in Nat
<1>1. WholeRuns(p) /\ (SentSingle(p) \/ SentAggregate(p))
    BY FragmentOrWhole
<1>2. /\ FirstOf(p) \in Nat /\ LastOf(p) \in Nat /\ LastOf(p) < headIndex
      /\ LastOf(p) = FirstOf(p) + Len(p.runs) - 1
      /\ Len(p.runs) \in Nat /\ Len(p.runs) >= 1
    BY SentTypes
<1>3. headIndex \in Nat
    BY DEF IInv, TypeOK
<1>4. \A u \in FirstOf(p)..LastOf(p) :
        /\ u \in Nat /\ u < headIndex
        /\ naluArray[u] \in Nalu /\ naluArray[u].len \in Nat
    BY <1>2, <1>3, SentNalus
<1>5. SentSingle(p) => Len(p.runs) = 1 /\ FirstOf(p) = LastOf(p)
    BY <1>2 DEF SentSingle
<1>6. SentAggregate(p) => Len(p.runs) # 1
    <2>1. SUFFICES ASSUME SentAggregate(p) PROVE Len(p.runs) # 1
        OBVIOUS
    <2>2. Len(p.runs) > 1
        BY <2>1, Zenon DEF SentAggregate
    <2>3. \A n \in Nat : n > 1 => n # 1
        OBVIOUS
    <2> QED BY <1>2, <2>2, <2>3, Zenon
<1>7. FirstOf(p) <= LastOf(p)
    BY <1>2
<1> QED BY <1>1, <1>2, <1>4, <1>5, <1>6, <1>7, Zenon

(* The NAL units of a packet lie one behind the other.                     *)
LEMMA OffsetFacts ==
    ASSUME SingleTypes, IInv, NEW p, SentPacket(p), ~IsFragment(p)
    PROVE  /\ \A u \in FirstOf(p)..LastOf(p) : OffsetOf(p, u) \in Nat
           /\ \A u, v \in FirstOf(p)..LastOf(p) :
                u < v => OffsetOf(p, u) < OffsetOf(p, v)
<1>1. /\ FirstOf(p) \in Nat /\ LastOf(p) \in Nat
      /\ LastOf(p) = FirstOf(p) + Len(p.runs) - 1
      /\ Len(p.runs) \in Nat /\ Len(p.runs) >= 1
    BY SentTypes
<1>2. CASE SentSingle(p)
    <2>1. Len(p.runs) = 1
        BY <1>2, WholeFacts
    <2> QED BY <1>1, <2>1 DEF OffsetOf
<1>3. CASE SentAggregate(p)
    <2>1. PICK l : l = OffsetsOf(p) /\ OffsetsIn(p, l)
        BY <1>3, OffsetsChosen
    <2>2. /\ \A i \in 0..Len(p.runs) : l[i] \in Nat
          /\ \A i, j \in 0..Len(p.runs) : i < j => l[i] < l[j]
        BY <2>1, OffsetsFacts
    <2>3. \A u : OffsetOf(p, u) = l[u - FirstOf(p)]
        BY <1>3, <2>1, WholeFacts DEF OffsetOf
    <2>4. \A u \in FirstOf(p)..LastOf(p) : u - FirstOf(p) \in 0..Len(p.runs)
        BY <1>1
    <2>5. \A u, v \in FirstOf(p)..LastOf(p) :
            u < v => u - FirstOf(p) < v - FirstOf(p)
        BY <1>1
    <2> QED BY <2>2, <2>3, <2>4, <2>5
<1> QED BY <1>2, <1>3, WholeFacts

(* The offset kept between calls is that of a NAL unit of the packet.      *)
LEMMA NextOfWhole ==
    ASSUME SingleTypes, SessionInv, packetCount # 0, NEW s, s = rTailIndex,
           Slot(s) \in sent, ~IsFragment(Slot(s))
    PROVE  \E v \in FirstOf(Slot(s))..LastOf(Slot(s)) : ReadsNext(v, s)
<1> DEFINE p == Slot(s)
<1>1. /\ SentPacket(p) /\ IInv /\ SenderInv /\ Reader!IInv
      /\ s \in InSlots /\ curPacketIndex \in Nat
    BY TailFacts DEF SenderInv, InSlots
<1>2. p = Reader!CurrentPacket
    BY DEF Slot, Reader!CurrentPacket
<1> HIDE DEF p
<1>3. /\ FirstOf(p) \in Nat /\ LastOf(p) \in Nat /\ FirstOf(p) <= LastOf(p)
      /\ LastOf(p) = FirstOf(p) + Len(p.runs) - 1
      /\ Len(p.runs) \in Nat /\ Len(p.runs) >= 1
    BY <1>1, SentTypes
<1>4. \A v \in FirstOf(p)..LastOf(p) : WholeAt(v, s)
    BY <1>1 DEF WholeAt, p
<1>5. CASE curPacketIndex = 0
    <2>1. FirstOf(p) \in FirstOf(p)..LastOf(p)
        BY <1>3
    <2> QED BY <1>4, <1>5, <2>1 DEF ReadsNext, p
<1>6. CASE curPacketIndex # 0
    <2>1. /\ p.header.type = Reader!AP_PACKET_TYPE
          /\ curPacketIndex < p.packetDataLength
          /\ curPacketIndex \in Reader!UnitOffsets(p)
        BY <1>1, <1>2, <1>6 DEF Reader!IInv, Reader!CursorInPacket
    <2>2. SentAggregate(p)
        <3>1. SUFFICES ASSUME SentSingle(p) PROVE FALSE
            BY <1>1, WholeFacts DEF p
        <3>2. FirstOf(p) \in FirstOf(p)..LastOf(p)
            BY <1>3
        <3>3. naluArray[FirstOf(p)] \in Nalu
            BY <1>1, <3>2, SentNalus
        <3> QED BY <2>1, <3>1, <3>3 DEF SentSingle, SingleTypes, Reader!AP_PACKET_TYPE,
                SINGLE_NALU_PACKET_TYPE_START, SINGLE_NALU_PACKET_TYPE_END
    <2>3. PICK l : l = OffsetsOf(p) /\ OffsetsIn(p, l)
        BY <2>2, OffsetsChosen
    <2>4. /\ \A i \in 0..Len(p.runs) : l[i] \in Nat
          /\ \A i \in 1..Len(p.runs) : l[i] = l[i - 1] + 2 + p.runs[i].len
          /\ l[0] = 2
        BY <1>1, <2>3, OffsetsFacts
    <2>5. \E k \in 0..Len(p.runs) : curPacketIndex = l[k]
        <3>1. CASE curPacketIndex = 2
            BY <1>3, <2>4, <3>1
        <3>2. CASE curPacketIndex # 2
            <4>1. PICK at \in DOMAIN p.sizes : curPacketIndex = at + 2 + p.sizes[at]
                BY <2>1, <3>2 DEF Reader!UnitOffsets, Reader!AP_HEADER_SIZE,
                    Reader!AP_NALU_LENGTH_FIELD_SIZE
            <4>2. PICK i \in 1..Len(p.runs) : at = l[i - 1]
                BY <2>3 DEF OffsetsIn
            <4>3. p.sizes[l[i - 1]] = p.runs[i].len
                BY <2>3 DEF OffsetsIn
            <4>4. curPacketIndex = l[i]
                BY <2>4, <4>1, <4>2, <4>3
            <4>5. i \in 0..Len(p.runs)
                BY <1>3
            <4> QED BY <4>4, <4>5
        <3> QED BY <3>1, <3>2
    <2>6. PICK k \in 0..Len(p.runs) : curPacketIndex = l[k]
        BY <2>5
    <2>7. k # Len(p.runs)
        BY <2>1, <2>3, <2>6 DEF OffsetsIn
    <2>8. PICK v : v \in FirstOf(p)..LastOf(p) /\ v - FirstOf(p) = k
        <3>1. PICK v : v = FirstOf(p) + k
            OBVIOUS
        <3>2. v \in FirstOf(p)..LastOf(p) /\ v - FirstOf(p) = k
            BY <1>3, <2>7, <3>1
        <3> QED BY <3>2
    <2>9. OffsetOf(p, v) = l[k]
        BY <1>1, <2>2, <2>3, <2>8, WholeFacts DEF OffsetOf, p
    <2> QED BY <1>4, <2>6, <2>8, <2>9 DEF ReadsNext, p
<1> QED BY <1>5, <1>6

(* After NAL unit u the receiver goes on in the packet or behind it.       *)
GoesOn(u, s) ==
    \/ u = LastOf(Slot(s)) /\ rTailIndex' = s + 1 /\ curPacketIndex' = 0
    \/ /\ u < LastOf(Slot(s)) /\ rTailIndex' = s
       /\ curPacketIndex' = OffsetOf(Slot(s), u + 1)

(* The NAL unit of a packet of one is read whole.                          *)
LEMMA SingleRead ==
    ASSUME SingleTypes, SessionInv, NEW u, NEW s, ReadsNext(u, s), SentSingle(Slot(s)),
           u \in Nat, NEW size \in Int, NEW r, Reader!DepacketizeCurrent(size, r),
           r = "OK" \/ naluArray[u].len <= size
    PROVE  /\ r = "OK" /\ Intact(nalu', u) /\ naluDataLength' = naluArray[u].len
           /\ GoesOn(u, s)
<1> DEFINE p == Slot(s)
<1>1. /\ SenderInv /\ IInv /\ SentPacket(p) /\ ~IsFragment(p) /\ s = rTailIndex
      /\ FirstOf(p) <= u /\ u <= LastOf(p)
    BY TailFacts DEF ReadsNext, WholeAt, SenderInv
<1>2. p = Reader!CurrentPacket
    BY <1>1 DEF Slot, Reader!CurrentPacket
<1> HIDE DEF p
<1>3. /\ Len(p.runs) = 1 /\ FirstOf(p) = LastOf(p) /\ FirstOf(p) \in Nat
    BY <1>1, WholeFacts DEF p
<1>4. u = FirstOf(p)
    <2>1. PICK f \in Nat : f = FirstOf(p) /\ f <= u /\ u <= f
        BY <1>1, <1>3
    <2> QED BY <2>1
<1>5. curPacketIndex = 0
    BY <1>3 DEF ReadsNext, OffsetOf, p
<1>6. /\ naluArray[u] \in Nalu /\ naluArray[u].len \in Nat
      /\ p.packetDataLength = naluArray[u].len /\ p.header = naluArray[u].header
    <2>1. u \in FirstOf(p)..LastOf(p)
        BY <1>3, <1>4
    <2> QED BY <1>1, <1>4, <2>1, SentNalus DEF SentSingle, p
<1>7. /\ p.header.type # Reader!FU_PACKET_TYPE /\ p.header.type # Reader!AP_PACKET_TYPE
      /\ Reader!SingleType(p.header.type)
    BY <1>6 DEF SingleTypes, Reader!FU_PACKET_TYPE, Reader!AP_PACKET_TYPE, Reader!SingleType,
        SINGLE_NALU_PACKET_TYPE_START, SINGLE_NALU_PACKET_TYPE_END,
        Reader!SINGLE_NALU_PACKET_TYPE_START, Reader!SINGLE_NALU_PACKET_TYPE_END
<1>8. Reader!DepacketizeSingleNaluPacket(size, r)
    BY <1>2, <1>7, Zenon DEF Reader!DepacketizeCurrent
<1>9. /\ r = "OK" /\ nalu' = <<Reader!Bytes(rTailIndex, 0, p.packetDataLength)>>
      /\ naluDataLength' = p.packetDataLength
      /\ rTailIndex' = rTailIndex + 1
      /\ curPacketIndex' = curPacketIndex
    <2>1. r # "OK" => p.packetDataLength > size
        BY <1>2, <1>8, Zenon DEF Reader!DepacketizeSingleNaluPacket
    <2>2. r = "OK"
        BY <1>6, <2>1
    <2> QED BY <1>2, <1>8, <2>2 DEF Reader!DepacketizeSingleNaluPacket, Reader!Consume
<1>10. nalu' = <<Receiver!Bytes(s, 0, p.packetDataLength)>>
    BY <1>1, <1>9, Zenon DEF Reader!Bytes, Receiver!Bytes
<1>11. Intact(nalu', u)
    <2>1. PICK pieces : pieces = nalu'
        OBVIOUS
    <2>2. SentSingle(p) /\ p = Slot(s)
        BY DEF p
    <2>3. Intact(pieces, FirstOf(p))
        BY <1>1, <1>10, <2>1, <2>2, SingleIntact
    <2> QED BY <1>4, <2>1, <2>3
<1>12. GoesOn(u, s)
    BY <1>1, <1>3, <1>4, <1>5, <1>9 DEF GoesOn, p
<1> QED BY <1>6, <1>9, <1>11, <1>12

(* A NAL unit of an aggregation packet is read whole.                      *)
LEMMA AggregateRead ==
    ASSUME SingleTypes, SessionInv, NEW u, NEW s, ReadsNext(u, s), SentAggregate(Slot(s)),
           u \in Nat, NEW size \in Int, NEW r, Reader!DepacketizeCurrent(size, r),
           r = "OK" \/ naluArray[u].len <= size
    PROVE  /\ r = "OK" /\ Intact(nalu', u) /\ naluDataLength' = naluArray[u].len
           /\ GoesOn(u, s)
<1> DEFINE p == Slot(s)
<1>1. /\ SenderInv /\ IInv /\ SentPacket(p) /\ ~IsFragment(p) /\ s = rTailIndex
      /\ FirstOf(p) <= u /\ u <= LastOf(p) /\ SentAggregate(p)
    BY TailFacts DEF ReadsNext, WholeAt, SenderInv
<1>2. p = Reader!CurrentPacket
    BY <1>1 DEF Slot, Reader!CurrentPacket
<1> HIDE DEF p
<1>3. /\ FirstOf(p) \in Nat /\ LastOf(p) \in Nat
      /\ LastOf(p) = FirstOf(p) + Len(p.runs) - 1
      /\ Len(p.runs) \in Nat /\ Len(p.runs) >= 1
    BY <1>1, SentTypes
<1>4. PICK l : l = OffsetsOf(p) /\ OffsetsIn(p, l)
    BY <1>1, OffsetsChosen
<1>5. PICK N \in Nat : N = Len(p.runs) /\ N >= 1
    BY <1>3
<1>6. /\ \A i \in 0..N : l[i] \in Nat /\ l[i] >= 2
      /\ \A i \in 1..N : l[i] = l[i - 1] + 2 + p.runs[i].len
      /\ \A i, j \in 0..N : i < j => l[i] < l[j]
      /\ \A i, j \in 0..N : i <= j => l[i] <= l[j]
      /\ l[0] = 2
    BY <1>1, <1>4, <1>5, OffsetsFacts
<1>7. PICK k : /\ k = u - FirstOf(p) /\ k \in Nat /\ k + 1 \in 1..N
               /\ k \in 0..(N - 1) /\ k \in 0..N
               /\ k + 1 \in 0..N /\ u = FirstOf(p) + k /\ k + 1 - 1 = k
    <2>1. PICK k : k = u - FirstOf(p)
        OBVIOUS
    <2>2. /\ k = u - FirstOf(p) /\ k \in Nat /\ k + 1 \in 1..N
          /\ k \in 0..(N - 1) /\ k \in 0..N
          /\ k + 1 \in 0..N /\ u = FirstOf(p) + k /\ k + 1 - 1 = k
        BY <1>1, <1>3, <1>5, <2>1
    <2> QED BY <2>2
<1>8. /\ OffsetOf(p, u) = l[k] /\ OffsetOf(p, u + 1) = l[k + 1]
    <2>1. Len(p.runs) # 1
        BY <1>1, WholeFacts
    <2>2. \A v : OffsetOf(p, v) = l[v - FirstOf(p)]
        BY <1>4, <2>1, Zenon DEF OffsetOf
    <2>3. u + 1 - FirstOf(p) = k + 1
        BY <1>3, <1>7
    <2>4. PICK v : v = u + 1
        OBVIOUS
    <2>6. v - FirstOf(p) = k + 1
        BY <1>3, <1>7, <2>4
    <2>5. OffsetOf(p, u) = l[u - FirstOf(p)] /\ OffsetOf(p, v) = l[v - FirstOf(p)]
        BY <2>2, Zenon
    <2> QED BY <1>7, <2>4, <2>5, <2>6, Zenon
<1> DEFINE at == IF curPacketIndex = 0 THEN Reader!AP_HEADER_SIZE ELSE curPacketIndex
<1>9. at = l[k]
    <2>1. curPacketIndex = l[k] \/ (curPacketIndex = 0 /\ u = FirstOf(p))
        BY <1>8 DEF ReadsNext, p
    <2>2. l[k] # 0
        BY <1>6, <1>7
    <2>3. CASE curPacketIndex = 0
        <3>1. k = 0
            BY <1>3, <1>7, <2>1, <2>2, <2>3
        <3> QED BY <1>6, <2>3, <3>1 DEF Reader!AP_HEADER_SIZE
    <2>4. CASE curPacketIndex # 0
        BY <2>1, <2>4
    <2> QED BY <2>3, <2>4
<1>10. /\ p.sizes[l[k]] = naluArray[u].len
      /\ naluArray[u].len \in Nat
      /\ l[k] + 2 + p.sizes[l[k]] = l[k + 1]
      /\ l[k + 1] <= p.packetDataLength
      /\ p.packetDataLength = l[N]
    <2>1. p.sizes[l[k]] = p.runs[k + 1].len /\ l[k + 1] = l[k] + 2 + p.runs[k + 1].len
        <3>1. PICK i \in 1..N : i = k + 1 /\ i - 1 = k
            BY <1>7
        <3>2. \A h \in 1..Len(p.runs) : p.sizes[l[h - 1]] = p.runs[h].len
            BY <1>4, Zenon DEF OffsetsIn
        <3>3. p.sizes[l[i - 1]] = p.runs[i].len /\ l[i] = l[i - 1] + 2 + p.runs[i].len
            BY <1>6, <1>5, <3>2
        <3> QED BY <3>1, <3>3, Zenon
    <2>2. p.runs[k + 1].len = naluArray[FirstOf(p) + (k + 1) - 1].len
        BY <1>1, <1>7, <1>5 DEF SentAggregate, WholeRuns
    <2>3. FirstOf(p) + (k + 1) - 1 = u
        BY <1>3, <1>7
    <2>4. p.packetDataLength = l[N]
        BY <1>4, <1>5 DEF OffsetsIn
    <2>5. l[k + 1] <= l[N]
        <3>1. N \in 0..N /\ k + 1 <= N
            BY <1>7
        <3> QED BY <1>6, <1>7, <3>1
    <2>6. naluArray[u].len \in Nat
        <3>1. u \in FirstOf(p)..LastOf(p)
            BY <1>1, <1>3
        <3> QED BY <1>1, <3>1, SentNalus
    <2> QED BY <1>7, <2>1, <2>2, <2>3, <2>4, <2>5, <2>6
<1>11. Reader!DepacketizeAggregationPacket(size, r)
    <2>1. p.header.type = Reader!AP_PACKET_TYPE
        BY <1>1 DEF SentAggregate, AP_PACKET_TYPE, Reader!AP_PACKET_TYPE
    <2>2. /\ ~Reader!SingleType(Reader!AP_PACKET_TYPE)
          /\ Reader!AP_PACKET_TYPE # Reader!FU_PACKET_TYPE
        BY DEF Reader!FU_PACKET_TYPE, Reader!AP_PACKET_TYPE, Reader!SingleType,
            Reader!SINGLE_NALU_PACKET_TYPE_START, Reader!SINGLE_NALU_PACKET_TYPE_END
    <2> QED BY <1>2, <2>1, <2>2, Zenon DEF Reader!DepacketizeCurrent
<1> HIDE DEF at
<1> DEFINE data == at + Reader!AP_NALU_LENGTH_FIELD_SIZE
           n == p.sizes[at]
<1>12. /\ data = l[k] + 2 /\ n = naluArray[u].len /\ data + n = l[k + 1]
       /\ ~(data > p.packetDataLength) /\ ~(data + n > p.packetDataLength)
       /\ n \in Nat
    <2>1. data = l[k] + 2 /\ n = p.sizes[l[k]]
        BY <1>9 DEF Reader!AP_NALU_LENGTH_FIELD_SIZE
    <2>2. l[k] \in Nat /\ l[k + 1] \in Nat /\ l[N] \in Nat
        <3>1. N \in 0..N
            OBVIOUS
        <3> QED BY <1>6, <1>7, <3>1
    <2> HIDE DEF data, n
    <2> QED BY <1>10, <2>1, <2>2
<1>13. /\ \/ n <= size /\ r = "OK" /\ nalu' = <<Reader!Bytes(rTailIndex, data, n)>>
          \/ n > size /\ r = "OUT_OF_MEMORY"
       /\ naluDataLength' = n
       /\ Reader!MoveTo(data + n)
    <2> HIDE DEF data, n
    <2>1. /\ data = at + Reader!AP_NALU_LENGTH_FIELD_SIZE
          /\ n = Reader!CurrentPacket.sizes[at]
          /\ at = IF curPacketIndex = 0 THEN Reader!AP_HEADER_SIZE ELSE curPacketIndex
          /\ ~(data > Reader!CurrentPacket.packetDataLength)
          /\ ~(data + n > Reader!CurrentPacket.packetDataLength)
        BY <1>2, <1>12, Zenon DEF data, n, at
    <2> QED BY <1>11, <2>1, Zenon DEF Reader!DepacketizeAggregationPacket
<1> HIDE DEF data, n
<1>14. r = "OK"
    <2>1. ~(r = "OK") => n <= size /\ n > size
        BY <1>12, <1>13
    <2>2. ~(n <= size /\ n > size)
        BY <1>12
    <2> QED BY <2>1, <2>2
<1>15. nalu' = <<Receiver!Bytes(s, l[k] + AP_NALU_LENGTH_FIELD_SIZE, p.sizes[l[k]])>>
    <2>1. nalu' = <<Reader!Bytes(rTailIndex, data, n)>>
        BY <1>13, <1>14
    <2>2. /\ data = l[k] + AP_NALU_LENGTH_FIELD_SIZE /\ n = p.sizes[l[k]]
          /\ rTailIndex = s
        BY <1>1, <1>10, <1>12 DEF AP_NALU_LENGTH_FIELD_SIZE
    <2> QED BY <2>1, <2>2, Zenon DEF Reader!Bytes, Receiver!Bytes
<1>16. Intact(nalu', u)
    <2>1. PICK pieces : pieces = nalu'
        OBVIOUS
    <2>2. p = Slot(s) /\ k \in 0..(Len(p.runs) - 1)
        BY <1>7, <1>5 DEF p
    <2>3. Intact(pieces, FirstOf(p) + k)
        BY <1>1, <1>4, <1>7, <1>15, <2>1, <2>2, AggregateIntact
    <2> QED BY <1>7, <2>1, <2>3
<1>17. GoesOn(u, s)
    <2>1. /\ data + n = l[k + 1] /\ l[k + 1] \in Nat /\ p.packetDataLength = l[N]
          /\ l[N] \in Nat
        <3>1. N \in 0..N
            OBVIOUS
        <3> HIDE DEF at
        <3>2. l[k + 1] \in Nat /\ l[N] \in Nat
            BY <1>6, <1>7, <3>1
        <3> QED BY <1>10, <1>12, <3>2
    <2>2. CASE k + 1 = N
        <3>1. data + n >= Reader!CurrentPacket.packetDataLength
            BY <1>2, <2>1, <2>2
        <3>2. ~(data + n < Reader!CurrentPacket.packetDataLength)
            BY <1>2, <2>1, <2>2
        <3>3. curPacketIndex' = 0 /\ rTailIndex' = rTailIndex + 1
            BY <1>13, <3>1, <3>2, Zenon DEF Reader!MoveTo, Reader!Consume
        <3>4. u = LastOf(p)
            BY <1>3, <1>7, <1>5, <2>2
        <3> QED BY <1>1, <3>3, <3>4 DEF GoesOn, p
    <2>3. CASE k + 1 # N
        <3>1. l[k + 1] < l[N]
            <4>1. k + 1 < N /\ N \in 0..N
                BY <1>7, <2>3
            <4> QED BY <1>6, <1>7, <4>1
        <3>2. ~(data + n >= Reader!CurrentPacket.packetDataLength)
            BY <1>2, <2>1, <3>1
        <3>3. curPacketIndex' = data + n /\ rTailIndex' = rTailIndex
            BY <1>13, <3>2, Zenon DEF Reader!MoveTo
        <3>4. u < LastOf(p)
            BY <1>3, <1>7, <1>5, <2>3
        <3> QED BY <1>1, <1>8, <2>1, <3>3, <3>4 DEF GoesOn, p
    <2> QED BY <2>2, <2>3
<1> QED BY <1>12, <1>13, <1>14, <1>16, <1>17

(* The NAL unit that is next in a packet is read intact into a buffer that *)
(* takes it, and with success into no other.                               *)
LEMMA WholeRead ==
    ASSUME SingleTypes, SessionInv, NEW u, NEW s, ReadsNext(u, s),
           u \in Nat, NEW size \in Int, NEW r, Reader!DepacketizeCurrent(size, r),
           r = "OK" \/ naluArray[u].len <= size
    PROVE  /\ r = "OK" /\ Intact(nalu', u) /\ naluDataLength' = naluArray[u].len
           /\ GoesOn(u, s)
<1>1. IInv /\ SentPacket(Slot(s)) /\ ~IsFragment(Slot(s))
    BY TailFacts DEF ReadsNext, WholeAt, SenderInv
<1>2. SentSingle(Slot(s)) \/ SentAggregate(Slot(s))
    BY <1>1, FragmentOrWhole
<1> QED BY <1>2, SingleRead, AggregateRead

(* The fragments of a NAL unit that arrived are what the depacketizer      *)
(* takes for one.                                                          *)
LEMMA UnitFragments ==
    ASSUME SingleTypes, SessionInv, NEW u, NEW s, NEW j, FragmentsAt(u, s, j),
           rTailIndex = s, NEW n, n = j - s + 1
    PROVE  /\ n \in 1..packetCount
           /\ Reader!FragmentsOfUnit(n)
           /\ \A i \in 1..n : Reader!AssembledLength[i] <= naluArray[u].len
           /\ Reader!AssembledLength[n] = naluArray[u].len
           /\ naluArray[u].len \in Nat
<1> DEFINE p == [i \in 1..n |-> Slot(s + i - 1)]
           end == [i \in 1..n |-> ToOf(p[i])]
<1>1. /\ s \in Nat /\ j \in Nat /\ s <= j /\ j <= rHeadIndex - 1
      /\ FromOf(Slot(s)) = 2
      /\ ToOf(Slot(j)) = naluArray[u].len
      /\ rHeadIndex \in Nat
    BY TailFacts DEF FragmentsAt, InSlots, NALU_HEADER_SIZE
<1>2. /\ n \in Nat /\ n >= 1 /\ s + n - 1 = j /\ s + 1 - 1 = s
      /\ n \in 1..packetCount
      /\ rHeadIndex \in Nat /\ packetCount \in Nat
    BY <1>1, TailFacts
<1>3. ASSUME NEW i \in 1..n
      PROVE  /\ Reader!Fragment(i) = p[i] /\ FragmentOf(u, p[i])
             /\ SentPacket(p[i]) /\ SentFragment(p[i]) /\ IInv
             /\ FromOf(p[i]) \in Nat /\ ToOf(p[i]) \in Nat /\ FromOf(p[i]) < ToOf(p[i])
             /\ 2 <= FromOf(p[i])
             /\ FirstOf(p[i]) = u
             /\ naluArray[u].len \in Nat /\ ToOf(p[i]) <= naluArray[u].len
    <2>1. s + i - 1 \in s..j
        BY <1>1, <1>2
    <2>2. FragmentOf(u, p[i])
        BY <2>1 DEF FragmentsAt
    <2>3. Reader!Fragment(i) = p[i]
        BY DEF Reader!Fragment, Slot
    <2> HIDE DEF p
    <2>4. IInv /\ SenderInv
        BY TailFacts
    <2> QED BY <2>2, <2>3, <2>4, FragmentFacts
<1>4. ASSUME NEW i \in 1..n
      PROVE  /\ p[i].header.type = FU_PACKET_TYPE
             /\ p[i].packetDataLength = p[i].runs[1].len + 3
             /\ p[i].runs[1].len \in Nat
             /\ ToOf(p[i]) = FromOf(p[i]) + p[i].runs[1].len
             /\ p[i].fu.s <=> FromOf(p[i]) = 2
             /\ p[i].fu.e <=> ToOf(p[i]) = naluArray[u].len
    <2> HIDE DEF p
    <2> QED BY <1>3, FragmentEnds
<1>5. p[1] = Slot(s) /\ p[n] = Slot(j)
    BY <1>2
<1>6. FromOf(p[1]) = 2
    BY <1>1, <1>5
<1>7. ASSUME NEW i \in 2..n PROVE FromOf(p[i]) = ToOf(p[i - 1])
    <2>1. PICK k \in (s + 1)..j : k = s + i - 1 /\ k - 1 = s + (i - 1) - 1
        BY <1>1, <1>2
    <2>2. p[i] = Slot(k) /\ p[i - 1] = Slot(k - 1)
        <3>1. i \in 1..n /\ i - 1 \in 1..n
            BY <1>2
        <3> QED BY <2>1, <3>1
    <2>3. FromOf(Slot(k)) = ToOf(Slot(k - 1))
        BY <2>1 DEF FragmentsAt
    <2> QED BY <2>2, <2>3, Zenon
<1>8. \A i \in 1..n : end[i] = ToOf(p[i])
    OBVIOUS
<1> HIDE DEF p, end
(* Only the first begins the NAL unit, and only the last ends it.          *)
<1>9. \A i \in 1..n : p[i].fu.s <=> i = 1
    <2> TAKE i \in 1..n
    <2>1. CASE i = 1
        BY <1>4, <1>6, <2>1
    <2>2. CASE i # 1
        <3>1. i \in 2..n /\ i - 1 \in 1..n
            BY <1>2, <2>2
        <3>2. FromOf(p[i]) # 2
            BY <1>3, <1>7, <3>1
        <3> QED BY <1>4, <2>2, <3>2
    <2> QED BY <2>1, <2>2
<1>10. \A i \in 1..n : p[i].fu.e <=> i = n
    <2> TAKE i \in 1..n
    <2>1. CASE i = n
        BY <1>1, <1>4, <1>5, <2>1
    <2>2. CASE i # n
        <3>1. PICK k \in 2..n : k = i + 1 /\ k - 1 = i /\ k \in 1..n
            BY <1>2, <2>2
        <3>2. FromOf(p[k]) = ToOf(p[i])
            BY <1>7, <3>1
        <3>3. ToOf(p[i]) # naluArray[u].len
            BY <1>3, <3>1, <3>2
        <3> QED BY <1>4, <2>2, <3>3
    <2> QED BY <2>1, <2>2
<1>11. Reader!FuHeadersSize = 3
    BY DEF Reader!FuHeadersSize, Reader!FU_PAYLOAD_HEADER_SIZE, Reader!FU_HEADER_SIZE
<1>12. Reader!FragmentsOfUnit(n)
    <2>1. \A i \in 1..n : Reader!IsFragment(i)
        <3> TAKE i \in 1..n
        <3>1. p[i].packetDataLength >= 3
            BY <1>4
        <3>2. p[i].header.type = Reader!FU_PACKET_TYPE
            BY <1>4 DEF FU_PACKET_TYPE, Reader!FU_PACKET_TYPE
        <3> QED BY <1>3, <1>11, <3>1, <3>2 DEF Reader!IsFragment
    <2>2. \A i \in 1..n : Reader!Fragment(i).fu.s <=> i = 1
        BY <1>3, <1>9
    <2>3. \A i \in 1..n : Reader!Fragment(i).fu.e <=> i = n
        BY <1>3, <1>10
    <2> QED BY <2>1, <2>2, <2>3, Zenon DEF Reader!FragmentsOfUnit
<1>13. end[1] = Reader!NALU_HEADER_SIZE
                + (Reader!Fragment(1).packetDataLength - Reader!FuHeadersSize)
    <2>1. 1 \in 1..n
        BY <1>2
    <2> QED BY <1>3, <1>4, <1>6, <1>8, <1>11, <2>1 DEF Reader!NALU_HEADER_SIZE
<1>14. \A i \in 2..n :
        end[i] = end[i - 1]
                    + (Reader!Fragment(i).packetDataLength - Reader!FuHeadersSize)
    <2> TAKE i \in 2..n
    <2>1. i \in 1..n /\ i - 1 \in 1..n
        BY <1>2
    <2> QED BY <1>3, <1>4, <1>7, <1>8, <1>11, <2>1
<1>15. \A i \in 1..n : Reader!AssembledLength[i] = end[i]
    BY <1>2, <1>12, <1>13, <1>14, CallersAgree, TailFacts, Reader!LengthOfUnit
<1>16. \A i \in 1..n : Reader!AssembledLength[i] <= naluArray[u].len
    BY <1>3, <1>8, <1>15
<1>17. Reader!AssembledLength[n] = naluArray[u].len /\ naluArray[u].len \in Nat
    <2>1. n \in 1..n
        BY <1>2
    <2> QED BY <1>1, <1>3, <1>5, <1>8, <1>15, <2>1
<1> QED BY <1>2, <1>12, <1>16, <1>17

(* A turn at a fragment is one of DepacketizeFragmentationUnitPacket.      *)
LEMMA FragmentTurn ==
    ASSUME IsFragment(Slot(rTailIndex)),
           NEW size, NEW r, Reader!DepacketizeCurrent(size, r)
    PROVE  Reader!DepacketizeFragmentationUnitPacket(size, r)
<1>1. Reader!CurrentPacket.header.type = Reader!FU_PACKET_TYPE
    BY DEF Reader!CurrentPacket, IsFragment, Slot, FU_PACKET_TYPE, Reader!FU_PACKET_TYPE
<1>2. ~Reader!SingleType(Reader!FU_PACKET_TYPE)
    BY DEF Reader!SingleType, Reader!FU_PACKET_TYPE,
        Reader!SINGLE_NALU_PACKET_TYPE_START, Reader!SINGLE_NALU_PACKET_TYPE_END
<1>3. Reader!FU_PACKET_TYPE # Reader!AP_PACKET_TYPE
    BY DEF Reader!FU_PACKET_TYPE, Reader!AP_PACKET_TYPE
<1> QED BY <1>1, <1>2, <1>3, Zenon DEF Reader!DepacketizeCurrent

(* A NAL unit in fragments at the tail is read whole into a buffer that    *)
(* takes it, and with success into no other.                               *)
LEMMA FragmentsRead ==
    ASSUME SingleTypes, SessionInv, NEW u, NEW s, NEW j, FragmentsAt(u, s, j),
           rTailIndex = s, packetCount # 0, NEW size \in Int, NEW r,
           Reader!DepacketizeCurrent(size, r),
           r = "OK" \/ naluArray[u].len <= size
    PROVE  /\ r = "OK" /\ Intact(nalu', u) /\ naluDataLength' = naluArray[u].len
           /\ rTailIndex' = j + 1 /\ curPacketIndex' = 0
<1>1. s \in Nat /\ j \in Nat /\ s <= j /\ s \in InSlots /\ IsFragment(Slot(s))
    <2>1. s \in Nat /\ j \in Nat /\ s <= j /\ s \in InSlots
        BY DEF FragmentsAt, InSlots
    <2>2. s \in s..j
        BY <2>1
    <2> QED BY <2>1, <2>2 DEF FragmentsAt, FragmentOf
<1> DEFINE n == j - s + 1
<1>2. /\ n \in 1..packetCount
      /\ Reader!FragmentsOfUnit(n)
      /\ \A i \in 1..n : Reader!AssembledLength[i] <= naluArray[u].len
      /\ Reader!AssembledLength[n] = naluArray[u].len
      /\ naluArray[u].len \in Nat
    BY UnitFragments
<1>3. Reader!DepacketizeFragmentationUnitPacket(size, r)
    BY <1>1, FragmentTurn
<1>4. s + n = j + 1
    BY <1>1
<1> HIDE DEF n
<1>5. r = "OK" \/ \A i \in 1..n : Reader!AssembledLength[i] <= size
    <2>1. ASSUME naluArray[u].len <= size, NEW i \in 1..n
          PROVE  Reader!AssembledLength[i] <= size
        <3>1. Reader!AssembledLength[i] \in Int
            <4>1. i \in 0..packetCount
                BY <1>2, TailFacts
            <4>2. Reader!WrittenBy(i)
                BY <4>1, CallersAgree, TailFacts, Reader!TurnsWrite
            <4> QED BY <4>2 DEF Reader!WrittenBy
        <3> QED BY <1>2, <2>1, <3>1
    <2> QED BY <2>1
<1>6. /\ r = "OK" /\ rTailIndex' = rTailIndex + n
      /\ naluDataLength' = Reader!AssembledLength[n]
      /\ Reader!HeaderAndPayloads(nalu', n)
    BY <1>2, <1>3, <1>5, CallersAgree, TailFacts, Reader!FragmentsRead
<1>7. Intact(nalu', u)
    <2>1. PICK pieces : pieces = nalu'
        OBVIOUS
    <2>2. Reader!HeaderAndPayloads(pieces, j - s + 1)
        BY <1>6, <2>1 DEF n
    <2>3. Intact(pieces, u)
        BY <2>2, FragmentsIntact, TailFacts
    <2> QED BY <2>1, <2>3
<1>8. curPacketIndex' = 0
    <2>1. Reader!CurrentPacket.header.type # Reader!AP_PACKET_TYPE
        BY <1>1 DEF Reader!CurrentPacket, IsFragment, Slot, FU_PACKET_TYPE,
            Reader!AP_PACKET_TYPE
    <2>2. curPacketIndex = 0
        BY <2>1, CallersAgree, TailFacts, Reader!FragmentsKeepNoOffset
    <2>3. curPacketIndex' = curPacketIndex
        BY <1>3 DEF Reader!DepacketizeFragmentationUnitPacket
    <2> QED BY <2>2, <2>3
<1> QED BY <1>2, <1>4, <1>6, <1>7, <1>8

(* The tail goes forward, to a packet's beginning, and passes over no slot *)
(* but a fragment's behind an open one.                                    *)
LEMMA TailStops ==
    ASSUME SessionInv, packetCount # 0, NEW size, NEW r,
           Reader!DepacketizeCurrent(size, r)
    PROVE  /\ rTailIndex' \in Nat /\ rTailIndex <= rTailIndex'
           /\ rTailIndex' # rTailIndex => curPacketIndex' = 0
           /\ \A s \in Nat : rTailIndex < s /\ s < rTailIndex'
                => IsFragment(Slot(s)) /\ BehindOpen(s)
<1>1. /\ rTailIndex \in Nat /\ rHeadIndex \in Nat /\ packetCount \in Nat
      /\ Reader!IInv
    BY TailFacts
<1>2. CASE IsFragment(Slot(rTailIndex))
    <2>1. Reader!DepacketizeFragmentationUnitPacket(size, r)
        BY <1>2, FragmentTurn
    <2>2. PICK k \in 0..packetCount :
            /\ rTailIndex' = rTailIndex + k
            /\ \A i \in 1..k : Reader!IsFragment(i)
            /\ \A i \in 1..(k - 1) : ~Reader!Fragment(i).fu.e
        BY <2>1, Reader!FragmentsConsumed
    <2>3. curPacketIndex' = 0
        <3>1. Reader!CurrentPacket.header.type # Reader!AP_PACKET_TYPE
            BY <1>2 DEF Reader!CurrentPacket, IsFragment, Slot, FU_PACKET_TYPE,
                Reader!AP_PACKET_TYPE
        <3>2. curPacketIndex = 0
            BY <1>1, <3>1, CallersAgree, Reader!FragmentsKeepNoOffset
        <3>3. curPacketIndex' = curPacketIndex
            BY <2>1 DEF Reader!DepacketizeFragmentationUnitPacket
        <3> QED BY <3>2, <3>3
    <2>4. ASSUME NEW s \in Nat, rTailIndex < s, s < rTailIndex'
          PROVE  IsFragment(Slot(s)) /\ BehindOpen(s)
        <3> DEFINE i == s - rTailIndex + 1
        <3>1. /\ i \in 1..k /\ i - 1 \in 1..k /\ i - 1 \in 1..(k - 1)
              /\ rTailIndex + i - 1 = s /\ rTailIndex + (i - 1) - 1 = s - 1
            BY <1>1, <2>2, <2>4
        <3> HIDE DEF i
        <3>2. Reader!Fragment(i) = Slot(s) /\ Reader!Fragment(i - 1) = Slot(s - 1)
            BY <3>1, Zenon DEF Reader!Fragment, Slot
        <3>3. /\ IsFragment(Slot(s)) /\ IsFragment(Slot(s - 1))
              /\ ~Slot(s - 1).fu.e
            BY <2>2, <3>1, <3>2 DEF Reader!IsFragment, IsFragment, FU_PACKET_TYPE,
                Reader!FU_PACKET_TYPE
        <3>4. s > 0
            BY <1>1, <2>4
        <3> QED BY <3>3, <3>4 DEF BehindOpen
    <2>5. rTailIndex' \in Nat /\ rTailIndex <= rTailIndex'
        BY <1>1, <2>2
    <2> QED BY <2>3, <2>4, <2>5
<1>3. CASE ~IsFragment(Slot(rTailIndex))
    <2>1. Reader!CurrentPacket.header.type # Reader!FU_PACKET_TYPE
        BY <1>3 DEF Reader!CurrentPacket, IsFragment, Slot, FU_PACKET_TYPE,
            Reader!FU_PACKET_TYPE
    <2>2. \/ rTailIndex' = rTailIndex
          \/ rTailIndex' = rTailIndex + 1 /\ curPacketIndex' = 0
        <3>1. \/ /\ Reader!SingleType(Reader!CurrentPacket.header.type)
                 /\ Reader!DepacketizeSingleNaluPacket(size, r)
              \/ Reader!DepacketizeAggregationPacket(size, r)
              \/ UNCHANGED Reader!reading
            BY <2>1, Zenon DEF Reader!DepacketizeCurrent
        <3>2. CASE /\ Reader!SingleType(Reader!CurrentPacket.header.type)
                   /\ Reader!DepacketizeSingleNaluPacket(size, r)
            <4>1. Reader!CurrentPacket.header.type # Reader!AP_PACKET_TYPE
                BY <3>2 DEF Reader!SingleType, Reader!AP_PACKET_TYPE,
                    Reader!SINGLE_NALU_PACKET_TYPE_START, Reader!SINGLE_NALU_PACKET_TYPE_END
            <4>2. curPacketIndex = 0
                BY <1>1, <4>1, CallersAgree, Reader!FragmentsKeepNoOffset
            <4>3. \/ rTailIndex' = rTailIndex + 1 /\ curPacketIndex' = curPacketIndex
                  \/ rTailIndex' = rTailIndex
                BY <3>2, Zenon DEF Reader!DepacketizeSingleNaluPacket, Reader!Consume,
                    Reader!reading
            <4> QED BY <4>2, <4>3
        <3>3. CASE Reader!DepacketizeAggregationPacket(size, r)
            <4>1. \E index : Reader!MoveTo(index)
                BY <3>3, Zenon DEF Reader!DepacketizeAggregationPacket
            <4> QED BY <4>1, Zenon DEF Reader!MoveTo, Reader!Consume
        <3>4. CASE UNCHANGED Reader!reading
            BY <3>4 DEF Reader!reading
        <3> QED BY <3>1, <3>2, <3>3, <3>4
    <2>3. rTailIndex' \in Nat /\ rTailIndex <= rTailIndex'
        BY <1>1, <2>2
    <2>4. \A s \in Nat : ~(rTailIndex < s /\ s < rTailIndex')
        BY <1>1, <2>2
    <2> QED BY <2>2, <2>3, <2>4
<1> QED BY <1>2, <1>3

-----------------------------------------------------------------------------
(* What the receiver has delivered.                                        *)

(* What has been read, the frame that GetFrame writes among it.            *)
ReadSoFar ==
    IF stage = "reading frame"
        THEN [i \in DOMAIN frame |-> [pieces |-> frame[i], result |-> "OK"]]
        ELSE delivered

(* The i-th NAL unit read is NAL unit u, and succeeded.                    *)
DeliveredAs(i, u) ==
    /\ i \in DOMAIN ReadSoFar
    /\ ReadSoFar[i].result = "OK"
    /\ Intact(ReadSoFar[i].pieces, u)

(* NAL unit u was read.                                                    *)
IsDelivered(u) == \E i \in DOMAIN ReadSoFar : DeliveredAs(i, u)

(* The receiver reads, or has read to the end.                             *)
IsReading ==
    \/ stage \in {"receiving", "reading", "reading frame"}
    \/ stage = "done" /\ rResult \in {"NO_MORE_NALUS", "OK"}

(* A receiver that reads moves nothing.                                    *)
LEMMA UnitsKept ==
    ASSUME UNCHANGED <<naluArray, sent, packetsArray, rHeadIndex>>
    PROVE  /\ Stored' = Stored
           /\ \A u, s : WholeAt(u, s)' <=> WholeAt(u, s)
           /\ \A u, s, j : FragmentsAt(u, s, j)' <=> FragmentsAt(u, s, j)
           /\ \A s : BehindOpen(s)' <=> BehindOpen(s)
           /\ \A s, u : OffsetOf(Slot(s), u)' = OffsetOf(Slot(s), u)
<1>1. Stored' = Stored /\ InSlots' = InSlots /\ \A s : Slot(s)' = Slot(s)
    BY DEF Stored, InSlots, Slot
<1>2. \A u, s : WholeAt(u, s)' <=> WholeAt(u, s)
    BY <1>1, Zenon DEF WholeAt
<1>3. \A u, s, j : FragmentsAt(u, s, j)' <=> FragmentsAt(u, s, j)
    BY <1>1, Zenon DEF FragmentsAt, FragmentOf
<1>4. \A s : BehindOpen(s)' <=> BehindOpen(s)
    BY <1>1, Zenon DEF BehindOpen
<1>5. \A s, u : OffsetOf(Slot(s), u)' = OffsetOf(Slot(s), u)
    BY <1>1
<1> QED BY <1>1, <1>2, <1>3, <1>4, <1>5

(* The pieces of a NAL unit stay those of it.                              *)
LEMMA IntactKept ==
    ASSUME UNCHANGED <<naluArray, headIndex, packetsArray>>
    PROVE  \A pieces, u : Intact(pieces, u)' <=> Intact(pieces, u)
<1>1. \A piece : RunOf(piece)' = RunOf(piece)
    BY Zenon DEF RunOf
<1>2. \A pieces : HeaderOf(pieces)' = HeaderOf(pieces)
    BY <1>1, Zenon DEF HeaderOf, Receiver!RestatedHeaderBytes
<1> QED BY <1>1, <1>2, Zenon DEF Intact

(* What is intact is so where it is delivered.                             *)
LEMMA NowIntact ==
    ASSUME UNCHANGED <<naluArray, headIndex, packetsArray>>, NEW i, NEW u
    PROVE  Intact(ReadSoFar'[i].pieces, u) => Intact(ReadSoFar[i].pieces, u)'
<1>1. PICK q : q = ReadSoFar'[i].pieces
    OBVIOUS
<1>2. Intact(q, u)' <=> Intact(q, u)
    BY IntactKept
<1>3. Intact(q, u)' <=> Intact(ReadSoFar[i].pieces, u)'
    BY <1>1
<1> QED BY <1>1, <1>2, <1>3

(* What was delivered stays delivered.                                     *)
LEMMA DeliveredKept ==
    ASSUME UNCHANGED <<naluArray, headIndex, packetsArray>>,
           NEW i, NEW u, DeliveredAs(i, u),
           i \in DOMAIN ReadSoFar', ReadSoFar'[i] = ReadSoFar[i]
    PROVE  DeliveredAs(i, u)'
<1>1. ReadSoFar'[i].result = "OK" /\ Intact(ReadSoFar'[i].pieces, u)
    BY DEF DeliveredAs
<1>2. Intact(ReadSoFar'[i].pieces, u) => Intact(ReadSoFar[i].pieces, u)'
    BY NowIntact
<1> QED BY <1>1, <1>2 DEF DeliveredAs

(* What a turn read intact is delivered with it.                           *)
LEMMA DeliveredNow ==
    ASSUME UNCHANGED <<naluArray, headIndex, packetsArray>>, NEW i, NEW u, NEW r,
           r = "OK", Intact(nalu', u),
           i \in DOMAIN ReadSoFar', ReadSoFar'[i] = [pieces |-> nalu', result |-> r]
    PROVE  DeliveredAs(i, u)'
<1>1. ReadSoFar'[i].result = "OK" /\ Intact(ReadSoFar'[i].pieces, u)
    OBVIOUS
<1>2. Intact(ReadSoFar'[i].pieces, u) => Intact(ReadSoFar[i].pieces, u)'
    BY NowIntact
<1> QED BY <1>1, <1>2 DEF DeliveredAs

-----------------------------------------------------------------------------
(* What has been read, as a sequence.                                      *)

(* What was read is a sequence.                                            *)
IsList(q) == q \in Seq({q[i] : i \in DOMAIN q})

ListsInv == IsList(delivered) /\ IsList(frame)

(* Nothing read is a sequence.                                             *)
LEMMA EmptyList == IsList(<< >>)
BY DEF IsList

(* A list is a sequence.                                                   *)
LEMMA ListFacts ==
    ASSUME NEW q, IsList(q)
    PROVE  Len(q) \in Nat /\ DOMAIN q = 1..Len(q)
<1> DEFINE T == {q[i] : i \in DOMAIN q}
<1>1. q \in Seq(T)
    BY DEF IsList
<1> HIDE DEF T
<1> QED BY <1>1

(* One item more.                                                          *)
LEMMA AppendList ==
    ASSUME NEW q, IsList(q), NEW x
    PROVE  /\ IsList(Append(q, x))
           /\ Len(q) \in Nat /\ DOMAIN q = 1..Len(q)
           /\ Len(Append(q, x)) = Len(q) + 1
           /\ DOMAIN Append(q, x) = 1..(Len(q) + 1)
           /\ \A i \in 1..Len(q) : Append(q, x)[i] = q[i]
           /\ Append(q, x)[Len(q) + 1] = x
<1> DEFINE T == {q[i] : i \in DOMAIN q}
           a == Append(q, x)
           R == {a[i] : i \in DOMAIN a}
<1>1. q \in Seq(T)
    BY DEF IsList
<1> HIDE DEF T
<1>2. q \in Seq(T \cup {x}) /\ x \in T \cup {x}
    BY <1>1
<1>3. /\ Len(q) \in Nat /\ DOMAIN q = 1..Len(q)
      /\ a \in Seq(T \cup {x})
      /\ Len(a) = Len(q) + 1
      /\ \A i \in 1..Len(q) : a[i] = q[i]
      /\ a[Len(q) + 1] = x
    BY <1>1, <1>2
<1>4. DOMAIN a = 1..(Len(q) + 1)
    BY <1>3
<1>5. IsList(a)
    <2>1. \A i \in 1..Len(a) : a[i] \in R
        BY <1>3, <1>4
    <2> HIDE DEF R, a
    <2>2. a = [i \in 1..Len(a) |-> a[i]] /\ Len(a) \in Nat
        BY <1>3
    <2>3. a \in [1..Len(a) -> R]
        BY <2>1, <2>2
    <2>4. a \in Seq(R)
        BY <2>2, <2>3
    <2> QED BY <2>4 DEF IsList, R
<1> QED BY <1>3, <1>4, <1>5

(* A frame as the caller has it.                                           *)
Items(f) == [i \in DOMAIN f |-> [pieces |-> f[i], result |-> "OK"]]

(* The items of a frame are as many as its NAL units.                      *)
LEMMA ItemsList ==
    ASSUME NEW f, IsList(f)
    PROVE  /\ IsList(Items(f)) /\ Len(Items(f)) = Len(f)
           /\ Len(f) \in Nat /\ DOMAIN Items(f) = 1..Len(f)
<1> DEFINE a == Items(f)
           R == {a[i] : i \in DOMAIN a}
<1>1. Len(f) \in Nat /\ DOMAIN f = 1..Len(f)
    BY ListFacts
<1>2. /\ DOMAIN a = 1..Len(f)
      /\ a = [i \in 1..Len(f) |-> a[i]]
    BY <1>1, Zenon DEF Items
<1>3. \A i \in 1..Len(f) : a[i] \in R
    BY <1>2
<1> HIDE DEF R, a
<1>4. a \in [1..Len(f) -> R]
    BY <1>2, <1>3
<1>5. a \in Seq(R) /\ Len(a) = Len(f)
    BY <1>1, <1>4
<1> QED BY <1>1, <1>2, <1>5 DEF IsList, R, a

(* What was read of r with the pieces written last has been added.         *)
OneMore(r) ==
    LET n == Len(ReadSoFar)
    IN  /\ n \in Nat /\ DOMAIN ReadSoFar = 1..n
        /\ Len(ReadSoFar') = n + 1 /\ DOMAIN ReadSoFar' = 1..(n + 1)
        /\ \A i \in 1..n : ReadSoFar'[i] = ReadSoFar[i]
        /\ ReadSoFar'[n + 1] = [pieces |-> nalu', result |-> r]

(* GetNalu adds one item.                                                  *)
LEMMA OneMoreNalu ==
    ASSUME ListsInv, NEW r, stage # "reading frame", stage' # "reading frame",
           delivered' = Append(delivered, [pieces |-> nalu', result |-> r])
    PROVE  OneMore(r) /\ IsList(delivered')
<1>1. ReadSoFar = delivered /\ ReadSoFar' = delivered'
    BY DEF ReadSoFar
<1> DEFINE x == [pieces |-> nalu', result |-> r]
<1>2. IsList(delivered) /\ delivered' = Append(delivered, x)
    BY DEF ListsInv
<1> HIDE DEF x
<1>3. /\ IsList(Append(delivered, x))
      /\ Len(delivered) \in Nat /\ DOMAIN delivered = 1..Len(delivered)
      /\ Len(Append(delivered, x)) = Len(delivered) + 1
      /\ DOMAIN Append(delivered, x) = 1..(Len(delivered) + 1)
      /\ \A i \in 1..Len(delivered) : Append(delivered, x)[i] = delivered[i]
      /\ Append(delivered, x)[Len(delivered) + 1] = x
    BY <1>2, AppendList
<1>4. IsList(delivered')
    BY <1>2, <1>3
<1>5. /\ Len(delivered) \in Nat /\ DOMAIN delivered = 1..Len(delivered)
      /\ Len(delivered') = Len(delivered) + 1
      /\ DOMAIN delivered' = 1..(Len(delivered) + 1)
      /\ \A i \in 1..Len(delivered) : delivered'[i] = delivered[i]
      /\ delivered'[Len(delivered) + 1] = x
    BY <1>2, <1>3
<1> QED BY <1>1, <1>4, <1>5, Zenon DEF OneMore, x

(* The places of a sequence stay places of a longer one.                   *)
LEMMA OneFurther ==
    \A n \in Nat : (\A i \in 1..n : i \in 1..(n + 1)) /\ n + 1 \in 1..(n + 1)
OBVIOUS

(* A turn of GetFrame adds one item.                                       *)
LEMMA OneMoreTurn ==
    ASSUME ListsInv, stage = "reading frame", stage' = "reading frame",
           frame' = Append(frame, nalu')
    PROVE  OneMore("OK") /\ IsList(frame')
<1>1. ReadSoFar = Items(frame) /\ ReadSoFar' = Items(frame')
    BY DEF ReadSoFar, Items
<1> DEFINE n == Len(frame)
<1>2. /\ n \in Nat /\ DOMAIN frame = 1..n
      /\ IsList(frame') /\ Len(frame') = n + 1 /\ DOMAIN frame' = 1..(n + 1)
      /\ \A i \in 1..n : frame'[i] = frame[i]
      /\ frame'[n + 1] = nalu'
    <2>1. IsList(frame)
        BY DEF ListsInv
    <2>2. ASSUME NEW x, frame' = Append(frame, x)
          PROVE  /\ n \in Nat /\ DOMAIN frame = 1..n
                 /\ IsList(frame') /\ Len(frame') = n + 1 /\ DOMAIN frame' = 1..(n + 1)
                 /\ \A i \in 1..n : frame'[i] = frame[i]
                 /\ frame'[n + 1] = x
        <3>1. /\ IsList(Append(frame, x))
              /\ Len(frame) \in Nat /\ DOMAIN frame = 1..Len(frame)
              /\ Len(Append(frame, x)) = Len(frame) + 1
              /\ DOMAIN Append(frame, x) = 1..(Len(frame) + 1)
              /\ \A i \in 1..Len(frame) : Append(frame, x)[i] = frame[i]
              /\ Append(frame, x)[Len(frame) + 1] = x
            BY <2>1, AppendList
        <3> QED BY <2>2, <3>1
    <2> QED BY <2>2
<1> HIDE DEF n
<1>3. /\ Len(Items(frame)) = n /\ DOMAIN Items(frame) = 1..n
      /\ Len(Items(frame')) = n + 1 /\ DOMAIN Items(frame') = 1..(n + 1)
    <2>1. /\ Len(Items(frame)) = Len(frame) /\ DOMAIN Items(frame) = 1..Len(frame)
        BY ItemsList DEF ListsInv
    <2>2. ASSUME NEW f, f = frame'
          PROVE  Len(Items(f)) = Len(f) /\ DOMAIN Items(f) = 1..Len(f)
        <3>1. IsList(f)
            BY <1>2, <2>2 DEF IsList
        <3> QED BY <3>1, ItemsList
    <2>3. /\ Len(Items(frame')) = Len(frame') /\ DOMAIN Items(frame') = 1..Len(frame')
        BY <2>2 DEF Items
    <2> QED BY <1>2, <2>1, <2>3 DEF n
<1>4. /\ \A i \in 1..n : Items(frame)[i] = [pieces |-> frame[i], result |-> "OK"]
      /\ \A i \in 1..(n + 1) :
            Items(frame')[i] = [pieces |-> frame'[i], result |-> "OK"]
    BY <1>2 DEF Items
<1>5. /\ \A i \in 1..n : i \in 1..(n + 1)
      /\ n + 1 \in 1..(n + 1)
    BY <1>2, OneFurther, Zenon
<1>6. /\ \A i \in 1..n : Items(frame')[i] = Items(frame)[i]
      /\ Items(frame')[n + 1] = [pieces |-> nalu', result |-> "OK"]
    BY <1>2, <1>4, <1>5
<1>7. OneMore("OK")
    BY <1>1, <1>2, <1>3, <1>6, Zenon DEF OneMore
<1> QED BY <1>2, <1>7

(* What has been read can be counted.                                      *)
LEMMA CountRead ==
    ASSUME ListsInv
    PROVE  Len(ReadSoFar) \in Nat
<1>1. IsList(ReadSoFar)
    <2>1. CASE stage = "reading frame"
        <3>1. ReadSoFar = Items(frame) /\ IsList(frame)
            BY <2>1 DEF ReadSoFar, Items, ListsInv
        <3>2. IsList(Items(frame))
            BY <3>1, ItemsList
        <3> QED BY <3>1, <3>2
    <2>2. CASE stage # "reading frame"
        BY <2>2 DEF ReadSoFar, ListsInv
    <2> QED BY <2>1, <2>2
<1> QED BY <1>1, ListFacts

-----------------------------------------------------------------------------
(* The calls of a receiver that reads.                                     *)

(* What is left of the buffer for a NAL unit behind a start code.          *)
Room == bufferSize - frameIndex - Reader!STARTCODE_SIZE

(* A turn whose result is r, with so much room: one NAL unit more is read. *)
Turn(size, r) ==
    /\ packetCount # 0
    /\ Reader!DepacketizeCurrent(size, r)
    /\ OneMore(r)

(* A step that reads nothing.                                              *)
Pauses == UNCHANGED <<rTailIndex, curPacketIndex, ReadSoFar>>

(* GetNalu reads one NAL unit more, there is none left, or it fails and    *)
(* would again.                                                            *)
LEMMA ReadNaluSteps ==
    ASSUME SessionInv, ListsInv, ReadNalu
    PROVE  /\ ListsInv'
           /\ \/ /\ stage' = "reading"
                 /\ \E r : Turn(bufferSize, r)
              \/ stage' = "done" /\ packetCount = 0 /\ Pauses
              \/ /\ stage' = "done" /\ rResult' \notin {"NO_MORE_NALUS", "OK"}
                 /\ packetCount # 0
                 /\ \E r : r # "OK" /\ Reader!DepacketizeCurrent(bufferSize, r)
<1>1. /\ stage # "reading frame" /\ stage' # "reading frame"
      /\ \/ Stalled /\ stage' = "done" /\ delivered' = delivered
         \/ /\ ~Stalled /\ stage' = "reading"
            /\ delivered' = Append(delivered, [pieces |-> nalu', result |-> rResult'])
    BY DEF ReadNalu
<1>2. Reader!H265Depacketizer_GetNalu(bufferSize)
    BY SameCalls, Zenon DEF ReadNalu
<1>3. /\ frame' = frame
      /\ \/ /\ packetCount = 0 /\ rResult' = "NO_MORE_NALUS"
            /\ UNCHANGED <<rTailIndex, packetCount, curPacketIndex>>
         \/ /\ packetCount # 0
            /\ rResult' \in Reader!ReadResults
            /\ Reader!DepacketizeCurrent(bufferSize, rResult')
    <2>1. CASE packetCount = 0 /\ Reader!Refuse("NO_MORE_NALUS")
        BY <2>1 DEF Reader!Refuse, Reader!frameOut, Reader!reading
    <2>2. CASE /\ packetCount # 0
               /\ \E r \in Reader!ReadResults :
                    Reader!DepacketizeCurrent(bufferSize, r) /\ rResult' = r
               /\ UNCHANGED <<Reader!queue, Reader!frameOut>>
        <3>1. PICK r \in Reader!ReadResults :
                Reader!DepacketizeCurrent(bufferSize, r) /\ rResult' = r
            BY <2>2
        <3> QED BY <2>2, <3>1, Zenon DEF Reader!frameOut
    <2> QED BY <1>2, <2>1, <2>2, Zenon DEF Reader!H265Depacketizer_GetNalu
<1>4. CASE packetCount = 0
    <2>1. Stalled
        BY <1>3, <1>4 DEF Stalled
    <2>2. stage' = "done" /\ delivered' = delivered
        BY <1>1, <2>1
    <2>3. ReadSoFar' = ReadSoFar
        BY <1>1, <2>2 DEF ReadSoFar
    <2>4. ListsInv'
        BY <1>3, <2>2 DEF ListsInv, IsList
    <2>5. Pauses
        BY <1>3, <1>4, <2>3 DEF Pauses
    <2> QED BY <1>4, <2>2, <2>4, <2>5
<1>5. CASE packetCount # 0 /\ Stalled
    <2>1. stage' = "done" /\ delivered' = delivered
        BY <1>1, <1>5
    <2>2. rResult' # "OK" /\ rResult' \in Reader!ReadResults
        BY <1>3, <1>5, Zenon DEF Stalled
    <2>3. rResult' \notin {"NO_MORE_NALUS", "OK"}
        BY <2>2 DEF Reader!ReadResults
    <2>4. ListsInv'
        BY <1>3, <2>1 DEF ListsInv, IsList
    <2>5. \E r : r # "OK" /\ Reader!DepacketizeCurrent(bufferSize, r)
        BY <1>3, <1>5, <2>2
    <2> QED BY <1>5, <2>1, <2>3, <2>4, <2>5
<1>6. CASE packetCount # 0 /\ ~Stalled
    <2>1. /\ stage' = "reading"
          /\ delivered' = Append(delivered, [pieces |-> nalu', result |-> rResult'])
        BY <1>1, <1>6
    <2>2. packetCount # 0 /\ Reader!DepacketizeCurrent(bufferSize, rResult')
        BY <1>3, <1>6
    <2>3. ASSUME NEW r, r = rResult'
          PROVE  OneMore(r) /\ IsList(delivered')
        BY <1>1, <2>1, <2>3, OneMoreNalu
    <2>4. ListsInv'
        BY <1>3, <2>3 DEF ListsInv, IsList
    <2>5. \E r : Turn(bufferSize, r)
        <3>1. OneMore(rResult')
            BY <2>3
        <3> QED BY <2>2, <3>1 DEF Turn
    <2> QED BY <2>1, <2>4, <2>5
<1> QED BY <1>4, <1>5, <1>6

(* GetFrame starts at the tail, or is refused.                             *)
LEMMA ReadFrameSteps ==
    ASSUME SessionInv, ListsInv, ReadFrame
    PROVE  /\ ListsInv'
           /\ Pauses
           /\ \/ stage' = "reading frame" /\ frameIndex' = 0
              \/ /\ stage' = "done" /\ rResult' \notin {"NO_MORE_NALUS", "OK"}
                 /\ bufferSize = 0 \/ packetCount = 0
<1>1. /\ stage = "receiving" /\ delivered' = delivered /\ delivered = << >>
      /\ stage' = IF frameDataLength' = 0 THEN "done" ELSE "reading frame"
      /\ frameDataLength = 0
    BY DEF ReadFrame, SessionInv, ContextsInv, StageInv
<1>2. Reader!H265Depacketizer_GetFrame(bufferSize)
    BY SameCalls, Zenon DEF ReadFrame
<1>3. CASE /\ bufferSize = 0 \/ packetCount = 0
           /\ \E r \in {"BAD_PARAM", "NO_MORE_FRAMES"} : Reader!Refuse(r)
    <2>1. /\ rResult' \in {"BAD_PARAM", "NO_MORE_FRAMES"}
          /\ UNCHANGED <<rTailIndex, curPacketIndex, frame, frameIndex, frameDataLength>>
        BY <1>3 DEF Reader!Refuse, Reader!reading, Reader!frameOut
    <2>2. stage' = "done"
        BY <1>1, <2>1
    <2>3. ReadSoFar' = ReadSoFar
        BY <1>1, <2>2 DEF ReadSoFar
    <2> QED BY <1>1, <1>3, <2>1, <2>2, <2>3 DEF ListsInv, IsList, Pauses
<1>4. CASE /\ bufferSize # 0
           /\ frame' = << >> /\ frameIndex' = 0 /\ frameDataLength' = bufferSize
           /\ UNCHANGED Reader!reading
    <2>1. /\ stage' = "reading frame" /\ rTailIndex' = rTailIndex
          /\ curPacketIndex' = curPacketIndex
        BY <1>1, <1>4 DEF Reader!reading
    <2>2. ReadSoFar = << >> /\ ReadSoFar' = << >>
        <3>1. ReadSoFar' = Items(frame')
            BY <2>1 DEF ReadSoFar, Items
        <3>2. Items(<< >>) = << >>
            BY DEF Items
        <3> QED BY <1>1, <1>4, <3>1, <3>2 DEF ReadSoFar
    <2>3. ListsInv'
        <3>1. IsList(delivered')
            BY <1>1, EmptyList
        <3>2. IsList(frame')
            BY <1>4, EmptyList
        <3> QED BY <3>1, <3>2 DEF ListsInv, IsList
    <2> QED BY <1>4, <2>1, <2>2, <2>3 DEF Pauses
<1>5. CASE bufferSize = 0 /\ Reader!Refuse("BAD_PARAM")
    BY <1>3, <1>5
<1>6. CASE bufferSize # 0 /\ packetCount = 0 /\ Reader!Refuse("NO_MORE_FRAMES")
    BY <1>3, <1>6
<1> QED BY <1>2, <1>4, <1>5, <1>6, Zenon DEF Reader!H265Depacketizer_GetFrame

(* A turn of GetFrame reads one NAL unit more, or ends it: no packet left, *)
(* no room, or a NAL unit that cannot be read.                             *)
LEMMA ReadFrameTurnSteps ==
    ASSUME SessionInv, ListsInv, ReadFrameTurn
    PROVE  /\ ListsInv'
           /\ \/ /\ stage' = "reading frame" /\ Room > 0 /\ Turn(Room, "OK")
                 /\ frameIndex'
                        = frameIndex + Reader!STARTCODE_SIZE + naluDataLength'
              \/ stage' = "done" /\ packetCount = 0 /\ Pauses
              \/ /\ stage' = "done" /\ rResult' \notin {"NO_MORE_NALUS", "OK"}
                 /\ \/ Room <= 0
                    \/ /\ Room > 0 /\ packetCount # 0
                       /\ \E r : r # "OK" /\ Reader!DepacketizeCurrent(Room, r)
<1>1. /\ stage = "reading frame"
      /\ stage' = IF frameDataLength' = 0 THEN "done" ELSE stage
      /\ delivered' = IF frameDataLength' = 0 /\ rResult' = "OK"
                        THEN Items(frame') ELSE delivered
      /\ frameDataLength = bufferSize
    BY DEF ReadFrameTurn, SessionInv, ContextsInv, StageInv, Items
<1>2. Reader!GetFrameTurn
    BY SameCalls DEF ReadFrameTurn
<1>3. bufferSize # 0 /\ Room = frameDataLength - frameIndex - Reader!STARTCODE_SIZE
    BY <1>1, <1>2, Zenon DEF Reader!GetFrameTurn, Reader!Idle, Room
<1>4. CASE /\ Room <= 0 /\ Reader!EndFrame("OUT_OF_MEMORY")
           /\ UNCHANGED <<frame, frameIndex>>
    <2>1. stage' = "done" /\ rResult' = "OUT_OF_MEMORY" /\ delivered' = delivered
        BY <1>1, <1>4 DEF Reader!EndFrame
    <2> QED BY <1>4, <2>1 DEF ListsInv, IsList
<1>5. CASE /\ packetCount = 0 /\ Reader!EndFrame("OK")
           /\ UNCHANGED <<rTailIndex, curPacketIndex, frame, frameIndex>>
    <2>1. stage' = "done" /\ rResult' = "OK" /\ delivered' = Items(frame)
        BY <1>1, <1>5 DEF Reader!EndFrame
    <2>2. IsList(Items(frame))
        BY ItemsList DEF ListsInv
    <2>3. ReadSoFar' = ReadSoFar
        BY <1>1, <2>1 DEF ReadSoFar, Items
    <2> QED BY <1>5, <2>1, <2>2, <2>3 DEF ListsInv, IsList, Pauses
<1>6. CASE /\ Room > 0 /\ packetCount # 0
           /\ Reader!DepacketizeCurrent(Room, "OK")
           /\ frame' = Append(frame, nalu')
           /\ frameIndex' = frameIndex + Reader!STARTCODE_SIZE + naluDataLength'
           /\ frameDataLength' = frameDataLength
    <2>1. stage' = "reading frame" /\ delivered' = delivered
        BY <1>1, <1>3, <1>6
    <2>2. OneMore("OK") /\ IsList(frame')
        BY <1>1, <1>6, <2>1, OneMoreTurn
    <2>3. ListsInv'
        BY <2>1, <2>2 DEF ListsInv, IsList
    <2> QED BY <1>6, <2>1, <2>2, <2>3 DEF Turn
<1>7. CASE /\ Room > 0 /\ packetCount # 0
           /\ \E r \in Reader!ReadResults \ {"OK"} :
                Reader!DepacketizeCurrent(Room, r) /\ Reader!EndFrame(r)
           /\ UNCHANGED <<frame, frameIndex>>
    <2>1. PICK r \in Reader!ReadResults \ {"OK"} :
            Reader!DepacketizeCurrent(Room, r) /\ Reader!EndFrame(r)
        BY <1>7
    <2>2. /\ stage' = "done" /\ rResult' = r /\ r \notin {"NO_MORE_NALUS", "OK"}
          /\ delivered' = delivered
        BY <1>1, <2>1 DEF Reader!EndFrame, Reader!ReadResults
    <2> QED BY <1>7, <2>1, <2>2 DEF ListsInv, IsList
<1>8. \/ /\ Room <= 0 /\ Reader!EndFrame("OUT_OF_MEMORY")
         /\ UNCHANGED <<frame, frameIndex>>
      \/ /\ packetCount = 0 /\ Reader!EndFrame("OK")
         /\ UNCHANGED <<rTailIndex, curPacketIndex, frame, frameIndex>>
      \/ /\ Room > 0 /\ packetCount # 0
         /\ Reader!DepacketizeCurrent(Room, "OK")
         /\ frame' = Append(frame, nalu')
         /\ frameIndex' = frameIndex + Reader!STARTCODE_SIZE + naluDataLength'
         /\ frameDataLength' = frameDataLength
      \/ /\ Room > 0 /\ packetCount # 0
         /\ \E r \in Reader!ReadResults \ {"OK"} :
                Reader!DepacketizeCurrent(Room, r) /\ Reader!EndFrame(r)
         /\ UNCHANGED <<frame, frameIndex>>
    BY <1>1, <1>2, <1>3, Zenon DEF Reader!GetFrameTurn, Room, Reader!reading
<1> QED BY <1>4, <1>5, <1>6, <1>7, <1>8

-----------------------------------------------------------------------------
(* The lengths of frames.                                                  *)

(* Where the first n NAL units end in a frame, and the start code behind   *)
(* them: see BufferSuffices.                                               *)
FrameEnds ==
    LET l[n \in 0..headIndex] ==
            IF n = 0 THEN Receiver!STARTCODE_SIZE
            ELSE l[n - 1] + Receiver!STARTCODE_SIZE + naluArray[n - 1].len
    IN  l

(* What each NAL unit adds to a frame.                                     *)
FrameLengths == [i \in 1..headIndex |-> Receiver!STARTCODE_SIZE + naluArray[i - 1].len]

(* The NAL units in the array have lengths.                                *)
LEMMA AddedNalus ==
    ASSUME IInv, NEW i \in 1..headIndex
    PROVE  naluArray[i - 1] \in Nalu /\ naluArray[i - 1].len \in Nat
<1>1. headIndex \in Nat /\ i - 1 \in 0..(headIndex - 1)
    BY DEF IInv, TypeOK
<1>2. naluArray[i - 1] \in Nalu
    BY <1>1 DEF IInv, TypeOK
<1> QED BY <1>2, NaluAssumption

(* FrameEnds is their running sum.                                         *)
LEMMA FrameEndsSum ==
    ASSUME IInv
    PROVE  Reader!Adds(FrameEnds, headIndex, Receiver!STARTCODE_SIZE, FrameLengths)
<1> DEFINE n == headIndex
           v == [i \in 1..n |-> Receiver!STARTCODE_SIZE]
           w == [i \in 1..n |-> naluArray[i - 1].len]
           Is(l) == l = [i \in 0..n |->
                IF i = 0 THEN Receiver!STARTCODE_SIZE
                ELSE l[i - 1] + Receiver!STARTCODE_SIZE + naluArray[i - 1].len]
           l == CHOOSE l : Is(l)
<1>1. n \in Nat /\ Receiver!STARTCODE_SIZE \in Int
    BY DEF IInv, TypeOK, Receiver!STARTCODE_SIZE
<1>2. \A i \in 1..n :
        /\ v[i] = Receiver!STARTCODE_SIZE
        /\ w[i] = naluArray[i - 1].len
        /\ v[i] \in Int /\ w[i] \in Int /\ FrameLengths[i] \in Int
        /\ FrameLengths[i] = v[i] + w[i]
    BY AddedNalus DEF FrameLengths, Receiver!STARTCODE_SIZE
<1>3. ASSUME NEW m PROVE Is(m) <=> Reader!Adds2(m, n, Receiver!STARTCODE_SIZE, v, w)
    <2>1. \A i \in 0..n : i = 0 \/ i \in 1..n
        BY <1>1
    <2>2. 0 \in 0..n /\ \A i \in 1..n : i # 0 /\ i \in 0..n
        BY <1>1
    <2> HIDE DEF n, v, w
    <2>3. ASSUME Is(m) PROVE Reader!Adds2(m, n, Receiver!STARTCODE_SIZE, v, w)
        <3>1. m = [i \in 0..n |-> m[i]] /\ m[0] = Receiver!STARTCODE_SIZE
            BY <2>2, <2>3
        <3>2. ASSUME NEW i \in 1..n
              PROVE  m[i] = m[i - 1] + Receiver!STARTCODE_SIZE + naluArray[i - 1].len
            BY <2>2, <2>3
        <3> QED BY <1>2, <3>1, <3>2, Zenon DEF Reader!Adds2
    <2>4. ASSUME Reader!Adds2(m, n, Receiver!STARTCODE_SIZE, v, w) PROVE Is(m)
        <3>1. \A i \in 1..n :
                m[i] = m[i - 1] + Receiver!STARTCODE_SIZE + naluArray[i - 1].len
            BY <1>2, <2>4, Zenon DEF Reader!Adds2
        <3>2. m = [i \in 0..n |-> m[i]] /\ m[0] = Receiver!STARTCODE_SIZE
            BY <2>4, Zenon DEF Reader!Adds2
        <3>3. \A i \in 0..n : m[i] = IF i = 0 THEN Receiver!STARTCODE_SIZE
                ELSE m[i - 1] + Receiver!STARTCODE_SIZE + naluArray[i - 1].len
            BY <2>1, <3>1, <3>2, Zenon
        <3> QED BY <3>2, <3>3, Zenon
    <2> QED BY <2>3, <2>4
<1>4. ASSUME NEW m
      PROVE  Is(m) <=> Reader!Adds(m, n, Receiver!STARTCODE_SIZE, FrameLengths)
    <2> HIDE DEF n, v, w, Is
    <2> QED BY <1>1, <1>2, <1>3, Reader!TwoWeights
<1>5. \E m : Reader!Adds(m, n, Receiver!STARTCODE_SIZE, FrameLengths)
    BY <1>1, <1>2, Reader!AddsExists
<1>6. Reader!Adds(l, n, Receiver!STARTCODE_SIZE, FrameLengths)
    <2> HIDE DEF Is
    <2> QED BY <1>4, <1>5, Zenon
<1>7. FrameEnds = l
    BY DEF FrameEnds
<1> QED BY <1>6, <1>7

(* FrameEnds grows with each NAL unit.                                     *)
LEMMA FrameEndsFacts ==
    ASSUME IInv
    PROVE  /\ FrameEnds[0] = 4
           /\ \A i \in 0..headIndex : FrameEnds[i] \in Nat /\ FrameEnds[i] >= 4
           /\ \A i \in 1..headIndex :
                FrameEnds[i] = FrameEnds[i - 1] + 4 + naluArray[i - 1].len
           /\ \A i \in 0..headIndex : FrameEnds[i] <= FrameEnds[headIndex]
<1> DEFINE l == FrameEnds
           n == headIndex
<1>1. n \in Nat
    BY DEF IInv, TypeOK
<1>2. \A i \in 1..n : /\ FrameLengths[i] \in Nat
                      /\ FrameLengths[i] = 4 + naluArray[i - 1].len
                      /\ naluArray[i - 1].len \in Nat
    BY AddedNalus DEF FrameLengths, Receiver!STARTCODE_SIZE
<1>3. Reader!Adds(l, n, 4, FrameLengths)
    BY FrameEndsSum DEF Receiver!STARTCODE_SIZE
<1> HIDE DEF l, n
<1>4. l[0] = 4 /\ \A i \in 1..n : l[i] = l[i - 1] + FrameLengths[i]
    BY <1>3, Zenon DEF Reader!Adds
<1> DEFINE S == {i \in 0..n : l[i] \in Nat /\ l[i] >= 4
                              /\ \A j \in 0..n : j <= i => l[j] \in Nat /\ l[j] <= l[i]}
<1>5. 0 \in S
    BY <1>1, <1>4
<1>6. ASSUME NEW i \in 1..n, i - 1 \in S PROVE i \in S
    <2>1. /\ l[i - 1] \in Nat /\ l[i - 1] >= 4 /\ l[i] = l[i - 1] + FrameLengths[i]
          /\ FrameLengths[i] \in Nat
        BY <1>2, <1>4, <1>6
    <2>2. ASSUME NEW j \in 0..n, j <= i PROVE l[j] \in Nat /\ l[j] <= l[i]
        <3>1. CASE j = i
            BY <2>1, <3>1
        <3>2. CASE j <= i - 1
            <4>1. l[j] \in Nat /\ l[j] <= l[i - 1]
                BY <1>6, <3>2
            <4> QED BY <2>1, <4>1
        <3> QED BY <2>2, <3>1, <3>2
    <2> QED BY <2>1, <2>2
<1>7. \A i \in 0..n : i \in S
    <2> HIDE DEF S
    <2> QED BY <1>1, <1>5, <1>6, Reader!UpTo
<1>8. \A i \in 0..n : l[i] <= l[n] /\ l[i] \in Nat /\ l[i] >= 4
    BY <1>1, <1>7
<1>9. \A i \in 1..n : l[i] = l[i - 1] + 4 + naluArray[i - 1].len
    <2> TAKE i \in 1..n
    <2>1. i - 1 \in 0..n /\ i \in 1..n
        BY <1>1
    <2>2. l[i - 1] \in Nat
        BY <1>8, <2>1
    <2> QED BY <1>2, <1>4, <2>2
<1> QED BY <1>4, <1>8, <1>9 DEF l, n

(* A buffer that suffices takes what was added from the n-th NAL unit on,  *)
(* behind those before it.                                                 *)
LEMMA RoomLeft ==
    ASSUME SessionInv, BufferSuffices, ~IsSending, NEW u \in 0..(headIndex - 1)
    PROVE  /\ FrameEnds[u] \in Nat /\ FrameEnds[u + 1] \in Nat
           /\ naluArray[u].len \in Nat /\ naluArray[u] \in Nalu
           /\ FrameEnds[u + 1] = FrameEnds[u] + 4 + naluArray[u].len
           /\ FrameEnds[u] + 4 + naluArray[u].len < bufferSize
           /\ naluArray[u].len <= bufferSize
<1>1. IInv /\ headIndex \in Nat /\ bufferSize \in Nat
    BY TailFacts
<1>2. FrameEnds[headIndex] < bufferSize
    BY DEF BufferSuffices, FrameEnds
<1>3. PICK i \in 1..headIndex : i = u + 1 /\ i - 1 = u
    BY <1>1
<1>4. naluArray[i - 1] \in Nalu /\ naluArray[i - 1].len \in Nat
    BY <1>1, AddedNalus
<1>5. /\ FrameEnds[i] = FrameEnds[i - 1] + 4 + naluArray[i - 1].len
      /\ FrameEnds[i] \in Nat /\ FrameEnds[i - 1] \in Nat
      /\ FrameEnds[headIndex] \in Nat
      /\ FrameEnds[i] <= FrameEnds[headIndex]
    BY <1>1, FrameEndsFacts
<1>6. /\ FrameEnds[i] = FrameEnds[u] + 4 + naluArray[u].len
      /\ FrameEnds[u] \in Nat /\ naluArray[u].len \in Nat /\ naluArray[u] \in Nalu
    BY <1>3, <1>4, <1>5, Zenon
<1>7. FrameEnds[u + 1] = FrameEnds[i]
    BY <1>3
<1> QED BY <1>1, <1>2, <1>5, <1>6, <1>7

-----------------------------------------------------------------------------
(* Loss is contained.                                                      *)

(* The receiver has not come to NAL unit u of the packet in slot s.        *)
IsAhead(u, s) ==
    \/ rTailIndex < s
    \/ rTailIndex = s /\ curPacketIndex <= OffsetOf(Slot(s), u)

(* Every NAL unit that arrived is ahead of the receiver, or delivered.     *)
ContainmentInv ==
    IsReading /\ BufferSuffices =>
        /\ stage = "done" => rTailIndex = rHeadIndex
        /\ \A u \in 0..(headIndex - 1), s \in InSlots :
            /\ WholeAt(u, s) => IsAhead(u, s) \/ IsDelivered(u)
            /\ \A j \in InSlots :
                FragmentsAt(u, s, j) /\ ~BehindOpen(s)
                    => rTailIndex <= s \/ IsDelivered(u)

(* The invariant of the receiver that reads: what it read are sequences.   *)
ReadingInv == SessionInv /\ ListsInv

(* A NAL unit of the packet at the tail that is still ahead is read by a   *)
(* turn, or stays ahead of it.                                             *)
LEMMA WholeTurn ==
    ASSUME SingleTypes, SessionInv, ~IsSending, BufferSuffices,
           NEW u \in Nat, NEW s, WholeAt(u, s), rTailIndex = s,
           curPacketIndex <= OffsetOf(Slot(s), u),
           NEW size \in Int, NEW r, Reader!DepacketizeCurrent(size, r), packetCount # 0,
           r = "OK" \/ bufferSize <= size,
           UNCHANGED <<naluArray, sent, packetsArray, rHeadIndex>>
    PROVE  \/ IsAhead(u, s)'
           \/ r = "OK" /\ Intact(nalu', u)
<1> DEFINE p == Slot(s)
<1>1. /\ SenderInv /\ IInv /\ bufferSize \in Nat /\ curPacketIndex \in Nat
      /\ SentPacket(p) /\ ~IsFragment(p) /\ p \in sent
      /\ FirstOf(p) <= u /\ u <= LastOf(p)
    BY TailFacts DEF WholeAt, SenderInv
<1>2. /\ FirstOf(p) \in Nat /\ LastOf(p) \in Nat
      /\ \A v \in FirstOf(p)..LastOf(p) : v \in Nat /\ v < headIndex
    BY <1>1, WholeFacts
<1>3. \A v \in FirstOf(p)..LastOf(p) : OffsetOf(p, v) \in Nat
    BY <1>1, OffsetFacts
<1>4. \A v, w \in FirstOf(p)..LastOf(p) : v < w => OffsetOf(p, v) < OffsetOf(p, w)
    BY <1>1, OffsetFacts
<1>5. PICK v \in FirstOf(p)..LastOf(p) : ReadsNext(v, s)
    BY <1>1, NextOfWhole
<1> HIDE DEF p
<1>6. v \in Nat /\ u \in FirstOf(p)..LastOf(p)
    BY <1>1, <1>2
<1>7. curPacketIndex = OffsetOf(p, v) \/ v = FirstOf(p)
    BY <1>5 DEF ReadsNext, p
<1>8. ~(u < v)
    <2> SUFFICES ASSUME u < v PROVE FALSE
        OBVIOUS
    <2>1. curPacketIndex = OffsetOf(p, v)
        BY <1>1, <1>2, <1>6, <1>7
    <2>2. OffsetOf(p, u) < OffsetOf(p, v)
        BY <1>4, <1>5, <1>6
    <2>3. curPacketIndex <= OffsetOf(p, u)
        BY DEF p
    <2>4. OffsetOf(p, u) \in Nat /\ OffsetOf(p, v) \in Nat
        BY <1>3, <1>5, <1>6
    <2> HIDE DEF p
    <2> QED BY <2>1, <2>2, <2>3, <2>4
<1>9. r = "OK" \/ naluArray[v].len <= size
    <2>1. v \in 0..(headIndex - 1)
        BY <1>2, <1>5, TailFacts
    <2>2. naluArray[v].len \in Nat /\ naluArray[v].len <= bufferSize
        BY <2>1, RoomLeft
    <2> QED BY <1>1, <2>2
<1>10. r = "OK" /\ Intact(nalu', v) /\ GoesOn(v, s)
    BY <1>5, <1>6, <1>9, WholeRead
<1>11. CASE v = u
    BY <1>10, <1>11
<1>12. CASE v < u
    <2>1. v < LastOf(p) /\ v # LastOf(p) /\ v + 1 \in FirstOf(p)..LastOf(p)
        BY <1>1, <1>2, <1>5, <1>12
    <2>2. rTailIndex' = s /\ curPacketIndex' = OffsetOf(p, v + 1)
        BY <1>10, <2>1 DEF GoesOn, p
    <2>3. PICK w \in FirstOf(p)..LastOf(p) : w = v + 1
        BY <2>1
    <2>4. w = u \/ w < u
        BY <1>2, <1>6, <1>12, <2>3
    <2>5. OffsetOf(p, w) <= OffsetOf(p, u)
        BY <1>3, <1>4, <1>6, <2>4
    <2>6. curPacketIndex' <= OffsetOf(p, u)
        BY <2>2, <2>3, <2>5
    <2>7. OffsetOf(Slot(s), u)' = OffsetOf(Slot(s), u)
        BY UnitsKept
    <2> QED BY <2>2, <2>6, <2>7 DEF IsAhead, p
<1> QED BY <1>2, <1>6, <1>8, <1>11, <1>12

(* A turn keeps what was delivered so.                                     *)
LEMMA StaysDelivered ==
    ASSUME UNCHANGED <<naluArray, headIndex, packetsArray>>, NEW r, OneMore(r),
           NEW u, IsDelivered(u)
    PROVE  IsDelivered(u)'
<1> DEFINE n == Len(ReadSoFar)
<1>1. /\ n \in Nat /\ DOMAIN ReadSoFar = 1..n /\ DOMAIN ReadSoFar' = 1..(n + 1)
      /\ \A i \in 1..n : ReadSoFar'[i] = ReadSoFar[i]
    BY Zenon DEF OneMore
<1> HIDE DEF n
<1>2. \A i \in 1..n : i \in DOMAIN ReadSoFar'
    BY <1>1, OneFurther
<1>3. PICK i \in DOMAIN ReadSoFar : DeliveredAs(i, u)
    BY DEF IsDelivered
<1>4. i \in DOMAIN ReadSoFar' /\ ReadSoFar'[i] = ReadSoFar[i]
    BY <1>1, <1>2, <1>3
<1>5. DeliveredAs(i, u)'
    BY <1>3, <1>4, DeliveredKept
<1> QED BY <1>4, <1>5 DEF IsDelivered

(* A turn that reads a NAL unit intact delivers it, behind all others.     *)
LEMMA BecomesDelivered ==
    ASSUME UNCHANGED <<naluArray, headIndex, packetsArray>>, NEW r, OneMore(r),
           NEW u, r = "OK", Intact(nalu', u)
    PROVE  /\ IsDelivered(u)'
           /\ \A i : i = Len(ReadSoFar) + 1 => DeliveredAs(i, u)'
<1> DEFINE n == Len(ReadSoFar)
<1>1. /\ n \in Nat /\ DOMAIN ReadSoFar' = 1..(n + 1)
      /\ ReadSoFar'[n + 1] = [pieces |-> nalu', result |-> r]
    BY Zenon DEF OneMore
<1> HIDE DEF n
<1>2. PICK i : i = n + 1
    OBVIOUS
<1>3. i \in DOMAIN ReadSoFar' /\ ReadSoFar'[i] = [pieces |-> nalu', result |-> r]
    BY <1>1, <1>2, OneFurther
<1>4. DeliveredAs(i, u)'
    BY <1>3, DeliveredNow
<1>5. IsDelivered(u)'
    BY <1>3, <1>4 DEF IsDelivered
<1>6. \A k : k = Len(ReadSoFar) + 1 => k = i
    BY <1>2 DEF n
<1> QED BY <1>4, <1>5, <1>6

(* A turn reads a NAL unit at the tail, if all of it arrived, and passes   *)
(* by no other that did.                                                   *)
LEMMA TurnContained ==
    ASSUME SingleTypes, SessionInv, ContainmentInv, IsReading, stage # "done",
           NEW size \in Int, NEW r, Turn(size, r), r = "OK" \/ bufferSize <= size,
           UNCHANGED <<naluArray, headIndex, sent, packetsArray, rHeadIndex, bufferSize>>,
           stage' # "done"
    PROVE  ContainmentInv'
<1> SUFFICES ASSUME BufferSuffices'
             PROVE  \A u \in 0..(headIndex' - 1), s \in InSlots' :
                        /\ WholeAt(u, s)' => IsAhead(u, s)' \/ IsDelivered(u)'
                        /\ \A j \in InSlots' :
                            FragmentsAt(u, s, j)' /\ ~BehindOpen(s)'
                                => rTailIndex' <= s \/ IsDelivered(u)'
    BY DEF ContainmentInv
<1>1. BufferSuffices
    BY DEF BufferSuffices
<1>2. packetCount # 0 /\ Reader!DepacketizeCurrent(size, r) /\ OneMore(r)
    BY DEF Turn
<1>3. /\ rTailIndex' \in Nat /\ rTailIndex <= rTailIndex'
      /\ rTailIndex' # rTailIndex => curPacketIndex' = 0
      /\ \A s \in Nat : rTailIndex < s /\ s < rTailIndex'
            => IsFragment(Slot(s)) /\ BehindOpen(s)
    BY <1>2, TailStops
<1>4. /\ rTailIndex \in Nat /\ rHeadIndex \in Nat /\ headIndex \in Nat
      /\ SenderInv /\ IInv
    BY TailFacts
<1>5. ~IsSending
    BY DEF IsReading, IsSending
<1>6. ASSUME NEW u \in 0..(headIndex - 1), NEW s \in InSlots, WholeAt(u, s)
      PROVE  IsAhead(u, s)' \/ IsDelivered(u)'
    <2>1. IsAhead(u, s) \/ IsDelivered(u)
        BY <1>1, <1>6 DEF ContainmentInv
    <2>2. s \in Nat /\ u \in Nat
        BY <1>4 DEF InSlots
    <2>3. CASE IsDelivered(u)
        BY <1>2, <2>3, StaysDelivered
    <2>4. CASE rTailIndex < s
        <3>1. ~IsFragment(Slot(s)) /\ Slot(s) \in sent
              /\ FirstOf(Slot(s)) <= u /\ u <= LastOf(Slot(s))
            BY <1>6 DEF WholeAt
        <3>2. rTailIndex' <= s
            BY <1>3, <1>4, <2>2, <2>4, <3>1
        <3>3. CASE rTailIndex' < s
            BY <3>3 DEF IsAhead
        <3>4. CASE rTailIndex' = s
            <4>1. curPacketIndex' = 0
                BY <1>3, <1>4, <2>4, <3>4
            <4>2. OffsetOf(Slot(s), u) \in Nat
                <5>1. SentPacket(Slot(s))
                    BY <1>4, <3>1 DEF SenderInv
                <5>2. u \in FirstOf(Slot(s))..LastOf(Slot(s))
                    BY <1>4, <2>2, <3>1, <5>1, WholeFacts
                <5> QED BY <1>4, <3>1, <5>1, <5>2, OffsetFacts
            <4>3. OffsetOf(Slot(s), u)' = OffsetOf(Slot(s), u)
                BY UnitsKept
            <4>4. curPacketIndex' <= OffsetOf(Slot(s), u)'
                BY <4>1, <4>2, <4>3
            <4> QED BY <3>4, <4>4 DEF IsAhead
        <3> QED BY <1>3, <2>2, <3>2, <3>3, <3>4
    <2>5. CASE rTailIndex = s /\ curPacketIndex <= OffsetOf(Slot(s), u)
        <3>1. IsAhead(u, s)' \/ (r = "OK" /\ Intact(nalu', u))
            BY <1>1, <1>2, <1>5, <1>6, <2>2, <2>5, WholeTurn
        <3> QED BY <1>2, <3>1, BecomesDelivered
    <2> QED BY <2>1, <2>3, <2>4, <2>5 DEF IsAhead
<1>7. ASSUME NEW u \in 0..(headIndex - 1), NEW s \in InSlots, NEW j \in InSlots,
             FragmentsAt(u, s, j), ~BehindOpen(s)
      PROVE  rTailIndex' <= s \/ IsDelivered(u)'
    <2>1. rTailIndex <= s \/ IsDelivered(u)
        BY <1>1, <1>7 DEF ContainmentInv
    <2>2. s \in Nat
        BY <1>4 DEF InSlots
    <2>3. CASE IsDelivered(u)
        BY <1>2, <2>3, StaysDelivered
    <2>4. CASE rTailIndex < s
        BY <1>3, <1>7, <2>2, <2>4
    <2>5. CASE rTailIndex = s
        <3>1. r = "OK" \/ naluArray[u].len <= size
            <4>1. naluArray[u].len \in Nat /\ naluArray[u].len <= bufferSize
                BY <1>1, <1>5, RoomLeft
            <4>2. bufferSize \in Nat
                BY <1>5, TailFacts
            <4> QED BY <4>1, <4>2
        <3>2. r = "OK" /\ Intact(nalu', u)
            BY <1>2, <1>7, <2>5, <3>1, FragmentsRead
        <3> QED BY <1>2, <3>2, BecomesDelivered
    <2> QED BY <1>4, <2>1, <2>2, <2>3, <2>4, <2>5
<1>8. ASSUME NEW u \in 0..(headIndex' - 1), NEW s \in InSlots'
      PROVE  /\ WholeAt(u, s)' => IsAhead(u, s)' \/ IsDelivered(u)'
             /\ \A j \in InSlots' :
                    FragmentsAt(u, s, j)' /\ ~BehindOpen(s)'
                        => rTailIndex' <= s \/ IsDelivered(u)'
    <2>1. u \in 0..(headIndex - 1) /\ s \in InSlots /\ InSlots' = InSlots
        BY DEF InSlots
    <2>2. WholeAt(u, s)' <=> WholeAt(u, s)
        BY UnitsKept
    <2>3. BehindOpen(s)' <=> BehindOpen(s)
        BY UnitsKept
    <2>4. \A j : FragmentsAt(u, s, j)' <=> FragmentsAt(u, s, j)
        BY UnitsKept
    <2>5. WholeAt(u, s)' => IsAhead(u, s)' \/ IsDelivered(u)'
        BY <1>6, <2>1, <2>2
    <2>6. ASSUME NEW j \in InSlots', FragmentsAt(u, s, j)', ~BehindOpen(s)'
          PROVE  rTailIndex' <= s \/ IsDelivered(u)'
        BY <1>7, <2>1, <2>3, <2>4, <2>6
    <2> QED BY <2>5, <2>6
<1> QED BY <1>8

(* A call that reads nothing loses nothing.                                *)
LEMMA PauseContained ==
    ASSUME ContainmentInv, IsReading, Pauses,
           UNCHANGED <<naluArray, headIndex, sent, packetsArray, rHeadIndex, bufferSize>>,
           stage' = "done" => rTailIndex = rHeadIndex
    PROVE  ContainmentInv'
<1> SUFFICES ASSUME BufferSuffices'
             PROVE  \A u \in 0..(headIndex' - 1), s \in InSlots' :
                        /\ WholeAt(u, s)' => IsAhead(u, s)' \/ IsDelivered(u)'
                        /\ \A j \in InSlots' :
                            FragmentsAt(u, s, j)' /\ ~BehindOpen(s)'
                                => rTailIndex' <= s \/ IsDelivered(u)'
    BY DEF ContainmentInv, Pauses
<1>1. BufferSuffices
    BY DEF BufferSuffices
<1>2. ASSUME NEW u, IsDelivered(u) PROVE IsDelivered(u)'
    <2>1. PICK i \in DOMAIN ReadSoFar : DeliveredAs(i, u)
        BY <1>2 DEF IsDelivered
    <2>2. i \in DOMAIN ReadSoFar' /\ ReadSoFar'[i] = ReadSoFar[i]
        BY DEF Pauses
    <2>3. DeliveredAs(i, u)'
        BY <2>1, <2>2, DeliveredKept
    <2> QED BY <2>2, <2>3 DEF IsDelivered
<1>3. ASSUME NEW u \in 0..(headIndex' - 1), NEW s \in InSlots'
      PROVE  /\ WholeAt(u, s)' => IsAhead(u, s)' \/ IsDelivered(u)'
             /\ \A j \in InSlots' :
                    FragmentsAt(u, s, j)' /\ ~BehindOpen(s)'
                        => rTailIndex' <= s \/ IsDelivered(u)'
    <2>1. u \in 0..(headIndex - 1) /\ s \in InSlots /\ InSlots' = InSlots
        BY DEF InSlots
    <2>2. WholeAt(u, s)' <=> WholeAt(u, s)
        BY UnitsKept
    <2>3. BehindOpen(s)' <=> BehindOpen(s)
        BY UnitsKept
    <2>4. \A j : FragmentsAt(u, s, j)' <=> FragmentsAt(u, s, j)
        BY UnitsKept
    <2>5. IsAhead(u, s) => IsAhead(u, s)'
        <3>1. OffsetOf(Slot(s), u)' = OffsetOf(Slot(s), u)
            BY UnitsKept
        <3> QED BY <3>1 DEF IsAhead, Pauses
    <2>6. WholeAt(u, s)' => IsAhead(u, s)' \/ IsDelivered(u)'
        BY <1>1, <1>2, <2>1, <2>2, <2>5 DEF ContainmentInv
    <2>7. ASSUME NEW j \in InSlots', FragmentsAt(u, s, j)', ~BehindOpen(s)'
          PROVE  rTailIndex' <= s \/ IsDelivered(u)'
        <3>1. FragmentsAt(u, s, j) /\ ~BehindOpen(s) /\ j \in InSlots
            BY <2>1, <2>3, <2>4, <2>7
        <3>2. rTailIndex <= s \/ IsDelivered(u)
            BY <1>1, <2>1, <3>1 DEF ContainmentInv
        <3> QED BY <1>2, <3>2 DEF Pauses
    <2> QED BY <2>6, <2>7
<1> QED BY <1>3

(* A step of the session keeps what was read a sequence.                   *)
LEMMA ListsKept ==
    ASSUME SessionInv, ListsInv, SessionNext \/ UNCHANGED sessionVars
    PROVE  ListsInv'
<1>1. CASE ReadNalu \/ ReadFrame \/ ReadFrameTurn
    BY <1>1, ReadNaluSteps, ReadFrameSteps, ReadFrameTurnSteps
<1>2. CASE UNCHANGED <<frame, delivered>>
    BY <1>2 DEF ListsInv, IsList
<1>3. CASE SendPacket \/ StrayArrives
    <2>1. ASSUME NEW p, Arrives(p) PROVE UNCHANGED frame
        BY <2>1, Zenon DEF Arrives, Receiver!frameOut,
            Receiver!H265Depacketizer_AddPacket, Receiver!Refuse
    <2>2. frame' = frame
        <3>1. CASE SendPacket
            <4>1. Arrives(packet') \/ UNCHANGED frame
                BY <3>1, Zenon DEF SendPacket, IsLost, receiver
            <4>2. PICK p : p = packet'
                OBVIOUS
            <4>3. Arrives(p) \/ UNCHANGED frame
                BY <4>1, <4>2
            <4> QED BY <2>1, <4>3
        <3>2. CASE StrayArrives
            BY <2>1, <3>2 DEF StrayArrives
        <3> QED BY <1>3, <3>1, <3>2
    <2>3. delivered' = delivered
        BY <1>3 DEF SendPacket, StrayArrives, session
    <2> QED BY <1>2, <2>2, <2>3
<1>4. CASE NextFrame
    <2>1. PICK n \in PacketArrayLengths \ {0} : Receiver!H265Depacketizer_Init(n)
        BY <1>4 DEF NextFrame
    <2>2. delivered' = << >>
        BY <1>4 DEF NextFrame
    <2>3. frame' = << >>
        <3>1. n # 0
            OBVIOUS
        <3> QED BY <2>1, <3>1 DEF Receiver!H265Depacketizer_Init
    <2>4. IsList(frame') /\ IsList(delivered')
        BY <2>2, <2>3, EmptyList
    <2> QED BY <2>4 DEF ListsInv, IsList
<1>5. CASE AddFrame \/ StopSending \/ UNCHANGED sessionVars
    <2>1. UNCHANGED <<frame, delivered>>
        BY <1>5 DEF AddFrame, StopSending, sessionVars, receiver, session
    <2> QED BY <1>2, <2>1
<1> QED BY <1>1, <1>3, <1>4, <1>5, Zenon DEF SessionNext

(* The invariant of the receiver in the session holds initially.           *)
LEMMA ReadingInitInv == SessionInit => ReadingInv
<1> SUFFICES ASSUME SessionInit PROVE ReadingInv
    OBVIOUS
<1>1. frame = << >> /\ delivered = << >>
    BY DEF SessionInit, Receiver!Init
<1>2. ListsInv
    BY <1>1, EmptyList DEF ListsInv
<1> QED BY <1>2, SessionInitInv DEF ReadingInv

(* A step of the session keeps it.                                         *)
LEMMA ReadingStepInv ==
    ASSUME SingleTypes, DatagramSizes, ReadingInv, SessionNext \/ UNCHANGED sessionVars
    PROVE  ReadingInv'
BY SessionStepInv, ListsKept DEF ReadingInv

(* A step of the session keeps every NAL unit that arrived ahead of the    *)
(* receiver or delivered.                                                  *)
LEMMA ContainmentStepInv ==
    ASSUME SingleTypes, DatagramSizes, ReadingInv, ContainmentInv,
           SessionNext \/ UNCHANGED sessionVars
    PROVE  ContainmentInv'
<1>1. SessionInv /\ ListsInv
    BY DEF ReadingInv
<1>2. CASE AddFrame \/ SendPacket \/ StrayArrives \/ NextFrame
    <2>1. stage' \in {"adding", "sending"}
        BY <1>2 DEF AddFrame, SendPacket, StrayArrives, NextFrame, session
    <2> QED BY <2>1 DEF ContainmentInv, IsReading
<1>3. CASE StopSending
    <2>1. /\ stage' = "receiving" /\ rTailIndex' = 0 /\ curPacketIndex' = 0
          /\ UNCHANGED <<packetsArray, rHeadIndex, sent>>
        BY <1>1, <1>3 DEF StopSending, receiver, SessionInv, ContextsInv, StageInv
    <2>2. UNCHANGED <<naluArray, headIndex>>
        BY <1>3 DEF StopSending, GetPacket, H265Packetizer_GetPacket,
            PacketizeFragmentationUnitPacket, Refuse, added
    <2>3. SenderInv /\ IInv /\ rHeadIndex \in Nat /\ headIndex \in Nat
        BY <1>1, TailFacts
    <2>4. ASSUME NEW u \in 0..(headIndex' - 1), NEW s \in InSlots'
          PROVE  rTailIndex' <= s /\ (WholeAt(u, s)' => IsAhead(u, s)')
        <3>1. s \in Nat /\ u \in Nat
            BY <2>1, <2>2, <2>3 DEF InSlots
        <3>2. ASSUME WholeAt(u, s) PROVE OffsetOf(Slot(s), u) \in Nat
            <4>1. /\ SentPacket(Slot(s)) /\ ~IsFragment(Slot(s))
                  /\ FirstOf(Slot(s)) <= u /\ u <= LastOf(Slot(s))
                BY <2>3, <3>2 DEF WholeAt, SenderInv
            <4>2. u \in FirstOf(Slot(s))..LastOf(Slot(s))
                BY <2>3, <3>1, <4>1, WholeFacts
            <4> QED BY <2>3, <4>1, <4>2, OffsetFacts
        <3>3. WholeAt(u, s)' <=> WholeAt(u, s)
            BY <2>1, <2>2, UnitsKept
        <3>4. OffsetOf(Slot(s), u)' = OffsetOf(Slot(s), u)
            BY <2>1, <2>2, UnitsKept
        <3> QED BY <2>1, <3>1, <3>2, <3>3, <3>4 DEF IsAhead
    <2> QED BY <2>1, <2>4 DEF ContainmentInv
<1>4. CASE ReadNalu \/ ReadFrame \/ ReadFrameTurn
    <2>1. UNCHANGED <<naluArray, headIndex, sent, packetsArray, rHeadIndex, bufferSize>>
        BY <1>4, ReadingKeeps DEF vars, added
    <2>2. IsReading /\ stage # "done" /\ ~IsSending
        BY <1>4 DEF ReadNalu, ReadFrame, ReadFrameTurn, IsReading, IsSending
    <2>3. rHeadIndex = rTailIndex + packetCount /\ rTailIndex \in Nat /\ bufferSize \in Nat
        BY <1>1, <2>2, TailFacts
    <2>4. CASE ReadNalu
        <3>1. CASE stage' = "done" /\ packetCount = 0 /\ Pauses
            BY <2>1, <2>2, <2>3, <3>1, PauseContained
        <3>2. CASE stage' = "reading" /\ \E r : Turn(bufferSize, r)
            <4>1. PICK r : Turn(bufferSize, r)
                BY <3>2
            <4>2. bufferSize \in Int /\ stage' # "done" /\ bufferSize <= bufferSize
                BY <2>3, <3>2
            <4> QED BY <1>1, <2>1, <2>2, <4>1, <4>2, TurnContained
        <3>3. CASE stage' = "done" /\ rResult' \notin {"NO_MORE_NALUS", "OK"}
            BY <3>3 DEF ContainmentInv, IsReading
        <3> QED BY <1>1, <2>4, <3>1, <3>2, <3>3, ReadNaluSteps
    <2>5. CASE ReadFrame
        <3>1. CASE Pauses /\ stage' = "reading frame"
            BY <2>1, <2>2, <3>1, PauseContained
        <3>2. CASE stage' = "done" /\ rResult' \notin {"NO_MORE_NALUS", "OK"}
            BY <3>2 DEF ContainmentInv, IsReading
        <3> QED BY <1>1, <2>5, <3>1, <3>2, ReadFrameSteps
    <2>6. CASE ReadFrameTurn
        <3>1. CASE stage' = "reading frame" /\ Turn(Room, "OK")
            <4>1. Room \in Int
                BY <1>1, <2>3 DEF Room, Reader!STARTCODE_SIZE, SessionInv, ContextsInv,
                    Reader!FrameInv
            <4> QED BY <1>1, <2>1, <2>2, <3>1, <4>1, TurnContained
        <3>2. CASE stage' = "done" /\ packetCount = 0 /\ Pauses
            BY <2>1, <2>2, <2>3, <3>2, PauseContained
        <3>3. CASE stage' = "done" /\ rResult' \notin {"NO_MORE_NALUS", "OK"}
            BY <3>3 DEF ContainmentInv, IsReading
        <3> QED BY <1>1, <2>6, <3>1, <3>2, <3>3, ReadFrameTurnSteps
    <2> QED BY <1>4, <2>4, <2>5, <2>6
<1>5. CASE UNCHANGED sessionVars
    <2>1. /\ UNCHANGED <<naluArray, headIndex, sent, packetsArray, rHeadIndex, bufferSize>>
          /\ UNCHANGED <<rTailIndex, curPacketIndex, stage, frame, delivered, rResult>>
        BY <1>5 DEF sessionVars, vars, added, receiver, session
    <2>2. CASE IsReading /\ BufferSuffices
        <3>1. Pauses
            BY <2>1 DEF Pauses, ReadSoFar
        <3>2. stage' = "done" => rTailIndex = rHeadIndex
            BY <2>1, <2>2 DEF ContainmentInv
        <3> QED BY <2>1, <2>2, <3>1, <3>2, PauseContained
    <2>3. CASE ~(IsReading /\ BufferSuffices)
        <3>1. (IsReading' <=> IsReading) /\ (BufferSuffices' <=> BufferSuffices)
            BY <2>1 DEF IsReading, BufferSuffices
        <3> QED BY <2>3, <3>1 DEF ContainmentInv
    <2> QED BY <2>2, <2>3
<1> QED BY <1>2, <1>3, <1>4, <1>5, Zenon DEF SessionNext

(* What is lost or comes from elsewhere costs the NAL units it takes away  *)
(* or interrupts, and at most the fragmented one right behind an open      *)
(* fragment: see LossIsContained.                                          *)
THEOREM LossStaysContained ==
    ASSUME SingleTypes, DatagramSizes
    PROVE  SessionSpec => []LossIsContained
<1> DEFINE Inv == ReadingInv /\ ContainmentInv
<1>1. SessionInit => Inv
    <2> SUFFICES ASSUME SessionInit PROVE Inv
        OBVIOUS
    <2>1. ~IsReading
        BY DEF SessionInit, IsReading
    <2> QED BY <2>1, ReadingInitInv DEF ContainmentInv
<1>2. Inv /\ [SessionNext]_sessionVars => Inv'
    BY ReadingStepInv, ContainmentStepInv
<1>3. Inv => LossIsContained
    <2> SUFFICES ASSUME Inv, stage = "done", rResult \in {"NO_MORE_NALUS", "OK"},
                        BufferSuffices, NEW u \in 0..(headIndex - 1),
                        PacketsOf(u) \subseteq Stored, ~Interrupted(u),
                        ~BehindOpenFragment(u)
                 PROVE  \E i \in DOMAIN delivered :
                            delivered[i].result = "OK" /\ Intact(delivered[i].pieces, u)
        BY DEF LossIsContained
    <2>1. IsReading /\ ~IsSending
        BY DEF IsReading, IsSending
    <2>2. /\ SessionInv /\ StreamInv /\ NetworkInv /\ SenderInv
          /\ tailIndex = headIndex /\ rHeadIndex \in Nat
        BY <2>1, TailFacts DEF ReadingInv, SessionInv, ContextsInv, StageInv
    <2>3. \/ \E s \in InSlots : WholeAt(u, s)
          \/ \E s, j \in InSlots : FragmentsAt(u, s, j) /\ ~BehindOpen(s)
        BY <2>2, UnitExists
    <2>4. rTailIndex = rHeadIndex
        BY <2>1 DEF ContainmentInv
    <2>5. \A s \in InSlots : ~(rTailIndex <= s) /\ ~IsAhead(u, s)
        BY <2>2, <2>4 DEF InSlots, IsAhead
    <2>6. IsDelivered(u)
        BY <2>1, <2>3, <2>5 DEF ContainmentInv
    <2>7. ReadSoFar = delivered
        BY DEF ReadSoFar
    <2> QED BY <2>6, <2>7 DEF IsDelivered, DeliveredAs
<1> HIDE DEF Inv
<1> QED BY <1>1, <1>2, <1>3, PTL DEF SessionSpec

-----------------------------------------------------------------------------
(* Nothing is lost: every NAL unit comes back.                             *)

(* What a packet holds of its first and last NAL unit is not empty.        *)
LEMMA PacketSpan ==
    ASSUME SingleTypes, IInv, NEW p, SentPacket(p)
    PROVE  /\ FirstOf(p) \in Nat /\ LastOf(p) \in Nat /\ FirstOf(p) <= LastOf(p)
           /\ LastOf(p) < headIndex
           /\ FromOf(p) \in Nat /\ ToOf(p) \in Nat
           /\ naluArray[FirstOf(p)].len \in Nat /\ naluArray[LastOf(p)].len \in Nat
           /\ FromOf(p) < naluArray[FirstOf(p)].len
           /\ ToOf(p) <= naluArray[LastOf(p)].len
           /\ IF IsFragment(p) THEN LastOf(p) = FirstOf(p) /\ 2 < ToOf(p)
              ELSE FromOf(p) = 0 /\ ToOf(p) = naluArray[LastOf(p)].len /\ 2 <= ToOf(p)
<1>1. /\ FirstOf(p) \in Nat /\ LastOf(p) \in Nat /\ LastOf(p) < headIndex
      /\ LastOf(p) = FirstOf(p) + Len(p.runs) - 1
      /\ Len(p.runs) \in Nat /\ Len(p.runs) >= 1
      /\ FromOf(p) \in Nat /\ ToOf(p) \in Nat
    BY SentTypes
<1>2. FirstOf(p) <= LastOf(p)
    BY <1>1
<1>3. \A u \in FirstOf(p)..LastOf(p) : naluArray[u].len \in Nat /\ naluArray[u].len >= 2
    BY SentNalus
<1>4. FirstOf(p) \in FirstOf(p)..LastOf(p) /\ LastOf(p) \in FirstOf(p)..LastOf(p)
    BY <1>1, <1>2
<1>5. /\ naluArray[FirstOf(p)].len \in Nat /\ naluArray[FirstOf(p)].len >= 2
      /\ naluArray[LastOf(p)].len \in Nat /\ naluArray[LastOf(p)].len >= 2
    BY <1>3, <1>4
<1>6. CASE IsFragment(p)
    <2>1. SentFragment(p)
        BY <1>6, FragmentOrWhole
    <2>2. /\ LastOf(p) = FirstOf(p)
          /\ ToOf(p) = FromOf(p) + p.runs[1].len
          /\ p.runs[1].len \in Nat /\ p.runs[1].len >= 1
          /\ FromOf(p) >= 2 /\ ToOf(p) <= naluArray[FirstOf(p)].len
        BY <2>1, FragmentEnds
    <2> QED BY <1>1, <1>5, <1>6, <2>2
<1>7. CASE ~IsFragment(p)
    <2>1. WholeRuns(p)
        BY <1>7, FragmentOrWhole
    <2>2. FromOf(p) = 0 /\ ToOf(p) = naluArray[LastOf(p)].len
        BY <2>1, WholeEnds
    <2> QED BY <1>1, <1>2, <1>5, <1>7, <2>2
<1> QED BY <1>6, <1>7

(* What arrived without loss is what was sent, in order.                   *)
LEMMA LosslessSlots ==
    ASSUME SenderInv, NetworkInv, Lossless
    PROVE  /\ \A i \in InSlots : Slot(i) \in sent /\ SentPacket(Slot(i))
           /\ \A i, j \in InSlots : i < j => Before(Slot(i), Slot(j))
           /\ \A p \in sent : \E i \in InSlots : Slot(i) = p
<1>1. \A i \in InSlots : Slot(i) \in sent
    BY DEF Lossless, Stored, InSlots, Slot
<1>2. \A i \in InSlots : SentPacket(Slot(i)) /\ ~IsStray(Slot(i))
    BY <1>1 DEF SenderInv, SentPacket, IsStray
<1>3. \A i, j \in InSlots : i < j => Before(Slot(i), Slot(j))
    BY <1>2 DEF NetworkInv
<1>4. \A p \in sent : \E i \in InSlots : Slot(i) = p
    BY DEF Lossless, Stored, InSlots, Slot
<1> QED BY <1>1, <1>2, <1>3, <1>4

(* The slots from t on are those of the NAL units from v on.               *)
Divides(v, t) ==
    /\ v \in Nat /\ t \in Nat /\ t <= rHeadIndex
    /\ \A i \in InSlots :
        /\ i < t => LastOf(Slot(i)) < v
        /\ t <= i => v <= FirstOf(Slot(i))

(* They are so behind the last byte of a NAL unit.                         *)
LEMMA DividesBehind ==
    ASSUME SingleTypes, SenderInv, NetworkInv, Lossless, rHeadIndex \in Nat,
           NEW k \in InSlots, ToOf(Slot(k)) = naluArray[LastOf(Slot(k))].len
    PROVE  Divides(LastOf(Slot(k)) + 1, k + 1)
<1> DEFINE u == LastOf(Slot(k))
<1>1. IInv /\ \A i \in InSlots : SentPacket(Slot(i))
    BY LosslessSlots DEF SenderInv
<1>2. \A i \in InSlots :
        /\ FirstOf(Slot(i)) \in Nat /\ LastOf(Slot(i)) \in Nat
        /\ FirstOf(Slot(i)) <= LastOf(Slot(i))
        /\ FromOf(Slot(i)) \in Nat /\ ToOf(Slot(i)) \in Nat
        /\ naluArray[FirstOf(Slot(i))].len \in Nat
        /\ FromOf(Slot(i)) < naluArray[FirstOf(Slot(i))].len
    BY <1>1, PacketSpan
<1>3. k \in Nat /\ k + 1 <= rHeadIndex /\ u \in Nat
    BY <1>2 DEF InSlots
<1>4. ASSUME NEW i \in InSlots, i < k + 1 PROVE LastOf(Slot(i)) < u + 1
    <2>1. i \in Nat
        BY DEF InSlots
    <2>2. CASE i = k
        BY <1>2, <2>2
    <2>3. CASE i < k
        <3>1. Before(Slot(i), Slot(k))
            BY <2>3, LosslessSlots
        <3>2. LastOf(Slot(i)) <= FirstOf(Slot(k))
            BY <1>2, <3>1 DEF Before
        <3> QED BY <1>2, <3>2
    <2> QED BY <1>3, <1>4, <2>1, <2>2, <2>3
<1>5. ASSUME NEW i \in InSlots, k + 1 <= i PROVE u + 1 <= FirstOf(Slot(i))
    <2>1. i \in Nat /\ k < i
        BY <1>3, <1>5 DEF InSlots
    <2>2. Before(Slot(k), Slot(i))
        BY <2>1, LosslessSlots
    <2>3. ~(LastOf(Slot(k)) = FirstOf(Slot(i)) /\ ToOf(Slot(k)) <= FromOf(Slot(i)))
        BY <1>2
    <2>4. u < FirstOf(Slot(i))
        BY <2>2, <2>3 DEF Before
    <2> QED BY <1>2, <1>3, <2>4
<1> HIDE DEF u
<1>6. u + 1 \in Nat /\ k + 1 \in Nat
    BY <1>3
<1>7. Divides(u + 1, k + 1)
    BY <1>3, <1>4, <1>5, <1>6 DEF Divides
<1> QED BY <1>7 DEF u

(* No packet, no gap: what arrived without loss is not interrupted.        *)
LEMMA Unbroken ==
    ASSUME SingleTypes, SenderInv, StreamInv, NetworkInv, Lossless, rHeadIndex \in Nat,
           tailIndex = headIndex, NEW u \in 0..(headIndex - 1)
    PROVE  PacketsOf(u) \subseteq Stored /\ ~Interrupted(u) /\ ~BehindOpenFragment(u)
<1>1. /\ IInv /\ headIndex \in Nat /\ u \in Nat
      /\ \A i \in InSlots : SentPacket(Slot(i)) /\ Slot(i) \in sent
    BY LosslessSlots, PlaceTypes DEF SenderInv
<1>2. \A i \in InSlots :
        /\ FirstOf(Slot(i)) \in Nat /\ LastOf(Slot(i)) \in Nat
        /\ FirstOf(Slot(i)) <= LastOf(Slot(i))
        /\ FromOf(Slot(i)) \in Nat /\ ToOf(Slot(i)) \in Nat
        /\ naluArray[FirstOf(Slot(i))].len \in Nat
        /\ FromOf(Slot(i)) < naluArray[FirstOf(Slot(i))].len
        /\ naluArray[LastOf(Slot(i))].len \in Nat
    BY <1>1, PacketSpan
<1>3. \A i : i \in Slots(u) <=>
        i \in InSlots /\ FirstOf(Slot(i)) <= u /\ u <= LastOf(Slot(i))
    <2> TAKE i
    <2>1. i \in Slots(u) <=> i \in InSlots /\ Slot(i) \in sent /\ Carries(Slot(i), u)
        BY <1>1, CarriedSlot
    <2>2. i \in InSlots =>
            (Carries(Slot(i), u) <=> FirstOf(Slot(i)) <= u /\ u <= LastOf(Slot(i)))
        BY <1>1, CarriesRange
    <2> QED BY <1>1, <2>1, <2>2
<1>4. \A i, j \in InSlots : i < j => LastOf(Slot(i)) <= FirstOf(Slot(j))
    <2> TAKE i, j \in InSlots
    <2>1. i < j => Before(Slot(i), Slot(j))
        BY LosslessSlots
    <2> QED BY <1>2, <2>1 DEF Before
<1>5. PacketsOf(u) \subseteq Stored
    BY DEF PacketsOf, Lossless
<1>6. ~Interrupted(u)
    <2> SUFFICES ASSUME NEW i \in Slots(u), NEW j \in Slots(u), NEW k \in InSlots,
                        i < k, k < j, k \notin Slots(u)
                 PROVE  FALSE
        BY DEF Interrupted, InSlots
    <2>1. i \in InSlots /\ j \in InSlots /\ u <= LastOf(Slot(i)) /\ FirstOf(Slot(j)) <= u
        BY <1>3
    <2>2. LastOf(Slot(i)) <= FirstOf(Slot(k)) /\ LastOf(Slot(k)) <= FirstOf(Slot(j))
        BY <1>4, <2>1
    <2>3. u <= FirstOf(Slot(k)) /\ LastOf(Slot(k)) <= u
        BY <1>1, <1>2, <2>1, <2>2
    <2> QED BY <1>1, <1>2, <1>3, <2>3
<1>7. ~BehindOpenFragment(u)
    <2> SUFFICES ASSUME NEW i \in Slots(u), i > 0, i - 1 \notin Slots(u),
                        IsFragment(Slot(i)), IsFragment(Slot(i - 1)), ~Slot(i - 1).fu.e
                 PROVE  FALSE
        BY DEF BehindOpenFragment, Slot
    <2>1. /\ i \in InSlots /\ i \in Nat /\ i - 1 \in InSlots /\ i - 1 < i
          /\ FirstOf(Slot(i)) <= u /\ u <= LastOf(Slot(i))
        BY <1>3 DEF InSlots
    <2>2. PICK h \in InSlots : h = i - 1
        BY <2>1
    <2>3. LastOf(Slot(i)) = FirstOf(Slot(i))
        BY <1>1, <2>1, PacketSpan
    <2>4. LastOf(Slot(h)) = FirstOf(Slot(h)) /\ ToOf(Slot(h)) # naluArray[FirstOf(Slot(h))].len
        <3>1. SentFragment(Slot(h))
            BY <1>1, <2>2, FragmentOrWhole
        <3> QED BY <1>1, <2>2, <3>1, FragmentEnds
    <2>5. PICK v : v = FirstOf(Slot(h))
        OBVIOUS
    <2>6. v \in Nat /\ v < u
        <3>1. LastOf(Slot(h)) <= FirstOf(Slot(i))
            BY <1>4, <2>1, <2>2
        <3>2. ~(FirstOf(Slot(h)) <= u /\ u <= LastOf(Slot(h)))
            BY <1>3, <2>2
        <3> QED BY <1>1, <1>2, <2>1, <2>3, <2>4, <2>5, <3>1, <3>2
    <2>7. v \in 0..(tailIndex - 1)
        BY <1>1, <2>6
    <2>8. PICK p \in sent : /\ FirstOf(p) <= v /\ v <= LastOf(p)
                            /\ v = LastOf(p) => ToOf(p) = naluArray[v].len
        BY <2>7 DEF StreamInv
    <2>9. PICK k \in InSlots : Slot(k) = p
        BY LosslessSlots
    <2>10. h \in Nat /\ k \in Nat /\ i = h + 1
        BY <2>1, <2>2 DEF InSlots
    <2>11. ~(k < h)
        <3> SUFFICES ASSUME k < h PROVE FALSE
            OBVIOUS
        <3>1. Before(p, Slot(h))
            BY <2>9, LosslessSlots
        <3>2. LastOf(p) = v /\ ToOf(p) <= FromOf(Slot(h))
            BY <1>2, <2>5, <2>6, <2>8, <2>9, <3>1 DEF Before
        <3>3. naluArray[v].len <= FromOf(Slot(h))
            BY <2>8, <3>2
        <3> QED BY <1>2, <2>5, <3>3
    <2>12. k # h
        BY <2>4, <2>5, <2>8, <2>9
    <2>13. ~(i <= k)
        <3> SUFFICES ASSUME i <= k PROVE FALSE
            OBVIOUS
        <3>1. FirstOf(Slot(i)) <= FirstOf(p)
            <4>1. CASE i = k
                BY <1>2, <2>9, <4>1
            <4>2. CASE i < k
                BY <1>2, <1>4, <2>1, <2>3, <2>9, <4>2
            <4> QED BY <2>1, <2>10, <4>1, <4>2
        <3> QED BY <1>1, <1>2, <2>1, <2>3, <2>6, <2>8, <2>9, <3>1
    <2> QED BY <2>10, <2>11, <2>12, <2>13
<1> QED BY <1>5, <1>6, <1>7

(* NAL unit v starts with slot t, and all of it is there.                  *)
StartsAt(v, t) ==
    /\ t < rHeadIndex
    /\ \/ WholeAt(v, t) /\ FirstOf(Slot(t)) = v
       \/ \E j : FragmentsAt(v, t, j)

(* If nothing was lost, the next NAL unit starts in the next slot.         *)
LEMMA NextStarts ==
    ASSUME SingleTypes, SessionInv, Lossless, tailIndex = headIndex,
           NEW v, NEW t, Divides(v, t), v <= headIndex
    PROVE  IF v = headIndex THEN t = rHeadIndex ELSE StartsAt(v, t)
<1>1. /\ SenderInv /\ IInv /\ StreamInv /\ NetworkInv
      /\ rHeadIndex \in Nat /\ headIndex \in Nat
    BY TailFacts DEF SessionInv
<1>2. \A i \in InSlots : SentPacket(Slot(i))
    BY <1>1, LosslessSlots
<1>3. v \in Nat /\ t \in Nat /\ t <= rHeadIndex
    BY DEF Divides
<1>4. CASE v = headIndex
    <2>1. ASSUME t # rHeadIndex PROVE FALSE
        <3>1. t \in InSlots
            BY <1>1, <1>3, <2>1 DEF InSlots
        <3>2. v <= FirstOf(Slot(t))
            BY <1>3, <3>1 DEF Divides
        <3>3. /\ FirstOf(Slot(t)) \in Nat /\ LastOf(Slot(t)) \in Nat
              /\ FirstOf(Slot(t)) <= LastOf(Slot(t)) /\ LastOf(Slot(t)) < headIndex
            BY <1>1, <1>2, <3>1, PacketSpan
        <3> QED BY <1>1, <1>4, <3>2, <3>3
    <2> QED BY <1>4, <2>1
<1>5. CASE v # headIndex
    <2>1. v \in 0..(headIndex - 1)
        BY <1>1, <1>3, <1>5
    <2>2. PacketsOf(v) \subseteq Stored /\ ~Interrupted(v) /\ ~BehindOpenFragment(v)
        BY <1>1, <2>1, Unbroken
    <2>3. \/ \E s \in InSlots : WholeAt(v, s)
          \/ \E s, j \in InSlots : FragmentsAt(v, s, j) /\ ~BehindOpen(s)
        BY <1>1, <2>1, <2>2, UnitExists
    <2>4. PICK s \in InSlots : WholeAt(v, s) \/ \E j : FragmentsAt(v, s, j)
        BY <2>3
    <2>5. /\ FirstOf(Slot(s)) <= v /\ v <= LastOf(Slot(s))
          /\ FromOf(Slot(s)) < naluArray[FirstOf(Slot(s))].len
          /\ FromOf(Slot(s)) \in {0, 2}
          /\ FirstOf(Slot(s)) \in Nat /\ LastOf(Slot(s)) \in Nat
          /\ naluArray[FirstOf(Slot(s))].len \in Nat
        <3>1. SentPacket(Slot(s))
            BY <1>2
        <3>2. CASE WholeAt(v, s)
            <4>1. ~IsFragment(Slot(s)) /\ FirstOf(Slot(s)) <= v /\ v <= LastOf(Slot(s))
                BY <3>2 DEF WholeAt
            <4> QED BY <1>1, <3>1, <4>1, PacketSpan
        <3>3. CASE \E j : FragmentsAt(v, s, j)
            <4>1. PICK j : FragmentsAt(v, s, j)
                BY <3>3
            <4>2. s \in s..j /\ FromOf(Slot(s)) = 2
                BY <1>1, <4>1 DEF FragmentsAt, InSlots, NALU_HEADER_SIZE
            <4>3. FragmentOf(v, Slot(s))
                BY <4>1, <4>2 DEF FragmentsAt
            <4>4. FirstOf(Slot(s)) = v /\ LastOf(Slot(s)) = v
                BY <1>1, <4>3, FragmentFacts
            <4> QED BY <1>1, <1>3, <3>1, <4>2, <4>4, PacketSpan
        <3> QED BY <2>4, <3>2, <3>3
    <2>6. s \in Nat /\ s < rHeadIndex
        BY <1>1 DEF InSlots
    <2>7. t <= s
        <3>1. s < t => LastOf(Slot(s)) < v
            BY DEF Divides
        <3> QED BY <1>3, <2>5, <2>6, <3>1
    <2>8. FirstOf(Slot(s)) = v
        <3>1. v <= FirstOf(Slot(s))
            BY <2>7 DEF Divides
        <3> QED BY <1>3, <2>5, <3>1
    <2>9. t \in InSlots
        BY <1>1, <1>3, <2>6, <2>7 DEF InSlots
    <2>10. ~(t < s)
        <3> SUFFICES ASSUME t < s PROVE FALSE
            OBVIOUS
        <3>1. Before(Slot(t), Slot(s))
            BY <1>1, <2>9, LosslessSlots
        <3>2. v <= FirstOf(Slot(t))
            BY <1>3, <2>9 DEF Divides
        <3>3. /\ FirstOf(Slot(t)) \in Nat /\ LastOf(Slot(t)) \in Nat
              /\ FirstOf(Slot(t)) <= LastOf(Slot(t))
              /\ ToOf(Slot(t)) \in Nat /\ 2 <= ToOf(Slot(t))
              /\ IsFragment(Slot(t)) => 2 < ToOf(Slot(t))
              /\ ~IsFragment(Slot(t)) => ToOf(Slot(t)) = naluArray[LastOf(Slot(t))].len
            BY <1>1, <1>2, <2>9, PacketSpan
        <3>4. LastOf(Slot(t)) = v /\ ToOf(Slot(t)) <= FromOf(Slot(s))
            BY <1>3, <2>5, <2>8, <3>1, <3>2, <3>3 DEF Before
        <3>5. CASE IsFragment(Slot(t))
            BY <2>5, <3>3, <3>4, <3>5
        <3>6. CASE ~IsFragment(Slot(t))
            <4>1. ToOf(Slot(t)) = naluArray[v].len
                BY <3>3, <3>4, <3>6
            <4> QED BY <2>5, <2>8, <3>4, <4>1
        <3> QED BY <3>5, <3>6
    <2>11. s = t
        BY <1>3, <2>6, <2>7, <2>10
    <2> QED BY <1>5, <2>4, <2>6, <2>8, <2>11 DEF StartsAt
<1> QED BY <1>4, <1>5

(* NAL unit u is the one that the receiver reads next.                     *)
NextIs(u) ==
    \/ ReadsNext(u, rTailIndex)
    \/ \E j : FragmentsAt(u, rTailIndex, j)

(* A receiver that starts with a packet reads the NAL unit that starts     *)
(* with it.                                                                *)
LEMMA StartIsNext ==
    ASSUME UNCHANGED <<naluArray, sent, packetsArray, rHeadIndex>>, NEW v, NEW t,
           StartsAt(v, t), rTailIndex' = t, curPacketIndex' = 0
    PROVE  NextIs(v)'
<1>1. CASE WholeAt(v, t) /\ FirstOf(Slot(t)) = v
    <2>1. WholeAt(v, t)'
        BY <1>1, UnitsKept
    <2>2. Slot(t)' = Slot(t)
        BY DEF Slot
    <2>3. FirstOf(Slot(t))' = v
        BY <1>1, <2>2 DEF FirstOf
    <2>4. ReadsNext(v, t)'
        BY <2>1, <2>3 DEF ReadsNext
    <2> QED BY <2>4 DEF NextIs, ReadsNext
<1>2. CASE \E j : FragmentsAt(v, t, j)
    <2>1. PICK j : FragmentsAt(v, t, j)
        BY <1>2
    <2>2. FragmentsAt(v, t, j)'
        BY <2>1, UnitsKept
    <2>3. FragmentsAt(v, rTailIndex, j)'
        BY <2>2 DEF FragmentsAt
    <2> QED BY <2>3 DEF NextIs
<1> QED BY <1>1, <1>2 DEF StartsAt

(* A turn with room for the next NAL unit reads it, and the one behind it  *)
(* is next.                                                                *)
LEMMA TurnReadsNext ==
    ASSUME SingleTypes, SessionInv, Lossless, tailIndex = headIndex,
           NEW c \in 0..(headIndex - 1), NextIs(c), packetCount # 0,
           NEW size \in Int, NEW r, Reader!DepacketizeCurrent(size, r),
           r = "OK" \/ naluArray[c].len <= size,
           UNCHANGED <<naluArray, sent, packetsArray, rHeadIndex>>
    PROVE  /\ r = "OK" /\ Intact(nalu', c) /\ naluDataLength' = naluArray[c].len
           /\ \A d : d = c + 1 =>
                IF d = headIndex THEN rTailIndex' = rHeadIndex ELSE NextIs(d)'
<1>1. /\ SenderInv /\ IInv /\ StreamInv /\ NetworkInv
      /\ rHeadIndex \in Nat /\ headIndex \in Nat /\ c \in Nat
    BY TailFacts DEF SessionInv
<1>2. PICK d : d = c + 1
    OBVIOUS
<1>3. d \in Nat /\ d <= headIndex
    BY <1>1, <1>2
<1>4. PICK s : s = rTailIndex
    OBVIOUS
<1>5. ASSUME NEW k \in InSlots, LastOf(Slot(k)) = c,
             ToOf(Slot(k)) = naluArray[c].len,
             NEW t, t = k + 1, rTailIndex' = t, curPacketIndex' = 0
      PROVE  IF d = headIndex THEN rTailIndex' = rHeadIndex ELSE NextIs(d)'
    <2>1. Divides(LastOf(Slot(k)) + 1, k + 1)
        BY <1>1, <1>5, DividesBehind
    <2>2. Divides(d, t)
        BY <1>2, <1>5, <2>1
    <2>3. IF d = headIndex THEN t = rHeadIndex ELSE StartsAt(d, t)
        BY <1>3, <2>2, NextStarts
    <2>4. StartsAt(d, t) => NextIs(d)'
        BY <1>5, StartIsNext
    <2> QED BY <1>5, <2>3, <2>4
<1>6. CASE ReadsNext(c, s)
    <2>1. /\ r = "OK" /\ Intact(nalu', c) /\ naluDataLength' = naluArray[c].len
          /\ GoesOn(c, s)
        BY <1>1, <1>6, WholeRead
    <2>2. /\ WholeAt(c, s) /\ s \in InSlots /\ Slot(s) \in sent /\ ~IsFragment(Slot(s))
          /\ FirstOf(Slot(s)) <= c /\ c <= LastOf(Slot(s))
        BY <1>6 DEF ReadsNext, WholeAt
    <2>3. SentPacket(Slot(s))
        BY <1>1, <2>2 DEF SenderInv
    <2>4. /\ FirstOf(Slot(s)) \in Nat /\ LastOf(Slot(s)) \in Nat
          /\ LastOf(Slot(s)) < headIndex
          /\ ToOf(Slot(s)) = naluArray[LastOf(Slot(s))].len
        BY <1>1, <2>2, <2>3, PacketSpan
    <2>5. CASE c = LastOf(Slot(s)) /\ rTailIndex' = s + 1 /\ curPacketIndex' = 0
        <3>1. PICK t : t = s + 1
            OBVIOUS
        <3>2. IF d = headIndex THEN rTailIndex' = rHeadIndex ELSE NextIs(d)'
            BY <1>5, <2>2, <2>4, <2>5, <3>1
        <3> QED BY <1>2, <2>1, <3>2
    <2>6. CASE /\ c < LastOf(Slot(s)) /\ rTailIndex' = s
               /\ curPacketIndex' = OffsetOf(Slot(s), c + 1)
        <3>1. d # headIndex /\ FirstOf(Slot(s)) <= d /\ d <= LastOf(Slot(s))
            BY <1>1, <1>2, <2>2, <2>4, <2>6
        <3>2. WholeAt(d, s)
            BY <2>2, <3>1 DEF WholeAt
        <3>3. WholeAt(d, s)'
            BY <3>2, UnitsKept
        <3>4. OffsetOf(Slot(s), d)' = OffsetOf(Slot(s), d)
            BY UnitsKept
        <3>5. curPacketIndex' = OffsetOf(Slot(s), d)'
            BY <1>2, <2>6, <3>4
        <3>6. ReadsNext(d, s)'
            BY <2>6, <3>3, <3>5 DEF ReadsNext
        <3>7. NextIs(d)'
            BY <2>6, <3>6 DEF NextIs, ReadsNext
        <3> QED BY <1>2, <2>1, <3>1, <3>7
    <2> QED BY <2>1, <2>5, <2>6 DEF GoesOn
<1>7. CASE \E j : FragmentsAt(c, s, j)
    <2>1. PICK j : FragmentsAt(c, s, j)
        BY <1>7
    <2>2. /\ r = "OK" /\ Intact(nalu', c) /\ naluDataLength' = naluArray[c].len
          /\ rTailIndex' = j + 1 /\ curPacketIndex' = 0
        BY <1>4, <2>1, FragmentsRead
    <2>3. j \in InSlots /\ j \in s..j /\ ToOf(Slot(j)) = naluArray[c].len
        BY <1>1, <2>1 DEF FragmentsAt, InSlots
    <2>4. LastOf(Slot(j)) = c
        <3>1. FragmentOf(c, Slot(j))
            BY <2>1, <2>3 DEF FragmentsAt
        <3> QED BY <1>1, <3>1, FragmentFacts
    <2>5. PICK t : t = j + 1
        OBVIOUS
    <2>6. IF d = headIndex THEN rTailIndex' = rHeadIndex ELSE NextIs(d)'
        BY <1>5, <2>2, <2>3, <2>4, <2>5
    <2> QED BY <1>2, <2>2, <2>6
<1> QED BY <1>4, <1>6, <1>7 DEF NextIs

(* As many NAL units have been read as lie before the one read next, and   *)
(* they fill the frame up to where the next begins.                        *)
RoundTripInv ==
    LET c == Len(ReadSoFar)
    IN  ~IsSending /\ Lossless /\ BufferSuffices =>
        /\ c <= headIndex
        /\ stage = "done" => c = headIndex
        /\ IF c = headIndex THEN rTailIndex = rHeadIndex ELSE NextIs(c)
        /\ \A u \in 0..(c - 1) : \E i : i = u + 1 /\ DeliveredAs(i, u)
        /\ stage = "reading frame" => frameIndex = FrameEnds[c] - 4

(* As long as a packet is left, so is the next NAL unit, and as long as a  *)
(* NAL unit is left, so is a packet.                                       *)
LEMMA NextIsLeft ==
    ASSUME SessionInv, ListsInv, RoundTripInv, Lossless, BufferSuffices, ~IsSending,
           NEW c, c = Len(ReadSoFar)
    PROVE  /\ c \in Nat
           /\ packetCount # 0 => c \in 0..(headIndex - 1) /\ NextIs(c)
           /\ packetCount = 0 => c = headIndex
<1>1. c \in Nat
    BY CountRead
<1>2. /\ rHeadIndex = rTailIndex + packetCount /\ rTailIndex \in Nat
      /\ packetCount \in Nat /\ rHeadIndex \in Nat /\ headIndex \in Nat
    BY TailFacts
<1>3. c <= headIndex /\ IF c = headIndex THEN rTailIndex = rHeadIndex ELSE NextIs(c)
    BY DEF RoundTripInv
<1>4. NextIs(c) => rTailIndex \in InSlots
    BY DEF NextIs, ReadsNext, WholeAt, FragmentsAt
<1>5. NextIs(c) => packetCount # 0
    BY <1>2, <1>4 DEF InSlots
<1>6. packetCount # 0 => c # headIndex
    BY <1>2, <1>3
<1> QED BY <1>1, <1>2, <1>3, <1>5, <1>6

(* The index into the frame moves with what is read into it, or does not.  *)
IndexFollows ==
    stage' = "reading frame" =>
        /\ stage = "reading frame"
        /\ frameIndex' = frameIndex + Reader!STARTCODE_SIZE + naluDataLength'

IndexKept ==
    stage' = "reading frame" =>
        \/ frameIndex' = 0 /\ ReadSoFar = << >>
        \/ stage = "reading frame" /\ frameIndex' = frameIndex

(* A NAL unit of y bytes and its start code lie behind x bytes.            *)
LEMMA IndexBehind ==
    ASSUME NEW x \in Nat, NEW y \in Nat
    PROVE  (x - 4) + 4 + y = (x + 4 + y) - 4
OBVIOUS

(* A turn reads the next NAL unit, and the one behind it is next.          *)
LEMMA RoundTripTurn ==
    ASSUME SingleTypes, SessionInv, ListsInv, ~IsSending, RoundTripInv, Lossless,
           BufferSuffices, stage' # "done",
           NEW size \in Int, NEW r, Turn(size, r),
           r = "OK" \/ \A u \in 0..(headIndex - 1) : naluArray[u].len <= size,
           UNCHANGED <<naluArray, headIndex, sent, packetsArray, rHeadIndex, bufferSize>>,
           IndexFollows
    PROVE  RoundTripInv'
<1> DEFINE c == Len(ReadSoFar)
<1>1. /\ c \in Nat /\ DOMAIN ReadSoFar = 1..c
      /\ Len(ReadSoFar') = c + 1 /\ DOMAIN ReadSoFar' = 1..(c + 1)
      /\ \A i \in 1..c : ReadSoFar'[i] = ReadSoFar[i]
      /\ ReadSoFar'[c + 1] = [pieces |-> nalu', result |-> r]
    BY Zenon DEF Turn, OneMore
<1>2. /\ packetCount # 0 /\ Reader!DepacketizeCurrent(size, r)
      /\ OneMore(r)
    BY DEF Turn
<1>3. /\ \A u \in 0..(c - 1) : \E i : i = u + 1 /\ DeliveredAs(i, u)
      /\ stage = "reading frame" => frameIndex = FrameEnds[c] - 4
    BY DEF RoundTripInv
<1>4. c \in 0..(headIndex - 1) /\ NextIs(c)
    BY <1>2, NextIsLeft
<1> HIDE DEF c
<1>5. tailIndex = headIndex /\ headIndex \in Nat
    BY TailFacts DEF SessionInv, ContextsInv, StageInv
<1>6. /\ r = "OK" /\ Intact(nalu', c) /\ naluDataLength' = naluArray[c].len
      /\ \A d : d = c + 1 =>
            IF d = headIndex THEN rTailIndex' = rHeadIndex ELSE NextIs(d)'
    BY <1>2, <1>4, <1>5, TurnReadsNext
<1>7. PICK d : d = c + 1
    OBVIOUS
<1>8. /\ \A i \in 1..c : i \in 1..(c + 1)
      /\ c + 1 \in 1..(c + 1)
      /\ \A u \in 0..(d - 1) : u = c \/ u \in 0..(c - 1)
    BY <1>1, <1>7
<1>9. ASSUME NEW u \in 0..(d - 1)
      PROVE  \E i : i = u + 1 /\ DeliveredAs(i, u)'
    <2>1. CASE u \in 0..(c - 1)
        <3>1. PICK i : i = u + 1 /\ DeliveredAs(i, u)
            BY <1>3, <2>1
        <3>2. i \in DOMAIN ReadSoFar
            BY <3>1 DEF DeliveredAs
        <3>3. i \in DOMAIN ReadSoFar' /\ ReadSoFar'[i] = ReadSoFar[i]
            BY <1>1, <1>8, <3>2
        <3>4. DeliveredAs(i, u)'
            BY <3>1, <3>3, DeliveredKept
        <3> QED BY <3>1, <3>4
    <2>2. CASE u = c
        <3>1. PICK i : i = u + 1
            OBVIOUS
        <3>2. \A k : k = Len(ReadSoFar) + 1 => DeliveredAs(k, u)'
            BY <1>2, <1>6, <2>2, BecomesDelivered
        <3>3. DeliveredAs(i, u)'
            BY <2>2, <3>1, <3>2 DEF c
        <3> QED BY <3>1, <3>3
    <2> QED BY <1>8, <2>1, <2>2
<1>10. FrameEnds' = FrameEnds
    BY DEF FrameEnds
<1>11. stage' = "reading frame" => frameIndex' = FrameEnds[d] - 4
    <2> SUFFICES ASSUME stage' = "reading frame" PROVE frameIndex' = FrameEnds[d] - 4
        OBVIOUS
    <2>1. /\ frameIndex = FrameEnds[c] - 4
          /\ frameIndex' = frameIndex + 4 + naluArray[c].len
        BY <1>3, <1>6 DEF IndexFollows, Reader!STARTCODE_SIZE
    <2>2. /\ FrameEnds[c] \in Nat /\ FrameEnds[c + 1] \in Nat /\ naluArray[c].len \in Nat
          /\ FrameEnds[c + 1] = FrameEnds[c] + 4 + naluArray[c].len
        BY <1>4, RoomLeft
    <2>3. FrameEnds[d] = FrameEnds[c] + 4 + naluArray[c].len
        BY <1>7, <2>2
    <2>4. PICK x \in Nat, y \in Nat : x = FrameEnds[c] /\ y = naluArray[c].len
        BY <2>2
    <2>5. frameIndex = x - 4 /\ frameIndex' = frameIndex + 4 + y /\ FrameEnds[d] = x + 4 + y
        BY <2>1, <2>3, <2>4, Zenon
    <2>6. frameIndex' = (x - 4) + 4 + y
        BY <2>5, Zenon
    <2>7. (x - 4) + 4 + y = (x + 4 + y) - 4
        BY <2>4, IndexBehind
    <2> QED BY <2>5, <2>6, <2>7, Zenon
<1>12. d <= headIndex /\ Len(ReadSoFar)' = d
    BY <1>1, <1>4, <1>5, <1>7
<1>13. IF d = headIndex' THEN rTailIndex' = rHeadIndex' ELSE NextIs(d)'
    BY <1>6, <1>7
<1>14. \A u \in 0..(d - 1) : \E i : i = u + 1 /\ DeliveredAs(i, u)'
    BY <1>9
<1>15. stage' = "reading frame" => frameIndex' = FrameEnds'[d] - 4
    BY <1>10, <1>11
<1>16. d <= headIndex'
    BY <1>12
<1> QED BY <1>12, <1>13, <1>14, <1>15, <1>16, Zenon DEF RoundTripInv

(* A call that reads nothing changes nothing.                              *)
LEMMA RoundTripPause ==
    ASSUME SessionInv, ListsInv, RoundTripInv, Lossless, BufferSuffices, Pauses, ~IsSending,
           UNCHANGED <<naluArray, headIndex, sent, packetsArray, rHeadIndex, bufferSize>>,
           stage' = "done" => packetCount = 0 \/ stage = "done",
           IndexKept
    PROVE  RoundTripInv'
<1> DEFINE c == Len(ReadSoFar)
<1>1. /\ c <= headIndex
      /\ stage = "done" => c = headIndex
      /\ IF c = headIndex THEN rTailIndex = rHeadIndex ELSE NextIs(c)
      /\ \A u \in 0..(c - 1) : \E i : i = u + 1 /\ DeliveredAs(i, u)
      /\ stage = "reading frame" => frameIndex = FrameEnds[c] - 4
    BY DEF RoundTripInv
<1>2. c \in Nat /\ (packetCount = 0 => c = headIndex)
    BY NextIsLeft
<1>3. /\ ReadSoFar' = ReadSoFar /\ rTailIndex' = rTailIndex
      /\ curPacketIndex' = curPacketIndex
    BY DEF Pauses
<1>4. Len(ReadSoFar)' = c
    BY <1>3
<1>5. stage' = "done" => c = headIndex
    BY <1>1, <1>2
<1> HIDE DEF c
<1>6. PICK d : d = c
    OBVIOUS
<1>7. stage' = "reading frame" => frameIndex' = FrameEnds[d] - 4
    <2>1. FrameEnds[0] = 4
        BY TailFacts, FrameEndsFacts DEF SessionInv, SenderInv
    <2>2. CASE frameIndex' = 0 /\ ReadSoFar = << >>
        <3>1. c = 0
            BY <2>2 DEF c
        <3>2. FrameEnds[d] = 4
            BY <1>6, <2>1, <3>1
        <3>3. frameIndex' = 0 /\ 4 - 4 = 0
            BY <2>2
        <3> QED BY <3>2, <3>3, Zenon
    <2>3. CASE stage = "reading frame" /\ frameIndex' = frameIndex
        <3>1. frameIndex = FrameEnds[c] - 4
            BY <1>1, <2>3
        <3> QED BY <1>6, <2>3, <3>1, Zenon
    <2> QED BY <2>2, <2>3 DEF IndexKept
<1>8. ASSUME NEW u \in 0..(d - 1) PROVE \E i : i = u + 1 /\ DeliveredAs(i, u)'
    <2>1. PICK i : i = u + 1 /\ DeliveredAs(i, u)
        BY <1>1, <1>6
    <2>2. i \in DOMAIN ReadSoFar' /\ ReadSoFar'[i] = ReadSoFar[i]
        BY <1>3, <2>1 DEF DeliveredAs
    <2> QED BY <2>1, <2>2, DeliveredKept
<1>9. NextIs(d) => NextIs(d)'
    <2>1. CASE ReadsNext(d, rTailIndex)
        <3>1. PICK s : s = rTailIndex
            OBVIOUS
        <3>2. WholeAt(d, s)' <=> WholeAt(d, s)
            BY UnitsKept
        <3>3. OffsetOf(Slot(s), d)' = OffsetOf(Slot(s), d)
            BY UnitsKept
        <3>4. FirstOf(Slot(s))' = FirstOf(Slot(s))
            BY DEF FirstOf, Slot
        <3>5. ReadsNext(d, s)'
            BY <1>3, <2>1, <3>1, <3>2, <3>3, <3>4 DEF ReadsNext
        <3>6. rTailIndex' = s
            BY <1>3, <3>1
        <3> QED BY <3>5, <3>6, Zenon DEF NextIs, ReadsNext
    <2>2. CASE \E j : FragmentsAt(d, rTailIndex, j)
        <3>1. PICK s, j : s = rTailIndex /\ FragmentsAt(d, s, j)
            BY <2>2
        <3>2. FragmentsAt(d, s, j)'
            BY <3>1, UnitsKept
        <3>3. rTailIndex' = s
            BY <1>3, <3>1
        <3>4. FragmentsAt(d, rTailIndex, j)'
            BY <3>2, <3>3 DEF FragmentsAt
        <3> QED BY <3>4 DEF NextIs
    <2> QED BY <2>1, <2>2 DEF NextIs
<1>10. FrameEnds' = FrameEnds
    BY DEF FrameEnds
<1>11. /\ d <= headIndex' /\ (stage' = "done" => d = headIndex')
       /\ stage' = "reading frame" => frameIndex' = FrameEnds'[d] - 4
    BY <1>1, <1>5, <1>6, <1>7, <1>10
<1>12. IF d = headIndex' THEN rTailIndex' = rHeadIndex' ELSE NextIs(d)'
    BY <1>1, <1>3, <1>6, <1>9
<1>13. \A u \in 0..(d - 1) : \E i : i = u + 1 /\ DeliveredAs(i, u)'
    BY <1>8
<1>14. Len(ReadSoFar)' = d
    BY <1>4, <1>6
<1> QED BY <1>11, <1>12, <1>13, <1>14, Zenon DEF RoundTripInv

(* The sender is done: the receiver starts at the first NAL unit.          *)
LEMMA RoundTripStart ==
    ASSUME SingleTypes, SessionInv, StopSending
    PROVE  RoundTripInv'
<1>1. /\ stage = "sending" /\ stage' = "receiving"
      /\ UNCHANGED <<sent, packetsArray, rHeadIndex, delivered>>
      /\ rTailIndex' = 0 /\ curPacketIndex' = 0 /\ delivered = << >>
    BY DEF StopSending, receiver, SessionInv, ContextsInv, StageInv
<1>2. naluCount = 0 /\ UNCHANGED <<naluArray, headIndex>>
    BY DEF StopSending, GetPacket, H265Packetizer_GetPacket,
        PacketizeFragmentationUnitPacket, Refuse, added
<1>3. /\ tailIndex = headIndex /\ headIndex \in Nat /\ rHeadIndex \in Nat
      /\ SenderInv /\ NetworkInv
    BY <1>2, TailFacts DEF SessionInv, SenderInv, IInv, TypeOK
<1>4. ReadSoFar' = << >> /\ Len(ReadSoFar)' = 0
    BY <1>1 DEF ReadSoFar
<1>5. ASSUME Lossless
      PROVE  IF 0 = headIndex' THEN rTailIndex' = rHeadIndex' ELSE NextIs(0)'
    <2>1. \A i \in InSlots : FirstOf(Slot(i)) \in Nat
        BY <1>3, <1>5, LosslessSlots, SentTypes DEF SenderInv
    <2>2. Divides(0, 0)
        BY <1>3, <2>1 DEF Divides, InSlots
    <2>3. IF 0 = headIndex THEN 0 = rHeadIndex ELSE StartsAt(0, 0)
        BY <1>3, <1>5, <2>2, NextStarts
    <2>4. StartsAt(0, 0) => NextIs(0)'
        BY <1>1, <1>2, StartIsNext
    <2> QED BY <1>1, <1>2, <2>3, <2>4
<1>6. Lossless' => Lossless
    BY <1>1 DEF Lossless, Stored
<1>7. /\ stage' # "done" /\ stage' # "reading frame" /\ 0 <= headIndex'
      /\ \A u : u \notin 0..(0 - 1)
    BY <1>1, <1>2, <1>3
<1> QED BY <1>4, <1>5, <1>6, <1>7, Zenon DEF RoundTripInv

(* A turn with room for the next NAL unit does not fail.                   *)
LEMMA TurnSucceeds ==
    ASSUME SingleTypes, SessionInv, ListsInv, RoundTripInv, Lossless, BufferSuffices,
           ~IsSending, packetCount # 0, NEW size \in Int, NEW r, r # "OK",
           Reader!DepacketizeCurrent(size, r),
           \A c \in 0..(headIndex - 1) : c = Len(ReadSoFar) => naluArray[c].len <= size,
           UNCHANGED <<naluArray, sent, packetsArray, rHeadIndex>>
    PROVE  FALSE
<1>1. PICK c : c = Len(ReadSoFar)
    OBVIOUS
<1>2. c \in 0..(headIndex - 1) /\ NextIs(c)
    BY <1>1, NextIsLeft
<1>3. tailIndex = headIndex
    BY DEF SessionInv, ContextsInv, StageInv
<1>4. naluArray[c].len <= size
    BY <1>1, <1>2
<1> QED BY <1>2, <1>3, <1>4, TurnReadsNext

(* The indices up to n.                                                    *)
LEMMA UpToItself ==
    ASSUME NEW n \in Nat, NEW d \in Nat, d <= n
    PROVE  d \in 0..n /\ n \in 0..n
OBVIOUS

(* The room left behind x bytes of a frame.                                *)
LEMMA RoomBehind ==
    ASSUME NEW size \in Nat, NEW x \in Nat
    PROVE  /\ size - (x - 4) - 4 = size - x /\ size - x \in Int
           /\ \A y \in Nat : x <= y /\ y < size => size - x > 0
           /\ \A z \in Nat : x + 4 + z < size => z <= size - x
OBVIOUS

(* The room a turn of GetFrame finds is that behind the NAL units read, and *)
(* takes the next one.                                                     *)
LEMMA RoomFound ==
    ASSUME SessionInv, ListsInv, RoundTripInv, Lossless, BufferSuffices,
           stage = "reading frame"
    PROVE  /\ Room \in Int /\ Room > 0
           /\ \A c \in 0..(headIndex - 1) : c = Len(ReadSoFar) => naluArray[c].len <= Room
<1>1. ~IsSending
    BY DEF IsSending
<1>2. PICK d : d = Len(ReadSoFar)
    OBVIOUS
<1>3. d \in Nat /\ d <= headIndex /\ frameIndex = FrameEnds[d] - 4
    BY <1>1, <1>2, CountRead DEF RoundTripInv
<1>4. IInv /\ headIndex \in Nat /\ bufferSize \in Nat
    BY <1>1, TailFacts
<1>5. FrameEnds[headIndex] < bufferSize
    BY DEF BufferSuffices, FrameEnds
<1>6. /\ FrameEnds[d] \in Nat /\ FrameEnds[headIndex] \in Nat
      /\ FrameEnds[d] <= FrameEnds[headIndex]
    <2>1. d \in 0..headIndex /\ headIndex \in 0..headIndex
        BY <1>3, <1>4, UpToItself, Zenon
    <2> QED BY <1>4, <2>1, FrameEndsFacts, Zenon
<1>7. PICK x \in Nat, y \in Nat : x = FrameEnds[d] /\ y = FrameEnds[headIndex]
    BY <1>6
<1>8. Room = bufferSize - (x - 4) - 4 /\ x <= y /\ y < bufferSize
    BY <1>3, <1>5, <1>6, <1>7, Zenon DEF Room, Reader!STARTCODE_SIZE
<1>9. Room \in Int /\ Room > 0 /\ Room = bufferSize - x
    BY <1>4, <1>7, <1>8, RoomBehind
<1>10. ASSUME NEW c \in 0..(headIndex - 1), c = Len(ReadSoFar)
       PROVE  naluArray[c].len <= Room
    <2>1. c = d
        BY <1>2, <1>10
    <2>2. FrameEnds[c] + 4 + naluArray[c].len < bufferSize /\ naluArray[c].len \in Nat
        BY <1>1, RoomLeft
    <2>3. PICK z \in Nat : z = naluArray[c].len
        BY <2>2
    <2>4. x + 4 + z < bufferSize
        BY <1>7, <2>1, <2>2, <2>3, Zenon
    <2>5. z <= bufferSize - x
        BY <1>4, <1>7, <2>3, <2>4, RoomBehind
    <2> QED BY <1>9, <2>3, <2>5, Zenon
<1> QED BY <1>9, <1>10

(* A step of the session keeps as many NAL units read as lie before the    *)
(* next one.                                                               *)
LEMMA RoundTripStepInv ==
    ASSUME SingleTypes, DatagramSizes, ReadingInv, RoundTripInv,
           SessionNext \/ UNCHANGED sessionVars
    PROVE  RoundTripInv'
<1>1. SessionInv /\ ListsInv
    BY DEF ReadingInv
<1>2. CASE AddFrame \/ SendPacket \/ StrayArrives \/ NextFrame
    <2>1. stage' \in {"adding", "sending"}
        BY <1>2 DEF AddFrame, SendPacket, StrayArrives, NextFrame, session
    <2> QED BY <2>1 DEF RoundTripInv, IsSending
<1>3. CASE StopSending
    BY <1>1, <1>3, RoundTripStart
<1>4. CASE ReadNalu \/ ReadFrame \/ ReadFrameTurn
    <2>1. UNCHANGED <<naluArray, headIndex, sent, packetsArray, rHeadIndex, bufferSize>>
        BY <1>4, ReadingKeeps DEF vars, added
    <2>2. CASE ~(Lossless /\ BufferSuffices)
        <3>1. ~(Lossless' /\ BufferSuffices')
            BY <2>1, <2>2 DEF Lossless, Stored, BufferSuffices
        <3> QED BY <3>1 DEF RoundTripInv
    <2>3. SUFFICES ASSUME Lossless, BufferSuffices PROVE RoundTripInv'
        BY <2>2
    <2>4. ~IsSending /\ stage # "done" /\ headIndex \in Nat
        BY <1>1, <1>4, TailFacts DEF ReadNalu, ReadFrame, ReadFrameTurn, IsSending
    <2>5. bufferSize \in Nat
        BY <1>1, <2>4, TailFacts
    <2>6. \A u \in 0..(headIndex - 1) : naluArray[u].len <= bufferSize
        BY <1>1, <2>3, <2>4, RoomLeft
    <2>7. CASE ReadNalu
        <3>1. CASE stage' = "done" /\ packetCount = 0 /\ Pauses
            <4>1. IndexKept
                BY <3>1 DEF IndexKept
            <4> QED BY <1>1, <2>1, <2>3, <2>4, <3>1, <4>1, RoundTripPause
        <3>2. CASE stage' = "reading" /\ \E r : Turn(bufferSize, r)
            <4>1. PICK r : Turn(bufferSize, r)
                BY <3>2
            <4>2. bufferSize \in Int /\ stage' # "done" /\ IndexFollows
                BY <2>5, <3>2 DEF IndexFollows
            <4> QED BY <1>1, <2>1, <2>3, <2>4, <2>6, <4>1, <4>2, RoundTripTurn
        <3>3. CASE /\ packetCount # 0
                   /\ \E r : r # "OK" /\ Reader!DepacketizeCurrent(bufferSize, r)
            <4>1. PICK r : r # "OK" /\ Reader!DepacketizeCurrent(bufferSize, r)
                BY <3>3
            <4>2. bufferSize \in Int /\ packetCount # 0
                BY <2>5, <3>3
            <4> QED BY <1>1, <2>1, <2>3, <2>4, <2>6, <4>1, <4>2, TurnSucceeds
        <3> QED BY <1>1, <2>7, <3>1, <3>2, <3>3, ReadNaluSteps
    <2>8. CASE ReadFrame
        <3>1. Pauses
            BY <1>1, <2>8, ReadFrameSteps
        <3>2. bufferSize # 0
            <4>1. IInv
                BY <1>1, TailFacts
            <4>2. FrameEnds[headIndex] < bufferSize /\ FrameEnds[headIndex] \in Nat
                BY <2>3, <2>4, <4>1, FrameEndsFacts DEF BufferSuffices, FrameEnds
            <4> QED BY <2>5, <4>2
        <3>3. \/ stage' = "reading frame" /\ frameIndex' = 0
              \/ stage' = "done" /\ packetCount = 0
            BY <1>1, <2>8, <3>2, ReadFrameSteps
        <3>4. ReadSoFar = << >>
            BY <1>1, <2>8 DEF ReadFrame, ReadSoFar, SessionInv, ContextsInv, StageInv
        <3>5. IndexKept
            BY <3>3, <3>4 DEF IndexKept
        <3> QED BY <1>1, <2>1, <2>3, <2>4, <3>1, <3>3, <3>5, RoundTripPause
    <2>9. CASE ReadFrameTurn
        <3>1. stage = "reading frame"
            BY <2>9 DEF ReadFrameTurn
        <3>2. /\ Room \in Int /\ Room > 0
              /\ \A c \in 0..(headIndex - 1) :
                    c = Len(ReadSoFar) => naluArray[c].len <= Room
            BY <1>1, <2>3, <3>1, RoomFound
        <3>3. CASE stage' = "done" /\ packetCount = 0 /\ Pauses
            <4>1. IndexKept
                BY <3>3 DEF IndexKept
            <4> QED BY <1>1, <2>1, <2>3, <2>4, <3>3, <4>1, RoundTripPause
        <3>4. CASE /\ stage' = "reading frame" /\ Turn(Room, "OK")
                   /\ frameIndex' = frameIndex + Reader!STARTCODE_SIZE + naluDataLength'
            <4>1. stage' # "done" /\ Turn(Room, "OK") /\ IndexFollows
                BY <3>1, <3>4 DEF IndexFollows
            <4> HIDE <3>4
            <4> QED BY <1>1, <2>1, <2>3, <2>4, <3>2, <4>1, RoundTripTurn
        <3>5. CASE /\ Room > 0 /\ packetCount # 0
                   /\ \E r : r # "OK" /\ Reader!DepacketizeCurrent(Room, r)
            <4>1. PICK r : r # "OK" /\ Reader!DepacketizeCurrent(Room, r)
                BY <3>5
            <4>2. packetCount # 0
                BY <3>5
            <4> QED BY <1>1, <2>1, <2>3, <2>4, <3>2, <4>1, <4>2, TurnSucceeds
        <3>6. ~(Room <= 0)
            BY <3>2
        <3> QED BY <1>1, <2>9, <3>3, <3>4, <3>5, <3>6, ReadFrameTurnSteps
    <2> QED BY <1>4, <2>7, <2>8, <2>9
<1>5. CASE UNCHANGED sessionVars
    <2>1. /\ UNCHANGED <<naluArray, headIndex, sent, packetsArray, rHeadIndex, bufferSize>>
          /\ UNCHANGED <<rTailIndex, curPacketIndex, stage, frame, delivered, frameIndex>>
        BY <1>5 DEF sessionVars, vars, added, receiver, session
    <2>2. CASE ~IsSending /\ Lossless /\ BufferSuffices
        <3>1. Pauses /\ IndexKept
            BY <2>1 DEF Pauses, ReadSoFar, IndexKept
        <3>2. stage' = stage
            BY <2>1
        <3> QED BY <1>1, <2>1, <2>2, <3>1, <3>2, RoundTripPause
    <2>3. CASE IsSending \/ ~Lossless \/ ~BufferSuffices
        <3>1. IsSending' \/ ~Lossless' \/ ~BufferSuffices'
            BY <2>1, <2>3 DEF IsSending, Lossless, Stored, BufferSuffices
        <3> QED BY <3>1 DEF RoundTripInv
    <2> QED BY <2>2, <2>3
<1> QED BY <1>2, <1>3, <1>4, <1>5, Zenon DEF SessionNext

(* A frame comes back as it was added: see RoundTrip.                      *)
THEOREM FramesComeBack ==
    ASSUME SingleTypes, DatagramSizes
    PROVE  SessionSpec => []RoundTrip
<1> DEFINE Inv == ReadingInv /\ RoundTripInv
<1>1. SessionInit => Inv
    <2> SUFFICES ASSUME SessionInit PROVE Inv
        OBVIOUS
    <2>1. IsSending
        BY DEF SessionInit, IsSending
    <2> QED BY <2>1, ReadingInitInv DEF RoundTripInv
<1>2. Inv /\ [SessionNext]_sessionVars => Inv'
    BY ReadingStepInv, RoundTripStepInv
<1>3. Inv => RoundTrip
    <2> SUFFICES ASSUME Inv, stage = "done", Lossless, BufferSuffices PROVE RoundTrip
        BY DEF RoundTrip
    <2>1. ~IsSending /\ ReadSoFar = delivered
        BY DEF IsSending, ReadSoFar
    <2>2. /\ Len(delivered) = headIndex
          /\ \A u \in 0..(Len(delivered) - 1) : \E i : i = u + 1 /\ DeliveredAs(i, u)
        BY <2>1 DEF RoundTripInv
    <2>3. ASSUME NEW u \in 0..(headIndex - 1)
          PROVE  delivered[u + 1].result = "OK" /\ Intact(delivered[u + 1].pieces, u)
        <3>1. PICK i : i = u + 1 /\ DeliveredAs(i, u)
            BY <2>2
        <3>2. delivered[i].result = "OK" /\ Intact(delivered[i].pieces, u)
            BY <2>1, <3>1, Zenon DEF DeliveredAs
        <3> QED BY <3>1, <3>2, Zenon
    <2> QED BY <2>2, <2>3, Zenon DEF RoundTrip
<1> HIDE DEF Inv
<1> QED BY <1>1, <1>2, <1>3, PTL DEF SessionSpec
=============================================================================
