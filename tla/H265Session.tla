----------------------------- MODULE H265Session ----------------------------
(***************************************************************************)
(* H265Packetizer and H265Depacketizer at the two ends of a network, used  *)
(* as README.md (Packetization, Depacketization) says, like H264Session.   *)
(* The sender keeps the variables of H265Packetizer.  The network and the  *)
(* callers are external: packets may be lost, and a packet of another      *)
(* origin may come between them, damaged or of a kind the library does not *)
(* know; the receiving caller has put them in order and dropped            *)
(* duplicates, and gives a frame up when a call fails and nothing moves.   *)
(***************************************************************************)
EXTENDS H265Packetizer, FiniteSets

CONSTANTS
    PacketArrayLengths, \* array lengths for H265Depacketizer_Init
    BufferSizes,        \* lengths of the buffers the receiver reads into
    Strays              \* packets that are not the sender's, without runs

VARIABLES
    packetsArray, packetsArrayLength, rHeadIndex, rTailIndex, packetCount,
    curPacketIndex, nalu, naluDataLength, frame, frameIndex, frameDataLength,
    rResult,        \* the receiver's variables, see H265Depacketizer
    stage,          \* what the two callers are at
    bufferSize,     \* length of the buffer this frame is read into, or 0
    sent,           \* packets the sender has produced for this frame
    delivered       \* what the receiver has read of it, with each result

Packet == [header : Header, fu : FuHeader, packetDataLength : Nat,
           sizes : UNION {[D -> Nat] : D \in SUBSET Nat},
           runs : Seq([nalu : Nat, from : Nat, len : Nat])]

Receiver == INSTANCE H265Depacketizer
    WITH headIndex <- rHeadIndex, tailIndex <- rTailIndex, result <- rResult,
         Packets <- Packet, ArrayLengths <- PacketArrayLengths,
         NaluSizes <- BufferSizes, FrameSizes <- BufferSizes

ASSUME ReceiverAssumption ==
    PacketArrayLengths \subseteq Nat /\ BufferSizes \subseteq Nat

ASSUME StraysAssumption ==
    \A p \in Strays : Receiver!WellTyped(p) /\ p.runs = << >>

receiver == <<packetsArray, packetsArrayLength, rHeadIndex, rTailIndex,
              packetCount, curPacketIndex, nalu, naluDataLength, frame,
              frameIndex, frameDataLength, rResult>>
session == <<stage, bufferSize, sent, delivered>>
sessionVars == <<vars, receiver, session>>

-----------------------------------------------------------------------------

(* Frames are added before the first of their packets is taken (README.md: *)
(* `For all codes other than H.264, call <Codec>Packetizer_AddFrame()').   *)
AddFrame ==
    /\ stage = "adding"
    /\ \E f \in Frames : H265Packetizer_AddFrame(f)
    /\ UNCHANGED <<receiver, session>>

Arrives(p) == Receiver!H265Depacketizer_AddPacket(p)

IsLost == UNCHANGED receiver

(* GetPacket, and what the network does with the packet.                   *)
SendPacket ==
    /\ stage \in {"adding", "sending"}
    /\ headIndex > 0
    /\ GetPacket
    /\ result' = "OK"
    /\ sent' = sent \cup {packet'}
    /\ stage' = "sending"
    /\ Arrives(packet') \/ IsLost
    /\ UNCHANGED <<bufferSize, delivered>>

IsStray(p) == p.runs = << >>

(* One to a frame.                                                         *)
StrayArrives ==
    /\ stage \in {"adding", "sending"}
    /\ \A i \in 0..(rHeadIndex - 1) : ~IsStray(packetsArray[i])
    /\ \E p \in Strays : Arrives(p)
    /\ UNCHANGED <<vars, session>>

StopSending ==
    /\ stage = "sending"
    /\ GetPacket
    /\ result' = "NO_MORE_PACKETS"
    /\ stage' = "receiving"
    /\ bufferSize' \in BufferSizes
    /\ UNCHANGED <<receiver, sent, delivered>>

(* A call has failed, and the next would do the same.                      *)
Stalled ==
    /\ rResult' # "OK"
    /\ UNCHANGED <<rTailIndex, packetCount, curPacketIndex>>

(* GetNalu again and again, until it has no more.                          *)
ReadNalu ==
    /\ stage \in {"receiving", "reading"}
    /\ Receiver!H265Depacketizer_GetNalu(bufferSize)
    /\ stage' = IF Stalled THEN "done" ELSE "reading"
    /\ delivered' =
        IF Stalled THEN delivered
        ELSE Append(delivered, [pieces |-> nalu', result |-> rResult'])
    /\ UNCHANGED <<vars, bufferSize, sent>>

ReadFrame ==
    /\ stage = "receiving"
    /\ Receiver!H265Depacketizer_GetFrame(bufferSize)
    /\ stage' = IF frameDataLength' = 0 THEN "done" ELSE "reading frame"
    /\ UNCHANGED <<vars, bufferSize, sent, delivered>>

(* A turn of GetFrame's loop; the caller has the frame if the last is OK.  *)
ReadFrameTurn ==
    /\ stage = "reading frame"
    /\ Receiver!GetFrameTurn
    /\ stage' = IF frameDataLength' = 0 THEN "done" ELSE stage
    /\ delivered' =
        IF frameDataLength' = 0 /\ rResult' = "OK"
            THEN [i \in DOMAIN frame' |-> [pieces |-> frame'[i], result |-> "OK"]]
            ELSE delivered
    /\ UNCHANGED <<vars, bufferSize, sent>>

NextFrame ==
    /\ stage = "done"
    /\ \E n \in ArrayLengths \ {0} : H265Packetizer_Init(n)
    /\ \E n \in PacketArrayLengths \ {0} : Receiver!H265Depacketizer_Init(n)
    /\ stage' = "adding"
    /\ bufferSize' = 0
    /\ sent' = {}
    /\ delivered' = << >>

SessionInit ==
    /\ Init
    /\ Receiver!Init
    /\ stage = "adding"
    /\ bufferSize = 0
    /\ sent = {}
    /\ delivered = << >>

SessionNext ==
    \/ AddFrame
    \/ SendPacket
    \/ StopSending
    \/ StrayArrives
    \/ ReadNalu
    \/ ReadFrame
    \/ ReadFrameTurn
    \/ NextFrame

SessionSpec == SessionInit /\ [][SessionNext]_sessionVars

-----------------------------------------------------------------------------

Stored == {packetsArray[i] : i \in 0..(rHeadIndex - 1)}

Lossless == sent = Stored

(* The bytes of a NAL unit that a piece was copied from, or restates, with *)
(* the header it begins with.                                              *)
RunOf(piece) ==
    LET p == packetsArray[piece.slot]
        at == piece.from - AP_NALU_LENGTH_FIELD_SIZE
        i == Cardinality({a \in DOMAIN p.sizes : a <= at})
    IN  IF IsStray(p) THEN Run(headIndex, 0, 0)
        ELSE IF piece.header THEN Run(p.runs[1].nalu, 0, piece.len)
        ELSE IF IsFragment(p)
            THEN Run(p.runs[1].nalu, p.runs[1].from + piece.from - FuHeadersSize,
                     piece.len)
        ELSE IF p.sizes = NoSizes THEN Run(p.runs[1].nalu, piece.from, piece.len)
        ELSE IF at \in DOMAIN p.sizes THEN Run(p.runs[i].nalu, 0, piece.len)
        ELSE Run(headIndex, 0, 0)

(* The header a receiver reads of a NAL unit: its own bytes or restated.   *)
HeaderOf(pieces) ==
    IF pieces[1].header
        THEN Receiver!RestatedHeaderBytes(packetsArray[pieces[1].slot])
        ELSE naluArray[RunOf(pieces[1]).nalu].header

(* The pieces are NAL unit u, every byte of it, once and in order, with    *)
(* its header but for the LayerId, which the fragments of a NAL unit of    *)
(* another layer than the base do not carry.                               *)
Intact(pieces, u) ==
    LET run(i) == RunOf(pieces[i])
        n == Len(pieces)
    IN  /\ n > 0
        /\ \A i \in 1..n : run(i).nalu = u
        /\ run(1).from = 0
        /\ \A i \in 1..(n - 1) : run(i + 1).from = run(i).from + run(i).len
        /\ run(n).from + run(n).len = naluArray[u].len
        /\ [HeaderOf(pieces) EXCEPT !.layerId = 0]
            = [naluArray[u].header EXCEPT !.layerId = 0]

(* The buffer takes all that was added, and has the room for a start code  *)
(* that the last turn of GetFrame needs.                                   *)
BufferSuffices ==
    LET l[n \in 0..headIndex] ==
            IF n = 0 THEN Receiver!STARTCODE_SIZE
            ELSE l[n - 1] + Receiver!STARTCODE_SIZE + naluArray[n - 1].len
    IN  l[headIndex] < bufferSize

(* README.md, Depacketization: `get the complete frame once all packets    *)
(* are added'.  What was added is read back: the same NAL units, in order, *)
(* byte for byte and with their headers, whatever the buffer lengths made  *)
(* of them, packets of one, fragments or aggregates, if every packet       *)
(* arrived and no other, whichever way the receiver reads, into a buffer   *)
(* that is long enough.                                                    *)
RoundTrip ==
    stage = "done" /\ Lossless /\ BufferSuffices =>
        /\ Len(delivered) = headIndex
        /\ \A u \in 0..(headIndex - 1) :
            delivered[u + 1].result = "OK" /\ Intact(delivered[u + 1].pieces, u)

Carries(p, u) == \E i \in DOMAIN p.runs : p.runs[i].nalu = u

PacketsOf(u) == {p \in sent : Carries(p, u)}

(* Where NAL unit u is in the receiver's array, and what lies before it.   *)
Slots(u) == {i \in 0..(rHeadIndex - 1) : Carries(packetsArray[i], u)}

Interrupted(u) ==
    \E i, j \in Slots(u), k \in 0..(rHeadIndex - 1) :
        i < k /\ k < j /\ k \notin Slots(u)

BehindOpenFragment(u) ==
    \E i \in Slots(u) :
        /\ i > 0 /\ i - 1 \notin Slots(u)
        /\ IsFragment(packetsArray[i]) /\ IsFragment(packetsArray[i - 1])
        /\ ~packetsArray[i - 1].fu.e

(* What is lost or comes from elsewhere costs the NAL units whose packets  *)
(* it takes away or interrupts, and at most one more: the fragmented one   *)
(* right behind a fragment that is not its NAL unit's last.  If the        *)
(* receiver reads to the end, any other NAL unit is delivered intact.      *)
LossIsContained ==
    stage = "done" /\ rResult \in {"NO_MORE_NALUS", "OK"} /\ BufferSuffices =>
        \A u \in 0..(headIndex - 1) :
            /\ PacketsOf(u) \subseteq Stored
            /\ ~Interrupted(u)
            /\ ~BehindOpenFragment(u)
            =>  \E i \in DOMAIN delivered :
                    /\ delivered[i].result = "OK"
                    /\ Intact(delivered[i].pieces, u)

(* What GetPacketProperties tells a receiver of a packet agrees with what  *)
(* the packetizer put in it: START exactly if a NAL unit begins with it,   *)
(* END exactly if one ends.                                                *)
MarksAgree ==
    \A p \in sent :
        LET last == p.runs[Len(p.runs)]
        IN  Receiver!GetPacketProperties(p) =
                (IF p.runs[1].from <= NALU_HEADER_SIZE THEN {"START"} ELSE {}) \cup
                (IF last.from + last.len = naluArray[last.nalu].len
                    THEN {"END"} ELSE {})

(* The receiver's own invariants, with strays among its packets: see       *)
(* H265Depacketizer.                                                       *)
CursorInPacket == Receiver!CursorInPacket

OkFrameIsComplete == Receiver!OkFrameIsComplete
=============================================================================
