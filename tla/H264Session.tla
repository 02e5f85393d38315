----------------------------- MODULE H264Session ----------------------------
(***************************************************************************)
(* H264Packetizer and H264Depacketizer at the two ends of a network, used  *)
(* as README.md (Packetization, Depacketization) says: a frame is added,   *)
(* its packets are taken until there are no more, those that arrive are    *)
(* added in order, and the frame is read back NAL unit by NAL unit or at   *)
(* once.  Both contexts are initialised again for the next frame.          *)
(*                                                                         *)
(* The sender keeps the variables of H264Packetizer.  The network and the  *)
(* callers are external: packets may be lost; the receiving caller has put *)
(* them in order and dropped duplicates.                                   *)
(***************************************************************************)
EXTENDS H264Packetizer

CONSTANTS
    PacketArrayLengths, \* array lengths for H264Depacketizer_Init
    BufferSize          \* length of the buffers NAL units are read into

VARIABLES
    packetsArray, packetsArrayLength, rHeadIndex, rTailIndex, packetCount,
    curPacketIndex, nalu, naluDataLength, frame, frameIndex, frameDataLength,
    rResult,        \* the receiver's variables, see H264Depacketizer
    stage,          \* what the two callers are at
    sent,           \* packets the sender has produced for this frame
    delivered       \* what the receiver has read of it, with each result

Receiver == INSTANCE H264Depacketizer
    WITH headIndex <- rHeadIndex, tailIndex <- rTailIndex, result <- rResult,
         Packets <- Packet, ArrayLengths <- PacketArrayLengths,
         NaluSizes <- {BufferSize}, FrameSizes <- {BufferSize}

ASSUME ReceiverAssumption == PacketArrayLengths \subseteq Nat /\ BufferSize \in Nat

receiver == <<packetsArray, packetsArrayLength, rHeadIndex, rTailIndex,
              packetCount, curPacketIndex, nalu, naluDataLength, frame,
              frameIndex, frameDataLength, rResult>>
session == <<stage, sent, delivered>>
sessionVars == <<vars, receiver, session>>

-----------------------------------------------------------------------------

(* A frame is added before the first of its packets is taken.              *)
AddUnits ==
    /\ stage = "adding"
    /\ \/ \E n \in Nalu : H264Packetizer_AddNalu(n)
       \/ \E f \in Frames : H264Packetizer_AddFrame(f)
    /\ UNCHANGED <<receiver, session>>

Arrives(p) == Receiver!H264Depacketizer_AddPacket(p)

IsLost == UNCHANGED receiver

(* GetPacket, and what the network does with the packet.                   *)
SendPacket ==
    /\ stage \in {"adding", "sending"}
    /\ headIndex > 0
    /\ GetPacket
    /\ result' = "OK"
    /\ sent' = sent \cup {packet'}
    /\ stage' = "sending"
    /\ Arrives(packet') \/ IsLost
    /\ UNCHANGED delivered

StopSending ==
    /\ stage = "sending"
    /\ GetPacket
    /\ result' = "NO_MORE_PACKETS"
    /\ stage' = "receiving"
    /\ UNCHANGED <<receiver, sent, delivered>>

(* GetNalu again and again, until it has no more.                          *)
ReadNalu ==
    /\ stage \in {"receiving", "reading"}
    /\ Receiver!GetNalu
    /\ \/ /\ rResult' = "NO_MORE_NALUS"
          /\ stage' = "done"
          /\ UNCHANGED delivered
       \/ /\ rResult' # "NO_MORE_NALUS"
          /\ stage' = "reading"
          /\ delivered' = Append(delivered, [pieces |-> nalu', result |-> rResult'])
    /\ UNCHANGED <<vars, sent>>

ReadFrame ==
    /\ stage = "receiving"
    /\ Receiver!GetFrame
    /\ stage' = IF frameDataLength' = 0 THEN "done" ELSE "reading frame"
    /\ UNCHANGED <<vars, sent, delivered>>

(* A turn of GetFrame's loop; the caller has the frame if the last is OK.  *)
ReadFrameTurn ==
    /\ stage = "reading frame"
    /\ Receiver!GetFrameTurn
    /\ stage' = IF frameDataLength' = 0 THEN "done" ELSE stage
    /\ delivered' =
        IF frameDataLength' = 0 /\ rResult' = "OK"
            THEN [i \in DOMAIN frame' |-> [pieces |-> frame'[i], result |-> "OK"]]
            ELSE delivered
    /\ UNCHANGED <<vars, sent>>

NextFrame ==
    /\ stage = "done"
    /\ \E n \in ArrayLengths \ {0} : H264Packetizer_Init(n)
    /\ \E n \in PacketArrayLengths \ {0} : Receiver!H264Depacketizer_Init(n)
    /\ stage' = "adding"
    /\ sent' = {}
    /\ delivered' = << >>

SessionInit ==
    /\ Init
    /\ Receiver!Init
    /\ stage = "adding"
    /\ sent = {}
    /\ delivered = << >>

Send == SendPacket \/ StopSending

Read == ReadNalu \/ ReadFrame \/ ReadFrameTurn

SessionNext == AddUnits \/ Send \/ Read \/ NextFrame

SessionSpec == SessionInit /\ [][SessionNext]_sessionVars

-----------------------------------------------------------------------------

Stored == {packetsArray[i] : i \in 0..(rHeadIndex - 1)}

Lossless == sent = Stored

(* The bytes of a NAL unit that a piece was copied from, or restates.      *)
RunOf(piece) ==
    LET p == packetsArray[piece.slot]
    IN  [unit |-> p.nalu, len |-> piece.len,
         from |-> IF piece.header \/ Whole(p) THEN piece.from
                  ELSE p.from + piece.from - FU_A_HEADER_SIZE]

(* The header byte a receiver reads of a NAL unit: its own or restated.    *)
HeaderOf(pieces) ==
    IF pieces[1].header
        THEN Receiver!RestatedHeaderByte(packetsArray[pieces[1].slot])
        ELSE naluArray[RunOf(pieces[1]).unit].header

(* The pieces are NAL unit u, every byte of it, once and in order, with    *)
(* its header but for F, which an FU indicator is built without.           *)
Intact(pieces, u) ==
    LET run(i) == RunOf(pieces[i])
        n == Len(pieces)
    IN  /\ n > 0
        /\ \A i \in 1..n : run(i).unit = u
        /\ run(1).from = 0
        /\ \A i \in 1..(n - 1) : run(i + 1).from = run(i).from + run(i).len
        /\ run(n).from + run(n).len = naluArray[u].len
        /\ [HeaderOf(pieces) EXCEPT !.f = 0] = [naluArray[u].header EXCEPT !.f = 0]

(* What was added is read back: the same NAL units, in order, byte for     *)
(* byte and with their headers, which fragments restate (h264_packetizer.c *)
(* :62-64), whatever the buffer lengths the packets were cut for, if every *)
(* packet arrived and whichever way the receiver reads.                    *)
RoundTrip ==
    stage = "done" /\ Lossless =>
        /\ Len(delivered) = headIndex
        /\ \A u \in 0..(headIndex - 1) :
            delivered[u + 1].result = "OK" /\ Intact(delivered[u + 1].pieces, u)

PacketsOf(u) == {p \in sent : p.nalu = u}

(* The packet stored before the first of NAL unit u is a fragment of an    *)
(* earlier one, and not its last.                                          *)
BehindOpenFragment(u) ==
    \E i \in 1..(rHeadIndex - 1) :
        /\ packetsArray[i].nalu = u
        /\ \A j \in 0..(i - 1) : packetsArray[j].nalu # u
        /\ ~Whole(packetsArray[i])
        /\ ~Whole(packetsArray[i - 1]) /\ ~packetsArray[i - 1].fu.e

(* A lost packet costs the NAL unit it belongs to, and at most one more:   *)
(* the fragmented one right behind a lost last fragment, which is glued to *)
(* what is left of its predecessor.  If the receiver reads to the end      *)
(* (GetNalu says there is no more, or GetFrame returns OK), any other NAL  *)
(* unit whose packets all arrived is delivered intact.                     *)
LossIsContained ==
    stage = "done" /\ rResult \in {"NO_MORE_NALUS", "OK"} =>
        \A u \in 0..(headIndex - 1) :
            PacketsOf(u) \subseteq Stored /\ ~BehindOpenFragment(u) =>
                \E i \in DOMAIN delivered :
                    delivered[i].result = "OK" /\ Intact(delivered[i].pieces, u)

(* What GetPacketProperties tells a receiver of each packet agrees with    *)
(* what the packetizer did: a NAL unit starts exactly at its first packet, *)
(* and one sent in fragments ends exactly at its last.                     *)
MarksAgree ==
    \A p \in sent :
        Receiver!GetPacketProperties(p) =
            (IF p.from <= NALU_HEADER_SIZE THEN {"START"} ELSE {}) \cup
            (IF ~Whole(p) /\ p.from + p.len = naluArray[p.nalu].len
                THEN {"END"} ELSE {})
=============================================================================
