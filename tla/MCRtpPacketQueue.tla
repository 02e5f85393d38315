-------------------------- MODULE MCRtpPacketQueue --------------------------
(* Instance of RtpPacketQueue for TLC: array lengths 2 and 3 (and the       *)
(* refused 1), three sequence numbers so that a full ring of three can hold *)
(* equal and distinct ones, two packets behind each.                        *)
EXTENDS RtpPacketQueue

CONSTANTS p1, p2

MCSeqNum == 0..2
MCPacket == {p1, p2}
MCLengths == 1..3
=============================================================================
