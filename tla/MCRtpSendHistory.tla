-------------------------- MODULE MCRtpSendHistory --------------------------
(* Instance of RtpSendHistory for TLC: a counter of four values, queues     *)
(* shorter than its round and exactly as long, two packets so that a packet *)
(* of the previous round can be told from the current one.                  *)
EXTENDS RtpSendHistory

CONSTANTS p1, p2

MCSeqMod == 4
MCSeqNum == 0..3
MCPacket == {p1, p2}
MCLengths == 2..4
=============================================================================
