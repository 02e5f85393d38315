--------------------------- MODULE RtpSendHistory ---------------------------
(***************************************************************************)
(* The use RtpPacketQueue_ForceEnqueue and RtpPacketQueue_Retrieve are     *)
(* made for: a sender keeps the last packets it sent, oldest displaced     *)
(* first, and looks one up when a receiver reports its sequence number     *)
(* lost.  The 16-bit sequence number wraps (SeqMod stands for 2^16).  The  *)
(* sender is external: it is not part of the library.                      *)
(***************************************************************************)
EXTENDS RtpPacketQueue

CONSTANT SeqMod

(* Every number the counter runs through is one a receiver can report, and *)
(* the queue is no longer than it takes the counter to come round: past    *)
(* that length a search would meet a packet of the previous round first.   *)
ASSUME SeqModAssumption ==
    /\ SeqMod \in Nat /\ SeqMod > 0
    /\ SeqNum = 0..(SeqMod - 1)
    /\ \A n \in Lengths : n <= SeqMod

VARIABLES
    nextSeq,    \* sequence number of the next packet
    sentCount,  \* packets sent, as far as SeqMod
    latest      \* the last packet sent under each sequence number

historyVars == <<nextSeq, sentCount, latest>>

WrapSeq(x) == x % SeqMod

Send ==
    \E p \in Packet :
        /\ RtpPacketQueue_ForceEnqueue([seqNum |-> nextSeq, packet |-> p])
        /\ latest' = [latest EXCEPT ![nextSeq] = p]
        /\ nextSeq' = WrapSeq(nextSeq + 1)
        /\ sentCount' = IF sentCount < SeqMod THEN sentCount + 1 ELSE SeqMod

Resend(s) == RtpPacketQueue_Retrieve(s) /\ UNCHANGED historyVars

HistoryInit ==
    /\ Init
    /\ nextSeq \in SeqNum
    /\ sentCount = 0
    /\ latest = [s \in SeqNum |-> NoPacket]

HistoryNext == Send \/ \E s \in SeqNum : Resend(s)

HistorySpec == HistoryInit /\ [][HistoryNext]_<<vars, historyVars>>

-----------------------------------------------------------------------------

(* How many packets were sent after the last one numbered s.               *)
Age(s) == WrapSeq(nextSeq - 1 - s)

InWindow(s) == Age(s) < sentCount /\ Age(s) < arrayLength

(* A lost packet can be sent again exactly while it is among the last      *)
(* rtpPacketInfoArrayLength sent, and what is then sent is that packet,    *)
(* never the one that had its number a round of the counter ago.           *)
RetransmitsLatest ==
    [][\A s \in SeqNum : Resend(s) =>
        IF InWindow(s)
            THEN result' = "OK" /\ out' = [seqNum |-> s, packet |-> latest[s]]
            ELSE result' \in {"EMPTY", "PACKET_NOT_FOUND"}]_<<vars, historyVars>>

(* The packet a full queue gives up, whose buffer the sender may then      *)
(* release, is the oldest in the window, as it was last sent.              *)
DeletesOldest ==
    [][Send =>
        IF sentCount < arrayLength
            THEN result' = "OK" /\ out' = NoInfo
            ELSE LET s == WrapSeq(nextSeq - arrayLength)
                 IN  /\ result' = "PACKET_DELETED"
                     /\ out' = [seqNum |-> s, packet |-> latest[s]]
      ]_<<vars, historyVars>>
=============================================================================
