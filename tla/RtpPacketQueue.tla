--------------------------- MODULE RtpPacketQueue ---------------------------
(***************************************************************************)
(* The ring of source/rtp_pkt_queue.c: a caller-supplied array of packet   *)
(* infos with a read index, a write index and a count.  The library is     *)
(* single-threaded, so a call is one step.                                 *)
(***************************************************************************)
EXTENDS Integers

CONSTANTS
    SeqNum,     \* the sequence numbers callers use (a set of uint16_t)
    Packet,     \* serialized packets: buffer pointer and length together
    NoPacket,   \* the NULL pointer and length 0 left by memset
    NoInfo,     \* the call wrote nothing through its output pointer
    Lengths     \* array lengths callers pass to RtpPacketQueue_Init

ASSUME SeqNumAssumption == SeqNum \subseteq 0..65535 /\ 0 \in SeqNum

ASSUME LengthsAssumption == Lengths \subseteq Nat

RtpPacketInfo == [seqNum : SeqNum, packet : Packet]

ZeroInfo == [seqNum |-> 0, packet |-> NoPacket]

VARIABLES
    array,          \* pRtpPacketInfoArray
    arrayLength,    \* rtpPacketInfoArrayLength
    writeIndex,
    readIndex,
    packetCount,
    result,         \* return code of the last call
    out             \* what the last call wrote through its output pointer

ring == <<array, arrayLength, writeIndex, readIndex, packetCount>>

vars == <<ring, result, out>>

WRAP(x) == x % arrayLength

IncReadIndex == readIndex' = WRAP(readIndex + 1)

IncWriteIndex == writeIndex' = WRAP(writeIndex + 1)

QueueFull == packetCount = arrayLength

QueueEmpty == packetCount = 0

Return(r, o) == result' = r /\ out' = o

Refuse(r) == Return(r, NoInfo) /\ UNCHANGED ring

Store(info) == array' = [array EXCEPT ![writeIndex] = info]

-----------------------------------------------------------------------------

(* memset of the whole array.                                              *)
Zeroed(n) == [i \in 0..(n - 1) |-> ZeroInfo]

(* Mutant: an initialisation that keeps the count of the previous use.     *)
InitKeepsCount(n) ==
    \/ n < 2 /\ Refuse("BAD_PARAM")
    \/ /\ n >= 2
       /\ array' = Zeroed(n)
       /\ arrayLength' = n
       /\ readIndex' = 0
       /\ writeIndex' = 0
       /\ Return("OK", NoInfo)
       /\ UNCHANGED packetCount

RtpPacketQueue_Init(n) ==
    \/ n < 2 /\ Refuse("BAD_PARAM")
    \/ /\ n >= 2
       /\ array' = Zeroed(n)
       /\ arrayLength' = n
       /\ readIndex' = 0
       /\ writeIndex' = 0
       /\ packetCount' = 0
       /\ Return("OK", NoInfo)

RtpPacketQueue_Enqueue(info) ==
    \/ QueueFull /\ Refuse("FULL")
    \/ /\ ~QueueFull
       /\ Store(info)
       /\ IncWriteIndex
       /\ packetCount' = packetCount + 1
       /\ Return("OK", NoInfo)
       /\ UNCHANGED <<arrayLength, readIndex>>

(* Mutant: the oldest is overwritten and the read index stays on its slot. *)
ForceEnqueueKeepsReadIndex(info) ==
    /\ \/ /\ QueueFull
          /\ packetCount' = (packetCount - 1) + 1
          /\ Return("PACKET_DELETED", array[readIndex])
       \/ /\ ~QueueFull
          /\ packetCount' = packetCount + 1
          /\ Return("OK", NoInfo)
    /\ Store(info)
    /\ IncWriteIndex
    /\ UNCHANGED <<arrayLength, readIndex>>

RtpPacketQueue_ForceEnqueue(info) ==
    /\ \/ /\ QueueFull
          /\ IncReadIndex
          /\ packetCount' = (packetCount - 1) + 1
          /\ Return("PACKET_DELETED", array[readIndex])
       \/ /\ ~QueueFull
          /\ packetCount' = packetCount + 1
          /\ Return("OK", NoInfo)
          /\ UNCHANGED readIndex
    /\ Store(info)
    /\ IncWriteIndex
    /\ UNCHANGED arrayLength

RtpPacketQueue_Peek ==
    \/ QueueEmpty /\ Refuse("EMPTY")
    \/ ~QueueEmpty /\ Return("OK", array[readIndex]) /\ UNCHANGED ring

(* Peek, and on success step past what it read.                            *)
RtpPacketQueue_Dequeue ==
    \/ QueueEmpty /\ Refuse("EMPTY")
    \/ /\ ~QueueEmpty
       /\ Return("OK", array[readIndex])
       /\ IncReadIndex
       /\ packetCount' = packetCount - 1
       /\ UNCHANGED <<array, arrayLength, writeIndex>>

(* Mutant: the search runs over the whole array, dequeued slots included.  *)
MatchesAnySlot(s) ==
    {i \in 0..(arrayLength - 1) : array[WRAP(readIndex + i)].seqNum = s}

(* Offsets, from the oldest, of the queued infos that carry s.             *)
Matches(s) ==
    {i \in 0..(packetCount - 1) : array[WRAP(readIndex + i)].seqNum = s}

RtpPacketQueue_Retrieve(s) ==
    \/ QueueEmpty /\ Refuse("EMPTY")
    \/ ~QueueEmpty /\ Matches(s) = {} /\ Refuse("PACKET_NOT_FOUND")
    \/ \E i \in Matches(s) :
        /\ \A j \in Matches(s) : i <= j
        /\ Return("OK", array[WRAP(readIndex + i)])
        /\ UNCHANGED ring

(* Every function answers a NULL argument this way and does nothing else.  *)
NullArgument == Refuse("BAD_PARAM")

-----------------------------------------------------------------------------

(* Callers start with a successful RtpPacketQueue_Init.                    *)
Init ==
    /\ arrayLength \in {n \in Lengths : n >= 2}
    /\ array = Zeroed(arrayLength)
    /\ readIndex = 0
    /\ writeIndex = 0
    /\ packetCount = 0
    /\ result = "OK"
    /\ out = NoInfo

Next ==
    \/ \E n \in Lengths : RtpPacketQueue_Init(n)
    \/ \E info \in RtpPacketInfo :
        RtpPacketQueue_Enqueue(info) \/ RtpPacketQueue_ForceEnqueue(info)
    \/ RtpPacketQueue_Dequeue
    \/ RtpPacketQueue_Peek
    \/ \E s \in SeqNum : RtpPacketQueue_Retrieve(s)
    \/ NullArgument

Spec == Init /\ [][Next]_vars

-----------------------------------------------------------------------------

SlotInfo == RtpPacketInfo \cup {ZeroInfo}

Results == {"OK", "BAD_PARAM", "FULL", "EMPTY", "PACKET_DELETED",
            "PACKET_NOT_FOUND"}

(* Type invariant: the indices stay inside the array whatever its length.  *)
TypeOK ==
    /\ arrayLength \in Nat /\ arrayLength >= 2
    /\ array \in [0..(arrayLength - 1) -> SlotInfo]
    /\ writeIndex \in 0..(arrayLength - 1)
    /\ readIndex \in 0..(arrayLength - 1)
    /\ packetCount \in 0..arrayLength
    /\ result \in Results
    /\ out \in SlotInfo \cup {NoInfo}

(* The three counters, each updated on its own by different functions,     *)
(* agree: the write index is packetCount slots after the read index.       *)
IndicesAgree == writeIndex = WRAP(readIndex + packetCount)

(* The slots between the two indices hold what callers stored, never the   *)
(* zeroes of RtpPacketQueue_Init, so no call hands out an info nobody      *)
(* enqueued.                                                               *)
LiveSlotsStored ==
    \A i \in 0..(packetCount - 1) :
        array[WRAP(readIndex + i)] \in RtpPacketInfo

(* The queue seen by its callers: oldest first.                            *)
Contents == [i \in 1..packetCount |-> array[WRAP(readIndex + i - 1)]]

Fifo == INSTANCE PacketFifo
    WITH fifo <- Contents, capacity <- arrayLength,
         Info <- RtpPacketInfo, Capacities <- Lengths

(* The ring implements the bounded FIFO: order kept, only the oldest       *)
(* displaced and reported, looks remove nothing.                           *)
ImplementsFifo == Fifo!Spec
=============================================================================
