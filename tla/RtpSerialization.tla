-------------------------- MODULE RtpSerialization --------------------------
(***************************************************************************)
(* source/rtp_api.c and rtp_endianness.c: a caller that serializes RTP     *)
(* packets, a network, and a caller that deserializes what arrives, in     *)
(* place, once or again.  Bytes are numbers, 32-bit values four of them,   *)
(* the most significant first; what a value looks like in memory depends   *)
(* on the machine.  The network is external: it delivers a packet, the     *)
(* first bytes of one, or bytes of another sender.                         *)
(***************************************************************************)
EXTENDS Integers, SequencesExt

CONSTANTS
    Packets,        \* packets that are serialized, Packet records
    BufferLengths,  \* lengths of the buffers they are serialized to
    Fill,           \* what is in these buffers before
    Strays,         \* packets of other senders, as bytes
    TwccFields,     \* arguments of TWCC_CREATE_PAYLOAD, <<id, seq>>
    MaxCalls        \* bound on DeSerialize calls with one packet

NULL == -1

(* RTP_HEADER_FLAG_* and the limits of the header's fields.                *)
PADDING == "PADDING"
MARKER == "MARKER"
EXTENSION == "EXTENSION"
MIN_LENGTH == 12
VERSION == 2

Byte == {n \in Nat : n < 256}
UInt16 == {n \in Nat : n < 65536}
Word == [1..4 -> Byte]

(* RtpPacket_t.  pPayload may be NULL whatever payloadLength is; payload   *)
(* then is empty.                                                          *)
IsPacket(p) ==
    /\ p.flags \subseteq {PADDING, MARKER, EXTENSION}
    /\ p.payloadType \in Byte
    /\ p.sequenceNumber \in UInt16
    /\ p.timestamp \in Word /\ p.ssrc \in Word
    /\ p.csrc \in Seq(Word) /\ Len(p.csrc) \in Byte
    /\ p.profile \in UInt16
    /\ p.extension \in Seq(Word) /\ Len(p.extension) \in UInt16
    /\ p.payload \in Seq(Byte)
    /\ p.payloadLength \in Nat
    /\ p.payload # << >> => Len(p.payload) = p.payloadLength

ASSUME PacketsAssumption == \A p \in Packets : IsPacket(p)

ASSUME BytesAssumption ==
    /\ BufferLengths \subseteq Nat
    /\ Fill \in Byte
    /\ Strays \subseteq Seq(Byte)
    /\ MaxCalls \in Nat

(* The identifier has four bits in the packet, the sequence number 16.     *)
ASSUME TwccAssumption ==
    TwccFields \subseteq {n \in Nat : n < 16} \X UInt16

VARIABLES
    littleEndian,   \* the machine
    swaps,          \* whether readWriteFunctions are the ones that swap
    packet,         \* the packet of the last Rtp_Serialize
    buffer,         \* its buffer
    pLength,        \* the length it left
    sResult,        \* its result, "NONE" before the first call
    bytes,          \* the packet that arrived
    origin,         \* << >>, or the one packet of which it is every byte
    calls,          \* Rtp_DeSerialize calls with it
    received,       \* the RtpPacket_t of these calls
    rResult         \* the result of the last one

sender == <<packet, buffer, pLength, sResult>>
receiver == <<bytes, origin, calls, received, rResult>>
machine == <<littleEndian, swaps>>
vars == <<machine, sender, receiver>>

-----------------------------------------------------------------------------
(* rtp_endianness.c.                                                       *)

(* A value as memory holds it, and back.                                   *)
Native(word) == IF littleEndian THEN Reverse(word) ELSE word

SWAP_BYTES_32(word) == Reverse(word)

RtpWriteUint32(word) == Native(IF swaps THEN SWAP_BYTES_32(word) ELSE word)

RtpReadUint32(memory) ==
    IF swaps THEN SWAP_BYTES_32(Native(memory)) ELSE Native(memory)

Rtp_InitReadWriteFunctions == swaps = littleEndian

-----------------------------------------------------------------------------
(* The TWCC macros of rtp_data_types.h.                                    *)

TWCC_CREATE_PAYLOAD(id, seq) ==
    <<(id % 16) * 16 + 1, (seq \div 256) % 256, seq % 256, 0>>

TWCC_GET_ID(word) == word[1] \div 16

(* Mutant: the mask of the sequence number one byte off.                   *)
TWCC_GET_SEQUENCE_NUMBER_OFF(word) == word[3] * 256 + word[4]

TWCC_GET_SEQUENCE_NUMBER(word) == word[2] * 256 + word[3]

-----------------------------------------------------------------------------
(* Rtp_Serialize.                                                          *)

(* Mutant: the word in front of the extension's own words forgotten.       *)
LengthWithoutExtensionHeader(p) ==
    MIN_LENGTH + 4 * Len(p.csrc)
    + (IF EXTENSION \in p.flags THEN 4 * Len(p.extension) ELSE 0)
    + p.payloadLength

CalculateSerializedPacketLength(p) ==
    MIN_LENGTH + 4 * Len(p.csrc)
    + (IF EXTENSION \in p.flags THEN 4 + 4 * Len(p.extension) ELSE 0)
    + p.payloadLength

Bit(set, mask) == IF set THEN mask ELSE 0

(* More than 15 CSRCs are all written, and counted modulo 16.              *)
FirstWord(p) ==
    <<VERSION * 64 + Bit(PADDING \in p.flags, 32) + Bit(EXTENSION \in p.flags, 16)
        + (Len(p.csrc) % 16),
      Bit(MARKER \in p.flags, 128) + (p.payloadType % 128),
      p.sequenceNumber \div 256, p.sequenceNumber % 256>>

ExtensionHeader(p) ==
    <<p.profile \div 256, p.profile % 256,
      Len(p.extension) \div 256, Len(p.extension) % 256>>

SerializedHeader(p) ==
    LET words == <<FirstWord(p), p.timestamp, p.ssrc>> \o p.csrc
                 \o (IF EXTENSION \in p.flags
                        THEN <<ExtensionHeader(p)>> \o p.extension ELSE << >>)
    IN  [i \in 1..(4 * Len(words)) |->
            RtpWriteUint32(words[1 + (i - 1) \div 4])[1 + ((i - 1) % 4)]]

(* The last byte of a padded payload counts the bytes of padding.          *)
PaddingTooLong(flags, payload) ==
    PADDING \in flags /\ payload # << >> /\ Last(payload) > Len(payload)

(* Bytes written from the start of memory.  Memory that grows by it was    *)
(* overrun.                                                                *)
Written(memory, new) ==
    new \o SubSeq(memory, Len(new) + 1, Len(memory))

(* A buffer too short is not touched.  A count of padding too long is      *)
(* found when the header is there already.                                 *)
Rtp_Serialize(p, memory) ==
    /\ packet' = p
    /\ \/ /\ Len(memory) < CalculateSerializedPacketLength(p)
          /\ buffer' = memory /\ pLength' = Len(memory)
          /\ sResult' = "OUT_OF_MEMORY"
       \/ /\ Len(memory) >= CalculateSerializedPacketLength(p)
          /\ pLength' = CalculateSerializedPacketLength(p)
          /\ \/ /\ PaddingTooLong(p.flags, p.payload)
                /\ buffer' = Written(memory, SerializedHeader(p))
                /\ sResult' = "MALFORMED_PACKET"
             \/ /\ ~PaddingTooLong(p.flags, p.payload)
                /\ buffer' = Written(memory, SerializedHeader(p) \o p.payload)
                /\ sResult' = "OK"

(* With no buffer the call only tells the length.                          *)
Rtp_SerializeLength(p) ==
    /\ packet' = p
    /\ buffer' = << >>
    /\ pLength' = CalculateSerializedPacketLength(p)
    /\ sResult' = "OK"

-----------------------------------------------------------------------------
(* Rtp_DeSerialize, of the bytes that arrived.                             *)

Flag(set, flag) == IF set THEN {flag} ELSE {}

(* Four bytes, whatever they are where the packet has ended.               *)
Word4(at) ==
    [i \in 1..4 |-> IF at + i \in DOMAIN bytes THEN bytes[at + i] ELSE Fill]

HeaderWord == RtpReadUint32(Word4(0))

Version == HeaderWord[1] \div 64
HasPadding == (HeaderWord[1] \div 32) % 2 = 1
HasExtension == (HeaderWord[1] \div 16) % 2 = 1
CsrcCount == HeaderWord[1] % 16

(* Where the parts of the packet begin, from zero.                         *)
ExtensionAt == MIN_LENGTH + 4 * CsrcCount
ExtensionHeaderWord == RtpReadUint32(Word4(ExtensionAt))
ExtensionLength == ExtensionHeaderWord[3] * 256 + ExtensionHeaderWord[4]
PayloadAt ==
    IF HasExtension THEN ExtensionAt + 4 + 4 * ExtensionLength ELSE ExtensionAt

(* Is there enough data to read?                                           *)
CsrcsFit == ExtensionAt <= Len(bytes)

ExtensionHeaderFits == HasExtension => ExtensionAt + 4 <= Len(bytes)

(* Mutant: the extension header itself not counted.                        *)
ExtensionAloneFits == PayloadAt - 4 <= Len(bytes)

ExtensionFits == PayloadAt <= Len(bytes)

(* Mutant: one word more.                                                  *)
WordsAndNextConverted(memory, n, at) ==
    [i \in DOMAIN memory |->
        IF i \in (at + 1)..(at + 4 * (n + 1))
            THEN LET w == at + 4 * ((i - at - 1) \div 4)
                 IN  Native(RtpReadUint32(Word4(w)))[i - w]
            ELSE memory[i]]

(* The n words that begin at `at' become values of this machine.           *)
WordsConverted(memory, n, at) ==
    [i \in DOMAIN memory |->
        IF i \in (at + 1)..(at + 4 * n)
            THEN LET w == at + 4 * ((i - at - 1) \div 4)
                 IN  Native(RtpReadUint32(Word4(w)))[i - w]
            ELSE memory[i]]

CsrcsConverted == WordsConverted(bytes, CsrcCount, MIN_LENGTH)

AllConverted ==
    IF HasExtension
        THEN WordsConverted(CsrcsConverted, ExtensionLength, ExtensionAt + 4)
        ELSE CsrcsConverted

HeaderRead ==
    [received EXCEPT
        !.flags = Flag(HasPadding, PADDING) \cup Flag(HeaderWord[2] >= 128, MARKER),
        !.csrcCount = CsrcCount,
        !.payloadType = HeaderWord[2] % 128,
        !.sequenceNumber = HeaderWord[3] * 256 + HeaderWord[4],
        !.timestamp = RtpReadUint32(Word4(4)),
        !.ssrc = RtpReadUint32(Word4(8))]

CsrcsRead ==
    [HeaderRead EXCEPT !.pCsrc = IF CsrcCount > 0 THEN MIN_LENGTH ELSE NULL,
                       !.flags = @ \cup Flag(HasExtension, EXTENSION)]

ExtensionHeaderRead ==
    IF ~HasExtension THEN CsrcsRead
    ELSE [CsrcsRead EXCEPT
            !.profile = ExtensionHeaderWord[1] * 256 + ExtensionHeaderWord[2],
            !.extensionLength = ExtensionLength]

PayloadRead ==
    LET extended == IF HasExtension
                        THEN [ExtensionHeaderRead EXCEPT !.pExtension = ExtensionAt + 4]
                        ELSE ExtensionHeaderRead
        there == PayloadAt < Len(bytes)
    IN  [extended EXCEPT !.pPayload = IF there THEN PayloadAt ELSE NULL,
                         !.payloadLength = Len(bytes) - PayloadAt]

Payload == SubSeq(bytes, PayloadAt + 1, Len(bytes))

PaddingLength == IF HasPadding /\ Payload # << >> THEN Last(Payload) ELSE 0

Returns(r, fields, memory) ==
    /\ rResult' = r
    /\ received' = fields
    /\ bytes' = memory
    /\ calls' = calls + 1
    /\ UNCHANGED origin

Rtp_DeSerialize ==
    \/ /\ Len(bytes) < MIN_LENGTH
       /\ Returns("BAD_PARAM", received, bytes)
    \/ /\ Len(bytes) >= MIN_LENGTH
       /\ \/ /\ Version # VERSION
             /\ Returns("WRONG_VERSION", received, bytes)
          \/ /\ Version = VERSION /\ ~CsrcsFit
             /\ Returns("MALFORMED_PACKET", HeaderRead, bytes)
          \/ /\ Version = VERSION /\ CsrcsFit /\ ~ExtensionHeaderFits
             /\ Returns("MALFORMED_PACKET", CsrcsRead,
                        CsrcsConverted)
          \/ /\ Version = VERSION /\ CsrcsFit /\ ExtensionHeaderFits
             /\ ~ExtensionFits
             /\ Returns("MALFORMED_PACKET", ExtensionHeaderRead,
                        CsrcsConverted)
          \/ /\ Version = VERSION /\ CsrcsFit /\ ExtensionHeaderFits
             /\ ExtensionFits
             /\ \/ /\ PaddingLength > Len(Payload)
                   /\ Returns("MALFORMED_PACKET", PayloadRead, AllConverted)
                \/ /\ PaddingLength <= Len(Payload)
                   /\ Returns("OK",
                        [PayloadRead EXCEPT !.payloadLength = @ - PaddingLength],
                        AllConverted)

-----------------------------------------------------------------------------
(* The two callers, one packet after the other: they share no state.       *)

NoFields ==
    [flags |-> {}, csrcCount |-> 0, payloadType |-> 0, sequenceNumber |-> 0,
     timestamp |-> <<0, 0, 0, 0>>, ssrc |-> <<0, 0, 0, 0>>, pCsrc |-> NULL,
     profile |-> 0, extensionLength |-> 0, pExtension |-> NULL,
     pPayload |-> NULL, payloadLength |-> 0]

NothingArrived ==
    /\ bytes' = << >> /\ origin' = << >> /\ calls' = 0
    /\ received' = NoFields /\ rResult' = "NONE"

NewBuffer(n) == [i \in 1..n |-> Fill]

Serialize ==
    /\ \E p \in Packets, n \in BufferLengths : Rtp_Serialize(p, NewBuffer(n))
    /\ NothingArrived /\ UNCHANGED machine

QueryLength ==
    /\ \E p \in Packets : Rtp_SerializeLength(p)
    /\ NothingArrived /\ UNCHANGED machine

(* A packet is serialized to a buffer as long as the last call said.       *)
SerializeQueried ==
    /\ sResult = "OK"
    /\ Rtp_Serialize(packet, NewBuffer(pLength))
    /\ NothingArrived /\ UNCHANGED machine

Arrives(b, o) ==
    /\ bytes' = b /\ origin' = o /\ calls' = 0
    /\ received' = NoFields /\ rResult' = "NONE"
    /\ UNCHANGED <<machine, sender>>

(* What was serialized arrives, or its first n bytes do.                   *)
Deliver ==
    /\ sResult = "OK" /\ buffer # << >>
    /\ \/ Arrives(SubSeq(buffer, 1, pLength), <<packet>>)
       \/ \E n \in 0..(pLength - 1) : Arrives(SubSeq(buffer, 1, n), << >>)

StrayArrives == \E b \in Strays : Arrives(b, << >>)

DeSerialize ==
    /\ calls < MaxCalls
    /\ Rtp_DeSerialize
    /\ UNCHANGED <<machine, sender>>

Init ==
    /\ littleEndian \in BOOLEAN
    /\ Rtp_InitReadWriteFunctions
    /\ packet \in Packets
    /\ buffer = << >> /\ pLength = 0 /\ sResult = "NONE"
    /\ bytes = << >> /\ origin = << >> /\ calls = 0
    /\ received = NoFields /\ rResult = "NONE"

Next ==
    \/ Serialize
    \/ QueryLength
    \/ SerializeQueried
    \/ Deliver
    \/ StrayArrives
    \/ DeSerialize

Spec == Init /\ [][Next]_vars

-----------------------------------------------------------------------------

(* The words the caller finds at an address, as values of its machine.     *)
WordsAt(at, n) == [i \in 1..n |-> Native(Word4(at + 4 * (i - 1)))]

(* An even number of calls has converted the words back again.             *)
AsConverted(words) ==
    IF littleEndian /\ calls % 2 = 0
        THEN [i \in DOMAIN words |-> Reverse(words[i])] ELSE words

PayloadOf(p) ==
    SubSeq(p.payload, 1, Len(p.payload) -
        (IF PADDING \in p.flags /\ p.payload # << >> THEN Last(p.payload) ELSE 0))

(* What the format has room for, and the caller wrote.                     *)
Representable(p) == Len(p.csrc) <= 15 /\ Len(p.payload) = p.payloadLength

(* A packet that Rtp_Serialize accepted and that arrives whole is read as  *)
(* it was, without its padding, on either kind of machine, by the first    *)
(* call and by every other one; but for CSRCs and extension, which are     *)
(* converted in place and so, on a little-endian machine, are right after  *)
(* every odd call only.  The fields of a TWCC extension are those it was   *)
(* created with.                                                           *)
RoundTrip ==
    origin # << >> /\ calls > 0 /\ Representable(origin[1]) =>
        LET p == origin[1]
            extension == WordsAt(received.pExtension, received.extensionLength)
        IN  /\ rResult = "OK"
            /\ received.flags = p.flags
            /\ received.payloadType = p.payloadType % 128
            /\ received.sequenceNumber = p.sequenceNumber
            /\ received.timestamp = p.timestamp /\ received.ssrc = p.ssrc
            /\ AsConverted(WordsAt(received.pCsrc, received.csrcCount)) = p.csrc
            /\ EXTENSION \in p.flags =>
                /\ received.profile = p.profile
                /\ AsConverted(extension) = p.extension
                /\ \A t \in TwccFields :
                    p.extension = <<TWCC_CREATE_PAYLOAD(t[1], t[2])>> =>
                        /\ TWCC_GET_ID(AsConverted(extension)[1]) = t[1]
                        /\ TWCC_GET_SEQUENCE_NUMBER(AsConverted(extension)[1]) = t[2]
            /\ SubSeq(bytes, received.pPayload + 1,
                      received.pPayload + received.payloadLength) = PayloadOf(p)

LastHeaderWord(p) ==
    IF EXTENSION \in p.flags
        THEN IF p.extension = << >> THEN ExtensionHeader(p) ELSE Last(p.extension)
        ELSE IF p.csrc = << >> THEN p.ssrc ELSE Last(p.csrc)

(* The length that is reported is that of the packet: before its payload   *)
(* ends the last word of the header, in network byte order on any machine  *)
(* like the SSRC at its place, and the payload ends with it.  No other     *)
(* byte is touched, so no buffer that the call accepted is overrun, and    *)
(* one for a payload passed as NULL is left for the caller to fill.        *)
WireFormat ==
    sResult = "OK" /\ buffer # << >> =>
        LET headerEnd == pLength - packet.payloadLength
            written == headerEnd + Len(packet.payload)
        IN  /\ pLength <= Len(buffer)
            /\ SubSeq(buffer, 9, 12) = packet.ssrc
            /\ SubSeq(buffer, headerEnd - 3, headerEnd) = LastHeaderWord(packet)
            /\ SubSeq(buffer, headerEnd + 1, written) = packet.payload
            /\ \A i \in (written + 1)..Len(buffer) : buffer[i] = Fill

(* Whatever arrives, what an OK says is in the packet lies inside it: one  *)
(* part behind the other, and the payload with its padding up to the end.  *)
ReadsInsidePacket ==
    rResult = "OK" =>
        LET csrcEnd == MIN_LENGTH + 4 * received.csrcCount
            headerEnd ==
                IF EXTENSION \in received.flags
                    THEN received.pExtension + 4 * received.extensionLength
                    ELSE csrcEnd
        IN  /\ received.csrcCount > 0 => received.pCsrc = MIN_LENGTH
            /\ EXTENSION \in received.flags => received.pExtension = csrcEnd + 4
            /\ headerEnd <= Len(bytes)
            /\ IF received.pPayload = NULL
                THEN received.payloadLength = 0 /\ headerEnd = Len(bytes)
                ELSE /\ received.pPayload = headerEnd
                     /\ received.payloadLength \in 0..(Len(bytes) - headerEnd)

(* A packet that is read again, though the first call changed its bytes,   *)
(* is read the same way: same answer, same fields, same addresses.         *)
RepeatAgrees ==
    [][calls' > calls /\ calls > 0 => rResult' = rResult /\ received' = received]_vars
=============================================================================
