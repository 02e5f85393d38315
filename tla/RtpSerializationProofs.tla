----------------------- MODULE RtpSerializationProofs -----------------------
(***************************************************************************)
(* Proofs about RtpSerialization, for every set of packets that are sent,  *)
(* every packet that arrives and all buffer lengths, on either machine.    *)
(***************************************************************************)
EXTENDS RtpSerialization, SequenceTheorems, TLAPS

Bytes == Seq(Byte)

Fields ==
    [flags : SUBSET {PADDING, MARKER, EXTENSION}, csrcCount : Int,
     payloadType : Int, sequenceNumber : Int, timestamp : Word, ssrc : Word,
     pCsrc : Int, profile : Int, extensionLength : Int, pExtension : Int,
     pPayload : Int, payloadLength : Int]

(* What the values of the variables are.                                   *)
Typed ==
    /\ littleEndian \in BOOLEAN /\ swaps = littleEndian
    /\ packet \in Packets
    /\ buffer \in Bytes /\ pLength \in Nat
    /\ bytes \in Bytes /\ calls \in Nat
    /\ received \in Fields

-----------------------------------------------------------------------------
(* Words and byte order.                                                   *)

(* A word is a sequence of four bytes.                                     *)
LEMMA WordIsSeq ==
    ASSUME NEW word \in Word
    PROVE  word \in Seq(Byte) /\ Len(word) = 4
<1>1. [i \in 1..4 |-> word[i]] \in Seq(Byte) /\ Len([i \in 1..4 |-> word[i]]) = 4
    BY DEF Word
<1>2. word = [i \in 1..4 |-> word[i]]
    BY DEF Word
<1> QED BY <1>1, <1>2

(* A word turned over is a word.                                           *)
LEMMA ReverseWord ==
    ASSUME NEW word \in Word
    PROVE  /\ Reverse(word) = [i \in 1..4 |-> word[5 - i]]
           /\ Reverse(word) \in Word
<1>1. Len(word) = 4
    BY WordIsSeq
<1>2. Reverse(word) = [i \in 1..4 |-> word[(4 - i) + 1]]
    BY <1>1 DEF Reverse
<1>3. \A i \in 1..4 : (4 - i) + 1 = 5 - i /\ 5 - i \in 1..4
    OBVIOUS
<1> QED BY <1>2, <1>3 DEF Word

(* Turned over twice it is itself.                                         *)
LEMMA ReverseTwice ==
    ASSUME NEW word \in Word
    PROVE  Reverse(Reverse(word)) = word
<1> DEFINE back == Reverse(word)
<1>1. back = [i \in 1..4 |-> word[5 - i]] /\ back \in Word
    BY ReverseWord
<1> HIDE DEF back
<1>2. Reverse(back) = [i \in 1..4 |-> back[5 - i]]
    BY <1>1, ReverseWord
<1>3. \A i \in 1..4 : 5 - i \in 1..4 /\ back[5 - i] = word[i]
    BY <1>1
<1>4. Reverse(back) = [i \in 1..4 |-> word[i]]
    BY <1>2, <1>3
<1> QED BY <1>4 DEF Word, back

(* Whatever the machine, values are written as they are on the network,    *)
(* and read so: the functions swap where memory does.                      *)
LEMMA NetworkOrder ==
    ASSUME Typed, NEW word \in Word
    PROVE  RtpWriteUint32(word) = word /\ RtpReadUint32(word) = word
BY ReverseTwice DEF Typed, RtpWriteUint32, RtpReadUint32, Native, SWAP_BYTES_32

(* Four bytes anywhere are a word, and read as they stand.                 *)
LEMMA WordRead ==
    ASSUME Typed, NEW at \in Nat
    PROVE  Word4(at) \in Word /\ RtpReadUint32(Word4(at)) = Word4(at)
<1>1. \A i \in DOMAIN bytes : bytes[i] \in Byte
    BY DEF Typed, Bytes
<1>2. Word4(at) \in Word
    BY <1>1, BytesAssumption DEF Word4, Word
<1> QED BY <1>2, NetworkOrder

-----------------------------------------------------------------------------
(* Rtp_Serialize.                                                          *)

(* What PacketsAssumption says of a packet, part by part.                  *)
LEMMA PacketFacts ==
    ASSUME NEW p \in Packets
    PROVE  /\ p.timestamp \in Word /\ p.ssrc \in Word
           /\ p.csrc \in Seq(Word) /\ Len(p.csrc) \in Nat
           /\ p.extension \in Seq(Word) /\ Len(p.extension) \in UInt16
           /\ p.payload \in Bytes /\ p.payloadLength \in Nat
           /\ Len(p.payload) <= p.payloadLength
           /\ p.payloadType \in Byte /\ p.sequenceNumber \in UInt16
           /\ p.profile \in UInt16
<1>1. IsPacket(p)
    BY PacketsAssumption
<1> QED BY <1>1 DEF IsPacket, Bytes, Byte

(* The two bytes of a 16-bit number.                                       *)
LEMMA HighAndLow ==
    ASSUME NEW x \in UInt16
    PROVE  x \div 256 \in Byte /\ x % 256 \in Byte
BY DEF Byte, UInt16

(* What the masks of the header leave.                                     *)
LEMMA Remainders ==
    ASSUME NEW x \in Nat
    PROVE  /\ x % 16 \in Nat /\ x % 16 <= 15
           /\ x % 128 \in Nat /\ x % 128 <= 127
OBVIOUS

(* The two words that are put together from fields are words.              *)
LEMMA HeaderWords ==
    ASSUME NEW p \in Packets
    PROVE  FirstWord(p) \in Word /\ ExtensionHeader(p) \in Word
<1>1. /\ p.payloadType \in Byte /\ p.sequenceNumber \in UInt16
      /\ p.profile \in UInt16
      /\ Len(p.csrc) \in Nat /\ Len(p.extension) \in UInt16
    BY PacketFacts
<1>2. FirstWord(p) \in Word
    <2> DEFINE padding == Bit(PADDING \in p.flags, 32)
               extension == Bit(EXTENSION \in p.flags, 16)
               marker == Bit(MARKER \in p.flags, 128)
               count == Len(p.csrc) % 16
               type == p.payloadType % 128
               first == VERSION * 64 + padding + extension + count
               second == marker + type
    <2>1. /\ padding \in Nat /\ padding <= 32 /\ extension \in Nat /\ extension <= 16
          /\ marker \in Nat /\ marker <= 128
        BY DEF Bit
    <2>2. count \in Nat /\ count <= 15 /\ type \in Nat /\ type <= 127
        <3>1. Len(p.csrc) \in Nat /\ p.payloadType \in Nat
            BY <1>1 DEF Byte
        <3> QED BY <3>1, Remainders
    <2> HIDE DEF padding, extension, marker, count, type
    <2>3. first \in Byte
        BY <2>1, <2>2 DEF VERSION, Byte
    <2>4. second \in Byte
        BY <2>1, <2>2 DEF Byte
    <2>5. p.sequenceNumber \div 256 \in Byte /\ p.sequenceNumber % 256 \in Byte
        BY <1>1, HighAndLow
    <2> HIDE DEF first, second
    <2>6. <<first, second, p.sequenceNumber \div 256, p.sequenceNumber % 256>> \in Word
        BY <2>3, <2>4, <2>5 DEF Word
    <2> QED BY <2>6 DEF FirstWord, first, second, padding, extension, marker, count, type
<1>3. ExtensionHeader(p) \in Word
    <2> DEFINE n == Len(p.extension)
    <2>1. n \in UInt16
        BY <1>1
    <2> HIDE DEF n
    <2>2. /\ p.profile \div 256 \in Byte /\ p.profile % 256 \in Byte
          /\ n \div 256 \in Byte /\ n % 256 \in Byte
        BY <1>1, <2>1, HighAndLow
    <2>3. <<p.profile \div 256, p.profile % 256, n \div 256, n % 256>> \in Word
        BY <2>2 DEF Word
    <2> QED BY <2>3 DEF ExtensionHeader, n
<1> QED BY <1>2, <1>3

(* The header is as long as the code calculates.                           *)
LEMMA HeaderLength ==
    ASSUME Typed, NEW p \in Packets
    PROVE  /\ SerializedHeader(p) \in Bytes
           /\ CalculateSerializedPacketLength(p) \in Nat
           /\ Len(SerializedHeader(p)) >= 12
           /\ Len(SerializedHeader(p)) + p.payloadLength
                = CalculateSerializedPacketLength(p)
<1> DEFINE extension == IF EXTENSION \in p.flags
                            THEN <<ExtensionHeader(p)>> \o p.extension ELSE << >>
           first == <<FirstWord(p), p.timestamp, p.ssrc>>
           fixed == first \o p.csrc
           words == fixed \o extension
           n == Len(words)
<1>1. /\ p.timestamp \in Word /\ p.ssrc \in Word
      /\ p.csrc \in Seq(Word) /\ Len(p.csrc) \in Nat
      /\ p.extension \in Seq(Word) /\ Len(p.extension) \in Nat
      /\ p.payloadLength \in Nat
      /\ FirstWord(p) \in Word /\ ExtensionHeader(p) \in Word
    BY PacketFacts, HeaderWords
<1>2. /\ extension \in Seq(Word)
      /\ Len(extension) = IF EXTENSION \in p.flags THEN 1 + Len(p.extension) ELSE 0
    BY <1>1
<1>3. first \in Seq(Word) /\ Len(first) = 3
    BY <1>1
<1> HIDE DEF extension, first
<1>4. words \in Seq(Word) /\ n = 3 + Len(p.csrc) + Len(extension)
    <2>1. fixed \in Seq(Word) /\ Len(fixed) = 3 + Len(p.csrc)
        <3>1. fixed \in Seq(Word) /\ Len(fixed) = Len(first) + Len(p.csrc)
            BY <1>1, <1>3, ConcatProperties, Zenon
        <3> QED BY <1>3, <3>1
    <2> HIDE DEF fixed
    <2>2. words \in Seq(Word) /\ n = Len(fixed) + Len(extension)
        BY <1>2, <2>1, ConcatProperties, Zenon
    <2> QED BY <2>1, <2>2
<1>5. SerializedHeader(p) = [i \in 1..(4 * n) |->
            RtpWriteUint32(words[1 + (i - 1) \div 4])[1 + ((i - 1) % 4)]]
    BY DEF SerializedHeader, extension, first
<1>6. n \in Nat /\ n >= 3
    <2>1. Len(p.csrc) \in Nat /\ Len(extension) \in Nat
        BY <1>1, <1>2
    <2> HIDE DEF words
    <2> QED BY <1>4, <2>1
<1>7. \A j \in 1..n : words[j] \in Word
    <2> HIDE DEF words
    <2> QED BY <1>4, ElementOfSeq
<1> HIDE DEF words, n
<1>8. \A i \in 1..(4 * n) :
        /\ 1 + (i - 1) \div 4 \in 1..n /\ 1 + ((i - 1) % 4) \in 1..4
    BY <1>6
<1>9. \A i \in 1..(4 * n) :
        RtpWriteUint32(words[1 + (i - 1) \div 4]) = words[1 + (i - 1) \div 4]
    <2> TAKE i \in 1..(4 * n)
    <2>1. words[1 + (i - 1) \div 4] \in Word
        BY <1>8, <1>7
    <2> QED BY <2>1, NetworkOrder
<1>10. \A i \in 1..(4 * n) :
        /\ SerializedHeader(p)[i] = words[1 + (i - 1) \div 4][1 + ((i - 1) % 4)]
        /\ SerializedHeader(p)[i] \in Byte
    <2> TAKE i \in 1..(4 * n)
    <2>1. words[1 + (i - 1) \div 4] \in Word
        BY <1>8, <1>7
    <2>2. SerializedHeader(p)[i] = words[1 + (i - 1) \div 4][1 + ((i - 1) % 4)]
        BY <1>5, <1>9
    <2> QED BY <1>8, <2>1, <2>2 DEF Word
<1>11. SerializedHeader(p) \in Bytes /\ Len(SerializedHeader(p)) = 4 * n
    BY <1>5, <1>6, <1>10 DEF Bytes
<1>12. CalculateSerializedPacketLength(p) = 4 * n + p.payloadLength
    <2> DEFINE m == Len(p.csrc)
               k == Len(p.extension)
    <2>1. m \in Nat /\ k \in Nat
        BY <1>1
    <2>2. n = IF EXTENSION \in p.flags THEN 3 + m + (1 + k) ELSE 3 + m
        <3> DEFINE e == Len(extension)
        <3>1. e = IF EXTENSION \in p.flags THEN 1 + k ELSE 0
            BY <1>2
        <3>2. n = 3 + m + e
            BY <1>4
        <3> HIDE DEF e, m, k
        <3> QED BY <2>1, <3>1, <3>2
    <2>3. CalculateSerializedPacketLength(p) =
            12 + 4 * m + (IF EXTENSION \in p.flags THEN 4 + 4 * k ELSE 0)
            + p.payloadLength
        BY DEF CalculateSerializedPacketLength, MIN_LENGTH
    <2> HIDE DEF m, k
    <2> QED BY <1>1, <2>1, <2>2, <2>3
<1> QED BY <1>1, <1>6, <1>11, <1>12

(* Writing from the start of a buffer leaves the rest of it.               *)
LEMMA WrittenBytes ==
    ASSUME NEW memory \in Bytes, NEW new \in Bytes, Len(new) <= Len(memory)
    PROVE  /\ Written(memory, new) \in Bytes
           /\ Len(Written(memory, new)) = Len(memory)
           /\ \A i \in 1..Len(new) : Written(memory, new)[i] = new[i]
           /\ \A i \in (Len(new) + 1)..Len(memory) :
                Written(memory, new)[i] = memory[i]
<1> DEFINE rest == SubSeq(memory, Len(new) + 1, Len(memory))
<1>1. /\ rest \in Bytes /\ Len(rest) = Len(memory) - Len(new)
      /\ \A i \in 1..Len(rest) : rest[i] = memory[Len(new) + i]
    BY DEF Bytes
<1> HIDE DEF rest
<1>2. /\ new \o rest \in Bytes /\ Len(new \o rest) = Len(memory)
      /\ \A i \in 1..Len(new) : (new \o rest)[i] = new[i]
      /\ \A i \in (Len(new) + 1)..Len(memory) :
            (new \o rest)[i] = rest[i - Len(new)]
    BY <1>1 DEF Bytes
<1>3. \A i \in (Len(new) + 1)..Len(memory) : rest[i - Len(new)] = memory[i]
    <2> TAKE i \in (Len(new) + 1)..Len(memory)
    <2>1. i - Len(new) \in 1..Len(rest) /\ Len(new) + (i - Len(new)) = i
        BY <1>1 DEF Bytes
    <2> QED BY <1>1, <2>1
<1> QED BY <1>2, <1>3 DEF Written, rest

(* A buffer that nobody wrote to.                                          *)
LEMMA NewBufferBytes ==
    ASSUME NEW n \in Nat
    PROVE  /\ NewBuffer(n) \in Bytes /\ Len(NewBuffer(n)) = n
           /\ \A i \in 1..n : NewBuffer(n)[i] = Fill
BY BytesAssumption DEF NewBuffer, Bytes, Byte

(* Bytes behind what was written are what they were before.                *)
LeavesRest ==
    sResult = "OK" /\ buffer # << >> =>
        /\ pLength <= Len(buffer)
        /\ \A i \in (pLength - packet.payloadLength + Len(packet.payload) + 1)
                    ..Len(buffer) : buffer[i] = Fill

(* Serializing into a fresh buffer of any length.                          *)
LEMMA SerializeFacts ==
    ASSUME Typed, NEW p \in Packets, NEW n \in Nat,
           Rtp_Serialize(p, NewBuffer(n))
    PROVE  packet' \in Packets /\ buffer' \in Bytes /\ pLength' \in Nat /\ LeavesRest'
<1> DEFINE memory == NewBuffer(n)
           header == SerializedHeader(p)
           length == CalculateSerializedPacketLength(p)
<1>1. /\ memory \in Bytes /\ Len(memory) = n
      /\ \A i \in 1..n : memory[i] = Fill
    BY NewBufferBytes
<1>2. /\ header \in Bytes /\ length \in Nat /\ Len(header) >= 12
      /\ Len(header) + p.payloadLength = length
    BY HeaderLength
<1>3. /\ p.payload \in Bytes /\ p.payloadLength \in Nat
      /\ Len(p.payload) <= p.payloadLength
    BY PacketFacts
<1> HIDE DEF memory, header, length
<1>4. packet' = p
    BY DEF Rtp_Serialize
<1>5. CASE /\ Len(memory) < length
           /\ buffer' = memory /\ pLength' = Len(memory)
           /\ sResult' = "OUT_OF_MEMORY"
    BY <1>1, <1>4, <1>5 DEF LeavesRest
<1>6. CASE /\ Len(memory) >= length /\ pLength' = length
           /\ buffer' = Written(memory, header)
           /\ sResult' = "MALFORMED_PACKET"
    <2>1. Len(header) <= Len(memory)
        BY <1>1, <1>2, <1>3, <1>6 DEF Bytes
    <2> QED BY <1>1, <1>2, <1>4, <1>6, <2>1, WrittenBytes DEF LeavesRest
<1>7. CASE /\ Len(memory) >= length /\ pLength' = length
           /\ buffer' = Written(memory, header \o p.payload)
           /\ sResult' = "OK"
    <2> DEFINE new == header \o p.payload
    <2>1. new \in Bytes /\ Len(new) = Len(header) + Len(p.payload)
        BY <1>2, <1>3 DEF Bytes
    <2>2. Len(header) \in Nat /\ Len(p.payload) \in Nat
        BY <1>2, <1>3 DEF Bytes
    <2> HIDE DEF new
    <2>3. Len(new) <= length /\ length <= n /\ Len(new) <= Len(memory)
        BY <1>1, <1>2, <1>3, <1>7, <2>1, <2>2
    <2>4. /\ buffer' \in Bytes /\ Len(buffer') = n
          /\ \A i \in (Len(new) + 1)..n : buffer'[i] = memory[i]
        BY <1>1, <1>7, <2>1, <2>3, WrittenBytes DEF new
    <2>5. \A i \in (Len(new) + 1)..n : buffer'[i] = Fill
        BY <1>1, <1>2, <2>1, <2>2, <2>3, <2>4
    <2>6. length - p.payloadLength + Len(p.payload) = Len(new)
        BY <1>2, <1>3, <2>1, <2>2
    <2> QED BY <1>2, <1>4, <1>7, <2>3, <2>4, <2>5, <2>6 DEF LeavesRest
<1> QED BY <1>5, <1>6, <1>7 DEF Rtp_Serialize, memory, header, length

-----------------------------------------------------------------------------
(* Rtp_DeSerialize: the numbers it works with.                             *)

(* Where the parts of the packet lie, and what is read there.              *)
LEMMA Positions ==
    ASSUME Typed
    PROVE  /\ HeaderWord = Word4(0) /\ HeaderWord \in Word
           /\ CsrcCount \in Nat /\ ExtensionAt \in Nat /\ ExtensionAt >= MIN_LENGTH
           /\ ExtensionAt = MIN_LENGTH + 4 * CsrcCount
           /\ ExtensionHeaderWord = Word4(ExtensionAt) /\ ExtensionHeaderWord \in Word
           /\ ExtensionLength \in Nat
           /\ PayloadAt \in Nat
           /\ PayloadAt = IF HasExtension THEN ExtensionAt + 4 + 4 * ExtensionLength
                                          ELSE ExtensionAt
<1>1. HeaderWord = Word4(0) /\ HeaderWord \in Word
    BY WordRead DEF HeaderWord
<1>2. HeaderWord[1] \in Nat
    BY <1>1 DEF Word, Byte
<1>3. CsrcCount \in Nat
    BY <1>2 DEF CsrcCount
<1>4. ExtensionAt \in Nat /\ ExtensionAt >= MIN_LENGTH
    BY <1>3 DEF ExtensionAt, MIN_LENGTH
<1>5. ExtensionHeaderWord = Word4(ExtensionAt) /\ ExtensionHeaderWord \in Word
    BY <1>4, WordRead DEF ExtensionHeaderWord
<1>6. ExtensionLength \in Nat
    BY <1>5 DEF ExtensionLength, Word, Byte
<1>7. PayloadAt \in Nat
    BY <1>4, <1>6 DEF PayloadAt
<1> QED BY <1>1, <1>3, <1>4, <1>5, <1>6, <1>7 DEF ExtensionAt, PayloadAt

(* Length, domain and elements of a sequence of bytes.                     *)
LEMMA LenBytes ==
    ASSUME NEW b \in Bytes
    PROVE  Len(b) \in Nat /\ DOMAIN b = 1..Len(b) /\ \A i \in 1..Len(b) : b[i] \in Byte
BY DEF Bytes

(* Conversion in place touches only the n words from `at' on.              *)
LEMMA Conversion ==
    ASSUME Typed, NEW memory \in Bytes, NEW n \in Nat, NEW at \in Nat
    PROVE  /\ WordsConverted(memory, n, at) \in Bytes
           /\ Len(WordsConverted(memory, n, at)) = Len(memory)
           /\ \A i \in 1..Len(memory) :
                i \notin (at + 1)..(at + 4 * n)
                    => WordsConverted(memory, n, at)[i] = memory[i]
<1> DEFINE w(i) == at + 4 * ((i - at - 1) \div 4)
           byte(i) == Native(RtpReadUint32(Word4(w(i))))[i - w(i)]
           new == WordsConverted(memory, n, at)
<1>1. Len(memory) \in Nat /\ DOMAIN memory = 1..Len(memory)
      /\ \A i \in 1..Len(memory) : memory[i] \in Byte
    BY LenBytes
<1>2. new = [i \in 1..Len(memory) |->
                IF i \in (at + 1)..(at + 4 * n) THEN byte(i) ELSE memory[i]]
    BY <1>1 DEF WordsConverted
<1>3. \A i \in (at + 1)..(at + 4 * n) : byte(i) \in Byte
    <2> TAKE i \in (at + 1)..(at + 4 * n)
    <2>1. w(i) \in Nat /\ i - w(i) \in 1..4
        OBVIOUS
    <2>2. Word4(w(i)) \in Word /\ RtpReadUint32(Word4(w(i))) = Word4(w(i))
        BY <2>1, WordRead
    <2>3. Native(RtpReadUint32(Word4(w(i)))) \in Word
        BY <2>2, ReverseWord DEF Native
    <2> HIDE DEF w
    <2> QED BY <2>1, <2>3 DEF Word
<1> HIDE DEF new, byte
<1>4. \A i \in 1..Len(memory) :
        (IF i \in (at + 1)..(at + 4 * n) THEN byte(i) ELSE memory[i]) \in Byte
    BY <1>1, <1>3
<1>5. new \in Bytes /\ Len(new) = Len(memory)
    BY <1>1, <1>2, <1>4 DEF Bytes
<1>6. \A i \in 1..Len(memory) : i \notin (at + 1)..(at + 4 * n) => new[i] = memory[i]
    BY <1>2
<1> QED BY <1>5, <1>6 DEF new

(* Neither header words nor payload are in what a call converts.           *)
Kept(i) ==
    \/ i <= MIN_LENGTH
    \/ i > ExtensionAt /\ (HasExtension => i <= ExtensionAt + 4 \/ i > PayloadAt)

(* Whatever a call converts, these bytes stay.                             *)
LEMMA BytesKept ==
    ASSUME Typed,
           bytes' \in {bytes, CsrcsConverted, AllConverted}
    PROVE  /\ bytes' \in Bytes /\ Len(bytes') = Len(bytes)
           /\ \A i \in 1..Len(bytes) : Kept(i) => bytes'[i] = bytes[i]
<1>1. bytes \in Bytes /\ Len(bytes) \in Nat
    BY LenBytes DEF Typed
<1>2. /\ CsrcCount \in Nat /\ ExtensionAt = MIN_LENGTH + 4 * CsrcCount
      /\ ExtensionAt \in Nat /\ ExtensionLength \in Nat
      /\ HasExtension => PayloadAt = ExtensionAt + 4 + 4 * ExtensionLength
    BY Positions
<1>3. /\ CsrcsConverted \in Bytes /\ Len(CsrcsConverted) = Len(bytes)
      /\ \A i \in 1..Len(bytes) :
            i \notin (MIN_LENGTH + 1)..ExtensionAt => CsrcsConverted[i] = bytes[i]
    BY <1>1, <1>2, Conversion DEF CsrcsConverted, MIN_LENGTH
<1>4. \A i \in 1..Len(bytes) : Kept(i) => i \notin (MIN_LENGTH + 1)..ExtensionAt
    BY <1>2 DEF Kept, MIN_LENGTH
<1>5. CASE bytes' = bytes
    BY <1>1, <1>5
<1>6. CASE bytes' = CsrcsConverted
    BY <1>3, <1>4, <1>6
<1>7. CASE bytes' = AllConverted /\ HasExtension
    <2> DEFINE all == WordsConverted(CsrcsConverted, ExtensionLength, ExtensionAt + 4)
    <2>1. ExtensionAt + 4 \in Nat
        BY <1>2
    <2>2. /\ all \in Bytes /\ Len(all) = Len(bytes)
          /\ \A i \in 1..Len(bytes) :
                i \notin (ExtensionAt + 4 + 1)..(ExtensionAt + 4 + 4 * ExtensionLength)
                    => all[i] = CsrcsConverted[i]
        BY <1>2, <1>3, <2>1, Conversion
    <2>3. bytes' = all
        BY <1>7 DEF AllConverted
    <2> HIDE DEF all
    <2>4. \A i \in 1..Len(bytes) : Kept(i) =>
            i \notin (ExtensionAt + 4 + 1)..(ExtensionAt + 4 + 4 * ExtensionLength)
        BY <1>2, <1>7 DEF Kept, MIN_LENGTH
    <2> QED BY <1>3, <1>4, <2>2, <2>3, <2>4
<1>8. CASE bytes' = AllConverted /\ ~HasExtension
    BY <1>6, <1>8 DEF AllConverted
<1> QED BY <1>5, <1>6, <1>7, <1>8

(* The payload is what lies behind its place.                              *)
LEMMA PayloadFacts ==
    ASSUME Typed, ExtensionFits
    PROVE  /\ Payload \in Bytes /\ Len(Payload) = Len(bytes) - PayloadAt
           /\ PaddingLength \in Nat
<1>1. /\ bytes \in Bytes /\ Len(bytes) \in Nat /\ PayloadAt \in Nat
      /\ PayloadAt <= Len(bytes)
    BY LenBytes, Positions DEF Typed, ExtensionFits
<1>2. Payload \in Bytes /\ Len(Payload) = Len(bytes) - PayloadAt
    BY <1>1 DEF Payload, Bytes
<1>3. Payload # << >> => Last(Payload) \in Byte
    <2>1. Payload # << >> => Len(Payload) \in 1..Len(Payload)
        BY <1>2, EmptySeq DEF Bytes
    <2> QED BY <1>2, <2>1, LenBytes DEF Last
<1> QED BY <1>2, <1>3 DEF PaddingLength, Byte

(* What each part of the call leaves in the RtpPacket_t.                   *)
LEMMA FieldsRead ==
    ASSUME Typed
    PROVE  /\ HeaderRead \in Fields /\ HeaderRead.csrcCount = CsrcCount
           /\ EXTENSION \notin HeaderRead.flags
           /\ CsrcsRead \in Fields /\ CsrcsRead.csrcCount = CsrcCount
           /\ CsrcsRead.pCsrc = IF CsrcCount > 0 THEN MIN_LENGTH ELSE NULL
           /\ EXTENSION \in CsrcsRead.flags <=> HasExtension
           /\ ExtensionHeaderRead \in Fields
           /\ ExtensionHeaderRead.csrcCount = CsrcCount
           /\ ExtensionHeaderRead.pCsrc = CsrcsRead.pCsrc
           /\ ExtensionHeaderRead.flags = CsrcsRead.flags
           /\ HasExtension => ExtensionHeaderRead.extensionLength = ExtensionLength
<1>1. /\ HeaderWord[1] \in Nat /\ HeaderWord[2] \in Nat /\ HeaderWord[3] \in Nat
      /\ HeaderWord[4] \in Nat
      /\ ExtensionHeaderWord[1] \in Nat /\ ExtensionHeaderWord[2] \in Nat
    BY Positions DEF Word, Byte
<1>2. /\ RtpReadUint32(Word4(4)) \in Word /\ RtpReadUint32(Word4(8)) \in Word
    BY WordRead
<1>3. CsrcCount \in Nat /\ ExtensionLength \in Nat
    BY Positions
<1> DEFINE flags == Flag(HasPadding, PADDING) \cup Flag(HeaderWord[2] >= 128, MARKER)
           type == HeaderWord[2] % 128
           number == HeaderWord[3] * 256 + HeaderWord[4]
           profile == ExtensionHeaderWord[1] * 256 + ExtensionHeaderWord[2]
<1>4. /\ flags \in SUBSET {PADDING, MARKER, EXTENSION} /\ EXTENSION \notin flags
      /\ type \in Int /\ number \in Int /\ profile \in Int
    BY <1>1 DEF Flag, PADDING, MARKER, EXTENSION
<1> DEFINE timestamp == RtpReadUint32(Word4(4))
           ssrc == RtpReadUint32(Word4(8))
<1>5. HeaderRead = [received EXCEPT
        !.flags = flags, !.csrcCount = CsrcCount, !.payloadType = type,
        !.sequenceNumber = number, !.timestamp = timestamp, !.ssrc = ssrc]
    BY DEF HeaderRead
<1>6. received \in Fields
    BY DEF Typed
<1>11. timestamp \in Word /\ ssrc \in Word /\ CsrcCount \in Int
    BY <1>2, <1>3
<1> HIDE DEF flags, type, number, profile, timestamp, ssrc
<1>7. HeaderRead \in Fields /\ HeaderRead.csrcCount = CsrcCount /\ HeaderRead.flags = flags
    <2> DEFINE count == CsrcCount
    <2>1. count \in Int /\ HeaderRead = [received EXCEPT
            !.flags = flags, !.csrcCount = count, !.payloadType = type,
            !.sequenceNumber = number, !.timestamp = timestamp, !.ssrc = ssrc]
        BY <1>5, <1>11
    <2> HIDE DEF count
    <2>2. HeaderRead \in Fields /\ HeaderRead.csrcCount = count /\ HeaderRead.flags = flags
        BY <1>4, <1>6, <1>11, <2>1 DEF Fields
    <2> QED BY <2>2 DEF count
<1>8. /\ CsrcsRead \in Fields /\ CsrcsRead.csrcCount = CsrcCount
      /\ CsrcsRead.pCsrc = IF CsrcCount > 0 THEN MIN_LENGTH ELSE NULL
      /\ CsrcsRead.flags = flags \cup Flag(HasExtension, EXTENSION)
    <2> DEFINE pCsrc == IF CsrcCount > 0 THEN MIN_LENGTH ELSE NULL
               all == flags \cup Flag(HasExtension, EXTENSION)
    <2>1. pCsrc \in Int /\ all \in SUBSET {PADDING, MARKER, EXTENSION}
        BY <1>4 DEF Flag, MIN_LENGTH, NULL
    <2>2. CsrcsRead = [HeaderRead EXCEPT !.pCsrc = pCsrc, !.flags = all]
        BY <1>7 DEF CsrcsRead, Fields
    <2> HIDE DEF pCsrc, all
    <2>3. /\ CsrcsRead \in Fields /\ CsrcsRead.csrcCount = CsrcCount
          /\ CsrcsRead.pCsrc = pCsrc /\ CsrcsRead.flags = all
        BY <1>7, <2>1, <2>2 DEF Fields
    <2> QED BY <2>3 DEF pCsrc, all
<1>9. EXTENSION \in CsrcsRead.flags <=> HasExtension
    BY <1>4, <1>8 DEF Flag
<1>10. /\ ExtensionHeaderRead \in Fields
       /\ ExtensionHeaderRead.csrcCount = CsrcsRead.csrcCount
       /\ ExtensionHeaderRead.pCsrc = CsrcsRead.pCsrc
       /\ ExtensionHeaderRead.flags = CsrcsRead.flags
       /\ HasExtension => ExtensionHeaderRead.extensionLength = ExtensionLength
    <2>1. ExtensionHeaderRead = IF ~HasExtension THEN CsrcsRead
            ELSE [CsrcsRead EXCEPT !.profile = profile,
                                   !.extensionLength = ExtensionLength]
        BY DEF ExtensionHeaderRead, profile
    <2>2. CASE ~HasExtension
        BY <1>8, <2>1, <2>2
    <2>3. CASE HasExtension
        <3> DEFINE n == ExtensionLength
        <3>1. n \in Int /\ ExtensionHeaderRead =
                [CsrcsRead EXCEPT !.profile = profile, !.extensionLength = n]
            BY <1>3, <2>1, <2>3
        <3> HIDE DEF n
        <3>2. /\ ExtensionHeaderRead \in Fields
              /\ ExtensionHeaderRead.csrcCount = CsrcsRead.csrcCount
              /\ ExtensionHeaderRead.pCsrc = CsrcsRead.pCsrc
              /\ ExtensionHeaderRead.flags = CsrcsRead.flags
              /\ ExtensionHeaderRead.extensionLength = n
            BY <1>4, <1>8, <3>1 DEF Fields
        <3> QED BY <3>2 DEF n
    <2> QED BY <2>2, <2>3
<1> QED BY <1>4, <1>7, <1>8, <1>9, <1>10

(* And what the whole call leaves there, but for the padding.              *)
LEMMA PayloadFieldsRead ==
    ASSUME Typed
    PROVE  /\ PayloadRead \in Fields /\ PayloadRead.csrcCount = CsrcCount
           /\ PayloadRead.pCsrc = IF CsrcCount > 0 THEN MIN_LENGTH ELSE NULL
           /\ EXTENSION \in PayloadRead.flags <=> HasExtension
           /\ HasExtension => /\ PayloadRead.extensionLength = ExtensionLength
                              /\ PayloadRead.pExtension = ExtensionAt + 4
           /\ PayloadRead.pPayload = IF PayloadAt < Len(bytes) THEN PayloadAt ELSE NULL
           /\ PayloadRead.payloadLength = Len(bytes) - PayloadAt
<1> DEFINE extended == IF HasExtension
                THEN [ExtensionHeaderRead EXCEPT !.pExtension = ExtensionAt + 4]
                ELSE ExtensionHeaderRead
           pPayload == IF PayloadAt < Len(bytes) THEN PayloadAt ELSE NULL
           length == Len(bytes) - PayloadAt
<1>1. ExtensionAt + 4 \in Int /\ pPayload \in Int /\ length \in Int
    BY Positions, LenBytes DEF Typed, NULL
<1>2. /\ extended \in Fields /\ extended.csrcCount = CsrcCount
      /\ extended.pCsrc = IF CsrcCount > 0 THEN MIN_LENGTH ELSE NULL
      /\ EXTENSION \in extended.flags <=> HasExtension
      /\ HasExtension => /\ extended.extensionLength = ExtensionLength
                         /\ extended.pExtension = ExtensionAt + 4
    BY <1>1, FieldsRead DEF Fields
<1>3. PayloadRead = [extended EXCEPT !.pPayload = pPayload, !.payloadLength = length]
    BY DEF PayloadRead
<1> HIDE DEF extended, pPayload, length
<1>4. /\ PayloadRead \in Fields /\ PayloadRead.csrcCount = extended.csrcCount
      /\ PayloadRead.pCsrc = extended.pCsrc /\ PayloadRead.flags = extended.flags
      /\ PayloadRead.extensionLength = extended.extensionLength
      /\ PayloadRead.pExtension = extended.pExtension
      /\ PayloadRead.pPayload = pPayload /\ PayloadRead.payloadLength = length
    BY <1>1, <1>2, <1>3 DEF Fields
<1> QED BY <1>2, <1>4 DEF pPayload, length

(* One call: bytes stay bytes, and what it reports lies inside.            *)
LEMMA DeSerializeFacts ==
    ASSUME Typed, Rtp_DeSerialize
    PROVE  /\ bytes' \in {bytes, CsrcsConverted, AllConverted}
           /\ calls' = calls + 1 /\ received' \in Fields /\ ReadsInsidePacket'
<1>1. /\ received \in Fields /\ HeaderRead \in Fields /\ CsrcsRead \in Fields
      /\ ExtensionHeaderRead \in Fields /\ PayloadRead \in Fields
    BY FieldsRead, PayloadFieldsRead DEF Typed
<1>2. CASE /\ rResult' # "OK" /\ calls' = calls + 1
           /\ received' \in {received, HeaderRead, CsrcsRead, ExtensionHeaderRead,
                             PayloadRead}
           /\ bytes' \in {bytes, CsrcsConverted, AllConverted}
    BY <1>1, <1>2 DEF ReadsInsidePacket
<1>3. CASE /\ ExtensionFits /\ PaddingLength <= Len(Payload)
           /\ Returns("OK", [PayloadRead EXCEPT !.payloadLength = @ - PaddingLength],
                      AllConverted)
    <2>1. /\ bytes' = AllConverted /\ calls' = calls + 1 /\ rResult' = "OK"
          /\ received' = [PayloadRead EXCEPT
                            !.payloadLength = PayloadRead.payloadLength - PaddingLength]
        BY <1>1, <1>3 DEF Returns, Fields
    <2>2. Len(bytes') = Len(bytes)
        BY <2>1, BytesKept
    <2>3. /\ Len(Payload) = Len(bytes) - PayloadAt
          /\ PaddingLength \in Nat /\ PayloadAt \in Nat /\ Len(bytes) \in Nat
        BY <1>3, PayloadFacts, Positions, LenBytes DEF Typed
    <2>4. /\ PayloadRead.payloadLength = Len(bytes) - PayloadAt
          /\ PayloadRead.payloadLength - PaddingLength \in 0..(Len(bytes) - PayloadAt)
        BY <1>3, <2>3, PayloadFieldsRead DEF ExtensionFits
    <2>5. /\ received' \in Fields
          /\ received'.payloadLength = PayloadRead.payloadLength - PaddingLength
          /\ received'.csrcCount = PayloadRead.csrcCount
          /\ received'.pCsrc = PayloadRead.pCsrc
          /\ received'.flags = PayloadRead.flags
          /\ received'.extensionLength = PayloadRead.extensionLength
          /\ received'.pExtension = PayloadRead.pExtension
          /\ received'.pPayload = PayloadRead.pPayload
        <3> DEFINE length == PayloadRead.payloadLength - PaddingLength
        <3>1. length \in Int
            BY <2>3, <2>4
        <3>2. received' = [PayloadRead EXCEPT !.payloadLength = length]
            BY <2>1
        <3> HIDE DEF length
        <3>3. received' \in Fields /\ received'.payloadLength = length
            BY <1>1, <3>1, <3>2 DEF Fields
        <3>4. /\ received'.csrcCount = PayloadRead.csrcCount
              /\ received'.pCsrc = PayloadRead.pCsrc
              /\ received'.flags = PayloadRead.flags
              /\ received'.extensionLength = PayloadRead.extensionLength
              /\ received'.pExtension = PayloadRead.pExtension
              /\ received'.pPayload = PayloadRead.pPayload
            BY <1>1, <3>2 DEF Fields
        <3> QED BY <3>3, <3>4 DEF length
    <2>6. ReadsInsidePacket'
        <3> DEFINE csrcEnd == MIN_LENGTH + 4 * CsrcCount
                   headerEnd == IF HasExtension
                                    THEN (ExtensionAt + 4) + 4 * ExtensionLength
                                    ELSE csrcEnd
        <3>1. /\ CsrcCount \in Nat /\ ExtensionAt = csrcEnd /\ ExtensionLength \in Nat
              /\ headerEnd = PayloadAt /\ PayloadAt # NULL
            BY Positions DEF NULL
        <3>2. PayloadAt <= Len(bytes)
            BY <1>3 DEF ExtensionFits
        <3>3. IF received'.pPayload = NULL
                THEN received'.payloadLength = 0 /\ PayloadAt = Len(bytes)
                ELSE /\ received'.pPayload = PayloadAt
                     /\ received'.payloadLength \in 0..(Len(bytes) - PayloadAt)
            <4>1. CASE PayloadAt < Len(bytes)
                BY <2>4, <2>5, <3>1, <4>1, PayloadFieldsRead
            <4>2. CASE PayloadAt = Len(bytes)
                BY <2>3, <2>4, <2>5, <4>2, PayloadFieldsRead
            <4> QED BY <2>3, <3>2, <4>1, <4>2
        <3> DEFINE end == IF EXTENSION \in received'.flags
                    THEN received'.pExtension + 4 * received'.extensionLength
                    ELSE MIN_LENGTH + 4 * received'.csrcCount
        <3>4. /\ received'.csrcCount > 0 => received'.pCsrc = MIN_LENGTH
              /\ EXTENSION \in received'.flags =>
                    received'.pExtension = (MIN_LENGTH + 4 * received'.csrcCount) + 4
              /\ end = PayloadAt
            BY <2>5, <3>1, PayloadFieldsRead
        <3> HIDE DEF end
        <3>5. /\ end <= Len(bytes')
              /\ IF received'.pPayload = NULL
                    THEN received'.payloadLength = 0 /\ end = Len(bytes')
                    ELSE /\ received'.pPayload = end
                         /\ received'.payloadLength \in 0..(Len(bytes') - end)
            BY <2>2, <3>2, <3>3, <3>4
        <3> QED BY <3>4, <3>5 DEF ReadsInsidePacket, end
    <2> QED BY <2>1, <2>5, <2>6
<1> QED BY <1>2, <1>3 DEF Rtp_DeSerialize, Returns

-----------------------------------------------------------------------------
(* Every step of the two callers and of the network.                       *)

IInv == Typed /\ LeavesRest /\ ReadsInsidePacket

(* The RtpPacket_t before any call.                                        *)
LEMMA NoFieldsTyped == NoFields \in Fields
BY DEF NoFields, Fields, Word, Byte, NULL

(* The initial states.                                                     *)
LEMMA InitInv == Init => IInv
<1> SUFFICES ASSUME Init PROVE IInv
    OBVIOUS
<1>1. << >> \in Bytes
    BY DEF Bytes
<1>2. Typed
    BY <1>1, NoFieldsTyped DEF Init, Typed, Rtp_InitReadWriteFunctions
<1> QED BY <1>2 DEF Init, IInv, LeavesRest, ReadsInsidePacket

(* The sender's steps.                                                     *)
LEMMA SenderInv ==
    ASSUME IInv, NothingArrived, UNCHANGED machine,
           packet' \in Packets, buffer' \in Bytes, pLength' \in Nat, LeavesRest'
    PROVE  IInv'
<1>1. << >> \in Bytes
    BY DEF Bytes
<1>2. Typed'
    BY <1>1, NoFieldsTyped DEF IInv, Typed, NothingArrived, machine
<1> QED BY <1>2 DEF IInv, NothingArrived, ReadsInsidePacket

(* The network's steps.                                                    *)
LEMMA ArrivesInv ==
    ASSUME IInv, NEW b \in Bytes, NEW o, Arrives(b, o)
    PROVE  IInv'
<1>1. Typed'
    BY NoFieldsTyped DEF IInv, Typed, Arrives, machine, sender
<1>2. LeavesRest'
    BY DEF IInv, LeavesRest, Arrives, sender
<1> QED BY <1>1, <1>2 DEF IInv, Arrives, ReadsInsidePacket

(* The receiver's step.                                                    *)
LEMMA DeSerializeInv ==
    ASSUME IInv, DeSerialize
    PROVE  IInv'
<1>1. /\ bytes' \in {bytes, CsrcsConverted, AllConverted}
      /\ calls' = calls + 1 /\ received' \in Fields /\ ReadsInsidePacket'
    BY DeSerializeFacts DEF IInv, DeSerialize
<1>2. bytes' \in Bytes
    BY <1>1, BytesKept DEF IInv
<1>3. Typed'
    BY <1>1, <1>2 DEF IInv, Typed, DeSerialize, machine, sender
<1>4. LeavesRest'
    BY DEF IInv, LeavesRest, DeSerialize, sender
<1> QED BY <1>1, <1>3, <1>4 DEF IInv

(* Every step.                                                             *)
LEMMA NextInv ==
    ASSUME IInv, [Next]_vars
    PROVE  IInv'
<1>1. CASE Serialize
    <2>1. PICK p \in Packets, n \in BufferLengths : Rtp_Serialize(p, NewBuffer(n))
        BY <1>1 DEF Serialize
    <2>2. n \in Nat
        BY BytesAssumption
    <2> QED BY <1>1, <2>1, <2>2, SerializeFacts, SenderInv DEF Serialize, IInv
<1>2. CASE QueryLength
    <2>1. PICK p \in Packets : Rtp_SerializeLength(p)
        BY <1>2 DEF QueryLength
    <2>2. << >> \in Bytes /\ CalculateSerializedPacketLength(p) \in Nat
        BY HeaderLength DEF Bytes, IInv
    <2>3. /\ packet' \in Packets /\ buffer' \in Bytes /\ pLength' \in Nat
          /\ LeavesRest'
        BY <2>1, <2>2 DEF Rtp_SerializeLength, LeavesRest
    <2> QED BY <1>2, <2>3, SenderInv DEF QueryLength
<1>3. CASE SerializeQueried
    <2>1. packet \in Packets /\ pLength \in Nat
        BY DEF IInv, Typed
    <2> QED BY <1>3, <2>1, SerializeFacts, SenderInv DEF SerializeQueried, IInv
<1>4. CASE Deliver
    <2>1. ASSUME NEW n \in Int
          PROVE  n <= Len(buffer) => SubSeq(buffer, 1, n) \in Bytes
        BY DEF IInv, Typed, Bytes
    <2>2. pLength \in Nat /\ pLength <= Len(buffer) /\ Len(buffer) \in Nat
        BY <1>4, LenBytes DEF Deliver, IInv, Typed, LeavesRest
    <2>3. CASE Arrives(SubSeq(buffer, 1, pLength), <<packet>>)
        BY <2>1, <2>2, <2>3, ArrivesInv
    <2>4. CASE \E n \in 0..(pLength - 1) : Arrives(SubSeq(buffer, 1, n), << >>)
        <3>1. PICK n \in 0..(pLength - 1) : Arrives(SubSeq(buffer, 1, n), << >>)
            BY <2>4
        <3>2. SubSeq(buffer, 1, n) \in Bytes
            BY <2>1, <2>2
        <3> QED BY <3>1, <3>2, ArrivesInv
    <2> QED BY <1>4, <2>3, <2>4 DEF Deliver
<1>5. CASE StrayArrives
    <2>1. PICK b \in Strays : Arrives(b, << >>)
        BY <1>5 DEF StrayArrives
    <2>2. b \in Bytes
        BY BytesAssumption DEF Bytes
    <2> QED BY <2>1, <2>2, ArrivesInv
<1>6. CASE DeSerialize
    BY <1>6, DeSerializeInv
<1>7. CASE UNCHANGED vars
    <2>1. Typed'
        BY <1>7 DEF vars, machine, sender, receiver, IInv, Typed
    <2>2. LeavesRest' /\ ReadsInsidePacket'
        BY <1>7 DEF vars, machine, sender, receiver, IInv, LeavesRest, ReadsInsidePacket
    <2> QED BY <2>1, <2>2 DEF IInv
<1> QED BY <1>1, <1>2, <1>3, <1>4, <1>5, <1>6, <1>7 DEF Next

-----------------------------------------------------------------------------
(* A second call.                                                          *)

(* A word is the same where its bytes are.                                 *)
LEMMA SameWord ==
    ASSUME Typed, NEW at \in Nat,
           Len(bytes') = Len(bytes), bytes' \in Bytes,
           \A i \in 1..Len(bytes) : i \in (at + 1)..(at + 4) => bytes'[i] = bytes[i],
           UNCHANGED machine
    PROVE  Word4(at)' = Word4(at) /\ RtpReadUint32(Word4(at))' = RtpReadUint32(Word4(at))
<1>1. DOMAIN bytes = 1..Len(bytes) /\ DOMAIN bytes' = 1..Len(bytes) /\ Len(bytes) \in Nat
    BY LenBytes DEF Typed
<1>2. \A i \in 1..4 : (IF at + i \in DOMAIN bytes' THEN bytes'[at + i] ELSE Fill)
                    = (IF at + i \in DOMAIN bytes THEN bytes[at + i] ELSE Fill)
    BY <1>1
<1>3. Word4(at)' = Word4(at)
    BY <1>2 DEF Word4
<1>4. RtpReadUint32(Word4(at))' = RtpReadUint32(Word4(at))
    <2> DEFINE word == Word4(at)
    <2>1. word' = word
        BY <1>3
    <2> HIDE DEF word
    <2>2. RtpReadUint32(word)' = RtpReadUint32(word)
        BY <2>1 DEF RtpReadUint32, SWAP_BYTES_32, Native, machine
    <2> QED BY <2>2 DEF word
<1> QED BY <1>3, <1>4

(* What the call reads of a packet of the minimal length is still there    *)
(* after it.                                                               *)
LEMMA SameReading ==
    ASSUME Typed, UNCHANGED machine, Len(bytes) >= MIN_LENGTH,
           bytes' \in {bytes, CsrcsConverted, AllConverted}
    PROVE  /\ HeaderWord' = HeaderWord
           /\ RtpReadUint32(Word4(4))' = RtpReadUint32(Word4(4))
           /\ RtpReadUint32(Word4(8))' = RtpReadUint32(Word4(8))
           /\ ExtensionHeaderWord' = ExtensionHeaderWord
           /\ Len(bytes') = Len(bytes)
           /\ \A i \in 1..Len(bytes) : i > PayloadAt => bytes'[i] = bytes[i]
<1>1. /\ bytes' \in Bytes /\ Len(bytes') = Len(bytes)
      /\ \A i \in 1..Len(bytes) : Kept(i) => bytes'[i] = bytes[i]
    BY BytesKept
<1>2. /\ ExtensionAt \in Nat /\ ExtensionAt >= MIN_LENGTH /\ PayloadAt \in Nat
      /\ ExtensionLength \in Nat
      /\ PayloadAt = IF HasExtension THEN ExtensionAt + 4 + 4 * ExtensionLength
                                     ELSE ExtensionAt
    BY Positions
<1>3. ASSUME NEW at \in {0, 4, 8}
      PROVE  RtpReadUint32(Word4(at))' = RtpReadUint32(Word4(at))
    <2>1. \A i \in 1..Len(bytes) : i \in (at + 1)..(at + 4) => Kept(i)
        BY DEF Kept, MIN_LENGTH
    <2>2. \A i \in 1..Len(bytes) : i \in (at + 1)..(at + 4) => bytes'[i] = bytes[i]
        BY <1>1, <2>1
    <2> QED BY <1>1, <2>2, SameWord
<1>4. HeaderWord' = HeaderWord
    BY <1>3 DEF HeaderWord
<1>5. ExtensionAt' = ExtensionAt
    BY <1>4 DEF ExtensionAt, CsrcCount
<1>6. ExtensionHeaderWord' = ExtensionHeaderWord
    <2> DEFINE at == ExtensionAt
    <2>1. \A i \in 1..Len(bytes) : i \in (at + 1)..(at + 4) => Kept(i)
        BY <1>2 DEF Kept, MIN_LENGTH
    <2>2. \A i \in 1..Len(bytes) : i \in (at + 1)..(at + 4) => bytes'[i] = bytes[i]
        BY <1>1, <2>1
    <2>3. PICK n \in Nat : n = ExtensionAt
        BY <1>2
    <2>4. RtpReadUint32(Word4(n))' = RtpReadUint32(Word4(n))
        BY <1>1, <2>2, <2>3, SameWord
    <2>5. ExtensionHeaderWord = RtpReadUint32(Word4(n))
        BY <2>3 DEF ExtensionHeaderWord
    <2>6. ExtensionHeaderWord' = RtpReadUint32(Word4(n))'
        BY <1>5, <2>3 DEF ExtensionHeaderWord
    <2> QED BY <2>4, <2>5, <2>6
<1>7. \A i \in 1..Len(bytes) : i > PayloadAt => Kept(i)
    BY <1>2 DEF Kept
<1> QED BY <1>1, <1>3, <1>4, <1>6, <1>7

(* What one call answers, and leaves in the RtpPacket_t.                   *)
Outcome(r, fields) ==
    \/ Len(bytes) < MIN_LENGTH /\ r = "BAD_PARAM" /\ fields = received
    \/ /\ Len(bytes) >= MIN_LENGTH /\ Version # VERSION
       /\ r = "WRONG_VERSION" /\ fields = received
    \/ /\ Len(bytes) >= MIN_LENGTH /\ Version = VERSION /\ ~CsrcsFit
       /\ r = "MALFORMED_PACKET" /\ fields = HeaderRead
    \/ /\ Len(bytes) >= MIN_LENGTH /\ Version = VERSION /\ CsrcsFit
       /\ ~ExtensionHeaderFits
       /\ r = "MALFORMED_PACKET" /\ fields = CsrcsRead
    \/ /\ Len(bytes) >= MIN_LENGTH /\ Version = VERSION /\ CsrcsFit
       /\ ExtensionHeaderFits /\ ~ExtensionFits
       /\ r = "MALFORMED_PACKET" /\ fields = ExtensionHeaderRead
    \/ /\ Len(bytes) >= MIN_LENGTH /\ Version = VERSION /\ CsrcsFit
       /\ ExtensionHeaderFits /\ ExtensionFits /\ PaddingLength > Len(Payload)
       /\ r = "MALFORMED_PACKET" /\ fields = PayloadRead
    \/ /\ Len(bytes) >= MIN_LENGTH /\ Version = VERSION /\ CsrcsFit
       /\ ExtensionHeaderFits /\ ExtensionFits /\ ~(PaddingLength > Len(Payload))
       /\ r = "OK"
       /\ fields = [PayloadRead EXCEPT !.payloadLength = @ - PaddingLength]

(* After a call the next one would answer and leave the same.              *)
Settled == calls > 0 => Outcome(rResult, received)

(* Every call ends in one of these outcomes,                               *)
LEMMA OutcomeOfCall ==
    ASSUME Typed, Rtp_DeSerialize
    PROVE  Outcome(rResult', received')
<1>1. ExtensionFits /\ PaddingLength <= Len(Payload) => ~(PaddingLength > Len(Payload))
    BY PayloadFacts, LenBytes
<1> QED BY <1>1, Zenon DEF Rtp_DeSerialize, Returns, Outcome

(* and in one only.                                                        *)
LEMMA OneOutcome ==
    ASSUME Typed, NEW r, NEW f, NEW s, NEW g, Outcome(r, f), Outcome(s, g)
    PROVE  r = s /\ f = g
<1>1. Len(bytes) >= MIN_LENGTH => ~(Len(bytes) < MIN_LENGTH)
    BY LenBytes DEF Typed, MIN_LENGTH
<1> QED BY <1>1 DEF Outcome

(* Two RtpPacket_t with the same fields are the same.                      *)
LEMMA FieldsEqual ==
    ASSUME NEW r \in Fields, NEW s \in Fields,
           r.flags = s.flags, r.csrcCount = s.csrcCount,
           r.payloadType = s.payloadType, r.sequenceNumber = s.sequenceNumber,
           r.timestamp = s.timestamp, r.ssrc = s.ssrc, r.pCsrc = s.pCsrc,
           r.profile = s.profile, r.extensionLength = s.extensionLength,
           r.pExtension = s.pExtension, r.pPayload = s.pPayload,
           r.payloadLength = s.payloadLength
    PROVE  r = s
BY DEF Fields

(* The stages of the call, of the RtpPacket_t and what was read.           *)
WithHeader(r, v) ==
    [r EXCEPT !.flags = v.flags, !.csrcCount = v.csrcCount,
              !.payloadType = v.payloadType, !.sequenceNumber = v.sequenceNumber,
              !.timestamp = v.timestamp, !.ssrc = v.ssrc]

WithCsrcs(r, v) == [r EXCEPT !.pCsrc = v.pCsrc, !.flags = @ \cup v.extension]

WithExtensionHeader(r, v) ==
    IF ~v.extended THEN r
    ELSE [r EXCEPT !.profile = v.profile, !.extensionLength = v.extensionLength]

WithPayload(r, v) ==
    LET extended == IF v.extended THEN [r EXCEPT !.pExtension = v.pExtension] ELSE r
    IN  [extended EXCEPT !.pPayload = v.pPayload, !.payloadLength = v.payloadLength]

Values ==
    [flags : SUBSET {PADDING, MARKER, EXTENSION}, csrcCount : Int,
     payloadType : Int, sequenceNumber : Int, timestamp : Word, ssrc : Word,
     pCsrc : Int, extension : SUBSET {PADDING, MARKER, EXTENSION},
     extended : BOOLEAN, profile : Int, extensionLength : Int, pExtension : Int,
     pPayload : Int, payloadLength : Int]

ReadValues ==
    [flags |-> Flag(HasPadding, PADDING) \cup Flag(HeaderWord[2] >= 128, MARKER),
     csrcCount |-> CsrcCount, payloadType |-> HeaderWord[2] % 128,
     sequenceNumber |-> HeaderWord[3] * 256 + HeaderWord[4],
     timestamp |-> RtpReadUint32(Word4(4)), ssrc |-> RtpReadUint32(Word4(8)),
     pCsrc |-> IF CsrcCount > 0 THEN MIN_LENGTH ELSE NULL,
     extension |-> Flag(HasExtension, EXTENSION), extended |-> HasExtension,
     profile |-> ExtensionHeaderWord[1] * 256 + ExtensionHeaderWord[2],
     extensionLength |-> ExtensionLength, pExtension |-> ExtensionAt + 4,
     pPayload |-> IF PayloadAt < Len(bytes) THEN PayloadAt ELSE NULL,
     payloadLength |-> Len(bytes) - PayloadAt]

(* What the first stage sets and leaves.                                   *)
LEMMA HeaderFields ==
    ASSUME NEW r \in Fields, NEW v \in Values
    PROVE  LET h == WithHeader(r, v)
           IN  /\ h \in Fields
               /\ h.flags = v.flags /\ h.csrcCount = v.csrcCount
               /\ h.payloadType = v.payloadType
               /\ h.sequenceNumber = v.sequenceNumber
               /\ h.timestamp = v.timestamp /\ h.ssrc = v.ssrc
               /\ h.pCsrc = r.pCsrc /\ h.profile = r.profile
               /\ h.extensionLength = r.extensionLength
               /\ h.pExtension = r.pExtension /\ h.pPayload = r.pPayload
               /\ h.payloadLength = r.payloadLength
BY DEF WithHeader, Fields, Values

(* What the second stage does to the flags,                                *)
LEMMA CsrcsFlags ==
    ASSUME NEW r \in Fields, NEW v \in Values
    PROVE  WithCsrcs(r, v).flags = r.flags \cup v.extension
BY DEF WithCsrcs, Fields, Values

(* and to the other fields.                                                *)
LEMMA CsrcsFields ==
    ASSUME NEW r \in Fields, NEW v \in Values
    PROVE  LET h == WithCsrcs(r, v)
           IN  /\ h \in Fields
               /\ h.csrcCount = r.csrcCount
               /\ h.payloadType = r.payloadType
               /\ h.sequenceNumber = r.sequenceNumber
               /\ h.timestamp = r.timestamp /\ h.ssrc = r.ssrc
               /\ h.pCsrc = v.pCsrc /\ h.profile = r.profile
               /\ h.extensionLength = r.extensionLength
               /\ h.pExtension = r.pExtension /\ h.pPayload = r.pPayload
               /\ h.payloadLength = r.payloadLength
BY DEF WithCsrcs, Fields, Values

(* What the third stage sets and leaves.                                   *)
LEMMA ExtensionHeaderFields ==
    ASSUME NEW r \in Fields, NEW v \in Values
    PROVE  LET h == WithExtensionHeader(r, v)
           IN  /\ h \in Fields
               /\ h.flags = r.flags /\ h.csrcCount = r.csrcCount
               /\ h.payloadType = r.payloadType
               /\ h.sequenceNumber = r.sequenceNumber
               /\ h.timestamp = r.timestamp /\ h.ssrc = r.ssrc
               /\ h.pCsrc = r.pCsrc
               /\ h.profile = (IF v.extended THEN v.profile ELSE r.profile)
               /\ h.extensionLength =
                    (IF v.extended THEN v.extensionLength ELSE r.extensionLength)
               /\ h.pExtension = r.pExtension /\ h.pPayload = r.pPayload
               /\ h.payloadLength = r.payloadLength
<1>1. CASE v.extended
    BY <1>1 DEF WithExtensionHeader, Fields, Values
<1>2. CASE ~v.extended
    BY <1>2 DEF WithExtensionHeader
<1> QED BY <1>1, <1>2

(* What the last stage sets and leaves.                                    *)
LEMMA PayloadFields ==
    ASSUME NEW r \in Fields, NEW v \in Values
    PROVE  LET h == WithPayload(r, v)
           IN  /\ h \in Fields
               /\ h.flags = r.flags /\ h.csrcCount = r.csrcCount
               /\ h.payloadType = r.payloadType
               /\ h.sequenceNumber = r.sequenceNumber
               /\ h.timestamp = r.timestamp /\ h.ssrc = r.ssrc
               /\ h.pCsrc = r.pCsrc /\ h.profile = r.profile
               /\ h.extensionLength = r.extensionLength
               /\ h.pExtension = (IF v.extended THEN v.pExtension ELSE r.pExtension)
               /\ h.pPayload = v.pPayload /\ h.payloadLength = v.payloadLength
<1>1. CASE v.extended
    BY <1>1 DEF WithPayload, Fields, Values
<1>2. CASE ~v.extended
    BY <1>2 DEF WithPayload, Fields, Values
<1> QED BY <1>1, <1>2

(* Each stage again, of what was read, into an RtpPacket_t that differs in *)
(* nothing but the fields it overwrites.                                   *)
LEMMA HeaderAgain ==
    ASSUME NEW r \in Fields, NEW s \in Fields, NEW v \in Values,
           s.pCsrc = r.pCsrc, s.profile = r.profile,
           s.extensionLength = r.extensionLength, s.pExtension = r.pExtension,
           s.pPayload = r.pPayload, s.payloadLength = r.payloadLength
    PROVE  WithHeader(s, v) = WithHeader(r, v)
<1>1. WithHeader(s, v) \in Fields /\ WithHeader(r, v) \in Fields
    BY HeaderFields
<1> QED BY <1>1, HeaderFields, FieldsEqual

(* The second stage adds the same flag to the same flags.                  *)
LEMMA SameFlags ==
    ASSUME NEW r \in Fields, NEW s \in Fields, NEW v \in Values, s.flags = r.flags
    PROVE  WithCsrcs(s, v).flags = WithCsrcs(r, v).flags
<1>1. /\ WithCsrcs(s, v).flags = s.flags \cup v.extension
      /\ WithCsrcs(r, v).flags = r.flags \cup v.extension
    BY CsrcsFlags, Zenon
<1> QED BY <1>1, Zenon

(* The second stage after the first.                                       *)
LEMMA CsrcsAgain ==
    ASSUME NEW r \in Fields, NEW s \in Fields, NEW v \in Values,
           s.profile = r.profile, s.extensionLength = r.extensionLength,
           s.pExtension = r.pExtension, s.pPayload = r.pPayload,
           s.payloadLength = r.payloadLength
    PROVE  WithCsrcs(WithHeader(s, v), v) = WithCsrcs(WithHeader(r, v), v)
<1> DEFINE h == WithHeader(s, v)
           g == WithHeader(r, v)
<1>1. /\ h \in Fields /\ g \in Fields
      /\ h.flags = g.flags /\ h.csrcCount = g.csrcCount
      /\ h.payloadType = g.payloadType /\ h.sequenceNumber = g.sequenceNumber
      /\ h.timestamp = g.timestamp /\ h.ssrc = g.ssrc
      /\ h.profile = g.profile /\ h.extensionLength = g.extensionLength
      /\ h.pExtension = g.pExtension /\ h.pPayload = g.pPayload
      /\ h.payloadLength = g.payloadLength
    BY HeaderFields
<1> HIDE DEF h, g
<1>2. WithCsrcs(h, v) \in Fields /\ WithCsrcs(g, v) \in Fields
    BY <1>1, CsrcsFields
<1>3. WithCsrcs(h, v).flags = WithCsrcs(g, v).flags
    BY <1>1, SameFlags
<1>4. WithCsrcs(h, v) = WithCsrcs(g, v)
    <2> DEFINE c == WithCsrcs(h, v)
               d == WithCsrcs(g, v)
    <2>1. /\ c.csrcCount = d.csrcCount /\ c.payloadType = d.payloadType
          /\ c.sequenceNumber = d.sequenceNumber /\ c.timestamp = d.timestamp
          /\ c.ssrc = d.ssrc /\ c.pCsrc = d.pCsrc /\ c.profile = d.profile
          /\ c.extensionLength = d.extensionLength
          /\ c.pExtension = d.pExtension /\ c.pPayload = d.pPayload
          /\ c.payloadLength = d.payloadLength
        BY <1>1, CsrcsFields
    <2>2. c \in Fields /\ d \in Fields /\ c.flags = d.flags
        BY <1>2, <1>3
    <2> HIDE DEF c, d
    <2>3. c = d
        BY <2>1, <2>2, FieldsEqual
    <2> QED BY <2>3 DEF c, d
<1> QED BY <1>4 DEF h, g

(* The third stage after these.                                            *)
LEMMA ExtensionHeaderAgain ==
    ASSUME NEW r \in Fields, NEW s \in Fields, NEW v \in Values,
           ~v.extended => /\ s.profile = r.profile
                          /\ s.extensionLength = r.extensionLength,
           s.pExtension = r.pExtension, s.pPayload = r.pPayload,
           s.payloadLength = r.payloadLength
    PROVE  WithExtensionHeader(WithCsrcs(WithHeader(s, v), v), v)
         = WithExtensionHeader(WithCsrcs(WithHeader(r, v), v), v)
<1> DEFINE hs == WithHeader(s, v)
           hr == WithHeader(r, v)
           cs == WithCsrcs(hs, v)
           cr == WithCsrcs(hr, v)
<1>1. /\ hs \in Fields /\ hr \in Fields
      /\ hs.flags = hr.flags /\ hs.csrcCount = hr.csrcCount
      /\ hs.payloadType = hr.payloadType /\ hs.sequenceNumber = hr.sequenceNumber
      /\ hs.timestamp = hr.timestamp /\ hs.ssrc = hr.ssrc
      /\ hs.profile = s.profile /\ hs.extensionLength = s.extensionLength
      /\ hr.profile = r.profile /\ hr.extensionLength = r.extensionLength
      /\ hs.pExtension = hr.pExtension /\ hs.pPayload = hr.pPayload
      /\ hs.payloadLength = hr.payloadLength
    BY HeaderFields
<1> HIDE DEF hs, hr
<1>2. /\ cs \in Fields /\ cr \in Fields
      /\ cs.flags = cr.flags /\ cs.csrcCount = cr.csrcCount
      /\ cs.payloadType = cr.payloadType /\ cs.sequenceNumber = cr.sequenceNumber
      /\ cs.timestamp = cr.timestamp /\ cs.ssrc = cr.ssrc /\ cs.pCsrc = cr.pCsrc
      /\ cs.profile = s.profile /\ cs.extensionLength = s.extensionLength
      /\ cr.profile = r.profile /\ cr.extensionLength = r.extensionLength
      /\ cs.pExtension = cr.pExtension /\ cs.pPayload = cr.pPayload
      /\ cs.payloadLength = cr.payloadLength
    <2>1. cs.flags = cr.flags
        BY <1>1, SameFlags
    <2> QED BY <1>1, <2>1, CsrcsFields
<1> HIDE DEF cs, cr
<1>3. WithExtensionHeader(cs, v) \in Fields /\ WithExtensionHeader(cr, v) \in Fields
    BY <1>2, ExtensionHeaderFields
<1>4. WithExtensionHeader(cs, v) = WithExtensionHeader(cr, v)
    BY <1>2, <1>3, ExtensionHeaderFields, FieldsEqual
<1> QED BY <1>4 DEF cs, cr, hs, hr

(* The fields of an RtpPacket_t after a whole call that do not depend on   *)
(* what it was before.                                                     *)
LEMMA PayloadAgain ==
    ASSUME NEW r \in Fields, NEW s \in Fields, NEW v \in Values,
           ~v.extended => /\ s.profile = r.profile
                          /\ s.extensionLength = r.extensionLength
                          /\ s.pExtension = r.pExtension
    PROVE  WithPayload(WithExtensionHeader(WithCsrcs(WithHeader(s, v), v), v), v)
         = WithPayload(WithExtensionHeader(WithCsrcs(WithHeader(r, v), v), v), v)
<1> DEFINE hs == WithHeader(s, v)
           hr == WithHeader(r, v)
           cs == WithCsrcs(hs, v)
           cr == WithCsrcs(hr, v)
           xs == WithExtensionHeader(cs, v)
           xr == WithExtensionHeader(cr, v)
<1>1. /\ hs \in Fields /\ hr \in Fields
      /\ hs.flags = hr.flags /\ hs.csrcCount = hr.csrcCount
      /\ hs.payloadType = hr.payloadType /\ hs.sequenceNumber = hr.sequenceNumber
      /\ hs.timestamp = hr.timestamp /\ hs.ssrc = hr.ssrc
      /\ hs.profile = s.profile /\ hs.extensionLength = s.extensionLength
      /\ hr.profile = r.profile /\ hr.extensionLength = r.extensionLength
      /\ hs.pExtension = s.pExtension /\ hr.pExtension = r.pExtension
    BY HeaderFields
<1> HIDE DEF hs, hr
<1>2. /\ cs \in Fields /\ cr \in Fields
      /\ cs.flags = cr.flags /\ cs.csrcCount = cr.csrcCount
      /\ cs.payloadType = cr.payloadType /\ cs.sequenceNumber = cr.sequenceNumber
      /\ cs.timestamp = cr.timestamp /\ cs.ssrc = cr.ssrc /\ cs.pCsrc = cr.pCsrc
      /\ cs.profile = s.profile /\ cs.extensionLength = s.extensionLength
      /\ cr.profile = r.profile /\ cr.extensionLength = r.extensionLength
      /\ cs.pExtension = s.pExtension /\ cr.pExtension = r.pExtension
    <2>1. cs.flags = cr.flags
        BY <1>1, SameFlags
    <2> QED BY <1>1, <2>1, CsrcsFields
<1> HIDE DEF cs, cr
<1>3. /\ xs \in Fields /\ xr \in Fields
      /\ xs.flags = xr.flags /\ xs.csrcCount = xr.csrcCount
      /\ xs.payloadType = xr.payloadType /\ xs.sequenceNumber = xr.sequenceNumber
      /\ xs.timestamp = xr.timestamp /\ xs.ssrc = xr.ssrc /\ xs.pCsrc = xr.pCsrc
      /\ xs.profile = xr.profile /\ xs.extensionLength = xr.extensionLength
      /\ ~v.extended => xs.pExtension = xr.pExtension
    BY <1>2, ExtensionHeaderFields
<1> HIDE DEF xs, xr
<1>4. WithPayload(xs, v) \in Fields /\ WithPayload(xr, v) \in Fields
    BY <1>3, PayloadFields
<1>5. WithPayload(xs, v) = WithPayload(xr, v)
    BY <1>3, <1>4, PayloadFields, FieldsEqual
<1> QED BY <1>5 DEF xs, xr, cs, cr, hs, hr

-----------------------------------------------------------------------------

(* What a call reads, whatever is in the packet.                           *)
LEMMA ValuesTyped == Typed => ReadValues \in Values
<1> SUFFICES ASSUME Typed PROVE ReadValues \in Values
    OBVIOUS
<1>1. /\ HeaderWord[1] \in Nat /\ HeaderWord[2] \in Nat /\ HeaderWord[3] \in Nat
      /\ HeaderWord[4] \in Nat
      /\ ExtensionHeaderWord[1] \in Nat /\ ExtensionHeaderWord[2] \in Nat
    BY Positions DEF Word, Byte
<1>2. RtpReadUint32(Word4(4)) \in Word /\ RtpReadUint32(Word4(8)) \in Word
    BY WordRead
<1>3. /\ Flag(HasPadding, PADDING) \cup Flag(HeaderWord[2] >= 128, MARKER)
            \in SUBSET {PADDING, MARKER, EXTENSION}
      /\ Flag(HasExtension, EXTENSION) \in SUBSET {PADDING, MARKER, EXTENSION}
    BY DEF Flag
<1>4. /\ CsrcCount \in Int /\ HeaderWord[2] % 128 \in Int
      /\ HeaderWord[3] * 256 + HeaderWord[4] \in Int
      /\ ExtensionHeaderWord[1] * 256 + ExtensionHeaderWord[2] \in Int
      /\ ExtensionLength \in Int /\ ExtensionAt + 4 \in Int
    BY <1>1, Positions
<1>5. /\ (IF CsrcCount > 0 THEN MIN_LENGTH ELSE NULL) \in Int
      /\ (IF PayloadAt < Len(bytes) THEN PayloadAt ELSE NULL) \in Int
      /\ Len(bytes) - PayloadAt \in Int
    BY Positions, LenBytes DEF Typed, MIN_LENGTH, NULL
<1>6. HasExtension \in BOOLEAN
    BY DEF HasExtension
<1> QED BY <1>2, <1>3, <1>4, <1>5, <1>6, Zenon DEF ReadValues, Values

(* The call in terms of its stages.                                        *)
LEMMA Stages ==
    ASSUME received \in Fields, ReadValues \in Values
    PROVE  LET v == ReadValues
           IN  /\ HeaderRead = WithHeader(received, v)
               /\ CsrcsRead = WithCsrcs(HeaderRead, v)
               /\ ExtensionHeaderRead = WithExtensionHeader(CsrcsRead, v)
               /\ PayloadRead = WithPayload(ExtensionHeaderRead, v)
<1>1. HeaderRead = WithHeader(received, ReadValues)
    BY DEF HeaderRead, WithHeader, ReadValues
<1>2. CsrcsRead = WithCsrcs(HeaderRead, ReadValues)
    BY DEF CsrcsRead, WithCsrcs, ReadValues
<1>3. ExtensionHeaderRead = WithExtensionHeader(CsrcsRead, ReadValues)
    BY DEF ExtensionHeaderRead, WithExtensionHeader, ReadValues
<1>4. PayloadRead = WithPayload(ExtensionHeaderRead, ReadValues)
    BY DEF PayloadRead, WithPayload, ReadValues
<1> QED BY <1>1, <1>2, <1>3, <1>4

(* The next call reads the same.                                           *)
LEMMA SameValues ==
    ASSUME Typed, UNCHANGED machine, Len(bytes) >= MIN_LENGTH,
           bytes' \in {bytes, CsrcsConverted, AllConverted}
    PROVE  /\ Version' = Version /\ CsrcsFit' = CsrcsFit
           /\ ExtensionHeaderFits' = ExtensionHeaderFits
           /\ ExtensionFits' = ExtensionFits /\ ReadValues' = ReadValues
           /\ ExtensionFits => /\ Len(Payload') = Len(Payload)
                               /\ PaddingLength' = PaddingLength
<1>1. /\ HeaderWord' = HeaderWord
      /\ RtpReadUint32(Word4(4))' = RtpReadUint32(Word4(4))
      /\ RtpReadUint32(Word4(8))' = RtpReadUint32(Word4(8))
      /\ ExtensionHeaderWord' = ExtensionHeaderWord
      /\ Len(bytes') = Len(bytes)
      /\ \A i \in 1..Len(bytes) : i > PayloadAt => bytes'[i] = bytes[i]
    BY SameReading
<1>2. /\ Version' = Version /\ HasPadding' = HasPadding
      /\ HasExtension' = HasExtension /\ CsrcCount' = CsrcCount
      /\ ExtensionLength' = ExtensionLength
    BY <1>1 DEF Version, HasPadding, HasExtension, CsrcCount, ExtensionLength
<1>3. ExtensionAt' = ExtensionAt
    BY <1>2 DEF ExtensionAt
<1>4. PayloadAt' = PayloadAt
    BY <1>2, <1>3 DEF PayloadAt
<1>5. /\ CsrcsFit' = CsrcsFit /\ ExtensionHeaderFits' = ExtensionHeaderFits
      /\ ExtensionFits' = ExtensionFits
    BY <1>1, <1>2, <1>3, <1>4 DEF CsrcsFit, ExtensionHeaderFits, ExtensionFits
<1>6. ReadValues' = ReadValues
    <2>1. /\ Flag(HasPadding, PADDING)' = Flag(HasPadding, PADDING)
          /\ Flag(HeaderWord[2] >= 128, MARKER)' = Flag(HeaderWord[2] >= 128, MARKER)
          /\ Flag(HasExtension, EXTENSION)' = Flag(HasExtension, EXTENSION)
        BY <1>1, <1>2 DEF Flag, PADDING, MARKER, EXTENSION
    <2>2. /\ (HeaderWord[2] % 128)' = HeaderWord[2] % 128
          /\ (HeaderWord[3] * 256 + HeaderWord[4])' = HeaderWord[3] * 256 + HeaderWord[4]
          /\ (ExtensionHeaderWord[1] * 256 + ExtensionHeaderWord[2])'
                = ExtensionHeaderWord[1] * 256 + ExtensionHeaderWord[2]
        BY <1>1
    <2>3. /\ (IF CsrcCount > 0 THEN MIN_LENGTH ELSE NULL)'
                = IF CsrcCount > 0 THEN MIN_LENGTH ELSE NULL
          /\ (ExtensionAt + 4)' = ExtensionAt + 4
          /\ (IF PayloadAt < Len(bytes) THEN PayloadAt ELSE NULL)'
                = IF PayloadAt < Len(bytes) THEN PayloadAt ELSE NULL
          /\ (Len(bytes) - PayloadAt)' = Len(bytes) - PayloadAt
        BY <1>1, <1>2, <1>3, <1>4 DEF MIN_LENGTH, NULL
    <2> QED BY <1>1, <1>2, <2>1, <2>2, <2>3, Zenon DEF ReadValues
<1>7. ASSUME ExtensionFits
      PROVE  Payload' = Payload /\ PaddingLength' = PaddingLength
    <2>1. /\ bytes \in Bytes /\ bytes' \in Bytes /\ Len(bytes) \in Nat
          /\ PayloadAt \in Nat /\ PayloadAt <= Len(bytes)
        BY <1>7, BytesKept, LenBytes, Positions DEF Typed, ExtensionFits
    <2>2. \A i \in 1..(Len(bytes) - PayloadAt) :
            bytes'[(PayloadAt + 1) + i - 1] = bytes[(PayloadAt + 1) + i - 1]
        BY <1>1, <2>1
    <2>3. SubSeq(bytes', PayloadAt + 1, Len(bytes)) = SubSeq(bytes, PayloadAt + 1, Len(bytes))
        <3> DEFINE s == SubSeq(bytes', PayloadAt + 1, Len(bytes))
                   t == SubSeq(bytes, PayloadAt + 1, Len(bytes))
        <3>1. /\ s \in Bytes /\ Len(s) = Len(bytes) - PayloadAt
              /\ \A i \in 1..(Len(bytes) - PayloadAt) :
                    s[i] = bytes'[(PayloadAt + 1) + i - 1]
            BY <1>1, <2>1 DEF Bytes
        <3>2. /\ t \in Bytes /\ Len(t) = Len(bytes) - PayloadAt
              /\ \A i \in 1..(Len(bytes) - PayloadAt) :
                    t[i] = bytes[(PayloadAt + 1) + i - 1]
            BY <2>1 DEF Bytes
        <3> HIDE DEF s, t
        <3>3. \A i \in 1..Len(s) : s[i] = t[i]
            BY <2>2, <3>1, <3>2
        <3>4. s = t
            BY <3>1, <3>2, <3>3, SeqEqual DEF Bytes
        <3> QED BY <3>4 DEF s, t
    <2>4. Payload' = Payload
        BY <1>1, <1>4, <2>3 DEF Payload
    <2> QED BY <1>2, <2>4 DEF PaddingLength
<1> QED BY <1>2, <1>5, <1>6, <1>7

(* And so it leaves the same, whichever stage it ends in.                  *)
LEMMA StagesAgain ==
    ASSUME Typed, Typed', ReadValues' = ReadValues
    PROVE  /\ received' = HeaderRead => HeaderRead' = HeaderRead
           /\ received' = CsrcsRead => CsrcsRead' = CsrcsRead
           /\ received' = ExtensionHeaderRead
                => ExtensionHeaderRead' = ExtensionHeaderRead
           /\ received' = PayloadRead => PayloadRead' = PayloadRead
           /\ received' = [PayloadRead EXCEPT !.payloadLength = @ - PaddingLength]
                => PayloadRead' = PayloadRead
<1> DEFINE v == ReadValues
           h == WithHeader(received, v)
           c == WithCsrcs(h, v)
           x == WithExtensionHeader(c, v)
           p == WithPayload(x, v)
<1>1. received \in Fields /\ received' \in Fields /\ v \in Values /\ v' = v
    BY ValuesTyped DEF Typed
<1> HIDE DEF v
<1>2. HeaderRead = h /\ CsrcsRead = c /\ ExtensionHeaderRead = x /\ PayloadRead = p
    BY <1>1, Stages DEF v
<1>3. /\ HeaderRead' = WithHeader(received', v)
      /\ CsrcsRead' = WithCsrcs(HeaderRead', v)
      /\ ExtensionHeaderRead' = WithExtensionHeader(CsrcsRead', v)
      /\ PayloadRead' = WithPayload(ExtensionHeaderRead', v)
    <2>1. HeaderRead' = WithHeader(received', v')
        BY DEF HeaderRead, WithHeader, ReadValues, v
    <2>2. CsrcsRead' = WithCsrcs(HeaderRead', v')
        BY DEF CsrcsRead, WithCsrcs, ReadValues, v
    <2>3. ExtensionHeaderRead' = WithExtensionHeader(CsrcsRead', v')
        BY DEF ExtensionHeaderRead, WithExtensionHeader, ReadValues, v
    <2>4. PayloadRead' = WithPayload(ExtensionHeaderRead', v')
        BY DEF PayloadRead, WithPayload, ReadValues, v
    <2> QED BY <1>1, <2>1, <2>2, <2>3, <2>4
<1>4. /\ h \in Fields /\ h.pCsrc = received.pCsrc /\ h.profile = received.profile
      /\ h.extensionLength = received.extensionLength
      /\ h.pExtension = received.pExtension /\ h.pPayload = received.pPayload
      /\ h.payloadLength = received.payloadLength
    BY <1>1, HeaderFields
<1> HIDE DEF h
<1>5. /\ c \in Fields /\ c.profile = received.profile
      /\ c.extensionLength = received.extensionLength
      /\ c.pExtension = received.pExtension /\ c.pPayload = received.pPayload
      /\ c.payloadLength = received.payloadLength
    BY <1>1, <1>4, CsrcsFields
<1> HIDE DEF c
<1>6. /\ x \in Fields
      /\ ~v.extended => /\ x.profile = received.profile
                        /\ x.extensionLength = received.extensionLength
      /\ x.pExtension = received.pExtension /\ x.pPayload = received.pPayload
      /\ x.payloadLength = received.payloadLength
    BY <1>1, <1>5, ExtensionHeaderFields
<1> HIDE DEF x
<1>7. /\ p \in Fields
      /\ ~v.extended => /\ p.profile = received.profile
                        /\ p.extensionLength = received.extensionLength
                        /\ p.pExtension = received.pExtension
    BY <1>1, <1>6, PayloadFields
<1> HIDE DEF p
<1>8. received' = HeaderRead => HeaderRead' = HeaderRead
    BY <1>1, <1>2, <1>3, <1>4, HeaderAgain DEF h
<1>9. received' = CsrcsRead => CsrcsRead' = CsrcsRead
    BY <1>1, <1>2, <1>3, <1>5, CsrcsAgain DEF c, h
<1>10. received' = ExtensionHeaderRead => ExtensionHeaderRead' = ExtensionHeaderRead
    BY <1>1, <1>2, <1>3, <1>6, ExtensionHeaderAgain DEF x, c, h
<1>11. ASSUME ~v.extended => /\ received'.profile = received.profile
                             /\ received'.extensionLength = received.extensionLength
                             /\ received'.pExtension = received.pExtension
       PROVE  PayloadRead' = PayloadRead
    BY <1>1, <1>2, <1>3, <1>11, PayloadAgain DEF p, x, c, h
<1>12. received' = PayloadRead => PayloadRead' = PayloadRead
    BY <1>2, <1>7, <1>11
<1>13. ASSUME received' = [PayloadRead EXCEPT !.payloadLength = @ - PaddingLength]
       PROVE  PayloadRead' = PayloadRead
    <2>1. /\ received'.profile = p.profile
          /\ received'.extensionLength = p.extensionLength
          /\ received'.pExtension = p.pExtension
        BY <1>2, <1>7, <1>13 DEF Fields
    <2> QED BY <1>7, <1>11, <2>1
<1> QED BY <1>8, <1>9, <1>10, <1>12, <1>13

(* The next call would find the same.                                      *)
LEMMA Steady ==
    ASSUME Typed, Typed', UNCHANGED machine,
           bytes' \in {bytes, CsrcsConverted, AllConverted},
           Outcome(rResult', received')
    PROVE  Outcome(rResult, received)'
<1>1. Len(bytes') = Len(bytes) /\ Len(bytes) \in Nat
    BY BytesKept, LenBytes DEF Typed
<1>2. CASE Len(bytes) < MIN_LENGTH
    <2>1. rResult' = "BAD_PARAM"
        BY <1>1, <1>2 DEF Outcome, MIN_LENGTH
    <2> QED BY <1>1, <1>2, <2>1 DEF Outcome
<1>3. CASE Len(bytes) >= MIN_LENGTH
    <2>1. /\ Version' = Version /\ CsrcsFit' = CsrcsFit
          /\ ExtensionHeaderFits' = ExtensionHeaderFits
          /\ ExtensionFits' = ExtensionFits /\ ReadValues' = ReadValues
          /\ ExtensionFits => /\ Len(Payload') = Len(Payload)
                              /\ PaddingLength' = PaddingLength
        BY <1>3, SameValues
    <2>2. ~(Len(bytes) < MIN_LENGTH)
        BY <1>1, <1>3 DEF MIN_LENGTH
    <2>3. /\ received' = HeaderRead => HeaderRead' = HeaderRead
          /\ received' = CsrcsRead => CsrcsRead' = CsrcsRead
          /\ received' = ExtensionHeaderRead
                => ExtensionHeaderRead' = ExtensionHeaderRead
          /\ received' = PayloadRead => PayloadRead' = PayloadRead
          /\ received' = [PayloadRead EXCEPT !.payloadLength = @ - PaddingLength]
               => PayloadRead' = PayloadRead
        BY <2>1, StagesAgain
    <2>9. (Len(bytes) >= MIN_LENGTH)' /\ VERSION' = VERSION
        BY <1>1, <1>3 DEF MIN_LENGTH, VERSION
    <2>4. CASE Version # VERSION
        BY <1>1, <1>3, <2>1, <2>2, <2>4 DEF Outcome
    <2>5. CASE Version = VERSION /\ ~CsrcsFit
        BY <1>1, <1>3, <2>1, <2>2, <2>3, <2>5 DEF Outcome
    <2>6. CASE Version = VERSION /\ CsrcsFit /\ ~ExtensionHeaderFits
        BY <1>1, <1>3, <2>1, <2>2, <2>3, <2>6 DEF Outcome
    <2>7. CASE Version = VERSION /\ CsrcsFit /\ ExtensionHeaderFits /\ ~ExtensionFits
        BY <1>1, <1>3, <2>1, <2>2, <2>3, <2>7 DEF Outcome
    <2>8. CASE /\ Version = VERSION /\ CsrcsFit /\ ExtensionHeaderFits
               /\ ExtensionFits
        <3>1. /\ Len(Payload)' = Len(Payload) /\ PaddingLength' = PaddingLength
            BY <2>1, <2>8
        <3>2. CASE /\ PaddingLength > Len(Payload)
                   /\ rResult' = "MALFORMED_PACKET" /\ received' = PayloadRead
            <4>1. PayloadRead' = PayloadRead
                BY <2>3, <3>2
            <4>2. (PaddingLength > Len(Payload))'
                BY <3>1, <3>2
            <4> QED BY <2>1, <2>8, <3>2, <4>1, <4>2, <2>9, Zenon DEF Outcome
        <3>3. CASE /\ ~(PaddingLength > Len(Payload)) /\ rResult' = "OK"
                   /\ received'
                        = [PayloadRead EXCEPT !.payloadLength = @ - PaddingLength]
            <4>1. PayloadRead' = PayloadRead
                BY <2>3, <3>3
            <4>2. ~(PaddingLength > Len(Payload))'
                BY <3>1, <3>3
            <4>3. [PayloadRead EXCEPT !.payloadLength = @ - PaddingLength]'
                    = [PayloadRead EXCEPT !.payloadLength = @ - PaddingLength]
                BY <3>1, <4>1
            <4> QED BY <2>1, <2>8, <3>3, <4>2, <4>3, <2>9, Zenon DEF Outcome
        <3> QED BY <2>2, <2>8, <3>2, <3>3 DEF Outcome
    <2> QED BY <2>4, <2>5, <2>6, <2>7, <2>8
<1> QED BY <1>1, <1>2, <1>3 DEF MIN_LENGTH

(* Every step keeps a call's outcome the next one's.                       *)
LEMMA SettledInv ==
    ASSUME IInv, IInv', Settled, [Next]_vars
    PROVE  Settled'
<1>1. CASE DeSerialize
    <2>1. Outcome(rResult', received')
        BY <1>1, OutcomeOfCall DEF DeSerialize, IInv
    <2>2. bytes' \in {bytes, CsrcsConverted, AllConverted} /\ UNCHANGED machine
        BY <1>1, DeSerializeFacts DEF DeSerialize, IInv
    <2>3. Outcome(rResult, received)'
        BY <2>1, <2>2, Steady DEF IInv
    <2> QED BY <2>3 DEF Settled
<1>2. CASE UNCHANGED vars
    <2>1. CASE calls > 0
        <3>1. Outcome(rResult', received')
            BY <1>2, <2>1 DEF Settled, vars, receiver
        <3>2. bytes' \in {bytes, CsrcsConverted, AllConverted} /\ UNCHANGED machine
            BY <1>2 DEF vars, receiver, machine
        <3>3. Outcome(rResult, received)'
            BY <3>1, <3>2, Steady DEF IInv
        <3> QED BY <3>3 DEF Settled
    <2>2. CASE ~(calls > 0)
        BY <1>2, <2>2 DEF Settled, vars, receiver
    <2> QED BY <2>1, <2>2
<1>3. CASE calls' = 0
    BY <1>3 DEF Settled
<1>4. Serialize \/ QueryLength \/ SerializeQueried \/ Deliver \/ StrayArrives
        => calls' = 0
    BY DEF Serialize, QueryLength, SerializeQueried, Deliver, StrayArrives,
           Arrives, NothingArrived
<1> QED BY <1>1, <1>2, <1>3, <1>4 DEF Next

(* What RepeatAgrees says of a step.                                       *)
LEMMA RepeatedCall ==
    ASSUME IInv, Settled, Next, calls' > calls, calls > 0
    PROVE  rResult' = rResult /\ received' = received
<1>1. calls \in Nat
    BY DEF IInv, Typed
<1>2. CASE DeSerialize
    <2>1. Outcome(rResult', received')
        BY <1>2, OutcomeOfCall DEF DeSerialize, IInv
    <2>2. Outcome(rResult, received)
        BY DEF Settled
    <2> QED BY <2>1, <2>2, OneOutcome DEF IInv
<1>3. Serialize \/ QueryLength \/ SerializeQueried \/ Deliver \/ StrayArrives
        => calls' = 0
    BY DEF Serialize, QueryLength, SerializeQueried, Deliver, StrayArrives,
           Arrives, NothingArrived
<1> QED BY <1>1, <1>2, <1>3 DEF Next

-----------------------------------------------------------------------------
(* The inductive invariant: bytes are bytes whatever was cut or converted. *)
THEOREM SerializationIsConsistent == Spec => []IInv
<1>1. IInv /\ [Next]_vars => IInv'
    BY NextInv
<1> QED BY <1>1, InitInv, PTL DEF Spec

(* Whatever arrives, and however often it is read, what Rtp_DeSerialize    *)
(* says is in the packet lies inside it.                                   *)
THEOREM ReadsStayInside == Spec => []ReadsInsidePacket
BY SerializationIsConsistent, PTL DEF IInv

(* The conversion in place changes no byte that decides what another call  *)
(* answers.                                                                *)
THEOREM RepeatsAgree == Spec => RepeatAgrees
<1>1. Init => Settled
    BY DEF Init, Settled
<1>2. IInv /\ IInv' /\ Settled /\ [Next]_vars => Settled'
    BY SettledInv
<1>3. IInv /\ Settled /\ [Next]_vars =>
        [calls' > calls /\ calls > 0
            => rResult' = rResult /\ received' = received]_vars
    BY RepeatedCall
<1> QED BY <1>1, <1>2, <1>3, SerializationIsConsistent, PTL DEF Spec, RepeatAgrees

-----------------------------------------------------------------------------
(* A packet that arrives whole: what Rtp_Serialize wrote is what every call *)
(* of Rtp_DeSerialize finds, but for the words converted in place.          *)

(* The words of the serialized header, in its order.                       *)
ExtensionWords(p) ==
    IF EXTENSION \in p.flags THEN <<ExtensionHeader(p)>> \o p.extension ELSE << >>

Words(p) == <<FirstWord(p), p.timestamp, p.ssrc>> \o p.csrc \o ExtensionWords(p)

ByteOf(p, i) == Words(p)[1 + (i - 1) \div 4][1 + ((i - 1) % 4)]

(* What the caller of Rtp_Serialize has in his buffer after an OK.         *)
SentBytes ==
    sResult = "OK" /\ buffer # << >> =>
        /\ ~PaddingTooLong(packet.flags, packet.payload)
        /\ pLength = 4 * Len(Words(packet)) + packet.payloadLength
        /\ pLength <= Len(buffer)
        /\ \A i \in 1..(4 * Len(Words(packet))) : buffer[i] = ByteOf(packet, i)
        /\ \A i \in 1..Len(packet.payload) :
            buffer[4 * Len(Words(packet)) + i] = packet.payload[i]

(* The words that a call converts: CSRCs, and the extension's own words.   *)
Converted(p, j) == j > 3 /\ j # 4 + Len(p.csrc)

(* The j-th word of packet p as an odd or even number of calls leaves it.  *)
InMemory(p, j) ==
    IF littleEndian /\ calls % 2 = 1 /\ Converted(p, j)
        THEN Reverse(Words(p)[j]) ELSE Words(p)[j]

Carries(p) ==
    /\ p \in Packets /\ ~PaddingTooLong(p.flags, p.payload)
    /\ Len(bytes) = 4 * Len(Words(p)) + Len(p.payload)
    /\ \A j \in 1..Len(Words(p)) : Word4(4 * (j - 1)) = InMemory(p, j)
    /\ \A i \in 1..Len(p.payload) : bytes[4 * Len(Words(p)) + i] = p.payload[i]

(* A packet that arrived whole is there, but for the words converted.      *)
WholePackets ==
    origin # << >> =>
        /\ \E p \in Packets : origin = <<p>>
        /\ Representable(origin[1]) => Carries(origin[1])
(* Where the elements of a concatenation come from.                        *)
LEMMA Joined ==
    ASSUME NEW S, NEW s \in Seq(S), NEW t \in Seq(S)
    PROVE  /\ s \o t \in Seq(S) /\ Len(s \o t) = Len(s) + Len(t)
           /\ Len(s) \in Nat /\ Len(t) \in Nat
           /\ \A i \in 1..Len(s) : (s \o t)[i] = s[i]
           /\ \A k \in 1..Len(t) : (s \o t)[Len(s) + k] = t[k]
<1>1. Len(s) \in Nat /\ Len(t) \in Nat
    BY LenProperties
<1> DEFINE st == s \o t
           m == Len(s)
           n == Len(t)
<1>2. /\ st \in Seq(S) /\ Len(st) = m + n
      /\ \A i \in 1..(m + n) : st[i] = IF i <= m THEN s[i] ELSE t[i - m]
    BY ConcatProperties
<1> HIDE DEF st, m, n
<1>3. \A i \in 1..m : st[i] = s[i]
    BY <1>1, <1>2 DEF m, n
<1>4. \A k \in 1..n : st[m + k] = t[k]
    <2> TAKE k \in 1..n
    <2>1. m + k \in 1..(m + n) /\ ~(m + k <= m) /\ (m + k) - m = k
        BY <1>1 DEF m, n
    <2> QED BY <1>2, <2>1
<1> QED BY <1>1, <1>2, <1>3, <1>4 DEF st, m, n

(* Which word of the header is which.                                      *)
LEMMA WordsOfPacket ==
    ASSUME NEW p \in Packets
    PROVE  /\ Words(p) \in Seq(Word)
           /\ Len(p.csrc) \in Nat /\ Len(p.extension) \in Nat
           /\ Len(Words(p)) = 3 + Len(p.csrc)
                + (IF EXTENSION \in p.flags THEN 1 + Len(p.extension) ELSE 0)
           /\ Words(p)[1] = FirstWord(p) /\ Words(p)[2] = p.timestamp
           /\ Words(p)[3] = p.ssrc
           /\ \A k \in 1..Len(p.csrc) : Words(p)[3 + k] = p.csrc[k]
           /\ EXTENSION \in p.flags =>
                /\ Words(p)[4 + Len(p.csrc)] = ExtensionHeader(p)
                /\ \A k \in 1..Len(p.extension) :
                    Words(p)[4 + Len(p.csrc) + k] = p.extension[k]
<1> DEFINE first == <<FirstWord(p), p.timestamp, p.ssrc>>
           fixed == first \o p.csrc
           c == Len(p.csrc)
           x == Len(p.extension)
           e == ExtensionWords(p)
<1>1. /\ p.timestamp \in Word /\ p.ssrc \in Word
      /\ p.csrc \in Seq(Word) /\ c \in Nat
      /\ p.extension \in Seq(Word) /\ x \in Nat
      /\ FirstWord(p) \in Word /\ ExtensionHeader(p) \in Word
    BY PacketFacts, HeaderWords DEF UInt16
<1>2. /\ first \in Seq(Word) /\ Len(first) = 3
      /\ first[1] = FirstWord(p) /\ first[2] = p.timestamp /\ first[3] = p.ssrc
    BY <1>1
<1>3. /\ e \in Seq(Word)
      /\ Len(e) = IF EXTENSION \in p.flags THEN 1 + x ELSE 0
      /\ EXTENSION \in p.flags =>
            /\ e[1] = ExtensionHeader(p)
            /\ \A k \in 1..x : e[1 + k] = p.extension[k]
    <2>1. CASE EXTENSION \in p.flags
        <3> DEFINE h == <<ExtensionHeader(p)>>
        <3>1. h \in Seq(Word) /\ Len(h) = 1 /\ h[1] = ExtensionHeader(p)
            BY <1>1
        <3> HIDE DEF h
        <3>2. /\ h \o p.extension \in Seq(Word) /\ Len(h \o p.extension) = 1 + x
              /\ (h \o p.extension)[1] = h[1]
              /\ \A k \in 1..x : (h \o p.extension)[1 + k] = p.extension[k]
            BY <1>1, <3>1, Joined
        <3>3. e = h \o p.extension
            BY <2>1 DEF ExtensionWords, h
        <3> QED BY <2>1, <3>1, <3>2, <3>3
    <2>2. CASE EXTENSION \notin p.flags
        <3>1. e = << >>
            BY <2>2 DEF ExtensionWords
        <3> QED BY <2>2, <3>1
    <2> QED BY <2>1, <2>2
<1> HIDE DEF first, e
<1>4. /\ fixed \in Seq(Word) /\ Len(fixed) = 3 + c
      /\ \A i \in 1..3 : fixed[i] = first[i]
      /\ \A k \in 1..c : fixed[3 + k] = p.csrc[k]
    <2>0. first \in Seq(Word) /\ p.csrc \in Seq(Word)
        BY <1>1, <1>2
    <2>1. /\ fixed \in Seq(Word) /\ Len(fixed) = Len(first) + Len(p.csrc)
          /\ \A i \in 1..Len(first) : fixed[i] = first[i]
          /\ \A k \in 1..Len(p.csrc) : fixed[Len(first) + k] = p.csrc[k]
        BY <2>0, Joined
    <2> QED BY <1>2, <2>1
<1>5. Words(p) = fixed \o e
    BY DEF Words, first, e
<1> HIDE DEF fixed, c, x
<1>6. /\ fixed \o e \in Seq(Word) /\ Len(fixed \o e) = 3 + c + Len(e)
      /\ \A i \in 1..(3 + c) : (fixed \o e)[i] = fixed[i]
      /\ \A k \in 1..Len(e) : (fixed \o e)[3 + c + k] = e[k]
    <2>0. fixed \in Seq(Word) /\ e \in Seq(Word)
        BY <1>3, <1>4
    <2>1. /\ fixed \o e \in Seq(Word) /\ Len(fixed \o e) = Len(fixed) + Len(e)
          /\ \A i \in 1..Len(fixed) : (fixed \o e)[i] = fixed[i]
          /\ \A k \in 1..Len(e) : (fixed \o e)[Len(fixed) + k] = e[k]
        BY <2>0, Joined
    <2> QED BY <1>4, <2>1
<1>7. /\ Words(p)[1] = FirstWord(p) /\ Words(p)[2] = p.timestamp
      /\ Words(p)[3] = p.ssrc
    BY <1>1, <1>2, <1>4, <1>5, <1>6
<1>8. \A k \in 1..c : Words(p)[3 + k] = p.csrc[k]
    BY <1>1, <1>4, <1>5, <1>6
<1>9. ASSUME EXTENSION \in p.flags
      PROVE  /\ Words(p)[4 + c] = ExtensionHeader(p)
             /\ \A k \in 1..x : Words(p)[4 + c + k] = p.extension[k]
    <2>1. Len(e) = 1 + x
        BY <1>3, <1>9
    <2>2. 1 \in 1..Len(e) /\ \A k \in 1..x : 1 + k \in 1..Len(e)
        BY <1>1, <2>1
    <2>3. \A k \in 1..Len(e) : Words(p)[3 + c + k] = e[k]
        BY <1>5, <1>6
    <2>4. Words(p)[3 + c + 1] = ExtensionHeader(p)
        BY <1>3, <1>9, <2>2, <2>3
    <2>5. \A k \in 1..x : Words(p)[3 + c + (1 + k)] = p.extension[k]
        BY <1>3, <1>9, <2>2, <2>3
    <2>6. 3 + c + 1 = 4 + c /\ \A k \in 1..x : 3 + c + (1 + k) = 4 + c + k
        BY <1>1
    <2> QED BY <2>4, <2>5, <2>6
<1>10. Len(Words(p)) = 3 + c + (IF EXTENSION \in p.flags THEN 1 + x ELSE 0)
    BY <1>3, <1>5, <1>6
<1>11. Words(p) \in Seq(Word)
    BY <1>5, <1>6
<1> QED BY <1>1, <1>7, <1>8, <1>9, <1>10, <1>11 DEF c, x

(* The header on the wire is these words, byte by byte.                    *)
LEMMA HeaderBytes ==
    ASSUME Typed, NEW p \in Packets
    PROVE  /\ SerializedHeader(p) \in Bytes
           /\ Len(SerializedHeader(p)) = 4 * Len(Words(p))
           /\ \A i \in 1..(4 * Len(Words(p))) : SerializedHeader(p)[i] = ByteOf(p, i)
<1> DEFINE words == Words(p)
           n == Len(words)
<1>1. words \in Seq(Word) /\ n \in Nat
    BY WordsOfPacket, LenProperties
<1>2. \A j \in 1..n : words[j] \in Word
    BY <1>1, ElementOfSeq
<1>3. SerializedHeader(p) = [i \in 1..(4 * n) |->
            RtpWriteUint32(words[1 + (i - 1) \div 4])[1 + ((i - 1) % 4)]]
    BY DEF SerializedHeader, Words, ExtensionWords
<1> HIDE DEF words, n
<1>4. \A i \in 1..(4 * n) :
        /\ 1 + (i - 1) \div 4 \in 1..n /\ 1 + ((i - 1) % 4) \in 1..4
    BY <1>1
<1>5. \A i \in 1..(4 * n) :
        RtpWriteUint32(words[1 + (i - 1) \div 4]) = words[1 + (i - 1) \div 4]
    <2> TAKE i \in 1..(4 * n)
    <2>1. words[1 + (i - 1) \div 4] \in Word
        BY <1>2, <1>4
    <2> QED BY <2>1, NetworkOrder
<1>6. \A i \in 1..(4 * n) : SerializedHeader(p)[i] = ByteOf(p, i)
    BY <1>3, <1>5 DEF ByteOf, words
<1>7. SerializedHeader(p) \in Bytes /\ Len(SerializedHeader(p)) \in Nat
    BY HeaderLength, LenProperties DEF Bytes
<1>8. Len(SerializedHeader(p)) = 4 * n
    <2>1. DOMAIN SerializedHeader(p) = 1..(4 * n)
        BY <1>3
    <2>2. DOMAIN SerializedHeader(p) = 1..Len(SerializedHeader(p))
        BY <1>7, LenBytes
    <2> QED BY <1>1, <1>7, <2>1, <2>2
<1> QED BY <1>6, <1>7, <1>8 DEF n, words

(* The length that is reported counts them.                                *)
LEMMA LengthOfPacket ==
    ASSUME Typed, NEW p \in Packets
    PROVE  CalculateSerializedPacketLength(p) = 4 * Len(Words(p)) + p.payloadLength
BY HeaderLength, HeaderBytes
(* An OK leaves header and payload in the buffer.                          *)
LEMMA SerializeSends ==
    ASSUME Typed, NEW p \in Packets, NEW n \in Nat,
           Rtp_Serialize(p, NewBuffer(n))
    PROVE  SentBytes'
<1> DEFINE memory == NewBuffer(n)
           header == SerializedHeader(p)
           length == CalculateSerializedPacketLength(p)
           m == 4 * Len(Words(p))
           new == header \o p.payload
<1>1. memory \in Bytes /\ Len(memory) = n
    BY NewBufferBytes
<1>2. /\ header \in Bytes /\ Len(header) = m /\ m \in Nat
      /\ \A i \in 1..m : header[i] = ByteOf(p, i)
    BY HeaderBytes, LenBytes
<1>3. length = m + p.payloadLength
    BY LengthOfPacket
<1>4. /\ p.payload \in Bytes /\ p.payloadLength \in Nat
      /\ Len(p.payload) \in Nat /\ Len(p.payload) <= p.payloadLength
    BY PacketFacts, LenBytes
<1>5. SUFFICES ASSUME sResult' = "OK"
               PROVE  SentBytes'
    BY DEF SentBytes
<1>6. /\ packet' = p /\ Len(memory) >= length /\ pLength' = length
      /\ buffer' = Written(memory, new) /\ ~PaddingTooLong(p.flags, p.payload)
    BY <1>5 DEF Rtp_Serialize
<1>7. /\ new \in Bytes /\ Len(new) = m + Len(p.payload)
      /\ \A i \in 1..m : new[i] = header[i]
      /\ \A k \in 1..Len(p.payload) : new[m + k] = p.payload[k]
    <2>1. header \in Seq(Byte) /\ p.payload \in Seq(Byte)
        BY <1>2, <1>4 DEF Bytes
    <2>2. /\ new \in Seq(Byte) /\ Len(new) = Len(header) + Len(p.payload)
          /\ \A i \in 1..Len(header) : new[i] = header[i]
          /\ \A k \in 1..Len(p.payload) : new[Len(header) + k] = p.payload[k]
        BY <2>1, Joined
    <2> QED BY <1>2, <2>2 DEF Bytes
<1> HIDE DEF memory, header, length, m, new
<1>8. Len(new) <= Len(memory)
    BY <1>1, <1>2, <1>3, <1>4, <1>6, <1>7
<1>9. /\ Len(buffer') = n
      /\ \A i \in 1..Len(new) : buffer'[i] = new[i]
    BY <1>1, <1>6, <1>7, <1>8, WrittenBytes
<1>10. \A i \in 1..m : buffer'[i] = ByteOf(p, i)
    <2> TAKE i \in 1..m
    <2>1. i \in 1..Len(new)
        BY <1>2, <1>4, <1>7
    <2> QED BY <1>2, <1>7, <1>9, <2>1
<1>11. \A k \in 1..Len(p.payload) : buffer'[m + k] = p.payload[k]
    <2> TAKE k \in 1..Len(p.payload)
    <2>1. m + k \in 1..Len(new)
        BY <1>2, <1>4, <1>7
    <2> QED BY <1>7, <1>9, <2>1
<1>12. pLength' = m + p.payloadLength /\ pLength' <= Len(buffer')
    BY <1>1, <1>3, <1>6, <1>9
<1> QED BY <1>6, <1>10, <1>11, <1>12 DEF SentBytes, ByteOf, m

(* Nothing but the next call changes what is in the buffer.                *)
LEMMA SentInv ==
    ASSUME IInv, SentBytes, [Next]_vars
    PROVE  SentBytes'
<1>1. CASE Serialize
    <2>1. PICK p \in Packets, n \in BufferLengths : Rtp_Serialize(p, NewBuffer(n))
        BY <1>1 DEF Serialize
    <2>2. n \in Nat
        BY BytesAssumption
    <2> QED BY <2>1, <2>2, SerializeSends DEF IInv
<1>2. CASE QueryLength
    BY <1>2 DEF QueryLength, Rtp_SerializeLength, SentBytes
<1>3. CASE SerializeQueried
    <2>1. packet \in Packets /\ pLength \in Nat
        BY DEF IInv, Typed
    <2> QED BY <1>3, <2>1, SerializeSends DEF SerializeQueried, IInv
<1>4. CASE UNCHANGED sender
    BY <1>4 DEF sender, SentBytes, ByteOf
<1>5. Deliver \/ StrayArrives \/ DeSerialize \/ UNCHANGED vars => UNCHANGED sender
    BY DEF Deliver, StrayArrives, DeSerialize, Arrives, vars
<1> QED BY <1>1, <1>2, <1>3, <1>4, <1>5 DEF Next

(* The bytes of a word are those the packet has there.                     *)
WordIn(b, at) ==
    [i \in 1..4 |-> IF at + i \in DOMAIN b THEN b[at + i] ELSE Fill]

(* They make up the packet's word.                                         *)
LEMMA WordFromBytes ==
    ASSUME NEW b \in Bytes, NEW p \in Packets, Len(b) >= 4 * Len(Words(p)),
           \A i \in 1..(4 * Len(Words(p))) : b[i] = ByteOf(p, i),
           NEW j \in 1..Len(Words(p))
    PROVE  WordIn(b, 4 * (j - 1)) = Words(p)[j]
<1> DEFINE n == Len(Words(p))
           word == Words(p)[j]
           at == 4 * (j - 1)
<1>1. n \in Nat /\ word \in Word
    BY WordsOfPacket, LenProperties, ElementOfSeq
<1>2. DOMAIN b = 1..Len(b) /\ Len(b) \in Nat
    BY LenBytes
<1>3. \A k \in 1..4 : /\ at + k \in 1..(4 * n) /\ at + k \in DOMAIN b
                      /\ 1 + (at + k - 1) \div 4 = j /\ 1 + ((at + k - 1) % 4) = k
    <2> HIDE DEF word
    <2>1. j \in Nat /\ j >= 1 /\ j <= n
        BY <1>1 DEF n
    <2>2. 4 * n <= Len(b)
        BY <1>1 DEF n
    <2> HIDE DEF n
    <2> QED BY <1>1, <1>2, <2>1, <2>2
<1>4. \A k \in 1..4 : ByteOf(p, at + k) = word[k]
    <2> TAKE k \in 1..4
    <2> DEFINE i == at + k
    <2>1. 1 + (i - 1) \div 4 = j /\ 1 + ((i - 1) % 4) = k
        <3>1. j \in Nat
            BY <1>1
        <3> QED BY <3>1
    <2> HIDE DEF i
    <2>2. ByteOf(p, i) = word[k]
        BY <2>1 DEF ByteOf
    <2> QED BY <2>2 DEF i
<1>5. \A k \in 1..4 : b[at + k] = word[k]
    <2> TAKE k \in 1..4
    <2>1. b[at + k] = ByteOf(p, at + k)
        BY <1>3
    <2> QED BY <1>4, <2>1
<1> HIDE DEF word, at, n
<1>6. WordIn(b, at) = [k \in 1..4 |-> word[k]]
    BY <1>3, <1>5 DEF WordIn
<1>7. word = [k \in 1..4 |-> word[k]]
    BY <1>1 DEF Word
<1> QED BY <1>6, <1>7 DEF word, at

(* The first bytes of a sequence.                                          *)
LEMMA FirstBytes ==
    ASSUME NEW s \in Bytes, NEW m \in Nat, m <= Len(s)
    PROVE  /\ SubSeq(s, 1, m) \in Bytes /\ Len(SubSeq(s, 1, m)) = m
           /\ \A i \in 1..m : SubSeq(s, 1, m)[i] = s[i]
BY DEF Bytes

(* Four bytes of a sequence, read as a word.                               *)
LEMMA WordOfSubSeq ==
    ASSUME NEW b \in Bytes, NEW at \in Nat, at + 4 <= Len(b)
    PROVE  SubSeq(b, at + 1, at + 4) = WordIn(b, at)
<1> DEFINE part == SubSeq(b, at + 1, at + 4)
<1>1. DOMAIN b = 1..Len(b) /\ Len(b) \in Nat
    BY LenBytes
<1>2. part = [i \in 1..4 |-> b[at + i]]
    <2>1. /\ part \in Seq(Byte) /\ Len(part) = 4
          /\ \A i \in 1..4 : part[i] = b[at + i]
        BY <1>1 DEF Bytes
    <2> HIDE DEF part
    <2> QED BY <2>1
<1>3. \A i \in 1..4 : at + i \in DOMAIN b
    BY <1>1
<1> QED BY <1>2, <1>3 DEF WordIn

(* The words of the header end with the last of what there is.             *)
LEMMA LastWord ==
    ASSUME NEW p \in Packets
    PROVE  /\ Len(Words(p)) \in Nat /\ Len(Words(p)) >= 3
           /\ Words(p)[Len(Words(p))] = LastHeaderWord(p)
           /\ Words(p)[3] = p.ssrc
<1> DEFINE c == Len(p.csrc)
           x == Len(p.extension)
           n == Len(Words(p))
<1>1. /\ c \in Nat /\ x \in Nat
      /\ n = 3 + c + (IF EXTENSION \in p.flags THEN 1 + x ELSE 0)
      /\ Words(p)[3] = p.ssrc
      /\ \A k \in 1..c : Words(p)[3 + k] = p.csrc[k]
      /\ EXTENSION \in p.flags =>
            /\ Words(p)[4 + c] = ExtensionHeader(p)
            /\ \A k \in 1..x : Words(p)[4 + c + k] = p.extension[k]
    BY WordsOfPacket
<1>2. /\ p.csrc = << >> <=> c = 0
      /\ p.extension = << >> <=> x = 0
    BY PacketFacts, EmptySeq
<1>3. Last(p.csrc) = p.csrc[c] /\ Last(p.extension) = p.extension[x]
    BY DEF Last
<1> HIDE DEF c, x, n
<1>4. n \in Nat /\ n >= 3
    BY <1>1
<1>5. Words(p)[n] = LastHeaderWord(p)
    <2>1. CASE EXTENSION \in p.flags /\ x = 0
        <3>1. n = 4 + c
            BY <1>1, <2>1
        <3>2. LastHeaderWord(p) = ExtensionHeader(p)
            BY <1>2, <2>1 DEF LastHeaderWord
        <3> QED BY <1>1, <2>1, <3>1, <3>2
    <2>2. CASE EXTENSION \in p.flags /\ x # 0
        <3>1. x \in 1..x /\ n = 4 + c + x
            BY <1>1, <2>2
        <3>2. LastHeaderWord(p) = p.extension[x]
            BY <1>2, <1>3, <2>2 DEF LastHeaderWord
        <3> QED BY <1>1, <2>2, <3>1, <3>2
    <2>3. CASE EXTENSION \notin p.flags /\ c = 0
        <3>1. n = 3
            BY <1>1, <2>3
        <3>2. LastHeaderWord(p) = p.ssrc
            BY <1>2, <2>3 DEF LastHeaderWord
        <3> QED BY <1>1, <3>1, <3>2
    <2>4. CASE EXTENSION \notin p.flags /\ c # 0
        <3>1. c \in 1..c /\ n = 3 + c
            BY <1>1, <2>4
        <3>2. LastHeaderWord(p) = p.csrc[c]
            BY <1>2, <1>3, <2>4 DEF LastHeaderWord
        <3> QED BY <1>1, <3>1, <3>2
    <2> QED BY <2>1, <2>2, <2>3, <2>4
<1> QED BY <1>1, <1>4, <1>5 DEF n

(* The bytes of a sequence from m + 1 on that are those of another one.    *)
LEMMA PartOfBytes ==
    ASSUME NEW b \in Bytes, NEW s \in Bytes, NEW m \in Nat, m + Len(s) <= Len(b),
           \A i \in 1..Len(s) : b[m + i] = s[i]
    PROVE  SubSeq(b, m + 1, m + Len(s)) = s
<1> DEFINE part == SubSeq(b, m + 1, m + Len(s))
           k == Len(s)
<1>1. k \in Nat /\ Len(b) \in Nat
    BY LenBytes
<1>2. part \in Bytes /\ Len(part) = k /\ \A i \in 1..k : part[i] = b[m + i]
    <2> HIDE DEF k
    <2>1. /\ SubSeq(b, m + 1, m + k) \in Bytes
          /\ Len(SubSeq(b, m + 1, m + k)) = k
          /\ \A i \in 1..k : SubSeq(b, m + 1, m + k)[i] = b[m + i]
        BY <1>1 DEF Bytes, k
    <2> QED BY <2>1 DEF k
<1> HIDE DEF part
<1>3. \A i \in 1..k : part[i] = s[i]
    BY <1>2
<1>4. part = s
    BY <1>1, <1>2, <1>3, SeqEqual DEF Bytes
<1> QED BY <1>4 DEF part

(* What is in the buffer after an OK is a packet of the length reported.   *)
LEMMA SentIsWireFormat ==
    ASSUME IInv, SentBytes
    PROVE  WireFormat
<1> SUFFICES ASSUME sResult = "OK", buffer # << >>
             PROVE  WireFormat
    BY DEF WireFormat
<1> DEFINE n == Len(Words(packet))
           m == 4 * n
<1>1. packet \in Packets /\ buffer \in Bytes /\ pLength \in Nat
    BY DEF IInv, Typed
<1>2. /\ packet.payload \in Bytes /\ packet.payloadLength \in Nat
      /\ Len(packet.payload) \in Nat /\ Len(packet.payload) <= packet.payloadLength
    BY <1>1, PacketFacts, LenBytes
<1>3. /\ n \in Nat /\ n >= 3
      /\ Words(packet)[n] = LastHeaderWord(packet)
      /\ Words(packet)[3] = packet.ssrc
    BY <1>1, LastWord
<1>4. /\ pLength = m + packet.payloadLength /\ pLength <= Len(buffer)
      /\ \A i \in 1..m : buffer[i] = ByteOf(packet, i)
      /\ \A i \in 1..Len(packet.payload) : buffer[m + i] = packet.payload[i]
    BY DEF SentBytes
<1>5. Len(buffer) \in Nat /\ m <= Len(buffer) /\ m \in Nat
    <2>1. Len(buffer) \in Nat
        BY <1>1, LenBytes
    <2> HIDE DEF n
    <2> QED BY <1>2, <1>3, <1>4, <2>1
<1>6. \A j \in 1..n : WordIn(buffer, 4 * (j - 1)) = Words(packet)[j]
    BY <1>1, <1>4, <1>5, WordFromBytes
<1> HIDE DEF n
<1>7. SubSeq(buffer, 9, 12) = packet.ssrc
    <2>1. SubSeq(buffer, 8 + 1, 8 + 4) = WordIn(buffer, 8)
        BY <1>1, <1>3, <1>5, WordOfSubSeq
    <2>2. 3 \in 1..n /\ 4 * (3 - 1) = 8 /\ 8 + 1 = 9 /\ 8 + 4 = 12
        BY <1>3
    <2>3. WordIn(buffer, 8) = packet.ssrc
        BY <1>3, <1>6, <2>2
    <2> QED BY <2>1, <2>2, <2>3
<1>8. SubSeq(buffer, m - 3, m) = LastHeaderWord(packet)
    <2>1. PICK at \in Nat : at = 4 * (n - 1)
        BY <1>3
    <2>2. at + 4 = m /\ at + 1 = m - 3 /\ at + 4 <= Len(buffer) /\ n \in 1..n
        BY <1>3, <1>5, <2>1
    <2>3. SubSeq(buffer, at + 1, at + 4) = WordIn(buffer, at)
        BY <1>1, <2>2, WordOfSubSeq
    <2>4. WordIn(buffer, at) = LastHeaderWord(packet)
        BY <1>3, <1>6, <2>1, <2>2
    <2> HIDE DEF m
    <2> QED BY <2>2, <2>3, <2>4
<1> HIDE DEF m
<1>9. SubSeq(buffer, m + 1, m + Len(packet.payload)) = packet.payload
    <2>1. m + Len(packet.payload) <= Len(buffer)
        BY <1>2, <1>4, <1>5
    <2> QED BY <1>1, <1>2, <1>4, <1>5, <2>1, PartOfBytes
<1>10. \A i \in (m + Len(packet.payload) + 1)..Len(buffer) : buffer[i] = Fill
    <2>1. pLength - packet.payloadLength = m
        BY <1>2, <1>4, <1>5
    <2> QED BY <2>1 DEF IInv, LeavesRest
<1>11. pLength - packet.payloadLength = m
    BY <1>2, <1>4, <1>5
<1> QED BY <1>4, <1>7, <1>8, <1>9, <1>10, <1>11 DEF WireFormat

BufferIsSent == sResult = "OK" /\ buffer # << >>

PacketArrives == Arrives(SubSeq(buffer, 1, pLength), <<packet>>)

(* It arrives as it was written.                                           *)
LEMMA ArrivesWhole ==
    ASSUME IInv, SentBytes, BufferIsSent, PacketArrives
    PROVE  WholePackets'
<1> DEFINE p == packet
           n == Len(Words(p))
           b == SubSeq(buffer, 1, pLength)
<1>1. p \in Packets /\ buffer \in Bytes /\ pLength \in Nat
    BY DEF IInv, Typed
<1>2. SUFFICES ASSUME Representable(p)
               PROVE  Carries(p)'
    <2>1. origin' = <<p>> /\ p' = p /\ origin'[1] = p
        BY DEF PacketArrives, Arrives, sender
    <2>2. Representable(p)' = Representable(p)
        BY <2>1 DEF Representable
    <2>3. Representable(origin[1])' => Representable(p)
        BY <2>1 DEF Representable
    <2>4. Carries(p)' => Carries(origin[1])'
        BY <2>1 DEF Carries, InMemory, Converted
    <2> QED BY <1>1, <2>1, <2>3, <2>4 DEF WholePackets
<1>3. /\ ~PaddingTooLong(p.flags, p.payload) /\ pLength = 4 * n + Len(p.payload)
      /\ pLength <= Len(buffer)
      /\ \A i \in 1..(4 * n) : buffer[i] = ByteOf(p, i)
      /\ \A i \in 1..Len(p.payload) : buffer[4 * n + i] = p.payload[i]
    BY <1>2 DEF SentBytes, Representable, BufferIsSent
<1>4. n \in Nat /\ Len(p.payload) \in Nat /\ Len(buffer) \in Nat
    <2>1. p.payload \in Bytes /\ Words(p) \in Seq(Word)
        BY <1>1, PacketFacts, WordsOfPacket
    <2> QED BY <1>1, <2>1, LenBytes, LenProperties
<1>5. /\ b \in Bytes /\ Len(b) = pLength
      /\ \A i \in 1..pLength : b[i] = buffer[i]
    BY <1>1, <1>3, FirstBytes
<1>6. bytes' = b /\ calls' = 0 /\ p' = p
    BY DEF PacketArrives, Arrives, sender
<1> DEFINE k == Len(p.payload)
<1> HIDE DEF b, n, k
<1>20. /\ n \in Nat /\ k \in Nat /\ Len(b) = 4 * n + k /\ pLength = 4 * n + k
       /\ \A i \in 1..(4 * n) : buffer[i] = ByteOf(p, i)
       /\ \A i \in 1..k : buffer[4 * n + i] = p.payload[i]
    BY <1>3, <1>4, <1>5, Zenon DEF k
<1>21. \A i \in 1..pLength : b[i] = buffer[i]
    BY <1>5
<1>7. \A i \in 1..(4 * n) : b[i] = ByteOf(p, i)
    BY <1>20, <1>21
<1>8. \A i \in 1..k : b[4 * n + i] = p.payload[i]
    BY <1>20, <1>21
<1>9. \A j \in 1..n : WordIn(b, 4 * (j - 1)) = Words(p)[j]
    <2>1. Len(b) >= 4 * n
        BY <1>20
    <2> QED BY <1>1, <1>5, <1>7, <2>1, WordFromBytes DEF n
<1>10. \A j \in 1..n : Word4(4 * (j - 1))' = InMemory(p, j)'
    <2>1. ~(calls' % 2 = 1)
        BY <1>6
    <2> TAKE j \in 1..n
    <2>2. InMemory(p, j)' = Words(p)[j]
        BY <1>6, <2>1 DEF InMemory, Words, ExtensionWords, FirstWord, ExtensionHeader
    <2>3. Word4(4 * (j - 1))' = WordIn(b, 4 * (j - 1))
        BY <1>6 DEF Word4, WordIn
    <2> QED BY <1>9, <2>2, <2>3
<1>11. Len(bytes)' = 4 * n + Len(p.payload)
    BY <1>3, <1>5, <1>6
<1>12. \A i \in 1..Len(p.payload) : bytes'[4 * n + i] = p.payload[i]
    BY <1>6, <1>8 DEF k
<1>13. n = Len(Words(p')) /\ p' = p
    BY <1>6 DEF n
<1> QED BY <1>1, <1>3, <1>6, <1>10, <1>11, <1>12, <1>13 DEF Carries

(* What the fields of the first word and of the extension's word give back.*)
LEMMA FirstWordRead ==
    ASSUME NEW p \in Packets, Len(p.csrc) <= 15
    PROVE  /\ FirstWord(p)[1] \div 64 = VERSION
           /\ (FirstWord(p)[1] \div 32) % 2 = 1 <=> PADDING \in p.flags
           /\ (FirstWord(p)[1] \div 16) % 2 = 1 <=> EXTENSION \in p.flags
           /\ FirstWord(p)[1] % 16 = Len(p.csrc)
           /\ FirstWord(p)[2] >= 128 <=> MARKER \in p.flags
           /\ FirstWord(p)[2] % 128 = p.payloadType % 128
           /\ FirstWord(p)[3] * 256 + FirstWord(p)[4] = p.sequenceNumber
<1> DEFINE c == Len(p.csrc)
           t == p.payloadType
           n == p.sequenceNumber
           a == Bit(PADDING \in p.flags, 32)
           b == Bit(EXTENSION \in p.flags, 16)
           m == Bit(MARKER \in p.flags, 128)
           first == 128 + a + b + c
           second == m + (t % 128)
<1>1. c \in Nat /\ c <= 15 /\ t \in Nat /\ n \in Nat
    <2>1. Len(p.csrc) \in Nat /\ p.payloadType \in Byte /\ p.sequenceNumber \in UInt16
        BY PacketFacts
    <2> QED BY <2>1 DEF Byte, UInt16
<1>2. /\ a = IF PADDING \in p.flags THEN 32 ELSE 0
      /\ b = IF EXTENSION \in p.flags THEN 16 ELSE 0
      /\ m = IF MARKER \in p.flags THEN 128 ELSE 0
    BY DEF Bit
<1> HIDE DEF c, t, n, a, b, m
<1>3. FirstWord(p) = <<first, second, n \div 256, n % 256>>
    <2>1. c % 16 = c /\ VERSION * 64 = 128
        BY <1>1 DEF VERSION
    <2>2. FirstWord(p) = <<VERSION * 64 + a + b + (c % 16), second,
                           n \div 256, n % 256>>
        BY DEF FirstWord, a, b, c, m, t, n
    <2> QED BY <2>1, <2>2
<1>4. /\ first \div 64 = 2 /\ first % 16 = c
      /\ (first \div 32) % 2 = 1 <=> a = 32
      /\ (first \div 16) % 2 = 1 <=> b = 16
    <2>1. a \in {0, 32} /\ b \in {0, 16}
        BY <1>2
    <2> QED BY <1>1, <2>1
<1>5. (second >= 128 <=> m = 128) /\ second % 128 = t % 128
    <2>1. m \in {0, 128}
        BY <1>2
    <2> QED BY <1>1, <2>1
<1>6. (n \div 256) * 256 + (n % 256) = n
    BY <1>1
<1> HIDE DEF first, second
<1>7. /\ FirstWord(p)[1] = first /\ FirstWord(p)[2] = second
      /\ FirstWord(p)[3] = n \div 256 /\ FirstWord(p)[4] = n % 256
    BY <1>3
<1>8. /\ a = 32 <=> PADDING \in p.flags
      /\ b = 16 <=> EXTENSION \in p.flags
      /\ m = 128 <=> MARKER \in p.flags
    BY <1>2
<1> QED BY <1>4, <1>5, <1>6, <1>7, <1>8 DEF VERSION, c, t, n

(* Profile and length come back.                                           *)
LEMMA ExtensionHeaderReadBack ==
    ASSUME NEW p \in Packets
    PROVE  /\ ExtensionHeader(p)[1] * 256 + ExtensionHeader(p)[2] = p.profile
           /\ ExtensionHeader(p)[3] * 256 + ExtensionHeader(p)[4] = Len(p.extension)
<1> DEFINE n == p.profile
           x == Len(p.extension)
<1>1. n \in Nat /\ x \in Nat
    BY PacketFacts DEF UInt16
<1> HIDE DEF n, x
<1>2. (n \div 256) * 256 + (n % 256) = n /\ (x \div 256) * 256 + (x % 256) = x
    BY <1>1
<1>3. ExtensionHeader(p) = <<n \div 256, n % 256, x \div 256, x % 256>>
    BY DEF ExtensionHeader, n, x
<1>4. /\ ExtensionHeader(p)[1] = n \div 256 /\ ExtensionHeader(p)[2] = n % 256
      /\ ExtensionHeader(p)[3] = x \div 256 /\ ExtensionHeader(p)[4] = x % 256
    BY <1>3
<1>5. /\ ExtensionHeader(p)[1] * 256 + ExtensionHeader(p)[2] = n
      /\ ExtensionHeader(p)[3] * 256 + ExtensionHeader(p)[4] = x
    BY <1>2, <1>4
<1> QED BY <1>5 DEF n, x

(* The call reads of such a packet what it was made of.                    *)
LEMMA ReadsCarried ==
    ASSUME Typed, NEW p, Carries(p), Representable(p)
    PROVE  /\ Len(bytes) >= MIN_LENGTH /\ Version = VERSION
           /\ HasPadding <=> PADDING \in p.flags
           /\ HasExtension <=> EXTENSION \in p.flags
           /\ CsrcCount = Len(p.csrc)
           /\ ExtensionAt = MIN_LENGTH + 4 * Len(p.csrc)
           /\ HasExtension => ExtensionLength = Len(p.extension)
           /\ HasExtension =>
                ExtensionHeaderWord[1] * 256 + ExtensionHeaderWord[2] = p.profile
           /\ PayloadAt = 4 * Len(Words(p))
           /\ CsrcsFit /\ ExtensionHeaderFits /\ ExtensionFits
           /\ Payload = p.payload
           /\ PaddingLength = (IF PADDING \in p.flags /\ p.payload # << >>
                                   THEN Last(p.payload) ELSE 0)
           /\ ~(PaddingLength > Len(Payload))
           /\ HeaderWord[2] >= 128 <=> MARKER \in p.flags
           /\ HeaderWord[2] % 128 = p.payloadType % 128
           /\ HeaderWord[3] * 256 + HeaderWord[4] = p.sequenceNumber
           /\ RtpReadUint32(Word4(4)) = p.timestamp
           /\ RtpReadUint32(Word4(8)) = p.ssrc
<1> DEFINE c == Len(p.csrc)
           x == Len(p.extension)
           n == Len(Words(p))
           l == Len(p.payload)
<1>1. p \in Packets /\ ~PaddingTooLong(p.flags, p.payload)
    BY DEF Carries
<1>2. /\ c \in Nat /\ x \in Nat
      /\ n = 3 + c + (IF EXTENSION \in p.flags THEN 1 + x ELSE 0)
      /\ Words(p)[1] = FirstWord(p) /\ Words(p)[2] = p.timestamp
      /\ Words(p)[3] = p.ssrc
      /\ EXTENSION \in p.flags => Words(p)[4 + c] = ExtensionHeader(p)
    BY <1>1, WordsOfPacket
<1>3. /\ Len(bytes) = 4 * n + l
      /\ \A i \in 1..l : bytes[4 * n + i] = p.payload[i]
      /\ \A j \in 1..n : Word4(4 * (j - 1)) = InMemory(p, j)
    BY DEF Carries
<1>4. c <= 15
    BY DEF Representable
<1>5. l \in Nat /\ p.payload \in Bytes /\ Len(bytes) \in Nat /\ bytes \in Bytes
    BY <1>1, PacketFacts, LenBytes DEF Typed
<1> HIDE DEF c, x, n, l
<1>6. \A j \in 1..n : j \in 1..3 \/ j = 4 + c => Word4(4 * (j - 1)) = Words(p)[j]
    <2> TAKE j \in 1..n
    <2>1. j \in 1..3 \/ j = 4 + c => ~Converted(p, j)
        BY <1>2 DEF Converted, c
    <2> QED BY <1>3, <2>1, Zenon DEF InMemory
<1>7. /\ Word4(0) = FirstWord(p) /\ Word4(4) = p.timestamp /\ Word4(8) = p.ssrc
    <2>1. 1 \in 1..n /\ 2 \in 1..n /\ 3 \in 1..n
        BY <1>2
    <2>2. /\ Word4(4 * (1 - 1)) = Words(p)[1] /\ Word4(4 * (2 - 1)) = Words(p)[2]
          /\ Word4(4 * (3 - 1)) = Words(p)[3]
        BY <1>6, <2>1
    <2> QED BY <1>2, <2>2
<1>8. HeaderWord = FirstWord(p)
    BY <1>7, Positions
<1>9. /\ Version = VERSION /\ CsrcCount = c
      /\ HasPadding <=> PADDING \in p.flags
      /\ HasExtension <=> EXTENSION \in p.flags
      /\ HeaderWord[2] >= 128 <=> MARKER \in p.flags
      /\ HeaderWord[2] % 128 = p.payloadType % 128
      /\ HeaderWord[3] * 256 + HeaderWord[4] = p.sequenceNumber
    BY <1>1, <1>4, <1>8, FirstWordRead
       DEF Version, CsrcCount, HasPadding, HasExtension, c
<1>10. ExtensionAt = MIN_LENGTH + 4 * c /\ ExtensionAt = 12 + 4 * c
    BY <1>9, Positions DEF MIN_LENGTH
<1>11. ASSUME HasExtension
       PROVE  ExtensionHeaderWord = ExtensionHeader(p)
    <2>1. 4 + c \in 1..n /\ 4 * ((4 + c) - 1) = ExtensionAt
        BY <1>2, <1>9, <1>10, <1>11
    <2>2. Word4(4 * ((4 + c) - 1)) = Words(p)[4 + c]
        BY <1>6, <2>1
    <2> QED BY <1>2, <1>9, <1>11, <2>1, <2>2, Positions
<1>12. HasExtension =>
        /\ ExtensionLength = x
        /\ ExtensionHeaderWord[1] * 256 + ExtensionHeaderWord[2] = p.profile
    BY <1>1, <1>11, ExtensionHeaderReadBack DEF ExtensionLength, x
<1>13. PayloadAt = 4 * n
    BY <1>2, <1>9, <1>10, <1>12 DEF PayloadAt
<1>14. /\ Len(bytes) >= MIN_LENGTH /\ CsrcsFit /\ ExtensionHeaderFits /\ ExtensionFits
    BY <1>2, <1>3, <1>5, <1>9, <1>10, <1>13
       DEF MIN_LENGTH, CsrcsFit, ExtensionHeaderFits, ExtensionFits
<1>15. Payload = p.payload
    <2>1. /\ Payload \in Bytes /\ Len(Payload) = l
          /\ \A i \in 1..l : Payload[i] = bytes[4 * n + i]
        <3>1. 4 * n \in Nat /\ 4 * n <= Len(bytes) /\ Len(bytes) - 4 * n = l
            BY <1>2, <1>3, <1>5
        <3>2. Payload = SubSeq(bytes, 4 * n + 1, Len(bytes))
            BY <1>13 DEF Payload
        <3> DEFINE from == 4 * n + 1
                   to == Len(bytes)
        <3>3. /\ from \in Nat /\ from >= 1 /\ to \in Nat /\ from - 1 = 4 * n
              /\ to - from + 1 = l /\ from <= to + 1
            BY <1>2, <1>5, <3>1
        <3> HIDE DEF from, to
        <3>4. /\ SubSeq(bytes, from, to) \in Seq(Byte)
              /\ Len(SubSeq(bytes, from, to)) = l
              /\ \A i \in 1..l : SubSeq(bytes, from, to)[i] = bytes[from + i - 1]
            BY <1>5, <3>3 DEF Bytes, to
        <3>5. \A i \in 1..l : from + i - 1 = 4 * n + i
            BY <1>5, <3>3
        <3> QED BY <3>2, <3>4, <3>5 DEF from, to, Bytes
    <2>2. \A i \in 1..Len(Payload) : Payload[i] = p.payload[i]
        BY <1>3, <2>1
    <2> QED BY <1>5, <2>1, <2>2, SeqEqual DEF Bytes, l
<1>16. PaddingLength = IF PADDING \in p.flags /\ p.payload # << >>
                           THEN Last(p.payload) ELSE 0
    BY <1>9, <1>15, Zenon DEF PaddingLength
<1>17. ~(PaddingLength > Len(Payload))
    <2>1. CASE PADDING \in p.flags /\ p.payload # << >>
        BY <1>1, <1>15, <1>16, <2>1, Zenon DEF PaddingTooLong
    <2>2. CASE ~(PADDING \in p.flags /\ p.payload # << >>)
        BY <1>5, <1>15, <1>16, <2>2 DEF l
    <2> QED BY <2>1, <2>2
<1>18. RtpReadUint32(Word4(4)) = p.timestamp /\ RtpReadUint32(Word4(8)) = p.ssrc
    BY <1>7, WordRead
<1> QED BY <1>9, <1>10, <1>12, <1>13, <1>14, <1>15, <1>16, <1>17, <1>18, Zenon
        DEF c, x, n, l

(* Conversion turns its words over, on a little-endian machine, and leaves *)
(* every word that lies outside.                                           *)
LEMMA WordsTurned ==
    ASSUME Typed, NEW memory \in Bytes, Len(memory) = Len(bytes),
           NEW n \in Nat, NEW at \in Nat, at + 4 * n <= Len(bytes)
    PROVE  /\ \A k \in 0..(n - 1) :
                WordIn(WordsConverted(memory, n, at), at + 4 * k)
                    = Native(Word4(at + 4 * k))
           /\ \A w \in Nat : w + 4 <= at \/ w >= at + 4 * n =>
                WordIn(WordsConverted(memory, n, at), w) = WordIn(memory, w)
<1> DEFINE new == WordsConverted(memory, n, at)
           from(i) == at + 4 * ((i - at - 1) \div 4)
           byte(i) == Native(RtpReadUint32(Word4(from(i))))[i - from(i)]
<1>1. Len(memory) \in Nat /\ DOMAIN memory = 1..Len(memory)
    BY LenBytes
<1>2. new = [i \in 1..Len(memory) |->
                IF i \in (at + 1)..(at + 4 * n) THEN byte(i) ELSE memory[i]]
    BY <1>1 DEF WordsConverted
<1>3. ASSUME NEW k \in 0..(n - 1)
      PROVE  WordIn(new, at + 4 * k) = Native(Word4(at + 4 * k))
    <2> DEFINE w == at + 4 * k
    <2>1. w \in Nat
        OBVIOUS
    <2>2. Word4(w) \in Word /\ RtpReadUint32(Word4(w)) = Word4(w)
        BY <2>1, WordRead
    <2>3. Native(Word4(w)) \in Word
        BY <2>2, ReverseWord DEF Native
    <2>4. \A i \in 1..4 :
            /\ w + i \in (at + 1)..(at + 4 * n) /\ w + i \in 1..Len(memory)
            /\ from(w + i) = w /\ (w + i) - from(w + i) = i
        BY <1>1
    <2> HIDE DEF w, from, new
    <2>5. DOMAIN new = 1..Len(memory)
        BY <1>2
    <2>6. \A i \in 1..4 : new[w + i] = Native(Word4(w))[i]
        <3> TAKE i \in 1..4
        <3>1. new[w + i] = byte(w + i)
            <4> HIDE DEF byte
            <4> QED BY <1>2, <2>4
        <3>2. byte(w + i) = Native(RtpReadUint32(Word4(w)))[i]
            BY <2>4
        <3> QED BY <2>2, <3>1, <3>2
    <2>7. WordIn(new, w) = [i \in 1..4 |-> Native(Word4(w))[i]]
        BY <2>4, <2>5, <2>6 DEF WordIn
    <2>8. Native(Word4(w)) = [i \in 1..4 |-> Native(Word4(w))[i]]
        BY <2>3 DEF Word
    <2> QED BY <2>7, <2>8 DEF w
<1>4. ASSUME NEW w \in Nat, w + 4 <= at \/ w >= at + 4 * n
      PROVE  WordIn(new, w) = WordIn(memory, w)
    <2>1. \A i \in 1..4 : w + i \notin (at + 1)..(at + 4 * n)
        BY <1>4
    <2> HIDE DEF new, byte
    <2>2. DOMAIN new = DOMAIN memory
        BY <1>1, <1>2
    <2>3. \A i \in 1..4 : w + i \in DOMAIN memory => new[w + i] = memory[w + i]
        BY <1>1, <1>2, <2>1
    <2>4. \A i \in 1..4 : (IF w + i \in DOMAIN new THEN new[w + i] ELSE Fill)
                        = (IF w + i \in DOMAIN memory THEN memory[w + i] ELSE Fill)
        BY <2>2, <2>3
    <2> QED BY <2>4 DEF WordIn
<1> HIDE DEF new
<1> QED BY <1>3, <1>4 DEF new

(* What a call on a packet that arrived whole does to its words.           *)
LEMMA AllWords ==
    ASSUME Typed, NEW p, Carries(p), Representable(p), NEW j \in 1..Len(Words(p))
    PROVE  WordIn(AllConverted, 4 * (j - 1))
         = IF Converted(p, j) THEN Native(Word4(4 * (j - 1))) ELSE Word4(4 * (j - 1))
<1> DEFINE c == Len(p.csrc)
           x == Len(p.extension)
           n == Len(Words(p))
           w == 4 * (j - 1)
<1>1. /\ c \in Nat /\ x \in Nat
      /\ n = 3 + c + (IF EXTENSION \in p.flags THEN 1 + x ELSE 0)
    BY WordsOfPacket DEF Carries
<1>2. /\ CsrcCount = c /\ ExtensionAt = 12 + 4 * c
      /\ HasExtension <=> EXTENSION \in p.flags
      /\ HasExtension => ExtensionLength = x
      /\ PayloadAt = 4 * n
    BY ReadsCarried DEF MIN_LENGTH
<1>3. 4 * n <= Len(bytes) /\ Len(bytes) \in Nat /\ bytes \in Bytes
    <2>1. PayloadAt <= Len(bytes)
        BY ReadsCarried DEF ExtensionFits
    <2> QED BY <1>2, <2>1, LenBytes DEF Typed
<1>4. CsrcsConverted = WordsConverted(bytes, c, 12)
    BY <1>2 DEF CsrcsConverted, MIN_LENGTH
<1>5. CsrcsConverted \in Bytes /\ Len(CsrcsConverted) = Len(bytes)
    BY <1>1, <1>3, <1>4, Conversion
<1> HIDE DEF c, x, n
<1>6. w \in Nat /\ j \in Nat /\ j >= 1 /\ j <= n
    BY <1>1 DEF n
<1>7. WordIn(bytes, w) = Word4(w)
    BY DEF WordIn, Word4
<1>8. 12 + 4 * c <= Len(bytes)
    BY <1>1, <1>3
<1>9. /\ \A k \in 0..(c - 1) :
            WordIn(CsrcsConverted, 12 + 4 * k) = Native(Word4(12 + 4 * k))
      /\ \A v \in Nat : v + 4 <= 12 \/ v >= 12 + 4 * c =>
            WordIn(CsrcsConverted, v) = WordIn(bytes, v)
    BY <1>1, <1>3, <1>4, <1>8, WordsTurned
<1>10. /\ j <= 3 \/ j >= 4 + c => WordIn(CsrcsConverted, w) = Word4(w)
       /\ j > 3 /\ j < 4 + c => WordIn(CsrcsConverted, w) = Native(Word4(w))
    <2>1. j <= 3 \/ j >= 4 + c => w + 4 <= 12 \/ w >= 12 + 4 * c
        BY <1>1, <1>6
    <2>2. j > 3 /\ j < 4 + c => j - 4 \in 0..(c - 1) /\ 12 + 4 * (j - 4) = w
        BY <1>1, <1>6
    <2> HIDE DEF w
    <2> QED BY <1>6, <1>7, <1>9, <2>1, <2>2
<1>11. Converted(p, j) <=> j > 3 /\ j # 4 + c
    BY DEF Converted, c
<1>12. CASE ~HasExtension
    <2>1. AllConverted = CsrcsConverted /\ j < 4 + c
        BY <1>1, <1>2, <1>6, <1>12 DEF AllConverted
    <2>2. CASE j <= 3
        <3>1. ~Converted(p, j)
            BY <1>6, <1>11, <2>2
        <3> QED BY <1>10, <2>1, <2>2, <3>1
    <2>3. CASE j > 3
        <3>1. Converted(p, j)
            BY <1>1, <1>6, <1>11, <2>1, <2>3
        <3> QED BY <1>10, <2>1, <2>3, <3>1
    <2> QED BY <1>6, <2>2, <2>3
<1>13. CASE HasExtension
    <2> DEFINE at == 16 + 4 * c
    <2>1. AllConverted = WordsConverted(CsrcsConverted, x, at)
        <3>1. ExtensionAt + 4 = at
            BY <1>1, <1>2
        <3> QED BY <1>2, <1>13, <3>1 DEF AllConverted
    <2>2. at \in Nat /\ at + 4 * x <= Len(bytes) /\ n = 4 + c + x
        BY <1>1, <1>2, <1>3, <1>13
    <2> HIDE DEF at
    <2>3. /\ \A k \in 0..(x - 1) :
                WordIn(AllConverted, at + 4 * k) = Native(Word4(at + 4 * k))
          /\ \A v \in Nat : v + 4 <= at \/ v >= at + 4 * x =>
                WordIn(AllConverted, v) = WordIn(CsrcsConverted, v)
        BY <1>1, <1>5, <2>1, <2>2, WordsTurned
    <2>4. CASE j <= 4 + c
        <3>1. w + 4 <= at
            BY <1>1, <1>6, <2>4 DEF at
        <3> HIDE DEF w
        <3>2. WordIn(AllConverted, w) = WordIn(CsrcsConverted, w)
            BY <1>6, <2>3, <3>1
        <3>3. CASE j <= 3 \/ j = 4 + c
            <4>1. ~Converted(p, j) /\ (j <= 3 \/ j >= 4 + c)
                BY <1>1, <1>6, <1>11, <3>3
            <4> QED BY <1>10, <3>2, <4>1 DEF w
        <3>4. CASE j > 3 /\ j < 4 + c
            <4>1. Converted(p, j)
                BY <1>1, <1>6, <1>11, <3>4
            <4> QED BY <1>10, <3>2, <3>4, <4>1 DEF w
        <3> QED BY <1>1, <1>6, <2>4, <3>3, <3>4
    <2>5. CASE j > 4 + c
        <3>1. j - 5 - c \in 0..(x - 1) /\ at + 4 * (j - 5 - c) = w
            BY <1>1, <1>6, <2>2, <2>5 DEF at
        <3> HIDE DEF w
        <3>2. WordIn(AllConverted, w) = Native(Word4(w))
            BY <2>3, <3>1
        <3>3. Converted(p, j)
            BY <1>1, <1>6, <1>11, <2>5
        <3> QED BY <3>2, <3>3 DEF w
    <2> QED BY <1>1, <1>6, <2>4, <2>5
<1> QED BY <1>12, <1>13

(* A call on a packet that arrived whole goes all the way.                 *)
LEMMA CallOnWhole ==
    ASSUME Typed, NEW p, Carries(p), Representable(p), DeSerialize
    PROVE  /\ bytes' = AllConverted /\ calls' = calls + 1
           /\ UNCHANGED <<origin, machine, sender>>
<1>1. /\ Len(bytes) >= MIN_LENGTH /\ Version = VERSION
      /\ CsrcsFit /\ ExtensionHeaderFits /\ ExtensionFits
      /\ ~(PaddingLength > Len(Payload))
    BY ReadsCarried
<1>2. ~(Len(bytes) < MIN_LENGTH)
    BY <1>1, LenBytes DEF Typed, MIN_LENGTH
<1> QED BY <1>1, <1>2, Zenon DEF DeSerialize, Rtp_DeSerialize, Returns

(* One more call.                                                          *)
LEMMA CallCarries ==
    ASSUME Typed, NEW p, Carries(p), Representable(p), DeSerialize
    PROVE  Carries(p)'
<1> DEFINE n == Len(Words(p))
           l == Len(p.payload)
<1>1. /\ bytes' = AllConverted /\ calls' = calls + 1 /\ littleEndian' = littleEndian
    BY CallOnWhole DEF machine
<1>2. /\ p \in Packets /\ ~PaddingTooLong(p.flags, p.payload)
      /\ Len(bytes) = 4 * n + l
      /\ \A j \in 1..n : Word4(4 * (j - 1)) = InMemory(p, j)
      /\ \A i \in 1..l : bytes[4 * n + i] = p.payload[i]
    BY DEF Carries
<1>3. n \in Nat /\ l \in Nat /\ calls \in Nat
    <2>1. Words(p) \in Seq(Word) /\ p.payload \in Bytes
        BY <1>2, WordsOfPacket, PacketFacts
    <2> QED BY <2>1, LenProperties, LenBytes DEF Typed
<1>4. /\ Len(bytes') = Len(bytes)
      /\ \A i \in 1..Len(bytes) : i > 4 * n => bytes'[i] = bytes[i]
    <2>1. Len(bytes) >= MIN_LENGTH /\ PayloadAt = 4 * n
        BY ReadsCarried
    <2>2. bytes' \in {bytes, CsrcsConverted, AllConverted} /\ UNCHANGED machine
        BY <1>1, CallOnWhole
    <2> QED BY <2>1, <2>2, SameReading
<1>5. \A j \in 1..n : Word4(4 * (j - 1))' = InMemory(p, j)'
    <2> TAKE j \in 1..n
    <2> DEFINE w == 4 * (j - 1)
               word == Words(p)[j]
    <2>1. Word4(w)' = WordIn(AllConverted, w)
        BY <1>1 DEF Word4, WordIn
    <2>2. /\ WordIn(AllConverted, w) = IF Converted(p, j) THEN Native(Word4(w)) ELSE Word4(w)
          /\ Word4(w) = InMemory(p, j)
        BY <1>2, AllWords
    <2>3. word \in Word
        BY <1>2, WordsOfPacket, ElementOfSeq
    <2>4. Reverse(Reverse(word)) = word
        BY <2>3, ReverseTwice
    <2>5. calls' % 2 = 1 <=> ~(calls % 2 = 1)
        BY <1>1, <1>3
    <2>6. InMemory(p, j) = IF littleEndian /\ calls % 2 = 1 /\ Converted(p, j)
                               THEN Reverse(word) ELSE word
        BY DEF InMemory
    <2>7. InMemory(p, j)' = IF littleEndian /\ calls' % 2 = 1 /\ Converted(p, j)
                                THEN Reverse(word) ELSE word
        BY <1>1 DEF InMemory, Converted, Words, ExtensionWords, FirstWord,
                    ExtensionHeader
    <2> HIDE DEF word, w
    <2>8. Native(InMemory(p, j)) = IF littleEndian THEN Reverse(InMemory(p, j))
                                                   ELSE InMemory(p, j)
        BY DEF Native
    <2>9. Word4(w)' = InMemory(p, j)'
        <3>1. CASE littleEndian /\ Converted(p, j)
            <4>1. WordIn(AllConverted, w) = Reverse(InMemory(p, j))
                BY <2>2, <2>8, <3>1
            <4>2. CASE calls % 2 = 1
                BY <2>1, <2>4, <2>5, <2>6, <2>7, <3>1, <4>1, <4>2, Zenon
            <4>3. CASE ~(calls % 2 = 1)
                BY <2>1, <2>4, <2>5, <2>6, <2>7, <3>1, <4>1, <4>3, Zenon
            <4> QED BY <4>2, <4>3
        <3>2. CASE ~(littleEndian /\ Converted(p, j))
            <4>1. InMemory(p, j) = word /\ InMemory(p, j)' = word
                BY <2>6, <2>7, <3>2, Zenon
            <4>2. WordIn(AllConverted, w) = InMemory(p, j)
                BY <2>2, <2>8, <3>2, Zenon
            <4> QED BY <2>1, <4>1, <4>2, Zenon
        <3> QED BY <3>1, <3>2
    <2> QED BY <2>9 DEF w
<1>6. \A i \in 1..l : bytes'[4 * n + i] = p.payload[i]
    <2> HIDE DEF n, l
    <2> TAKE i \in 1..l
    <2>1. 4 * n + i \in 1..Len(bytes) /\ 4 * n + i > 4 * n
        BY <1>2, <1>3
    <2>2. bytes'[4 * n + i] = bytes[4 * n + i]
        BY <1>4, <2>1
    <2> QED BY <1>2, <2>2
<1>7. Len(bytes)' = 4 * n + l
    BY <1>2, <1>4
<1>8. n = Len(Words(p)) /\ l = Len(p.payload)
    OBVIOUS
<1> HIDE DEF n, l
<1> QED BY <1>2, <1>5, <1>6, <1>7, <1>8, Zenon DEF Carries

(* Every step keeps a packet that arrived whole as it was sent.            *)
LEMMA WholeInv ==
    ASSUME IInv, IInv', SentBytes, WholePackets, [Next]_vars
    PROVE  WholePackets'
<1>1. CASE Serialize \/ QueryLength \/ SerializeQueried \/ StrayArrives
    BY <1>1 DEF Serialize, QueryLength, SerializeQueried, StrayArrives,
                Arrives, NothingArrived, WholePackets
<1>2. CASE Deliver
    <2>1. CASE Arrives(SubSeq(buffer, 1, pLength), <<packet>>)
        BY <1>2, <2>1, ArrivesWhole DEF Deliver, BufferIsSent, PacketArrives
    <2>2. CASE \E n \in 0..(pLength - 1) : Arrives(SubSeq(buffer, 1, n), << >>)
        BY <2>2 DEF Arrives, WholePackets
    <2> QED BY <1>2, <2>1, <2>2 DEF Deliver
<1>3. CASE DeSerialize
    <2>1. origin' = origin
        BY <1>3, Zenon DEF DeSerialize, Rtp_DeSerialize, Returns
    <2>2. ASSUME origin # << >>, Representable(origin[1])
          PROVE  Carries(origin[1])'
        <3>1. PICK p \in Packets : origin = <<p>>
            BY <2>2 DEF WholePackets
        <3>2. origin[1] = p /\ origin'[1] = p
            BY <2>1, <3>1
        <3>3. Carries(p) /\ Representable(p)
            BY <2>2, <3>2 DEF WholePackets
        <3>4. Carries(p)'
            BY <1>3, <3>3, CallCarries DEF IInv
        <3> QED BY <3>2, <3>4 DEF Carries, InMemory, Converted
    <2> QED BY <2>1, <2>2 DEF WholePackets, Representable
<1>4. CASE UNCHANGED vars
    BY <1>4 DEF vars, machine, sender, receiver, WholePackets, Carries, InMemory,
                Converted, Word4, Representable
<1> QED BY <1>1, <1>2, <1>3, <1>4 DEF Next

(* The words of the packet, as the application finds them in place.        *)
LEMMA WordsBack ==
    ASSUME Typed, NEW p, Carries(p), NEW s \in Seq(Word), NEW m \in Nat,
           \A k \in 1..Len(s) : /\ m + k \in 1..Len(Words(p)) /\ Converted(p, m + k)
                                /\ Words(p)[m + k] = s[k]
    PROVE  AsConverted(WordsAt(4 * m, Len(s))) = s
<1> DEFINE l == Len(s)
           words == WordsAt(4 * m, l)
<1>1. l \in Nat /\ DOMAIN s = 1..l /\ \A k \in 1..l : s[k] \in Word
    BY LenProperties, ElementOfSeq
<1>2. s = [k \in 1..l |-> s[k]]
    BY <1>1
<1>3. ASSUME NEW k \in 1..l
      PROVE  /\ Word4(4 * m + 4 * (k - 1)) = InMemory(p, m + k)
             /\ InMemory(p, m + k) = IF littleEndian /\ calls % 2 = 1
                                         THEN Reverse(s[k]) ELSE s[k]
             /\ Reverse(Reverse(s[k])) = s[k]
    <2>1. m + k \in 1..Len(Words(p)) /\ Converted(p, m + k) /\ Words(p)[m + k] = s[k]
        OBVIOUS
    <2>2. Word4(4 * ((m + k) - 1)) = InMemory(p, m + k)
        BY <2>1 DEF Carries
    <2>3. 4 * ((m + k) - 1) = 4 * m + 4 * (k - 1)
        BY <1>1
    <2>4. Reverse(Reverse(s[k])) = s[k]
        BY <1>1, ReverseTwice
    <2>5. InMemory(p, m + k) = IF littleEndian /\ calls % 2 = 1
                                   THEN Reverse(s[k]) ELSE s[k]
        BY <2>1, Zenon DEF InMemory
    <2> QED BY <2>2, <2>3, <2>4, <2>5
<1>4. words = [k \in 1..l |-> Native(Word4(4 * m + 4 * (k - 1)))]
    BY DEF WordsAt
<1>5. calls \in Nat
    BY DEF Typed
<1>6. CASE littleEndian /\ calls % 2 = 0
    <2>1. ~(calls % 2 = 1)
        BY <1>5, <1>6
    <2>2. \A k \in 1..l : Native(Word4(4 * m + 4 * (k - 1))) = Reverse(s[k])
        BY <1>3, <1>6, <2>1, Zenon DEF Native
    <2>3. words = [k \in 1..l |-> Reverse(s[k])]
        BY <1>4, <2>2, Zenon
    <2> HIDE DEF words, l
    <2>4. AsConverted(words) = [k \in DOMAIN words |-> Reverse(words[k])]
        BY <1>6 DEF AsConverted
    <2>5. DOMAIN words = 1..l /\ \A k \in 1..l : Reverse(words[k]) = s[k]
        BY <1>3, <2>3
    <2>6. AsConverted(words) = [k \in 1..l |-> s[k]]
        BY <2>4, <2>5
    <2> QED BY <1>2, <2>6 DEF words, l
<1>7. CASE ~(littleEndian /\ calls % 2 = 0)
    <2>1. littleEndian => calls % 2 = 1
        BY <1>5, <1>7
    <2>2. \A k \in 1..l : Native(Word4(4 * m + 4 * (k - 1))) = s[k]
        <3> TAKE k \in 1..l
        <3>1. CASE littleEndian
            BY <1>3, <2>1, <3>1, Zenon DEF Native
        <3>2. CASE ~littleEndian
            BY <1>3, <3>2, Zenon DEF Native
        <3> QED BY <3>1, <3>2
    <2>3. words = [k \in 1..l |-> s[k]]
        BY <1>4, <2>2, Zenon
    <2>4. AsConverted(words) = words
        BY <1>7, Zenon DEF AsConverted
    <2> QED BY <1>2, <2>3, <2>4, Zenon
<1> QED BY <1>6, <1>7

(* A TWCC extension gives back what it was created with.                   *)
LEMMA TwccRead ==
    ASSUME NEW t \in TwccFields
    PROVE  /\ TWCC_GET_ID(TWCC_CREATE_PAYLOAD(t[1], t[2])) = t[1]
           /\ TWCC_GET_SEQUENCE_NUMBER(TWCC_CREATE_PAYLOAD(t[1], t[2])) = t[2]
<1> DEFINE id == t[1]
           seq == t[2]
           word == TWCC_CREATE_PAYLOAD(id, seq)
<1>1. id \in Nat /\ id < 16 /\ seq \in Nat /\ seq < 65536
    BY TwccAssumption DEF UInt16
<1> HIDE DEF id, seq
<1>2. /\ word[1] = (id % 16) * 16 + 1 /\ word[2] = (seq \div 256) % 256
      /\ word[3] = seq % 256
    BY DEF TWCC_CREATE_PAYLOAD
<1>3. ((id % 16) * 16 + 1) \div 16 = id
    BY <1>1
<1>4. ((seq \div 256) % 256) * 256 + (seq % 256) = seq
    BY <1>1
<1> QED BY <1>2, <1>3, <1>4 DEF TWCC_GET_ID, TWCC_GET_SEQUENCE_NUMBER, id, seq

(* What a whole call leaves in the RtpPacket_t.                            *)
LEMMA ReadFields ==
    ASSUME Typed
    PROVE  /\ PayloadRead \in Fields
           /\ PayloadRead.flags = (Flag(HasPadding, PADDING)
                \cup Flag(HeaderWord[2] >= 128, MARKER)) \cup Flag(HasExtension, EXTENSION)
           /\ PayloadRead.payloadType = HeaderWord[2] % 128
           /\ PayloadRead.sequenceNumber = HeaderWord[3] * 256 + HeaderWord[4]
           /\ PayloadRead.timestamp = RtpReadUint32(Word4(4))
           /\ PayloadRead.ssrc = RtpReadUint32(Word4(8))
           /\ HasExtension => PayloadRead.profile
                = ExtensionHeaderWord[1] * 256 + ExtensionHeaderWord[2]
<1> DEFINE v == ReadValues
           h == WithHeader(received, v)
           c == WithCsrcs(h, v)
           x == WithExtensionHeader(c, v)
           p == WithPayload(x, v)
<1>1. received \in Fields /\ v \in Values
    BY ValuesTyped DEF Typed
<1>2. /\ v.flags = Flag(HasPadding, PADDING) \cup Flag(HeaderWord[2] >= 128, MARKER)
      /\ v.extension = Flag(HasExtension, EXTENSION)
      /\ v.payloadType = HeaderWord[2] % 128
      /\ v.sequenceNumber = HeaderWord[3] * 256 + HeaderWord[4]
      /\ v.timestamp = RtpReadUint32(Word4(4)) /\ v.ssrc = RtpReadUint32(Word4(8))
      /\ v.extended = HasExtension
      /\ v.profile = ExtensionHeaderWord[1] * 256 + ExtensionHeaderWord[2]
    BY Zenon DEF ReadValues
<1> HIDE DEF v
<1>3. PayloadRead = p
    BY <1>1, Stages DEF v
<1>4. /\ h \in Fields /\ h.flags = v.flags /\ h.payloadType = v.payloadType
      /\ h.sequenceNumber = v.sequenceNumber
      /\ h.timestamp = v.timestamp /\ h.ssrc = v.ssrc
    BY <1>1, HeaderFields
<1> HIDE DEF h
<1>5. /\ c \in Fields /\ c.flags = v.flags \cup v.extension
      /\ c.payloadType = v.payloadType
      /\ c.sequenceNumber = v.sequenceNumber
      /\ c.timestamp = v.timestamp /\ c.ssrc = v.ssrc
    BY <1>1, <1>4, CsrcsFields, CsrcsFlags
<1> HIDE DEF c
<1>6. /\ x \in Fields /\ x.flags = c.flags /\ x.payloadType = v.payloadType
      /\ x.sequenceNumber = v.sequenceNumber
      /\ x.timestamp = v.timestamp /\ x.ssrc = v.ssrc
      /\ v.extended => x.profile = v.profile
    BY <1>1, <1>5, ExtensionHeaderFields
<1> HIDE DEF x
<1>7. /\ p \in Fields /\ p.flags = c.flags /\ p.payloadType = v.payloadType
      /\ p.sequenceNumber = v.sequenceNumber
      /\ p.timestamp = v.timestamp /\ p.ssrc = v.ssrc
      /\ v.extended => p.profile = v.profile
    BY <1>1, <1>6, PayloadFields
<1> HIDE DEF p
<1> QED BY <1>2, <1>3, <1>5, <1>7, Zenon

(* The same bytes at two places.                                           *)
LEMMA PartOfPayload ==
    ASSUME NEW b \in Bytes, NEW s \in Bytes, NEW at \in Nat, NEW k \in Nat,
           Len(b) = at + Len(s), k <= Len(s),
           \A i \in 1..Len(s) : b[at + i] = s[i]
    PROVE  SubSeq(b, at + 1, at + k) = SubSeq(s, 1, k)
<1> DEFINE l == Len(s)
           from == at + 1
           to == at + k
           left == SubSeq(b, from, to)
           right == SubSeq(s, 1, k)
<1>1. l \in Nat /\ Len(b) \in Nat
    BY LenBytes
<1>2. /\ from \in Nat /\ from >= 1 /\ to \in Nat /\ to <= Len(b)
      /\ to - from + 1 = k /\ from <= to + 1
    BY <1>1
<1>3. right \in Bytes /\ Len(right) = k /\ \A i \in 1..k : right[i] = s[i]
    BY FirstBytes
<1> HIDE DEF from, to
<1>4. left \in Bytes /\ Len(left) = k /\ \A i \in 1..k : left[i] = b[from + i - 1]
    BY <1>2 DEF Bytes
<1> HIDE DEF left, right, l
<1>5. \A i \in 1..k : left[i] = right[i]
    <2> TAKE i \in 1..k
    <2>1. from + i - 1 = at + i /\ i \in 1..l
        BY <1>1 DEF from, l
    <2>2. b[at + i] = s[i]
        BY <2>1 DEF l
    <2> QED BY <1>3, <1>4, <2>1, <2>2
<1>6. left = right
    BY <1>3, <1>4, <1>5, SeqEqual DEF Bytes
<1> QED BY <1>6 DEF left, right, from, to

(* The padding of an accepted packet lies inside its payload.              *)
LEMMA PaddingOfPacket ==
    ASSUME NEW p \in Packets, ~PaddingTooLong(p.flags, p.payload)
    PROVE  LET k == IF PADDING \in p.flags /\ p.payload # << >>
                        THEN Last(p.payload) ELSE 0
           IN  k \in Nat /\ k <= Len(p.payload)
<1>1. p.payload \in Bytes /\ Len(p.payload) \in Nat
    BY PacketFacts, LenBytes
<1>2. CASE PADDING \in p.flags /\ p.payload # << >>
    <2>1. Len(p.payload) \in 1..Len(p.payload)
        BY <1>1, <1>2, EmptySeq DEF Bytes
    <2>2. Last(p.payload) \in Byte
        BY <1>1, <2>1, LenBytes DEF Last
    <2>3. Last(p.payload) \in Nat
        BY <2>2 DEF Byte
    <2>4. ~(Last(p.payload) > Len(p.payload))
        BY <1>2 DEF PaddingTooLong
    <2>5. Last(p.payload) <= Len(p.payload)
        BY <1>1, <2>3, <2>4
    <2> QED BY <1>2, <2>3, <2>5
<1>3. CASE ~(PADDING \in p.flags /\ p.payload # << >>)
    BY <1>1, <1>3
<1> QED BY <1>2, <1>3

(* What RoundTrip says of one packet.                                      *)
ReadBack(p) ==
    LET extension == WordsAt(received.pExtension, received.extensionLength)
    IN  /\ rResult = "OK"
        /\ received.flags = p.flags
        /\ received.payloadType = p.payloadType % 128
        /\ received.sequenceNumber = p.sequenceNumber
        /\ received.timestamp = p.timestamp /\ received.ssrc = p.ssrc
        /\ AsConverted(WordsAt(received.pCsrc, received.csrcCount)) = p.csrc
        /\ EXTENSION \in p.flags =>
            /\ received.profile = p.profile
            /\ AsConverted(extension) = p.extension
            /\ \A t \in TwccFields :
                p.extension = <<TWCC_CREATE_PAYLOAD(t[1], t[2])>> =>
                    /\ TWCC_GET_ID(AsConverted(extension)[1]) = t[1]
                    /\ TWCC_GET_SEQUENCE_NUMBER(AsConverted(extension)[1]) = t[2]
        /\ SubSeq(bytes, received.pPayload + 1,
                  received.pPayload + received.payloadLength) = PayloadOf(p)

(* The state of things after any number of calls on a whole packet.        *)
LEMMA WholeIsReadBack ==
    ASSUME Typed, Settled, NEW p \in Packets, Carries(p), Representable(p), calls > 0
    PROVE  ReadBack(p)
<1>2. Carries(p) /\ Representable(p)
    OBVIOUS
<1> DEFINE c == Len(p.csrc)
           x == Len(p.extension)
           n == Len(Words(p))
           padding == IF PADDING \in p.flags /\ p.payload # << >>
                          THEN Last(p.payload) ELSE 0
<1>3. /\ Len(bytes) >= MIN_LENGTH /\ Version = VERSION
      /\ HasPadding <=> PADDING \in p.flags
      /\ HasExtension <=> EXTENSION \in p.flags
      /\ CsrcCount = c
      /\ ExtensionAt = MIN_LENGTH + 4 * c
      /\ HasExtension => ExtensionLength = x
      /\ HasExtension =>
           ExtensionHeaderWord[1] * 256 + ExtensionHeaderWord[2] = p.profile
      /\ PayloadAt = 4 * n
      /\ CsrcsFit /\ ExtensionHeaderFits /\ ExtensionFits
      /\ Payload = p.payload
      /\ PaddingLength = padding
      /\ ~(PaddingLength > Len(Payload))
      /\ HeaderWord[2] >= 128 <=> MARKER \in p.flags
      /\ HeaderWord[2] % 128 = p.payloadType % 128
      /\ HeaderWord[3] * 256 + HeaderWord[4] = p.sequenceNumber
      /\ RtpReadUint32(Word4(4)) = p.timestamp
      /\ RtpReadUint32(Word4(8)) = p.ssrc
    BY <1>2, ReadsCarried
<1>4. ~(Len(bytes) < MIN_LENGTH)
    BY <1>3, LenBytes DEF Typed, MIN_LENGTH
<1>5. /\ rResult = "OK"
      /\ received = [PayloadRead EXCEPT !.payloadLength = @ - PaddingLength]
    <2>1. Outcome(rResult, received)
        BY DEF Settled
    <2> QED BY <1>3, <1>4, <2>1, Zenon DEF Outcome
<1> DEFINE length == PayloadRead.payloadLength - padding
<1>6. /\ received = [PayloadRead EXCEPT !.payloadLength = length]
      /\ PayloadRead \in Fields
    BY <1>3, <1>5, ReadFields DEF Fields
<1>7. /\ c \in Nat /\ x \in Nat
      /\ n = 3 + c + (IF EXTENSION \in p.flags THEN 1 + x ELSE 0)
      /\ \A k \in 1..c : Words(p)[3 + k] = p.csrc[k]
      /\ EXTENSION \in p.flags =>
            \A k \in 1..x : Words(p)[4 + c + k] = p.extension[k]
    BY WordsOfPacket
<1> HIDE DEF padding, length, c, x, n
<1>8. /\ received.flags = PayloadRead.flags
      /\ received.payloadType = PayloadRead.payloadType
      /\ received.sequenceNumber = PayloadRead.sequenceNumber
      /\ received.timestamp = PayloadRead.timestamp
      /\ received.ssrc = PayloadRead.ssrc
      /\ received.csrcCount = PayloadRead.csrcCount
      /\ received.pCsrc = PayloadRead.pCsrc
      /\ received.profile = PayloadRead.profile
      /\ received.extensionLength = PayloadRead.extensionLength
      /\ received.pExtension = PayloadRead.pExtension
      /\ received.pPayload = PayloadRead.pPayload
      /\ received.payloadLength = length
    BY <1>6, Zenon DEF Fields
<1>9. received.flags = p.flags
    <2>1. received.flags = (Flag(HasPadding, PADDING)
                \cup Flag(HeaderWord[2] >= 128, MARKER)) \cup Flag(HasExtension, EXTENSION)
        BY <1>8, ReadFields, Zenon
    <2>2. p.flags \subseteq {PADDING, MARKER, EXTENSION}
        BY PacketsAssumption DEF IsPacket
    <2>3. /\ Flag(HasPadding, PADDING) = Flag(PADDING \in p.flags, PADDING)
          /\ Flag(HeaderWord[2] >= 128, MARKER) = Flag(MARKER \in p.flags, MARKER)
          /\ Flag(HasExtension, EXTENSION) = Flag(EXTENSION \in p.flags, EXTENSION)
        BY <1>3, Zenon DEF Flag
    <2>4. \A f : f \in received.flags <=> f \in {PADDING, MARKER, EXTENSION} /\ f \in p.flags
        <3> TAKE f
        <3> DEFINE q == p.flags
        <3>1. received.flags = (Flag(PADDING \in q, PADDING)
                \cup Flag(MARKER \in q, MARKER)) \cup Flag(EXTENSION \in q, EXTENSION)
            BY <2>1, <2>3
        <3> HIDE DEF q
        <3> QED BY <3>1, Zenon DEF Flag, q
    <2> QED BY <2>2, <2>4
<1>10. /\ received.payloadType = p.payloadType % 128
       /\ received.sequenceNumber = p.sequenceNumber
       /\ received.timestamp = p.timestamp /\ received.ssrc = p.ssrc
       /\ EXTENSION \in p.flags => received.profile = p.profile
    BY <1>3, <1>8, ReadFields, Zenon
<1>11. AsConverted(WordsAt(received.pCsrc, received.csrcCount)) = p.csrc
    <2>1. /\ received.csrcCount = c
          /\ received.pCsrc = IF c > 0 THEN 12 ELSE NULL
        BY <1>3, <1>8, PayloadFieldsRead DEF MIN_LENGTH
    <2>2. p.csrc \in Seq(Word) /\ c = Len(p.csrc)
        BY PacketFacts DEF c
    <2>3. CASE c > 0
        <3>1. \A k \in 1..c : 3 + k \in 1..n /\ Converted(p, 3 + k)
            <4>1. \A k \in 1..c : 3 + k \in 1..n /\ 3 + k > 3 /\ 3 + k # 4 + c
                BY <1>7
            <4> QED BY <4>1 DEF Converted, c
        <3>2. AsConverted(WordsAt(4 * 3, Len(p.csrc))) = p.csrc
            <4>1. \A k \in 1..Len(p.csrc) :
                    /\ 3 + k \in 1..Len(Words(p)) /\ Converted(p, 3 + k)
                    /\ Words(p)[3 + k] = p.csrc[k]
                BY <1>7, <3>1 DEF n, c
            <4>2. PICK m \in Nat : m = 3
                OBVIOUS
            <4>3. AsConverted(WordsAt(4 * m, Len(p.csrc))) = p.csrc
                BY <1>2, <2>2, <4>1, <4>2, WordsBack
            <4> QED BY <4>2, <4>3
        <3>3. 4 * 3 = 12
            OBVIOUS
        <3> QED BY <3>3, <2>1, <2>2, <2>3, <3>2
    <2>4. CASE c = 0
        <3>1. p.csrc = << >>
            BY <2>2, <2>4, EmptySeq
        <3>2. WordsAt(received.pCsrc, 0) = << >>
            BY DEF WordsAt
        <3>3. AsConverted(<< >>) = << >>
            BY DEF AsConverted
        <3> QED BY <2>1, <2>4, <3>1, <3>2, <3>3
    <2> QED BY <1>7, <2>3, <2>4
<1>12. ASSUME EXTENSION \in p.flags
       PROVE  AsConverted(WordsAt(received.pExtension, received.extensionLength))
                = p.extension
    <2>1. /\ received.extensionLength = x /\ received.pExtension = 4 * (4 + c)
        <3>1. /\ received.extensionLength = ExtensionLength
              /\ received.pExtension = ExtensionAt + 4
            BY <1>3, <1>8, <1>12, PayloadFieldsRead
        <3> QED BY <1>3, <1>7, <1>12, <3>1 DEF MIN_LENGTH
    <2>2. p.extension \in Seq(Word) /\ x = Len(p.extension) /\ 4 + c \in Nat
        BY <1>7, PacketFacts DEF x
    <2>3. \A k \in 1..x : 4 + c + k \in 1..n /\ Converted(p, 4 + c + k)
        <3>1. \A k \in 1..x : /\ 4 + c + k \in 1..n /\ 4 + c + k > 3
                               /\ 4 + c + k # 4 + c
            BY <1>7, <1>12
        <3> QED BY <3>1 DEF Converted, c
    <2>4. AsConverted(WordsAt(4 * (4 + c), Len(p.extension))) = p.extension
        BY <1>2, <1>7, <1>12, <2>2, <2>3, WordsBack DEF n
    <2> QED BY <2>1, <2>2, <2>4
<1>13. ASSUME NEW t \in TwccFields, EXTENSION \in p.flags,
              p.extension = <<TWCC_CREATE_PAYLOAD(t[1], t[2])>>
       PROVE  /\ TWCC_GET_ID(p.extension[1]) = t[1]
              /\ TWCC_GET_SEQUENCE_NUMBER(p.extension[1]) = t[2]
    <2>1. p.extension[1] = TWCC_CREATE_PAYLOAD(t[1], t[2])
        BY <1>13
    <2> QED BY <2>1, TwccRead
<1>14. SubSeq(bytes, received.pPayload + 1,
              received.pPayload + received.payloadLength) = PayloadOf(p)
    <2> DEFINE l == Len(p.payload)
               k == l - padding
    <2>1. p.payload \in Bytes /\ l \in Nat /\ bytes \in Bytes /\ Len(bytes) \in Nat
        BY PacketFacts, LenBytes DEF Typed
    <2>2. padding \in Nat /\ padding <= l
        BY <1>2, PaddingOfPacket DEF Carries, padding
    <2>3. /\ Len(bytes) = 4 * n + l /\ n \in Nat
          /\ \A i \in 1..l : bytes[4 * n + i] = p.payload[i]
        BY <1>2, <1>7 DEF Carries, n
    <2>4. PayloadOf(p) = SubSeq(p.payload, 1, k)
        BY Zenon DEF PayloadOf, padding
    <2>5. /\ received.pPayload = IF 4 * n < Len(bytes) THEN 4 * n ELSE NULL
          /\ received.payloadLength = (Len(bytes) - 4 * n) - padding
        <3>1. /\ PayloadRead.pPayload = IF PayloadAt < Len(bytes) THEN PayloadAt ELSE NULL
              /\ PayloadRead.payloadLength = Len(bytes) - PayloadAt
            BY PayloadFieldsRead
        <3> QED BY <1>3, <1>8, <3>1 DEF length
    <2> HIDE DEF l
    <2>6. k \in Nat /\ k <= l /\ received.payloadLength = k
        BY <2>1, <2>2, <2>3, <2>5
    <2>7. CASE l > 0
        <3>1. received.pPayload = 4 * n
            <4>1. 4 * n < Len(bytes)
                BY <2>1, <2>3, <2>7
            <4> QED BY <2>5, <4>1, Zenon
        <3>2. 4 * n \in Nat
            BY <2>3
        <3>3. SubSeq(bytes, 4 * n + 1, 4 * n + k) = SubSeq(p.payload, 1, k)
            <4>1. PICK at \in Nat : at = 4 * n
                BY <3>2
            <4> HIDE DEF k
            <4>2. /\ Len(bytes) = at + Len(p.payload) /\ k <= Len(p.payload)
                  /\ \A i \in 1..Len(p.payload) : bytes[at + i] = p.payload[i]
                BY <2>3, <2>6, <4>1 DEF l
            <4>3. SubSeq(bytes, at + 1, at + k) = SubSeq(p.payload, 1, k)
                BY <2>1, <2>6, <4>2, PartOfPayload
            <4> QED BY <4>1, <4>3
        <3> QED BY <2>4, <2>6, <3>1, <3>3
    <2>8. CASE l = 0
        <3>1. received.pPayload = NULL /\ k = 0
            BY <2>1, <2>2, <2>3, <2>5, <2>8
        <3>2. SubSeq(bytes, NULL + 1, NULL + 0) = << >>
            BY DEF NULL
        <3>3. SubSeq(p.payload, 1, 0) = << >>
            BY <2>1, FirstBytes, EmptySeq DEF Bytes
        <3> QED BY <2>4, <2>6, <3>1, <3>2, <3>3
    <2> QED BY <2>1, <2>7, <2>8
<1> QED
    <2> DEFINE extension == WordsAt(received.pExtension, received.extensionLength)
    <2>1. EXTENSION \in p.flags => AsConverted(extension) = p.extension
        BY <1>12
    <2> HIDE DEF extension
    <2> QED BY <1>2, <1>5, <1>9, <1>10, <1>11, <1>13, <1>14, <2>1, Zenon
            DEF ReadBack, extension

(* And so the property holds.                                              *)
LEMMA WholeIsRead ==
    ASSUME Typed, Settled, WholePackets
    PROVE  RoundTrip
<1> SUFFICES ASSUME origin # << >>, calls > 0, Representable(origin[1])
             PROVE  RoundTrip
    BY DEF RoundTrip
<1>1. PICK p \in Packets : origin = <<p>>
    BY DEF WholePackets
<1>2. origin[1] = p /\ Carries(p) /\ Representable(p)
    BY <1>1 DEF WholePackets
<1>3. ReadBack(p)
    BY <1>2, WholeIsReadBack
<1> QED BY <1>2, <1>3, Zenon DEF RoundTrip, ReadBack

(* The length Rtp_Serialize reports is the packet's: header and payload    *)
(* end where it says, in network order on either machine, and no byte but  *)
(* those of the packet is touched.                                         *)
THEOREM WireFormatHolds == Spec => []WireFormat
<1>1. Init => SentBytes
    BY DEF Init, SentBytes
<1>2. IInv /\ SentBytes /\ [Next]_vars => SentBytes'
    BY SentInv
<1>3. IInv /\ SentBytes => WireFormat
    BY SentIsWireFormat
<1> QED BY <1>1, <1>2, <1>3, SerializationIsConsistent, PTL DEF Spec

(* A packet that Rtp_Serialize accepted and that arrives whole is read as  *)
(* it was, by the first call and by every later one, on either machine:    *)
(* header, CSRCs, extension with its TWCC fields, payload less padding.    *)
THEOREM PacketsComeBack == Spec => []RoundTrip
<1>1. Init => Settled /\ SentBytes /\ WholePackets
    BY DEF Init, Settled, SentBytes, WholePackets
<1>2. IInv /\ IInv' /\ Settled /\ [Next]_vars => Settled'
    BY SettledInv
<1>3. IInv /\ SentBytes /\ [Next]_vars => SentBytes'
    BY SentInv
<1>4. IInv /\ IInv' /\ SentBytes /\ WholePackets /\ [Next]_vars => WholePackets'
    BY WholeInv
<1>5. IInv /\ Settled /\ WholePackets => RoundTrip
    BY WholeIsRead DEF IInv
<1> QED BY <1>1, <1>2, <1>3, <1>4, <1>5, SerializationIsConsistent, PTL DEF Spec
=============================================================================
