----------------------- MODULE H265DepacketizerProofs -----------------------
(***************************************************************************)
(* Proofs about H265Depacketizer, for every set of packets, malformed ones *)
(* included, and all array and buffer lengths: the packet queue and the    *)
(* offset kept in an aggregation packet.                                   *)
(***************************************************************************)
EXTENDS H265Depacketizer, SequenceTheorems, WellFoundedInduction, TLAPS

(* What is assumed of the callers, and of the packets they add, damaged    *)
(* ones included: a packet that holds the size of a NAL unit at some place *)
(* holds one, whatever it is.                                              *)
Callers ==
    /\ \A p \in Packets : WellTyped(p)
    /\ ArrayLengths \subseteq Nat /\ FrameSizes \subseteq Nat

QueueTypes ==
    /\ packetsArrayLength \in Nat /\ packetsArrayLength > 0
    /\ packetsArray \in [0..(packetsArrayLength - 1) -> Packets \cup {NoPacket}]
    /\ headIndex \in Nat /\ tailIndex \in Nat /\ packetCount \in Nat
    /\ curPacketIndex \in Nat

(* The inductive invariant.  The offset is a boundary in the packet at the *)
(* tail only if the tail is a packet, and stays one only while the packet  *)
(* at the tail stays the same.                                             *)
IInv == QueueTypes /\ QueueConsistent /\ CursorInPacket

queueVars == <<queue, reading>>

-----------------------------------------------------------------------------

LEMMA PacketFacts ==
    ASSUME Callers, NEW p \in Packets
    PROVE  /\ p.packetDataLength \in Nat
           /\ p.header.type = AP_PACKET_TYPE =>
                /\ DOMAIN p.sizes \subseteq Nat
                /\ \A at \in DOMAIN p.sizes : p.sizes[at] \in Nat
                /\ \A at \in UnitOffsets(p) :
                    at + AP_NALU_LENGTH_FIELD_SIZE <= p.packetDataLength =>
                        at \in DOMAIN p.sizes
BY Zenon DEF Callers, WellTyped

LEMMA TailPacket ==
    ASSUME Callers, IInv, packetCount # 0
    PROVE  /\ CurrentPacket \in Packets
           /\ CurrentPacket.packetDataLength \in Nat
           /\ tailIndex \in 0..(headIndex - 1)
<1>1. tailIndex \in 0..(headIndex - 1)
    BY DEF IInv, QueueTypes, QueueConsistent
<1>2. CurrentPacket \in Packets
    BY <1>1 DEF IInv, QueueConsistent, CurrentPacket
<1> QED BY <1>1, <1>2, PacketFacts

LEMMA InitInv ==
    ASSUME Callers, Init
    PROVE  IInv
<1>1. packetsArrayLength \in Nat /\ packetsArrayLength > 0
    BY DEF Init, Callers
<1> QED BY <1>1 DEF Init, IInv, QueueTypes, QueueConsistent, CursorInPacket

LEMMA UnchangedInv ==
    ASSUME Callers, IInv, UNCHANGED queueVars
    PROVE  IInv'
BY DEF IInv, QueueTypes, QueueConsistent, CursorInPacket, CurrentPacket,
       queueVars, queue, reading

LEMMA RefuseInv ==
    ASSUME Callers, IInv, NEW r, Refuse(r)
    PROVE  IInv'
BY UnchangedInv DEF Refuse, queueVars

LEMMA InitCallInv ==
    ASSUME Callers, IInv, NEW n \in ArrayLengths, H265Depacketizer_Init(n)
    PROVE  IInv'
<1>1. CASE n = 0 /\ Refuse("BAD_PARAM")
    BY <1>1, RefuseInv
<1>2. CASE n > 0
    <2>1. n \in Nat
        BY DEF Callers
    <2>2. /\ packetsArray' = [i \in 0..(n - 1) |-> NoPacket]
          /\ packetsArrayLength' = n /\ headIndex' = 0 /\ tailIndex' = 0
          /\ packetCount' = 0 /\ curPacketIndex' = 0
        BY <1>2, <2>1 DEF H265Depacketizer_Init
    <2> QED BY <1>2, <2>1, <2>2
            DEF IInv, QueueTypes, QueueConsistent, CursorInPacket
<1> QED BY <1>1, <1>2 DEF H265Depacketizer_Init

LEMMA AddPacketInv ==
    ASSUME Callers, IInv, NEW p \in Packets, H265Depacketizer_AddPacket(p)
    PROVE  IInv'
<1>1. CASE Refuse("OUT_OF_MEMORY")
    BY <1>1, RefuseInv
<1>2. CASE /\ packetCount < packetsArrayLength
           /\ packetsArray' = [packetsArray EXCEPT ![headIndex] = p]
           /\ headIndex' = headIndex + 1 /\ packetCount' = packetCount + 1
           /\ UNCHANGED <<packetsArrayLength, tailIndex, curPacketIndex>>
    <2>1. /\ headIndex \in Nat /\ tailIndex \in Nat /\ packetCount \in Nat
          /\ packetsArrayLength \in Nat /\ headIndex = tailIndex + packetCount
        BY DEF IInv, QueueTypes, QueueConsistent
    <2>2. headIndex + 1 <= packetsArrayLength
        BY <1>2, <2>1 DEF H265Depacketizer_AddPacket, SlotFree
    <2>3. /\ packetsArray'[headIndex] = p
          /\ \A i \in 0..(headIndex - 1) : packetsArray'[i] = packetsArray[i]
        BY <1>2, <2>1, <2>2 DEF IInv, QueueTypes
    <2>4. QueueTypes'
        <3>1. headIndex \in 0..(packetsArrayLength - 1)
            BY <2>1, <2>2
        <3>2. packetsArray \in [0..(packetsArrayLength - 1) ->
                                    Packets \cup {NoPacket}]
            BY DEF IInv, QueueTypes
        <3>3. packetsArray' \in [0..(packetsArrayLength - 1) ->
                                    Packets \cup {NoPacket}]
            BY <1>2, <3>1, <3>2
        <3> QED BY <1>2, <2>1, <3>3 DEF IInv, QueueTypes
    <2>5. \A i \in 0..headIndex : packetsArray'[i] \in Packets
        BY <2>1, <2>3 DEF IInv, QueueConsistent
    <2>6. QueueConsistent'
        BY <1>2, <2>1, <2>2, <2>5 DEF QueueConsistent
    <2>7. CursorInPacket'
        <3>1. curPacketIndex # 0 => packetsArray'[tailIndex] = packetsArray[tailIndex]
            BY <2>1, <2>3 DEF IInv, CursorInPacket
        <3>2. packetCount' > 0
            BY <1>2, <2>1
        <3> QED BY <1>2, <3>1, <3>2 DEF IInv, CursorInPacket, CurrentPacket
    <2> QED BY <2>4, <2>6, <2>7 DEF IInv
<1> QED BY <1>1, <1>2 DEF H265Depacketizer_AddPacket

(* Consuming queued packets when no offset is kept.                        *)
LEMMA ConsumeInv ==
    ASSUME Callers, IInv, NEW k \in 0..packetCount, Consume(k), UNCHANGED queue,
           curPacketIndex' = 0
    PROVE  IInv'
<1>1. /\ tailIndex' \in Nat /\ packetCount' \in Nat
      /\ tailIndex' + packetCount' = tailIndex + packetCount
    BY DEF Consume, IInv, QueueTypes
<1> QED BY <1>1 DEF IInv, QueueTypes, QueueConsistent, CursorInPacket, queue

LEMMA FragmentsKeepNoOffset ==
    ASSUME Callers, IInv, packetCount # 0, CurrentPacket.header.type # AP_PACKET_TYPE
    PROVE  curPacketIndex = 0
BY DEF IInv, CursorInPacket

LEMMA SingleInv ==
    ASSUME Callers, IInv, packetCount # 0, NEW size, NEW r, UNCHANGED queue,
           SingleType(CurrentPacket.header.type), DepacketizeSingleNaluPacket(size, r)
    PROVE  IInv'
<1>1. CurrentPacket.header.type # AP_PACKET_TYPE
    BY DEF SingleType, AP_PACKET_TYPE, SINGLE_NALU_PACKET_TYPE_START,
           SINGLE_NALU_PACKET_TYPE_END
<1>2. 1 \in 0..packetCount
    BY DEF IInv, QueueTypes
<1> QED BY <1>1, <1>2, FragmentsKeepNoOffset, ConsumeInv, UnchangedInv
        DEF DepacketizeSingleNaluPacket, queueVars

LEMMA FragmentsInv ==
    ASSUME Callers, IInv, packetCount # 0, NEW size, NEW r, UNCHANGED queue,
           CurrentPacket.header.type = FU_PACKET_TYPE,
           DepacketizeFragmentationUnitPacket(size, r)
    PROVE  IInv'
<1>1. curPacketIndex = 0
    BY FragmentsKeepNoOffset DEF AP_PACKET_TYPE, FU_PACKET_TYPE
<1>2. PICK k \in 0..packetCount : Consume(k) /\ UNCHANGED curPacketIndex
    BY DEF DepacketizeFragmentationUnitPacket
<1> QED BY <1>1, <1>2, ConsumeInv

LEMMA MoveToInv ==
    ASSUME Callers, IInv, packetCount # 0, UNCHANGED queue,
           CurrentPacket.header.type = AP_PACKET_TYPE,
           NEW index \in Nat, index > 0, index \in UnitOffsets(CurrentPacket),
           MoveTo(index)
    PROVE  IInv'
<1>1. CASE index >= CurrentPacket.packetDataLength /\ curPacketIndex' = 0 /\ Consume(1)
    <2>1. 1 \in 0..packetCount
        BY DEF IInv, QueueTypes
    <2> QED BY <1>1, <2>1, ConsumeInv
<1>2. CASE /\ index < CurrentPacket.packetDataLength /\ curPacketIndex' = index
           /\ UNCHANGED <<tailIndex, packetCount>>
    <2>1. QueueTypes' /\ QueueConsistent'
        BY <1>2 DEF IInv, QueueTypes, QueueConsistent, queue
    <2>2. CurrentPacket' = CurrentPacket /\ packetCount' > 0
        BY <1>2 DEF IInv, QueueTypes, CurrentPacket, queue
    <2> QED BY <1>2, <2>1, <2>2 DEF IInv, CursorInPacket
<1> QED BY <1>1, <1>2 DEF MoveTo

LEMMA AggregationInv ==
    ASSUME Callers, IInv, packetCount # 0, NEW size, NEW r, UNCHANGED queue,
           CurrentPacket.header.type = AP_PACKET_TYPE,
           DepacketizeAggregationPacket(size, r)
    PROVE  IInv'
<1> DEFINE at == IF curPacketIndex = 0 THEN AP_HEADER_SIZE ELSE curPacketIndex
           data == at + AP_NALU_LENGTH_FIELD_SIZE
           n == CurrentPacket.sizes[at]
<1>1. at \in Nat /\ at > 0 /\ at \in UnitOffsets(CurrentPacket)
    BY DEF IInv, QueueTypes, CursorInPacket, UnitOffsets, AP_HEADER_SIZE
<1> HIDE DEF at
<1>2. CASE MoveTo(at)
    BY <1>1, <1>2, MoveToInv
<1>3. CASE data <= CurrentPacket.packetDataLength /\ MoveTo(data + n)
    <2>1. at \in DOMAIN CurrentPacket.sizes /\ n \in Nat
        BY <1>1, <1>3, TailPacket, PacketFacts, Zenon
    <2>2. data + n \in Nat /\ data + n > 0
        BY <1>1, <2>1 DEF AP_NALU_LENGTH_FIELD_SIZE
    <2>3. data + n \in UnitOffsets(CurrentPacket)
        BY <2>1, Zenon DEF UnitOffsets
    <2> QED BY <1>3, <2>2, <2>3, MoveToInv
<1> QED BY <1>2, <1>3 DEF DepacketizeAggregationPacket, at

LEMMA CurrentInv ==
    ASSUME Callers, IInv, packetCount # 0, NEW size, NEW r, UNCHANGED queue,
           DepacketizeCurrent(size, r)
    PROVE  IInv'
BY SingleInv, FragmentsInv, AggregationInv, UnchangedInv
   DEF DepacketizeCurrent, queueVars

LEMMA NextInv ==
    ASSUME Callers, IInv, [Next]_vars
    PROVE  IInv'
<1>1. CASE \E n \in ArrayLengths : H265Depacketizer_Init(n)
    BY <1>1, InitCallInv
<1>2. CASE \E p \in Packets : H265Depacketizer_AddPacket(p)
    BY <1>2, AddPacketInv
<1>3. CASE GetNalu
    BY <1>3, RefuseInv, CurrentInv DEF GetNalu, H265Depacketizer_GetNalu
<1>4. CASE GetFrame
    BY <1>4, RefuseInv, UnchangedInv
       DEF GetFrame, H265Depacketizer_GetFrame, queueVars
<1>5. CASE GetFrameTurn
    BY <1>5, UnchangedInv, CurrentInv DEF GetFrameTurn, queueVars
<1>6. CASE NullArgument
    BY <1>6, RefuseInv DEF NullArgument
<1>7. CASE UNCHANGED vars
    BY <1>7, UnchangedInv DEF vars, queueVars, queue, reading
<1> QED BY <1>1, <1>2, <1>3, <1>4, <1>5, <1>6, <1>7 DEF Next

-----------------------------------------------------------------------------
(* Recursive functions over 0..n.  The first two lemmas are induction.     *)

LEMMA Least ==
    ASSUME NEW T \in SUBSET Nat, T # {}
    PROVE  \E n \in T : \A m \in T : n <= m
<1> DEFINE R == OpToRel(<, Nat)
<1>1. IsWellFoundedOn(R, Nat)
    BY NatLessThanWellFounded
<1>2. \A m, n \in Nat : m < n => <<m, n>> \in R
    BY DEF OpToRel
<1> HIDE DEF R
<1>3. PICK n \in T : \A m \in T : ~(<<m, n>> \in R)
    BY <1>1, WFMin
<1>4. \A m \in T : m \in Nat /\ n \in Nat /\ ~(m < n)
    BY <1>2, <1>3
<1> QED BY <1>4

LEMMA UpTo ==
    ASSUME NEW n \in Nat, NEW S, 0 \in S,
           \A i \in 1..n : i - 1 \in S => i \in S
    PROVE  \A i \in 0..n : i \in S
<1> DEFINE T == {i \in 0..n : i \notin S}
<1> SUFFICES ASSUME T # {} PROVE FALSE
    OBVIOUS
<1>1. T \in SUBSET Nat
    OBVIOUS
<1>2. PICK k \in T : \A m \in T : k <= m
    <2> HIDE DEF T
    <2> QED BY <1>1, Least
<1>3. k \in 1..n /\ ~(k - 1 \in T)
    <2>1. k \in 1..n
        OBVIOUS
    <2> HIDE DEF T
    <2> QED BY <1>2, <2>1
<1> QED BY <1>3

(* There is a function that begins with x and goes on as G says.           *)
Recursive(n, X, x, G) ==
    \E f \in [0..n -> X] : f[0] = x /\ \A i \in 1..n : f[i] = G[i][f[i - 1]]

LEMMA Recursion ==
    ASSUME NEW n \in Nat, NEW X, NEW x \in X, NEW G \in [1..n -> [X -> X]]
    PROVE  Recursive(n, X, x, G)
<1> DEFINE Is(f, k) == f[0] = x /\ \A i \in 1..k : f[i] = G[i][f[i - 1]]
           Has(k) == \E f \in [0..k -> X] : Is(f, k)
           S == {k \in 0..n : Has(k)}
<1>1. Has(0)
    <2> DEFINE f == [i \in 0..0 |-> x]
    <2>1. f \in [0..0 -> X] /\ Is(f, 0)
        OBVIOUS
    <2> QED BY <2>1, Zenon
<1>2. ASSUME NEW k \in 1..n, Has(k - 1) PROVE Has(k)
    <2>1. PICK f \in [0..(k - 1) -> X] : Is(f, k - 1)
        BY <1>2, Zenon
    <2> DEFINE h == [i \in 0..k |-> IF i = k THEN G[k][f[k - 1]] ELSE f[i]]
    <2>2. f[k - 1] \in X /\ G[k][f[k - 1]] \in X
        OBVIOUS
    <2>3. \A i \in 0..k : i # k => i \in 0..(k - 1)
        OBVIOUS
    <2>4. h \in [0..k -> X]
        BY <2>2, <2>3
    <2>5. Is(h, k)
        <3>1. \A i \in 0..(k - 1) : h[i] = f[i]
            BY <2>3
        <3>2. h[k] = G[k][f[k - 1]] /\ k # 0 /\ k - 1 \in 0..(k - 1)
            OBVIOUS
        <3>3. \A i \in 1..k : i # k => i \in 1..(k - 1) /\ i - 1 \in 0..(k - 1)
            OBVIOUS
        <3>4. 0 \in 0..(k - 1) /\ \A i \in 1..(k - 1) : i \in 0..(k - 1)
            OBVIOUS
        <3> HIDE DEF h
        <3> QED BY <2>1, <3>1, <3>2, <3>3, <3>4
    <2> QED BY <2>4, <2>5, Zenon
<1>3. Has(n)
    <2> HIDE DEF Has
    <2>1. 0 \in S /\ \A k \in 1..n : k - 1 \in S => k \in S
        BY <1>1, <1>2
    <2> HIDE DEF S
    <2>2. \A k \in 0..n : k \in S
        BY <2>1, UpTo
    <2>3. n \in S
        BY <2>2
    <2> QED BY <2>3 DEF S
<1> QED BY <1>3, Zenon DEF Recursive


(* l begins with x and grows by the weights.                               *)
Adds(l, n, x, w) ==
    /\ l = [i \in 0..n |-> l[i]]
    /\ l[0] = x
    /\ \A i \in 1..n : l[i] = l[i - 1] + w[i]

Adds2(l, n, x, v, w) ==
    /\ l = [i \in 0..n |-> l[i]]
    /\ l[0] = x
    /\ \A i \in 1..n : l[i] = l[i - 1] + v[i] + w[i]

LEMMA AddsExists ==
    ASSUME NEW n \in Nat, NEW x \in Int, NEW w, \A i \in 1..n : w[i] \in Int
    PROVE  \E l : Adds(l, n, x, w)
<1> DEFINE G == [i \in 1..n |-> [v \in Int |-> v + w[i]]]
<1>1. G \in [1..n -> [Int -> Int]]
    OBVIOUS
<1>2. PICK f \in [0..n -> Int] : f[0] = x /\ \A i \in 1..n : f[i] = G[i][f[i - 1]]
    <2> HIDE DEF G
    <2>1. Recursive(n, Int, x, G)
        BY <1>1, Recursion
    <2> QED BY <2>1, Zenon DEF Recursive
<1>3. ASSUME NEW i \in 1..n PROVE f[i] = f[i - 1] + w[i]
    <2>1. f[i - 1] \in Int
        OBVIOUS
    <2>2. G[i][f[i - 1]] = f[i - 1] + w[i]
        BY <2>1
    <2> QED BY <1>2, <2>2
<1>4. Adds(f, n, x, w)
    BY <1>2, <1>3 DEF Adds
<1> QED BY <1>4, Zenon

LEMMA AddsIntegers ==
    ASSUME NEW n \in Nat, NEW x \in Int, NEW w, \A i \in 1..n : w[i] \in Int,
           NEW l, Adds(l, n, x, w)
    PROVE  l \in [0..n -> Int]
<1> DEFINE S == {i \in 0..n : l[i] \in Int}
<1>0. l[0] = x /\ \A i \in 1..n : l[i] = l[i - 1] + w[i]
    BY Zenon DEF Adds
<1>1. 0 \in S /\ \A i \in 1..n : i - 1 \in S => i \in S
    BY <1>0
<1>2. \A i \in 0..n : i \in S
    <2> HIDE DEF S
    <2> QED BY <1>1, UpTo
<1> QED BY <1>2 DEF Adds

LEMMA TwoWeights ==
    ASSUME NEW n \in Nat, NEW x \in Int, NEW v, NEW w, NEW s,
           \A i \in 1..n : v[i] \in Int /\ w[i] \in Int /\ s[i] = v[i] + w[i],
           NEW l
    PROVE  Adds(l, n, x, s) <=> Adds2(l, n, x, v, w)
<1>1. \A i \in 1..n : i - 1 \in 0..n /\ i \in 0..n
    OBVIOUS
<1>2. ASSUME Adds(l, n, x, s) PROVE Adds2(l, n, x, v, w)
    <2>1. l \in [0..n -> Int]
        BY <1>2, AddsIntegers
    <2>2. \A i \in 1..n : l[i] = l[i - 1] + s[i]
        BY <1>2, Zenon DEF Adds
    <2>3. ASSUME NEW i \in 1..n PROVE l[i] = l[i - 1] + v[i] + w[i]
        BY <1>1, <2>1, <2>2
    <2> QED BY <1>2, <2>3, Zenon DEF Adds, Adds2
<1>3. ASSUME Adds2(l, n, x, v, w) PROVE Adds(l, n, x, s)
    <2> DEFINE S == {i \in 0..n : l[i] \in Int}
    <2>0. l[0] = x /\ \A i \in 1..n : l[i] = l[i - 1] + v[i] + w[i]
        BY <1>3, Zenon DEF Adds2
    <2>1. 0 \in S /\ \A i \in 1..n : i - 1 \in S => i \in S
        BY <2>0
    <2>2. \A i \in 0..n : i \in S
        <3> HIDE DEF S
        <3> QED BY <2>1, UpTo
    <2>3. ASSUME NEW i \in 1..n PROVE l[i] = l[i - 1] + s[i]
        <3>1. l[i - 1] \in Int
            BY <1>1, <2>2
        <3> QED BY <2>0, <3>1
    <2> QED BY <1>3, <2>3, Zenon DEF Adds, Adds2
<1> QED BY <1>2, <1>3

LEMMA SameSum ==
    ASSUME NEW n \in Nat, NEW m \in Nat, n <= m, NEW x, NEW f, NEW g, NEW v, NEW w,
           Adds(f, n, x, v), Adds(g, m, x, w), \A i \in 1..n : v[i] = w[i]
    PROVE  f[n] = g[n]
<1> DEFINE S == {i \in 0..n : f[i] = g[i]}
<1>0. /\ f[0] = x /\ \A i \in 1..n : f[i] = f[i - 1] + v[i]
      /\ g[0] = x /\ \A i \in 1..m : g[i] = g[i - 1] + w[i]
    BY Zenon DEF Adds
<1>1. 0 \in S /\ \A i \in 1..n : i - 1 \in S => i \in S
    BY <1>0
<1>2. \A i \in 0..n : i \in S
    <2> HIDE DEF S
    <2> QED BY <1>1, UpTo
<1> QED BY <1>2

-----------------------------------------------------------------------------
(* What a NAL unit is written in: see Bytes and RestatedHeader.            *)
Piece == [slot : Nat, header : BOOLEAN, from : Nat, len : Int]

Lens(pieces) == [i \in 1..Len(pieces) |-> pieces[i].len]

LEMMA NaluSum ==
    ASSUME NEW s \in Seq(Piece)
    PROVE  \E l : Adds(l, Len(s), 0, Lens(s)) /\ NaluLength(s) = l[Len(s)]
<1> DEFINE Is(l) == l = [i \in 0..Len(s) |-> IF i = 0 THEN 0 ELSE l[i - 1] + s[i].len]
           l == CHOOSE l : Is(l)
<1>1. Len(s) \in Nat /\ \A i \in 1..Len(s) : s[i].len \in Int /\ Lens(s)[i] = s[i].len
    <2>1. \A i \in 1..Len(s) : s[i] \in Piece
        OBVIOUS
    <2> QED BY <2>1 DEF Piece, Lens
<1>2. ASSUME NEW m PROVE Is(m) <=> Adds(m, Len(s), 0, Lens(s))
    BY <1>1 DEF Adds
<1>3. \E m : Adds(m, Len(s), 0, Lens(s))
    <2>1. 0 \in Int /\ \A i \in 1..Len(s) : Lens(s)[i] \in Int
        BY <1>1
    <2> QED BY <1>1, <2>1, AddsExists
<1>4. Adds(l, Len(s), 0, Lens(s))
    <2> HIDE DEF Is
    <2> QED BY <1>2, <1>3, Zenon
<1>5. NaluLength(s) = l[Len(s)]
    BY DEF NaluLength
<1> QED BY <1>4, <1>5

LEMMA NaluLengthAppend ==
    /\ NaluLength(<< >>) = 0
    /\ \A s \in Seq(Piece) : NaluLength(s) \in Int
    /\ \A s \in Seq(Piece), x \in Piece :
        NaluLength(Append(s, x)) = NaluLength(s) + x.len
<1>1. NaluLength(<< >>) = 0
    <2>1. << >> \in Seq(Piece) /\ Len(<< >>) = 0
        OBVIOUS
    <2> QED BY <2>1, NaluSum DEF Adds
<1>2. ASSUME NEW s \in Seq(Piece) PROVE NaluLength(s) \in Int
    <2>1. Len(s) \in 0..Len(s)
        OBVIOUS
    <2> QED BY <2>1, NaluSum DEF Adds
<1>3. ASSUME NEW s \in Seq(Piece), NEW x \in Piece
      PROVE  NaluLength(Append(s, x)) = NaluLength(s) + x.len
    <2> DEFINE t == Append(s, x)
    <2>1. /\ t \in Seq(Piece) /\ Len(s) \in Nat /\ Len(t) = Len(s) + 1
          /\ \A i \in 1..Len(s) : t[i] = s[i]
          /\ t[Len(s) + 1] = x
        OBVIOUS
    <2> HIDE DEF t
    <2>2. PICK l : Adds(l, Len(s), 0, Lens(s)) /\ NaluLength(s) = l[Len(s)]
        BY NaluSum
    <2>3. PICK m : Adds(m, Len(t), 0, Lens(t)) /\ NaluLength(t) = m[Len(t)]
        BY <2>1, NaluSum
    <2>4. \A i \in 1..Len(s) : Lens(s)[i] = Lens(t)[i]
        BY <2>1 DEF Lens
    <2>5. m[Len(s)] = l[Len(s)]
        BY <2>1, <2>2, <2>3, <2>4, SameSum
    <2>6. m[Len(t)] = m[Len(s)] + x.len
        <3>1. /\ Len(t) \in 1..Len(t) /\ Len(t) - 1 = Len(s)
              /\ Lens(t)[Len(t)] = x.len
            BY <2>1 DEF Lens
        <3> QED BY <2>3, <3>1 DEF Adds
    <2> QED BY <2>2, <2>3, <2>5, <2>6 DEF t
<1> QED BY <1>1, <1>2, <1>3

(* The length of a frame, likewise.                                        *)
StartCodesAndLens(nalus) ==
    [i \in 1..Len(nalus) |-> STARTCODE_SIZE + NaluLength(nalus[i])]

LEMMA FrameSum ==
    ASSUME NEW s \in Seq(Seq(Piece))
    PROVE  \E l : /\ Adds(l, Len(s), 0, StartCodesAndLens(s))
                  /\ FrameLength(s) = l[Len(s)]
<1> DEFINE v == [i \in 1..Len(s) |-> STARTCODE_SIZE]
           w == [i \in 1..Len(s) |-> NaluLength(s[i])]
           Is(l) == l = [i \in 0..Len(s) |->
                IF i = 0 THEN 0 ELSE l[i - 1] + STARTCODE_SIZE + NaluLength(s[i])]
           l == CHOOSE l : Is(l)
<1>1. Len(s) \in Nat /\ \A i \in 1..Len(s) :
        /\ v[i] \in Int /\ w[i] \in Int /\ StartCodesAndLens(s)[i] \in Int
        /\ StartCodesAndLens(s)[i] = v[i] + w[i]
    BY NaluLengthAppend DEF StartCodesAndLens, STARTCODE_SIZE
<1>2. ASSUME NEW m PROVE Is(m) <=> Adds2(m, Len(s), 0, v, w)
    <2>1. \A i \in 1..Len(s) : v[i] = STARTCODE_SIZE /\ w[i] = NaluLength(s[i])
        OBVIOUS
    <2>2. \A i \in 0..Len(s) : i = 0 \/ i \in 1..Len(s)
        BY <1>1
    <2>3. 0 \in 0..Len(s) /\ \A i \in 1..Len(s) : i # 0 /\ i \in 0..Len(s)
        BY <1>1
    <2> HIDE DEF v, w
    <2>4. ASSUME Is(m) PROVE Adds2(m, Len(s), 0, v, w)
        <3>1. m = [i \in 0..Len(s) |-> m[i]] /\ m[0] = 0
            BY <2>3, <2>4
        <3>2. ASSUME NEW i \in 1..Len(s)
              PROVE  m[i] = m[i - 1] + STARTCODE_SIZE + NaluLength(s[i])
            BY <2>3, <2>4
        <3> QED BY <2>1, <3>1, <3>2, Zenon DEF Adds2
    <2>5. ASSUME Adds2(m, Len(s), 0, v, w) PROVE Is(m)
        <3>1. \A i \in 1..Len(s) : m[i] = m[i - 1] + STARTCODE_SIZE + NaluLength(s[i])
            BY <2>1, <2>5, Zenon DEF Adds2
        <3>2. m = [i \in 0..Len(s) |-> m[i]] /\ m[0] = 0
            BY <2>5, Zenon DEF Adds2
        <3>3. \A i \in 0..Len(s) : m[i] = IF i = 0 THEN 0
                ELSE m[i - 1] + STARTCODE_SIZE + NaluLength(s[i])
            BY <2>2, <3>1, <3>2, Zenon
        <3> QED BY <3>2, <3>3, Zenon
    <2> QED BY <2>4, <2>5
<1>3. ASSUME NEW m PROVE Is(m) <=> Adds(m, Len(s), 0, StartCodesAndLens(s))
    <2>1. 0 \in Int
        OBVIOUS
    <2> HIDE DEF v, w, Is
    <2> QED BY <1>1, <1>2, <2>1, TwoWeights
<1>4. \E m : Adds(m, Len(s), 0, StartCodesAndLens(s))
    <2>1. 0 \in Int
        OBVIOUS
    <2> QED BY <1>1, <2>1, AddsExists
<1>5. Adds(l, Len(s), 0, StartCodesAndLens(s))
    <2> HIDE DEF Is
    <2> QED BY <1>3, <1>4, Zenon
<1>6. FrameLength(s) = l[Len(s)]
    BY DEF FrameLength
<1> QED BY <1>5, <1>6

LEMMA FrameLengthAppend ==
    /\ FrameLength(<< >>) = 0
    /\ \A s \in Seq(Seq(Piece)) : FrameLength(s) \in Int
    /\ \A s \in Seq(Seq(Piece)), x \in Seq(Piece) :
        FrameLength(Append(s, x)) = FrameLength(s) + STARTCODE_SIZE + NaluLength(x)
<1>1. FrameLength(<< >>) = 0
    <2>1. << >> \in Seq(Seq(Piece)) /\ Len(<< >>) = 0
        OBVIOUS
    <2> QED BY <2>1, FrameSum DEF Adds
<1>2. ASSUME NEW s \in Seq(Seq(Piece)) PROVE FrameLength(s) \in Int
    <2>1. Len(s) \in 0..Len(s)
        OBVIOUS
    <2> QED BY <2>1, FrameSum DEF Adds
<1>3. ASSUME NEW s \in Seq(Seq(Piece)), NEW x \in Seq(Piece)
      PROVE  FrameLength(Append(s, x)) = FrameLength(s) + STARTCODE_SIZE + NaluLength(x)
    <2> DEFINE t == Append(s, x)
    <2>1. /\ t \in Seq(Seq(Piece)) /\ Len(s) \in Nat /\ Len(t) = Len(s) + 1
          /\ \A i \in 1..Len(s) : t[i] = s[i]
          /\ t[Len(s) + 1] = x
        OBVIOUS
    <2> HIDE DEF t
    <2>2. PICK l : /\ Adds(l, Len(s), 0, StartCodesAndLens(s))
                   /\ FrameLength(s) = l[Len(s)]
        BY FrameSum
    <2>3. PICK m : /\ Adds(m, Len(t), 0, StartCodesAndLens(t))
                   /\ FrameLength(t) = m[Len(t)]
        BY <2>1, FrameSum
    <2>4. \A i \in 1..Len(s) : StartCodesAndLens(s)[i] = StartCodesAndLens(t)[i]
        BY <2>1 DEF StartCodesAndLens
    <2>5. m[Len(s)] = l[Len(s)]
        BY <2>1, <2>2, <2>3, <2>4, SameSum
    <2>6. m[Len(t)] = m[Len(s)] + (STARTCODE_SIZE + NaluLength(x))
        <3>1. /\ Len(t) \in 1..Len(t) /\ Len(t) - 1 = Len(s)
              /\ StartCodesAndLens(t)[Len(t)] = STARTCODE_SIZE + NaluLength(x)
            BY <2>1 DEF StartCodesAndLens
        <3> QED BY <2>3, <3>1 DEF Adds
    <2>7. FrameLength(s) \in Int /\ NaluLength(x) \in Int
        BY <1>2, NaluLengthAppend
    <2>8. FrameLength(t) = FrameLength(s) + STARTCODE_SIZE + NaluLength(x)
        BY <2>2, <2>3, <2>5, <2>6, <2>7 DEF STARTCODE_SIZE
    <2> QED BY <2>8 DEF t
<1> QED BY <1>1, <1>2, <1>3

LEMMA NaluLengthOne ==
    ASSUME NEW x \in Piece
    PROVE  /\ <<x>> \in Seq(Piece) /\ <<x>> # << >>
           /\ NaluLength(<<x>>) = x.len
<1>1. << >> \in Seq(Piece) /\ Append(<< >>, x) = <<x>> /\ x.len \in Int
    BY DEF Piece
<1>2. NaluLength(<<x>>) = NaluLength(<< >>) + x.len
    BY <1>1, NaluLengthAppend
<1> QED BY <1>1, <1>2, NaluLengthAppend

-----------------------------------------------------------------------------
(* What the turns of the loop over fragments write.                        *)

LEMMA FuHeaders == FuHeadersSize = 3
BY DEF FuHeadersSize, FU_PAYLOAD_HEADER_SIZE, FU_HEADER_SIZE

FragmentLengths ==
    [i \in 1..packetCount |->
        HeaderLength(i) + (Fragment(i).packetDataLength - FuHeadersSize)]

LEMMA FragmentFacts ==
    ASSUME Callers, IInv, NEW i \in 1..packetCount
    PROVE  /\ Fragment(i) \in Packets
           /\ Fragment(i).packetDataLength \in Nat
           /\ HeaderLength(i) \in Nat
           /\ tailIndex + i - 1 \in Nat
<1>1. tailIndex + i - 1 \in 0..(headIndex - 1)
    BY DEF IInv, QueueTypes, QueueConsistent
<1>2. Fragment(i) \in Packets
    BY <1>1 DEF IInv, QueueConsistent, Fragment
<1> QED BY <1>1, <1>2, PacketFacts DEF HeaderLength, NALU_HEADER_SIZE

LEMMA AssembledLengthSum ==
    ASSUME Callers, IInv
    PROVE  Adds(AssembledLength, packetCount, 0, FragmentLengths)
<1> DEFINE n == packetCount
           v == [i \in 1..n |-> HeaderLength(i)]
           w == [i \in 1..n |-> Fragment(i).packetDataLength - FuHeadersSize]
           Is(l) == l = [i \in 0..n |->
                IF i = 0 THEN 0
                ELSE l[i - 1] + HeaderLength(i)
                              + (Fragment(i).packetDataLength - FuHeadersSize)]
           l == CHOOSE l : Is(l)
<1>1. n \in Nat /\ 0 \in Int
    BY DEF IInv, QueueTypes
<1>2. \A i \in 1..n :
        /\ v[i] = HeaderLength(i)
        /\ w[i] = Fragment(i).packetDataLength - FuHeadersSize
        /\ v[i] \in Int /\ w[i] \in Int /\ FragmentLengths[i] \in Int
        /\ FragmentLengths[i] = v[i] + w[i]
    BY FragmentFacts, FuHeaders DEF FragmentLengths
<1>3. ASSUME NEW m PROVE Is(m) <=> Adds2(m, n, 0, v, w)
    <2>1. \A i \in 0..n : i = 0 \/ i \in 1..n
        BY <1>1
    <2>2. 0 \in 0..n /\ \A i \in 1..n : i # 0 /\ i \in 0..n
        BY <1>1
    <2> HIDE DEF n, v, w
    <2>3. ASSUME Is(m) PROVE Adds2(m, n, 0, v, w)
        <3>1. m = [i \in 0..n |-> m[i]] /\ m[0] = 0
            BY <2>2, <2>3
        <3>2. ASSUME NEW i \in 1..n
              PROVE  m[i] = m[i - 1] + HeaderLength(i)
                            + (Fragment(i).packetDataLength - FuHeadersSize)
            BY <2>2, <2>3
        <3> QED BY <1>2, <3>1, <3>2, Zenon DEF Adds2
    <2>4. ASSUME Adds2(m, n, 0, v, w) PROVE Is(m)
        <3>1. \A i \in 1..n :
                m[i] = m[i - 1] + HeaderLength(i)
                       + (Fragment(i).packetDataLength - FuHeadersSize)
            BY <1>2, <2>4, Zenon DEF Adds2
        <3>2. m = [i \in 0..n |-> m[i]] /\ m[0] = 0
            BY <2>4, Zenon DEF Adds2
        <3>3. \A i \in 0..n : m[i] = IF i = 0 THEN 0
                ELSE m[i - 1] + HeaderLength(i)
                              + (Fragment(i).packetDataLength - FuHeadersSize)
            BY <2>1, <3>1, <3>2, Zenon
        <3> QED BY <3>2, <3>3, Zenon
    <2> QED BY <2>3, <2>4
<1>4. ASSUME NEW m PROVE Is(m) <=> Adds(m, n, 0, FragmentLengths)
    <2> HIDE DEF n, v, w, Is
    <2> QED BY <1>1, <1>2, <1>3, TwoWeights
<1>5. \E m : Adds(m, n, 0, FragmentLengths)
    BY <1>1, <1>2, AddsExists
<1>6. Adds(l, n, 0, FragmentLengths)
    <2> HIDE DEF Is
    <2> QED BY <1>4, <1>5, Zenon
<1>7. AssembledLength = l
    BY DEF AssembledLength
<1> QED BY <1>6, <1>7

LEMMA PiecesFacts ==
    ASSUME Callers, IInv, NEW i \in 1..packetCount
    PROVE  /\ Pieces(i) \in Seq(Piece)
           /\ RestatedHeader(tailIndex + i - 1) \in Piece
           /\ Bytes(tailIndex + i - 1, FuHeadersSize,
                    Fragment(i).packetDataLength - FuHeadersSize) \in Piece
<1>1. /\ RestatedHeader(tailIndex + i - 1) \in Piece
      /\ Bytes(tailIndex + i - 1, FuHeadersSize,
               Fragment(i).packetDataLength - FuHeadersSize) \in Piece
    BY FragmentFacts, FuHeaders
       DEF Piece, RestatedHeader, Bytes, NALU_HEADER_SIZE
<1> QED BY <1>1 DEF Pieces

LEMMA AssembledPieces ==
    ASSUME Callers, IInv
    PROVE  /\ Assembled \in [0..packetCount -> Seq(Piece)]
           /\ Assembled[0] = << >>
           /\ \A i \in 1..packetCount : Assembled[i] = Assembled[i - 1] \o Pieces(i)
<1> DEFINE n == packetCount
           X == Seq(Piece)
           G == [i \in 1..n |-> [s \in X |-> s \o Pieces(i)]]
           Is(a) == a = [i \in 0..n |-> IF i = 0 THEN << >> ELSE a[i - 1] \o Pieces(i)]
           a == CHOOSE a : Is(a)
<1>1. n \in Nat /\ << >> \in X
    BY DEF IInv, QueueTypes
<1>2. G \in [1..n -> [X -> X]]
    BY PiecesFacts
<1>3. Recursive(n, X, << >>, G)
    <2> HIDE DEF G, X
    <2> QED BY <1>1, <1>2, Recursion
<1>4. PICK f \in [0..n -> X] : f[0] = << >> /\ \A i \in 1..n : f[i] = G[i][f[i - 1]]
    <2> HIDE DEF G, X
    <2> QED BY <1>3, Zenon DEF Recursive
<1>5. ASSUME NEW i \in 1..n PROVE f[i] = f[i - 1] \o Pieces(i)
    <2>1. i - 1 \in 0..n
        BY <1>1
    <2>2. f[i - 1] \in X
        <3> HIDE DEF X
        <3> QED BY <2>1
    <2>3. G[i][f[i - 1]] = f[i - 1] \o Pieces(i)
        BY <2>2
    <2> QED BY <1>4, <2>3
<1>6. Is(f)
    <2>1. \A i \in 0..n : f[i] = IF i = 0 THEN << >> ELSE f[i - 1] \o Pieces(i)
        BY <1>4, <1>5
    <2> QED BY <2>1
<1>7. Is(a)
    <2> HIDE DEF Is
    <2> QED BY <1>6, Zenon
<1>8. a[0] = << >> /\ \A i \in 1..n : a[i] = a[i - 1] \o Pieces(i)
    <2>1. 0 \in 0..n /\ \A i \in 1..n : i # 0 /\ i \in 0..n
        BY <1>1
    <2> HIDE DEF a
    <2> QED BY <1>7, <2>1
<1>9. a \in [0..n -> X]
    <2> DEFINE S == {i \in 0..n : a[i] \in X}
    <2> HIDE DEF a
    <2>1. 0 \in S
        <3> HIDE DEF X
        <3>1. 0 \in 0..n /\ a[0] \in X
            BY <1>1, <1>8
        <3> QED BY <3>1
    <2>2. ASSUME NEW i \in 1..n, i - 1 \in S PROVE i \in S
        <3>1. a[i - 1] \in X /\ Pieces(i) \in X /\ i \in 0..n
            BY <1>1, <2>2, PiecesFacts
        <3>2. a[i - 1] \o Pieces(i) \in X
            BY <3>1
        <3> QED BY <1>8, <3>1, <3>2
    <2>3. \A i \in 0..n : i \in S
        <3> HIDE DEF S
        <3> QED BY <1>1, <2>1, <2>2, UpTo
    <2> HIDE DEF X
    <2> QED BY <1>7, <2>3
<1>10. Assembled = a
    BY DEF Assembled
<1> QED BY <1>8, <1>9, <1>10

(* In ascending order of slots, from lo to hi: behind bytes of a packet    *)
(* come only later packets.                                                *)
Ascending(s, lo, hi) ==
    \A i \in 1..Len(s) :
        /\ s[i].slot \in lo..hi
        /\ \A j \in 1..(i - 1) : s[j].header \/ s[j].slot < s[i].slot

LEMMA AscendingAppend ==
    ASSUME NEW s \in Seq(Piece), NEW lo \in Nat, NEW hi \in Nat, NEW h \in Int, h <= hi,
           Ascending(s, lo, h), NEW x \in Piece, x.slot \in lo..hi,
           \A j \in 1..Len(s) : s[j].header \/ s[j].slot < x.slot
    PROVE  /\ Append(s, x) \in Seq(Piece) /\ Append(s, x) # << >>
           /\ Ascending(Append(s, x), lo, hi)
           /\ NaluLength(Append(s, x)) = NaluLength(s) + x.len
<1> DEFINE t == Append(s, x)
<1>1. /\ t \in Seq(Piece) /\ t # << >>
      /\ Len(s) \in Nat /\ Len(t) = Len(s) + 1 /\ t[Len(s) + 1] = x
      /\ \A i \in 1..Len(s) : t[i] = s[i] /\ s[i] \in Piece
    OBVIOUS
<1>2. Ascending(t, lo, hi)
    <2> HIDE DEF t
    <2>1. ASSUME NEW i \in 1..Len(t)
          PROVE  /\ t[i].slot \in lo..hi
                 /\ \A j \in 1..(i - 1) : t[j].header \/ t[j].slot < t[i].slot
        <3>1. CASE i = Len(s) + 1
            <4>1. \A j \in 1..(i - 1) : j \in 1..Len(s)
                BY <1>1, <3>1
            <4> QED BY <1>1, <3>1, <4>1
        <3>2. CASE i \in 1..Len(s)
            <4>1. s[i].slot \in lo..h
                /\ \A j \in 1..(i - 1) : s[j].header \/ s[j].slot < s[i].slot
                BY <3>2 DEF Ascending
            <4>2. \A j \in 1..(i - 1) : j \in 1..Len(s)
                BY <1>1, <3>2
            <4>3. s[i].slot \in lo..hi
                BY <4>1
            <4> QED BY <1>1, <3>2, <4>1, <4>2, <4>3
        <3> QED BY <1>1, <3>1, <3>2
    <2> QED BY <2>1 DEF Ascending
<1> QED BY <1>1, <1>2, NaluLengthAppend

(* What k turns have written: nothing twice, and as long as they counted.  *)
WrittenBy(k) ==
    /\ Ascending(Assembled[k], tailIndex, tailIndex + k - 1)
    /\ NaluLength(Assembled[k]) = AssembledLength[k]
    /\ AssembledLength[k] \in Int
    /\ k > 0 => Assembled[k] # << >>

LEMMA TurnsWrite ==
    ASSUME Callers, IInv
    PROVE  \A k \in 0..packetCount : WrittenBy(k)
<1> DEFINE S == {k \in 0..packetCount : WrittenBy(k)}
<1>1. packetCount \in Nat /\ tailIndex \in Nat /\ 0 \in 0..packetCount
    BY DEF IInv, QueueTypes
<1>2. \A k \in 1..packetCount : FragmentLengths[k] \in Int
    BY FragmentFacts, FuHeaders DEF FragmentLengths
<1>3. AssembledLength \in [0..packetCount -> Int]
    BY <1>1, <1>2, AssembledLengthSum, AddsIntegers
<1>4. AssembledLength[0] = 0
      /\ \A k \in 1..packetCount :
            AssembledLength[k] = AssembledLength[k - 1] + FragmentLengths[k]
    BY AssembledLengthSum, Zenon DEF Adds
<1>5. 0 \in S
    <2>1. Assembled[0] = << >> /\ NaluLength(<< >>) = 0
        BY AssembledPieces, NaluLengthAppend
    <2>2. Ascending(<< >>, tailIndex, tailIndex + 0 - 1)
        BY DEF Ascending
    <2>3. WrittenBy(0)
        BY <1>4, <2>1, <2>2 DEF WrittenBy
    <2> QED BY <1>1, <2>3
<1>6. ASSUME NEW k \in 1..packetCount, k - 1 \in S PROVE k \in S
    <2> DEFINE s == Assembled[k - 1]
               slot == tailIndex + k - 1
               len == Fragment(k).packetDataLength - FuHeadersSize
               h == RestatedHeader(slot)
               b == Bytes(slot, FuHeadersSize, len)
    <2>1. k - 1 \in 0..packetCount /\ k \in 0..packetCount /\ WrittenBy(k - 1)
        BY <1>6
    <2>2. s \in Seq(Piece) /\ h \in Piece /\ b \in Piece /\ slot \in Nat /\ len \in Int
        <3>1. s \in Seq(Piece) /\ h \in Piece /\ b \in Piece
            BY <2>1, AssembledPieces, PiecesFacts
        <3>2. slot \in Nat /\ len \in Int
            BY FragmentFacts, FuHeaders
        <3> QED BY <3>1, <3>2
    <2>3. /\ h.slot = slot /\ h.header /\ h.len = NALU_HEADER_SIZE
          /\ b.slot = slot /\ b.len = len
        BY DEF RestatedHeader, Bytes
    <2>4. Assembled[k] = s \o Pieces(k)
        BY AssembledPieces
    <2>5. AssembledLength[k] = NaluLength(s) + HeaderLength(k) + len
          /\ AssembledLength[k] \in Int
        <3>1. FragmentLengths[k] = HeaderLength(k) + len
            BY DEF FragmentLengths
        <3>2. NaluLength(s) = AssembledLength[k - 1] /\ NaluLength(s) \in Int
            BY <1>3, <2>1 DEF WrittenBy
        <3> HIDE DEF s, len
        <3> QED BY <1>3, <1>4, <2>2, <3>1, <3>2, FragmentFacts
    <2>6. Ascending(s, tailIndex, slot - 1)
        <3>1. tailIndex + (k - 1) - 1 = slot - 1
            BY <1>1
        <3> QED BY <2>1, <3>1 DEF WrittenBy
    <2>7. slot \in tailIndex..slot /\ slot - 1 <= slot /\ slot - 1 \in Int
        BY <1>1
    <2>8. \A j \in 1..Len(s) : s[j].slot < slot
        <3> HIDE DEF s, slot
        <3> QED BY <1>1, <2>2, <2>6 DEF Ascending
    <2>9. CASE Fragment(k).fu.s
        <3> DEFINE t == Append(s, h)
        <3>1. Pieces(k) = <<h>> \o <<b>> /\ HeaderLength(k) = NALU_HEADER_SIZE
            <4>1. Pieces(k) = <<h>> \o <<b>>
                BY <2>9, Zenon DEF Pieces
            <4> QED BY <2>9, <4>1 DEF HeaderLength
        <3>2. Assembled[k] = Append(t, b)
            <4> HIDE DEF s, h, b
            <4>1. s \o (<<h>> \o <<b>>) = Append(Append(s, h), b)
                BY <2>2
            <4> QED BY <2>4, <3>1, <4>1
        <3> HIDE DEF s, h, b, slot, len
        <3>3. /\ t \in Seq(Piece) /\ Ascending(t, tailIndex, slot)
              /\ NaluLength(t) = NaluLength(s) + NALU_HEADER_SIZE
            BY <1>1, <2>2, <2>3, <2>6, <2>7, <2>8, AscendingAppend
        <3>4. \A j \in 1..Len(t) : t[j].header \/ t[j].slot < slot
            <4>1. \A j \in 1..Len(t) : t[j] = IF j = Len(s) + 1 THEN h ELSE s[j]
                BY <2>2
            <4>2. \A j \in 1..Len(t) : j = Len(s) + 1 \/ j \in 1..Len(s)
                BY <2>2
            <4> HIDE DEF t
            <4> QED BY <2>3, <2>8, <4>1, <4>2
        <3> HIDE DEF t
        <3>5. /\ Append(t, b) # << >> /\ Ascending(Append(t, b), tailIndex, slot)
              /\ NaluLength(Append(t, b)) = NaluLength(t) + len
            BY <1>1, <2>2, <2>3, <2>7, <3>3, <3>4, AscendingAppend
        <3>6. NaluLength(Append(t, b)) = AssembledLength[k]
            BY <2>5, <3>1, <3>3, <3>5
        <3>7. WrittenBy(k)
            BY <2>5, <3>2, <3>5, <3>6 DEF WrittenBy, slot
        <3> QED BY <2>1, <3>7
    <2>10. CASE ~Fragment(k).fu.s
        <3>1. Pieces(k) = <<b>> /\ HeaderLength(k) = 0
            BY <2>10 DEF Pieces, HeaderLength
        <3>2. Assembled[k] = Append(s, b)
            <4> HIDE DEF s, b
            <4> QED BY <2>2, <2>4, <3>1
        <3> HIDE DEF s, b, slot, len
        <3>3. /\ Append(s, b) # << >> /\ Ascending(Append(s, b), tailIndex, slot)
              /\ NaluLength(Append(s, b)) = NaluLength(s) + len
            BY <1>1, <2>2, <2>3, <2>6, <2>7, <2>8, AscendingAppend
        <3>4. NaluLength(Append(s, b)) = AssembledLength[k]
            BY <2>2, <2>5, <3>1, <3>3, NaluLengthAppend
        <3>5. WrittenBy(k)
            BY <2>5, <3>2, <3>3, <3>4 DEF WrittenBy, slot
        <3> QED BY <2>1, <3>5
    <2> QED BY <2>9, <2>10
<1>7. \A k \in 0..packetCount : k \in S
    <2> HIDE DEF S
    <2> QED BY <1>1, <1>5, <1>6, UpTo
<1> QED BY <1>7

-----------------------------------------------------------------------------
(* What one call writes, and where it stops reading.                       *)

LEMMA SingleWrites ==
    ASSUME NEW size, DepacketizeSingleNaluPacket(size, "OK")
    PROVE  /\ nalu' = <<Bytes(tailIndex, 0, CurrentPacket.packetDataLength)>>
           /\ naluDataLength' = CurrentPacket.packetDataLength
BY DEF DepacketizeSingleNaluPacket

LEMMA FragmentsWrite ==
    ASSUME Callers, IInv, packetCount # 0, NEW size, NEW r,
           CurrentPacket.header.type = FU_PACKET_TYPE,
           DepacketizeFragmentationUnitPacket(size, r)
    PROVE  \E k \in 0..packetCount :
            /\ nalu' = Assembled[k]
            /\ tailIndex' = tailIndex + k /\ curPacketIndex = 0
            /\ r = "OK" => k > 0 /\ naluDataLength' = AssembledLength[k]
<1>1. curPacketIndex = 0
    BY FragmentsKeepNoOffset DEF AP_PACKET_TYPE, FU_PACKET_TYPE
<1>2. PICK k \in 0..packetCount :
        /\ Consume(k)
        /\ nalu' = Assembled[k]
        /\ \/ /\ k = packetCount \/ (k > 0 /\ Fragment(k).fu.e)
              /\ naluDataLength' = AssembledLength[k]
           \/ r = "MALFORMED_PACKET"
           \/ r = "OUT_OF_MEMORY"
    BY DEF DepacketizeFragmentationUnitPacket
<1>3. packetCount \in Nat
    BY DEF IInv, QueueTypes
<1>4. r = "OK" => k > 0 /\ naluDataLength' = AssembledLength[k]
    BY <1>2, <1>3
<1> QED BY <1>1, <1>2, <1>4 DEF Consume

LEMMA AggregationWrites ==
    ASSUME Callers, IInv, packetCount # 0, NEW size, NEW r,
           CurrentPacket.header.type = AP_PACKET_TYPE,
           DepacketizeAggregationPacket(size, r)
    PROVE  \/ nalu' = << >> /\ r # "OK"
           \/ \E from \in Nat, n \in Nat :
                /\ nalu' = <<Bytes(tailIndex, from, n)>>
                /\ naluDataLength' = n
                /\ from >= curPacketIndex
                /\ \/ tailIndex' = tailIndex + 1 /\ curPacketIndex' = 0
                   \/ tailIndex' = tailIndex /\ curPacketIndex' = from + n
<1> DEFINE at == IF curPacketIndex = 0 THEN AP_HEADER_SIZE ELSE curPacketIndex
           data == at + AP_NALU_LENGTH_FIELD_SIZE
           n == CurrentPacket.sizes[at]
<1>1. at \in Nat /\ at >= curPacketIndex /\ at \in UnitOffsets(CurrentPacket)
    BY DEF IInv, QueueTypes, CursorInPacket, UnitOffsets, AP_HEADER_SIZE
<1> HIDE DEF at
<1>2. CASE nalu' = << >> /\ r # "OK"
    BY <1>2
<1>3. CASE /\ data <= CurrentPacket.packetDataLength
           /\ nalu' = <<Bytes(tailIndex, data, n)>>
           /\ naluDataLength' = n
           /\ MoveTo(data + n)
    <2>1. at \in DOMAIN CurrentPacket.sizes /\ n \in Nat
        BY <1>1, <1>3, TailPacket, PacketFacts, Zenon
    <2>2. data \in Nat /\ data >= curPacketIndex
        BY <1>1 DEF IInv, QueueTypes, AP_NALU_LENGTH_FIELD_SIZE
    <2>3. \/ tailIndex' = tailIndex + 1 /\ curPacketIndex' = 0
          \/ tailIndex' = tailIndex /\ curPacketIndex' = data + n
        BY <1>3 DEF MoveTo, Consume
    <2> HIDE DEF data, n
    <2> QED BY <1>3, <2>1, <2>2, <2>3
<1> QED BY <1>2, <1>3 DEF DepacketizeAggregationPacket, at

LEMMA BytesFacts ==
    ASSUME NEW slot \in Nat, NEW from \in Nat, NEW n \in Nat
    PROVE  /\ <<Bytes(slot, from, n)>> \in Seq(Piece)
           /\ <<Bytes(slot, from, n)>> # << >>
           /\ NaluLength(<<Bytes(slot, from, n)>>) = n
<1>1. Bytes(slot, from, n) \in Piece /\ Bytes(slot, from, n).len = n
    BY DEF Bytes, Piece
<1> QED BY <1>1, NaluLengthOne

(* A NAL unit returned with OK has the length left in pNalu.               *)
LEMMA OkWrites ==
    ASSUME Callers, IInv, packetCount # 0, NEW size, DepacketizeCurrent(size, "OK")
    PROVE  /\ nalu' \in Seq(Piece) /\ nalu' # << >>
           /\ naluDataLength' = NaluLength(nalu')
<1>0. tailIndex \in Nat /\ 0 \in Nat
    BY DEF IInv, QueueTypes
<1>1. CASE /\ SingleType(CurrentPacket.header.type)
           /\ DepacketizeSingleNaluPacket(size, "OK")
    <2> DEFINE s == <<Bytes(tailIndex, 0, CurrentPacket.packetDataLength)>>
    <2>1. nalu' = s /\ naluDataLength' = CurrentPacket.packetDataLength
        BY <1>1, SingleWrites
    <2>2. s \in Seq(Piece) /\ s # << >> /\ NaluLength(s) = CurrentPacket.packetDataLength
        BY <1>0, TailPacket, BytesFacts
    <2> HIDE DEF s
    <2> QED BY <2>1, <2>2
<1>2. CASE /\ CurrentPacket.header.type = FU_PACKET_TYPE
           /\ DepacketizeFragmentationUnitPacket(size, "OK")
    <2>1. PICK k \in 0..packetCount :
            nalu' = Assembled[k] /\ k > 0 /\ naluDataLength' = AssembledLength[k]
        BY <1>2, FragmentsWrite
    <2>2. WrittenBy(k) /\ Assembled[k] \in Seq(Piece)
        BY <2>1, TurnsWrite, AssembledPieces
    <2> QED BY <2>1, <2>2 DEF WrittenBy
<1>3. CASE /\ CurrentPacket.header.type = AP_PACKET_TYPE
           /\ DepacketizeAggregationPacket(size, "OK")
    <2>1. PICK from \in Nat, n \in Nat :
            nalu' = <<Bytes(tailIndex, from, n)>> /\ naluDataLength' = n
        BY <1>3, AggregationWrites
    <2> DEFINE s == <<Bytes(tailIndex, from, n)>>
    <2>2. s \in Seq(Piece) /\ s # << >> /\ NaluLength(s) = n
        BY <1>0, BytesFacts
    <2>3. nalu' = s
        BY <2>1
    <2> HIDE DEF s
    <2> QED BY <2>1, <2>2, <2>3
<1> QED BY <1>1, <1>2, <1>3 DEF DepacketizeCurrent

-----------------------------------------------------------------------------
(* What GetFrame has gathered when it goes on.                             *)
FrameInv ==
    /\ frameDataLength \in Nat /\ frameIndex \in Int
    /\ \/ Idle
       \/ /\ frame \in Seq(Seq(Piece))
          /\ \A i \in 1..Len(frame) : frame[i] # << >>
          /\ frameIndex = FrameLength(frame)

LEMMA FrameKept ==
    ASSUME Callers, FrameInv, UNCHANGED frameOut
    PROVE  FrameInv'
BY Zenon DEF FrameInv, frameOut, Idle

LEMMA TurnKeepsFrame ==
    ASSUME Callers, IInv, FrameInv, GetFrameTurn
    PROVE  FrameInv'
<1> DEFINE room == frameDataLength - frameIndex - STARTCODE_SIZE
<1>0. frameDataLength \in Nat /\ frameIndex \in Int
    BY DEF FrameInv
<1>1. CASE \E r : EndFrame(r) /\ UNCHANGED <<frame, frameIndex>>
    BY <1>0, <1>1 DEF EndFrame, FrameInv, Idle
<1>2. CASE /\ ~Idle /\ room > 0 /\ packetCount # 0
           /\ DepacketizeCurrent(room, "OK")
           /\ frame' = Append(frame, nalu')
           /\ frameIndex' = frameIndex + STARTCODE_SIZE + naluDataLength'
           /\ UNCHANGED frameDataLength
    <2>0. nalu' \in Seq(Piece) /\ nalu' # << >> /\ naluDataLength' = NaluLength(nalu')
        BY <1>2, OkWrites
    <2>1. /\ frame \in Seq(Seq(Piece))
          /\ \A i \in 1..Len(frame) : frame[i] # << >>
          /\ frameIndex = FrameLength(frame)
        BY <1>2, Zenon DEF FrameInv
    <2>2. frame' \in Seq(Seq(Piece))
        BY <1>2, <2>0, <2>1
    <2>3. \A i \in 1..Len(frame') : frame'[i] # << >>
        <3>1. Len(frame) \in Nat /\ Len(frame') = Len(frame) + 1
            /\ \A i \in 1..Len(frame') :
                frame'[i] = IF i = Len(frame) + 1 THEN nalu' ELSE frame[i]
            BY <1>2, <2>0, <2>1
        <3>2. \A i \in 1..Len(frame') : i = Len(frame) + 1 \/ i \in 1..Len(frame)
            BY <3>1
        <3> QED BY <2>0, <2>1, <3>1, <3>2
    <2>4. /\ FrameLength(frame') = FrameLength(frame) + STARTCODE_SIZE + NaluLength(nalu')
          /\ FrameLength(frame') \in Int
        BY <1>2, <2>0, <2>1, <2>2, FrameLengthAppend
    <2>5. frameIndex' = FrameLength(frame')
        BY <1>2, <2>0, <2>1, <2>4
    <2>6. frameDataLength' \in Nat /\ frameIndex' \in Int
        BY <1>0, <1>2, <2>4, <2>5
    <2> QED BY <2>2, <2>3, <2>5, <2>6, Zenon DEF FrameInv
<1> QED BY <1>1, <1>2 DEF GetFrameTurn

LEMMA NextFrameInv ==
    ASSUME Callers, IInv, FrameInv, [Next]_vars
    PROVE  FrameInv'
<1>1. CASE \E n \in ArrayLengths : H265Depacketizer_Init(n)
    <2>1. CASE Refuse("BAD_PARAM")
        BY <2>1, FrameKept DEF Refuse
    <2>2. CASE frameIndex' = 0 /\ frameDataLength' = 0
        BY <2>2 DEF FrameInv, Idle
    <2> QED BY <1>1, <2>1, <2>2 DEF H265Depacketizer_Init
<1>2. CASE \E p \in Packets : H265Depacketizer_AddPacket(p)
    BY <1>2, FrameKept DEF H265Depacketizer_AddPacket, Refuse
<1>3. CASE GetNalu
    BY <1>3, FrameKept DEF GetNalu, H265Depacketizer_GetNalu, Refuse
<1>4. CASE GetFrame
    <2>1. PICK size \in FrameSizes : H265Depacketizer_GetFrame(size)
        BY <1>4 DEF GetFrame
    <2>2. CASE Refuse("BAD_PARAM") \/ Refuse("NO_MORE_FRAMES")
        BY <2>2, FrameKept DEF Refuse
    <2>3. CASE frame' = << >> /\ frameIndex' = 0 /\ frameDataLength' = size
        <3>1. /\ << >> \in Seq(Seq(Piece)) /\ \A i \in 1..Len(<< >>) : FALSE
              /\ FrameLength(<< >>) = 0 /\ size \in Nat
            BY FrameLengthAppend DEF Callers
        <3>2. frame' \in Seq(Seq(Piece)) /\ frameIndex' = FrameLength(frame')
              /\ \A i \in 1..Len(frame') : frame'[i] # << >>
            BY <2>3, <3>1
        <3>3. frameDataLength' \in Nat /\ frameIndex' \in Int
            BY <2>3, <3>1
        <3> QED BY <3>2, <3>3, Zenon DEF FrameInv
    <2> QED BY <2>1, <2>2, <2>3 DEF H265Depacketizer_GetFrame
<1>5. CASE GetFrameTurn
    BY <1>5, TurnKeepsFrame
<1>6. CASE NullArgument
    BY <1>6, FrameKept DEF NullArgument, Refuse
<1>7. CASE UNCHANGED vars
    BY <1>7, FrameKept DEF vars, frameOut
<1> QED BY <1>1, <1>2, <1>3, <1>4, <1>5, <1>6, <1>7 DEF Next

LEMMA StepOfOkFrame ==
    ASSUME Callers, IInv, FrameInv, Next, ~Idle, Idle', result' = "OK"
    PROVE  /\ packetCount' = 0
           /\ \A i \in DOMAIN frame' : frame'[i] # << >>
           /\ frameIndex' = FrameLength(frame')
           /\ frameIndex' <= frameDataLength
<1>1. GetFrameTurn
    BY DEF Next, GetNalu, GetFrame
<1>2. frameDataLength \in Nat /\ frameIndex \in Int
    BY DEF FrameInv
<1>3. /\ frameDataLength - frameIndex - STARTCODE_SIZE > 0
      /\ packetCount = 0
      /\ UNCHANGED <<reading, frame, frameIndex>>
    BY <1>1 DEF GetFrameTurn, EndFrame, Idle, ReadResults
<1>4. /\ frame \in Seq(Seq(Piece))
      /\ \A i \in 1..Len(frame) : frame[i] # << >>
      /\ frameIndex = FrameLength(frame)
    BY <1>2, <1>3 DEF FrameInv, STARTCODE_SIZE
<1>5. DOMAIN frame = 1..Len(frame)
    BY <1>4
<1>6. packetCount' = 0 /\ frame' = frame /\ frameIndex' = frameIndex
    BY <1>3 DEF reading
<1>7. frameIndex <= frameDataLength
    BY <1>2, <1>3 DEF STARTCODE_SIZE
<1> QED BY <1>4, <1>5, <1>6, <1>7

-----------------------------------------------------------------------------
(* NAL units that arrived whole.                                           *)

(* The first n packets from the tail are the fragments of a NAL unit.      *)
FragmentsOfUnit(n) ==
    /\ \A i \in 1..n : IsFragment(i)
    /\ \A i \in 1..n : Fragment(i).fu.s <=> i = 1
    /\ \A i \in 1..n : Fragment(i).fu.e <=> i = n

(* The restated header and then the payload of each fragment.              *)
HeaderAndPayloads(pieces, k) ==
    /\ pieces \in Seq(Piece) /\ Len(pieces) = k + 1
    /\ pieces[1] = RestatedHeader(tailIndex)
    /\ \A i \in 1..k :
        pieces[i + 1] = Bytes(tailIndex + i - 1, FuHeadersSize,
                              Fragment(i).packetDataLength - FuHeadersSize)

LEMMA AssembledOfUnit ==
    ASSUME Callers, IInv, NEW n \in 1..packetCount, FragmentsOfUnit(n)
    PROVE  \A k \in 1..n : HeaderAndPayloads(Assembled[k], k)
<1> DEFINE S == {0} \cup {k \in 1..n : HeaderAndPayloads(Assembled[k], k)}
           b(i) == Bytes(tailIndex + i - 1, FuHeadersSize,
                         Fragment(i).packetDataLength - FuHeadersSize)
<1>1. /\ packetCount \in Nat /\ n \in Nat /\ n <= packetCount /\ tailIndex \in Nat
    BY DEF IInv, QueueTypes
<1>2. ASSUME NEW k \in 1..n, k - 1 \in S PROVE k \in S
    <2>1. k \in 1..packetCount /\ k \in 0..packetCount
        BY <1>1
    <2>2. Assembled[k] = Assembled[k - 1] \o Pieces(k)
        BY <2>1, AssembledPieces
    <2>3. b(k) \in Piece
        BY <2>1, PiecesFacts
    <2>4. CASE k = 1
        <3>1. Fragment(k).fu.s
            BY <2>4 DEF FragmentsOfUnit
        <3>2. Pieces(k) = <<RestatedHeader(tailIndex + k - 1)>> \o <<b(k)>>
            BY <3>1, Zenon DEF Pieces
        <3>3. Assembled[0] = << >> /\ tailIndex + 1 - 1 = tailIndex
            BY <1>1, AssembledPieces
        <3>4. RestatedHeader(tailIndex) \in Piece
            BY <1>1 DEF Piece, RestatedHeader, NALU_HEADER_SIZE
        <3>5. Assembled[1] = << >> \o (<<RestatedHeader(tailIndex)>> \o <<b(1)>>)
            BY <2>2, <2>4, <3>2, <3>3
        <3> HIDE DEF b
        <3>6. /\ Assembled[1] \in Seq(Piece) /\ Len(Assembled[1]) = 1 + 1
              /\ Assembled[1][1] = RestatedHeader(tailIndex)
              /\ Assembled[1][1 + 1] = b(1)
            BY <2>3, <2>4, <3>4, <3>5
        <3>7. HeaderAndPayloads(Assembled[1], 1)
            BY <3>6 DEF HeaderAndPayloads, b
        <3> QED BY <1>1, <2>4, <3>7
    <2>5. CASE k # 1
        <3>1. k - 1 \in 1..n /\ HeaderAndPayloads(Assembled[k - 1], k - 1)
            BY <1>1, <1>2, <2>5
        <3>2. Pieces(k) = <<b(k)>>
            <4>1. ~Fragment(k).fu.s
                BY <2>5 DEF FragmentsOfUnit
            <4>2. Pieces(k) = << >> \o <<b(k)>>
                BY <4>1, Zenon DEF Pieces
            <4> HIDE DEF b
            <4> QED BY <2>3, <4>2
        <3> DEFINE s == Assembled[k - 1]
        <3>3. /\ s \in Seq(Piece) /\ Len(s) = k
              /\ s[1] = RestatedHeader(tailIndex)
              /\ \A i \in 1..(k - 1) : s[i + 1] = b(i)
            BY <3>1 DEF HeaderAndPayloads
        <3> HIDE DEF s, b
        <3>4. Assembled[k] = Append(s, b(k))
            BY <2>2, <2>3, <3>2, <3>3 DEF s
        <3>5. /\ Append(s, b(k)) \in Seq(Piece) /\ Len(Append(s, b(k))) = k + 1
              /\ Append(s, b(k))[1] = RestatedHeader(tailIndex)
              /\ Append(s, b(k))[k + 1] = b(k)
              /\ \A i \in 1..(k - 1) : Append(s, b(k))[i + 1] = b(i)
            BY <1>1, <2>3, <2>5, <3>3
        <3>6. \A i \in 1..k : i = k \/ i \in 1..(k - 1)
            BY <1>1
        <3>7. HeaderAndPayloads(Assembled[k], k)
            BY <3>4, <3>5, <3>6 DEF HeaderAndPayloads, b
        <3> QED BY <3>7
    <2> QED BY <2>4, <2>5
<1>3. \A i \in 0..n : i \in S
    <2>1. 0 \in S
        OBVIOUS
    <2> HIDE DEF S
    <2> QED BY <1>1, <1>2, <2>1, UpTo
<1> QED BY <1>1, <1>3

(* The fragments of a NAL unit are consumed together, in a buffer that     *)
(* takes them; in any other, the call says so.                             *)
LEMMA FragmentsRead ==
    ASSUME Callers, IInv, NEW n \in 1..packetCount, FragmentsOfUnit(n),
           NEW size \in Int, NEW r, DepacketizeFragmentationUnitPacket(size, r),
           r = "OK" \/ \A i \in 1..n : AssembledLength[i] <= size
    PROVE  /\ r = "OK" /\ nalu' = Assembled[n] /\ tailIndex' = tailIndex + n
           /\ naluDataLength' = AssembledLength[n]
           /\ HeaderAndPayloads(nalu', n)
<1>1. PICK k \in 0..packetCount :
        /\ \A i \in 1..(k - 1) : ~Fragment(i).fu.e
        /\ Consume(k)
        /\ nalu' = Assembled[k]
        /\ \/ /\ k = packetCount \/ (k > 0 /\ Fragment(k).fu.e)
              /\ r = "OK"
              /\ naluDataLength' = AssembledLength[k]
           \/ /\ ~(k = packetCount \/ (k > 0 /\ Fragment(k).fu.e))
              /\ ~IsFragment(k + 1) /\ r # "OK"
           \/ /\ ~(k = packetCount \/ (k > 0 /\ Fragment(k).fu.e))
              /\ AssembledLength[k + 1] > size /\ r # "OK"
    BY DEF DepacketizeFragmentationUnitPacket
<1>2. packetCount \in Nat /\ n \in Nat /\ n <= packetCount /\ n >= 1
    BY DEF IInv, QueueTypes
<1>3. k <= n
    <2>1. CASE n < k
        <3>1. n \in 1..(k - 1)
            BY <1>2, <2>1
        <3> QED BY <1>1, <1>2, <3>1 DEF FragmentsOfUnit
    <2> QED BY <1>2, <2>1
<1>4. k >= n
    <2>1. CASE k < n
        <3>1. k + 1 \in 1..n /\ k # packetCount
            BY <1>2, <2>1
        <3>2. k > 0 => ~Fragment(k).fu.e
            <4>1. k > 0 => k \in 1..n /\ k # n
                BY <1>2, <2>1
            <4> QED BY <4>1 DEF FragmentsOfUnit
        <3>3. IsFragment(k + 1)
            BY <3>1 DEF FragmentsOfUnit
        <3>4. AssembledLength[k + 1] > size /\ r # "OK"
            BY <1>1, <3>1, <3>2, <3>3
        <3>5. AssembledLength[k + 1] <= size
            BY <3>1, <3>4
        <3>6. AssembledLength[k + 1] \in Int
            <4>1. k + 1 \in 0..packetCount
                BY <1>2, <3>1
            <4> QED BY <4>1, TurnsWrite DEF WrittenBy
        <3> QED BY <3>4, <3>5, <3>6
    <2> QED BY <1>2, <2>1
<1>5. k = n
    BY <1>2, <1>3, <1>4
<1>6. Fragment(n).fu.e
    BY <1>2 DEF FragmentsOfUnit
<1>7. HeaderAndPayloads(Assembled[n], n)
    BY <1>2, AssembledOfUnit
<1> QED BY <1>1, <1>2, <1>5, <1>6, <1>7 DEF Consume, HeaderAndPayloads

(* How long the fragments of a NAL unit are together, up to each of them.  *)
LEMMA LengthOfUnit ==
    ASSUME Callers, IInv, NEW n \in 1..packetCount, FragmentsOfUnit(n), NEW end,
           end[1] = NALU_HEADER_SIZE + (Fragment(1).packetDataLength - FuHeadersSize),
           \A i \in 2..n :
            end[i] = end[i - 1] + (Fragment(i).packetDataLength - FuHeadersSize)
    PROVE  \A i \in 1..n : AssembledLength[i] = end[i]
<1> DEFINE S == {0} \cup {i \in 1..n : AssembledLength[i] = end[i]}
<1>1. packetCount \in Nat /\ n \in Nat /\ n <= packetCount
    BY DEF IInv, QueueTypes
<1>2. ASSUME NEW i \in 1..n, i - 1 \in S PROVE i \in S
    <2>1. i \in 1..packetCount /\ i - 1 \in 0..packetCount
        BY <1>1
    <2>2. AssembledLength[i] = AssembledLength[i - 1] + FragmentLengths[i]
        BY <2>1, AssembledLengthSum, Zenon DEF Adds
    <2>3. FragmentLengths[i]
            = HeaderLength(i) + (Fragment(i).packetDataLength - FuHeadersSize)
        BY <2>1 DEF FragmentLengths
    <2>4. AssembledLength[0] = 0
        BY AssembledLengthSum, Zenon DEF Adds
    <2>5. Fragment(i).packetDataLength - FuHeadersSize \in Int
        BY <2>1, FragmentFacts, FuHeaders
    <2>6. CASE i = 1
        <3>1. HeaderLength(1) = NALU_HEADER_SIZE
            BY <2>6 DEF FragmentsOfUnit, HeaderLength
        <3> QED BY <2>2, <2>3, <2>4, <2>5, <2>6, <3>1 DEF NALU_HEADER_SIZE
    <2>7. CASE i # 1
        <3>1. HeaderLength(i) = 0
            BY <2>7 DEF FragmentsOfUnit, HeaderLength
        <3>2. i - 1 \in 1..n /\ i \in 2..n
            BY <1>1, <2>7
        <3>3. AssembledLength[i - 1] = end[i - 1]
            BY <1>2, <3>2
        <3>4. FragmentLengths[i] = Fragment(i).packetDataLength - FuHeadersSize
            BY <2>3, <2>5, <3>1
        <3> QED BY <2>2, <3>2, <3>3, <3>4
    <2> QED BY <2>6, <2>7
<1>3. \A i \in 0..n : i \in S
    <2>1. 0 \in S
        OBVIOUS
    <2> HIDE DEF S
    <2> QED BY <1>1, <1>2, <2>1, UpTo
<1> QED BY <1>1, <1>3

(* Whatever the call makes of fragments, it goes from one to the next of   *)
(* them, up to the first with an E bit at most.                            *)
LEMMA FragmentsConsumed ==
    ASSUME NEW size, NEW r, DepacketizeFragmentationUnitPacket(size, r)
    PROVE  \E k \in 0..packetCount :
            /\ tailIndex' = tailIndex + k
            /\ \A i \in 1..k : IsFragment(i)
            /\ \A i \in 1..(k - 1) : ~Fragment(i).fu.e
BY DEF DepacketizeFragmentationUnitPacket, Consume


-----------------------------------------------------------------------------
(* Whatever packets arrive and however calls are mixed, the queue indices  *)
(* agree and stay in the array, and the offset kept between calls is a     *)
(* boundary inside the aggregation packet at the tail.                     *)
THEOREM DepacketizerIsConsistent ==
    ASSUME Callers
    PROVE  Spec => []IInv
<1>1. Init => IInv
    BY InitInv
<1>2. IInv /\ [Next]_vars => IInv'
    BY NextInv
<1> QED BY <1>1, <1>2, PTL DEF Spec

(* AddPacket, which never checks headIndex, writes inside the array, and   *)
(* only slots it wrote are read.                                           *)
THEOREM QueueStaysConsistent ==
    ASSUME Callers
    PROVE  Spec => []QueueConsistent
BY DepacketizerIsConsistent, PTL DEF IInv

(* No NAL unit size is read away from a boundary or in another packet.     *)
THEOREM CursorStaysInPacket ==
    ASSUME Callers
    PROVE  Spec => []CursorInPacket
BY DepacketizerIsConsistent, PTL DEF IInv

(* An OK from GetFrame means the whole frame, with the length returned,    *)
(* whatever damaged packets were among those of the frame.                 *)
THEOREM OkMeansComplete ==
    ASSUME Callers
    PROVE  Spec => OkFrameIsComplete
<1> DEFINE P == ~Idle /\ Idle' /\ result' = "OK" =>
        /\ packetCount' = 0
        /\ \A i \in DOMAIN frame' : frame'[i] # << >>
        /\ frameIndex' = FrameLength(frame')
        /\ frameIndex' <= frameDataLength
<1>1. Init => FrameInv
    BY DEF Init, FrameInv, Idle
<1>2. IInv /\ FrameInv /\ [Next]_vars => FrameInv'
    BY NextFrameInv
<1>3. IInv /\ FrameInv /\ [Next]_vars => [P]_vars
    BY StepOfOkFrame
<1>4. Spec => []FrameInv
    BY <1>1, <1>2, DepacketizerIsConsistent, PTL DEF Spec
<1>5. Spec => [][P]_vars
    BY <1>3, <1>4, DepacketizerIsConsistent, PTL DEF Spec
<1> QED BY <1>5 DEF OkFrameIsComplete
=============================================================================
