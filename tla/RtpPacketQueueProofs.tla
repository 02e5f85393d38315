------------------------ MODULE RtpPacketQueueProofs ------------------------
(***************************************************************************)
(* Proofs about RtpPacketQueue, for every array length, every set of       *)
(* sequence numbers and packets: the index arithmetic, and that the ring   *)
(* implements PacketFifo; then about RtpSendHistory, for every range of    *)
(* the counter and every queue no longer than it.  What is proved of the   *)
(* queue alone does not use SeqModAssumption, the history's.               *)
(***************************************************************************)
EXTENDS RtpSendHistory, SequenceTheorems, TLAPS

Slots == 0..(arrayLength - 1)

(* The inductive invariant: none of its conjuncts is inductive alone,      *)
(* since what a call stores and where depends on all three counters.       *)
IInv == TypeOK /\ IndicesAgree /\ LiveSlotsStored

-----------------------------------------------------------------------------
(* Arithmetic of WRAP: one turn of the ring at most.                       *)

LEMMA WrapBelow ==
    ASSUME NEW n \in Nat, n >= 1, NEW x \in 0..(n - 1)
    PROVE  x % n = x
BY SMTT(20)

LEMMA WrapAbove ==
    ASSUME NEW n \in Nat, n >= 1, NEW x \in n..(2 * n - 1)
    PROVE  x % n = x - n
BY SMTT(20)

(* Where the k-th slot after a is, for every k up to a full turn.          *)
LEMMA WrapOnce ==
    ASSUME NEW n \in Nat, n >= 2, NEW a \in 0..(n - 1), NEW k \in 0..n
    PROVE  /\ a + k < n => (a + k) % n = a + k
           /\ a + k >= n => (a + k) % n = a + k - n
           /\ (a + k) % n \in 0..(n - 1)
<1>1. CASE a + k < n
    <2>1. a + k \in 0..(n - 1)  BY <1>1
    <2>2. (a + k) % n = a + k   BY <2>1, WrapBelow
    <2> QED BY <1>1, <2>1, <2>2
<1>2. CASE a + k >= n
    <2>1. a + k \in n..(2 * n - 1)  BY <1>2
    <2>2. (a + k) % n = a + k - n   BY <2>1, WrapAbove
    <2> QED BY <1>2, <2>1, <2>2
<1> QED BY <1>1, <1>2

(* Advancing a by one slot and then k slots is going k + 1 slots.          *)
LEMMA WrapNext ==
    ASSUME NEW n \in Nat, n >= 2, NEW a \in 0..(n - 1), NEW k \in 0..(n - 1)
    PROVE  /\ (a + 1) % n \in 0..(n - 1)
           /\ (((a + 1) % n) + k) % n = (a + (k + 1)) % n
<1> DEFINE b == (a + 1) % n
<1>1. /\ a + 1 < n => b = a + 1
      /\ a + 1 >= n => b = a + 1 - n
      /\ b \in 0..(n - 1)
    BY WrapOnce, 1 \in 0..n
<1>2. /\ a + (k + 1) < n => (a + (k + 1)) % n = a + (k + 1)
      /\ a + (k + 1) >= n => (a + (k + 1)) % n = a + (k + 1) - n
    BY WrapOnce, k + 1 \in 0..n
<1>3. /\ b + k < n => (b + k) % n = b + k
      /\ b + k >= n => (b + k) % n = b + k - n
    BY <1>1, WrapOnce, k \in 0..n
<1> HIDE DEF b
<1>4. (b + k) % n = (a + (k + 1)) % n
    BY <1>1, <1>2, <1>3
<1> QED BY <1>1, <1>4 DEF b

(* Advancing the k-th slot after a by one is going k + 1 slots.            *)
LEMMA WrapCommutes ==
    ASSUME NEW n \in Nat, n >= 2, NEW a \in 0..(n - 1), NEW k \in 0..(n - 1)
    PROVE  (((a + k) % n) + 1) % n = (a + (k + 1)) % n
<1> DEFINE b == (a + k) % n
<1>1. /\ a + k < n => b = a + k
      /\ a + k >= n => b = a + k - n
      /\ b \in 0..(n - 1)
    BY WrapOnce, k \in 0..n
<1>2. /\ a + (k + 1) < n => (a + (k + 1)) % n = a + (k + 1)
      /\ a + (k + 1) >= n => (a + (k + 1)) % n = a + (k + 1) - n
    BY WrapOnce, k + 1 \in 0..n
<1>3. /\ b + 1 < n => (b + 1) % n = b + 1
      /\ b + 1 >= n => (b + 1) % n = b + 1 - n
    BY <1>1, WrapOnce, 1 \in 0..n
<1> HIDE DEF b
<1>4. (b + 1) % n = (a + (k + 1)) % n
    BY <1>1, <1>2, <1>3
<1> QED BY <1>4 DEF b

(* Two offsets less than a turn apart are two slots.                       *)
LEMMA WrapInjective ==
    ASSUME NEW n \in Nat, n >= 2, NEW a \in 0..(n - 1),
           NEW i \in 0..(n - 1), NEW j \in 0..(n - 1), i # j
    PROVE  (a + i) % n # (a + j) % n
<1>1. /\ a + i < n => (a + i) % n = a + i
      /\ a + i >= n => (a + i) % n = a + i - n
    BY WrapOnce, i \in 0..n
<1>2. /\ a + j < n => (a + j) % n = a + j
      /\ a + j >= n => (a + j) % n = a + j - n
    BY WrapOnce, j \in 0..n
<1> QED BY <1>1, <1>2

-----------------------------------------------------------------------------
(* Sequences given point by point.                                         *)

LEMMA IsAppend ==
    ASSUME NEW S, NEW s \in Seq(S), NEW e \in S, NEW t,
           t = [i \in 1..(Len(s) + 1) |-> t[i]],
           \A i \in 1..(Len(s) + 1) : t[i] = IF i <= Len(s) THEN s[i] ELSE e
    PROVE  t = Append(s, e)
<1>1. Len(s) \in Nat
    OBVIOUS
<1>2. /\ Append(s, e) \in Seq(S)
      /\ Len(Append(s, e)) = Len(s) + 1
      /\ \A i \in 1..Len(s) : Append(s, e)[i] = s[i]
      /\ Append(s, e)[Len(s) + 1] = e
    BY AppendProperties
<1>3. \A i \in 1..(Len(s) + 1) : t[i] \in S /\ t[i] = Append(s, e)[i]
    BY <1>1, <1>2
<1>4. t \in Seq(S) /\ Len(t) = Len(s) + 1
    BY <1>1, <1>3
<1> QED BY <1>2, <1>3, <1>4, SeqEqual

LEMMA IsTail ==
    ASSUME NEW S, NEW s \in Seq(S), s # << >>, NEW t,
           t = [i \in 1..(Len(s) - 1) |-> t[i]],
           \A i \in 1..(Len(s) - 1) : t[i] = s[i + 1]
    PROVE  t = Tail(s)
<1>1. Len(s) \in Nat /\ Len(s) >= 1
    BY EmptySeq
<1>2. /\ Tail(s) \in Seq(S)
      /\ Len(Tail(s)) = Len(s) - 1
      /\ \A i \in 1..(Len(s) - 1) : Tail(s)[i] = s[i + 1]
    BY <1>1, HeadTailProperties
<1>3. \A i \in 1..(Len(s) - 1) : t[i] \in S /\ t[i] = Tail(s)[i]
    BY <1>1, <1>2
<1>4. t \in Seq(S) /\ Len(t) = Len(s) - 1
    BY <1>1, <1>3
<1> QED BY <1>2, <1>3, <1>4, SeqEqual

-----------------------------------------------------------------------------
(* What the invariant says, in the form the steps below use.               *)

LEMMA Shape ==
    ASSUME IInv
    PROVE  /\ arrayLength \in Nat /\ arrayLength >= 2
           /\ readIndex \in Slots /\ writeIndex \in Slots
           /\ packetCount \in Nat /\ packetCount <= arrayLength
           /\ writeIndex = (readIndex + packetCount) % arrayLength
           /\ array \in [Slots -> SlotInfo]
           /\ \A i \in 0..(packetCount - 1) :
                array[(readIndex + i) % arrayLength] \in RtpPacketInfo
BY DEF IInv, TypeOK, IndicesAgree, LiveSlotsStored, Slots, WRAP

(* The queue seen as a sequence.                                           *)
LEMMA ContentsIsSeq ==
    ASSUME IInv
    PROVE  /\ Contents \in Seq(RtpPacketInfo)
           /\ Len(Contents) = packetCount
           /\ \A i \in 1..packetCount :
                Contents[i] = array[(readIndex + (i - 1)) % arrayLength]
<1>1. packetCount \in Nat /\ readIndex \in Nat
    BY DEF IInv, TypeOK
<1>2. ASSUME NEW i \in 1..packetCount
      PROVE  /\ readIndex + i - 1 = readIndex + (i - 1)
             /\ array[(readIndex + i - 1) % arrayLength] \in RtpPacketInfo
    <2>1. i - 1 \in 0..(packetCount - 1) /\ readIndex + i - 1 = readIndex + (i - 1)
        BY <1>1
    <2> QED BY <2>1, Shape
<1> QED BY <1>1, <1>2 DEF Contents, WRAP

(* A store changes the slot at the write index, and no other.              *)
LEMMA StoreEffect ==
    ASSUME IInv, NEW info \in RtpPacketInfo, Store(info)
    PROVE  /\ array' \in [Slots -> SlotInfo]
           /\ array'[writeIndex] = info
           /\ \A i \in Slots : i # writeIndex => array'[i] = array[i]
BY DEF IInv, TypeOK, Store, Slots, SlotInfo

-----------------------------------------------------------------------------
(* What the three ways of changing the ring do to the queue.               *)

LEMMA EnqueueStep ==
    ASSUME IInv, NEW info \in RtpPacketInfo, ~QueueFull,
           Store(info), IncWriteIndex, packetCount' = packetCount + 1,
           arrayLength' = arrayLength, readIndex' = readIndex
    PROVE  /\ writeIndex' \in Slots /\ packetCount' \in 0..arrayLength
           /\ IndicesAgree' /\ LiveSlotsStored'
           /\ Contents' = Append(Contents, info)
<1>1. packetCount < arrayLength /\ packetCount \in 0..(arrayLength - 1)
    BY Shape DEF QueueFull
<1>2. /\ writeIndex' \in Slots
      /\ writeIndex' = (readIndex + (packetCount + 1)) % arrayLength
    <2> DEFINE here == (readIndex + packetCount) % arrayLength
    <2>1. writeIndex' = (here + 1) % arrayLength
        BY Shape DEF IncWriteIndex, WRAP
    <2>2. (here + 1) % arrayLength = (readIndex + (packetCount + 1)) % arrayLength
        BY <1>1, Shape, WrapCommutes DEF Slots
    <2>3. (readIndex + (packetCount + 1)) % arrayLength \in Slots
        BY <1>1, Shape, WrapOnce, packetCount + 1 \in 0..arrayLength DEF Slots
    <2> QED BY <2>1, <2>2, <2>3
<1>3. \A i \in 0..(packetCount - 1) :
        /\ (readIndex + i) % arrayLength \in Slots
        /\ (readIndex + i) % arrayLength # writeIndex
        /\ array'[(readIndex + i) % arrayLength]
                = array[(readIndex + i) % arrayLength]
    <2> TAKE i \in 0..(packetCount - 1)
    <2>1. i \in 0..(arrayLength - 1) /\ i \in 0..arrayLength /\ i # packetCount
        BY <1>1, Shape
    <2>2. (readIndex + i) % arrayLength \in Slots
        BY <2>1, Shape, WrapOnce DEF Slots
    <2>3. (readIndex + i) % arrayLength # writeIndex
        BY <1>1, <2>1, Shape, WrapInjective DEF Slots
    <2> QED BY <2>2, <2>3, StoreEffect
<1>4. array'[(readIndex + packetCount) % arrayLength] = info
    BY Shape, StoreEffect
<1>5. \A i \in 0..packetCount :
        array'[(readIndex + i) % arrayLength]
            = IF i < packetCount THEN array[(readIndex + i) % arrayLength] ELSE info
    BY <1>1, <1>3, <1>4
<1>6. LiveSlotsStored'
    <2>1. ASSUME NEW i \in 0..packetCount
          PROVE  array'[(readIndex + i) % arrayLength] \in RtpPacketInfo
        <3>1. CASE i < packetCount
            <4>1. i \in 0..(packetCount - 1)  BY <1>1, <3>1
            <4> QED BY <3>1, <4>1, <1>5, Shape
        <3>2. CASE ~(i < packetCount)
            BY <1>1, <1>5, <3>2
        <3> QED BY <3>1, <3>2
    <2>2. 0..(packetCount' - 1) = 0..packetCount
        BY <1>1
    <2> QED BY <2>1, <2>2 DEF LiveSlotsStored, WRAP
<1>7. Contents' = Append(Contents, info)
    <2>1. Contents' = [i \in 1..(packetCount + 1) |->
                            array'[(readIndex + i - 1) % arrayLength]]
        BY DEF Contents, WRAP
    <2>2. ASSUME NEW i \in 1..(packetCount + 1)
          PROVE  array'[(readIndex + i - 1) % arrayLength]
                    = IF i <= packetCount THEN Contents[i] ELSE info
        <3>1. i - 1 \in 0..packetCount /\ readIndex + i - 1 = readIndex + (i - 1)
            BY <1>1, Shape DEF Slots
        <3>2. i <= packetCount => i \in 1..packetCount
            BY <1>1
        <3> QED BY <1>1, <1>5, <3>1, <3>2, ContentsIsSeq
    <2>3. /\ Contents' = [i \in 1..(Len(Contents) + 1) |-> Contents'[i]]
          /\ \A i \in 1..(Len(Contents) + 1) :
                Contents'[i] = IF i <= Len(Contents) THEN Contents[i] ELSE info
        BY <2>1, <2>2, ContentsIsSeq
    <2> QED BY <2>3, ContentsIsSeq, IsAppend
<1> QED BY <1>1, <1>2, <1>6, Shape, <1>7 DEF IndicesAgree, WRAP

LEMMA DequeueStep ==
    ASSUME IInv, ~QueueEmpty, IncReadIndex, packetCount' = packetCount - 1,
           UNCHANGED <<array, arrayLength, writeIndex>>
    PROVE  /\ readIndex' \in Slots /\ packetCount' \in 0..arrayLength
           /\ IndicesAgree' /\ LiveSlotsStored'
           /\ Contents # << >> /\ array[readIndex] = Head(Contents)
           /\ Contents' = Tail(Contents)
<1>1. packetCount >= 1 /\ packetCount' \in 0..(arrayLength - 1)
    BY Shape DEF QueueEmpty
<1>2. readIndex' = (readIndex + 1) % arrayLength /\ readIndex' \in Slots
    BY Shape, WrapOnce, 1 \in 0..arrayLength DEF IncReadIndex, WRAP, Slots
<1>3. \A i \in 0..packetCount' :
        (readIndex' + i) % arrayLength = (readIndex + (i + 1)) % arrayLength
    <2> TAKE i \in 0..packetCount'
    <2>1. i \in 0..(arrayLength - 1)  BY <1>1, Shape
    <2> QED BY <1>2, <2>1, Shape, WrapNext DEF Slots
<1>4. IndicesAgree'
    <2>1. packetCount' \in 0..packetCount' /\ packetCount' + 1 = packetCount
        BY <1>1, Shape
    <2> QED BY <1>3, <2>1, Shape DEF IndicesAgree, WRAP
<1>5. LiveSlotsStored'
    <2>1. ASSUME NEW i \in 0..(packetCount' - 1)
          PROVE  array'[(readIndex' + i) % arrayLength'] \in RtpPacketInfo
        <3>1. i \in 0..packetCount' /\ i + 1 \in 0..(packetCount - 1)
            BY <1>1, Shape
        <3> QED BY <1>3, <3>1, Shape
    <2> QED BY <2>1 DEF LiveSlotsStored, WRAP
<1>6. Contents # << >> /\ array[readIndex] = Head(Contents)
    <2>1. (readIndex + (1 - 1)) % arrayLength = readIndex
        <3>1. readIndex + (1 - 1) = readIndex  BY Shape DEF Slots
        <3> QED BY <3>1, Shape, WrapBelow DEF Slots
    <2>2. 1 \in 1..packetCount  BY <1>1, Shape
    <2> QED BY <1>1, <2>1, <2>2, ContentsIsSeq, EmptySeq
<1>7. Contents' = Tail(Contents)
    <2>1. Contents' = [i \in 1..(packetCount - 1) |->
                            array[(readIndex' + i - 1) % arrayLength]]
        BY DEF Contents, WRAP
    <2>2. ASSUME NEW i \in 1..(packetCount - 1)
          PROVE  array[(readIndex' + i - 1) % arrayLength] = Contents[i + 1]
        <3>1. /\ i - 1 \in 0..packetCount' /\ readIndex' + i - 1 = readIndex' + (i - 1)
              /\ i + 1 \in 1..packetCount /\ (i - 1) + 1 = (i + 1) - 1
            BY <1>1, <1>2, Shape DEF Slots
        <3>2. (readIndex' + i - 1) % arrayLength
                    = (readIndex + ((i - 1) + 1)) % arrayLength
            BY <1>3, <3>1
        <3> QED BY <3>1, <3>2, ContentsIsSeq
    <2>3. /\ Contents' = [i \in 1..(Len(Contents) - 1) |-> Contents'[i]]
          /\ \A i \in 1..(Len(Contents) - 1) : Contents'[i] = Contents[i + 1]
        BY <2>1, <2>2, ContentsIsSeq
    <2> QED BY <1>6, <2>3, ContentsIsSeq, IsTail
<1> QED BY <1>1, <1>2, <1>4, <1>5, <1>6, <1>7, Shape

(* On a full ring the write index is at the oldest info: storing there and *)
(* stepping both indices drops the oldest and appends.                     *)
LEMMA DisplaceStep ==
    ASSUME IInv, NEW info \in RtpPacketInfo, QueueFull, Store(info),
           IncReadIndex, IncWriteIndex,
           packetCount' = packetCount, arrayLength' = arrayLength
    PROVE  /\ readIndex' \in Slots /\ writeIndex' \in Slots
           /\ IndicesAgree' /\ LiveSlotsStored'
           /\ Contents # << >> /\ array[readIndex] = Head(Contents)
           /\ Contents' = Append(Tail(Contents), info)
<1>1. packetCount = arrayLength /\ arrayLength \in 0..arrayLength
    BY Shape DEF QueueFull
<1>2. writeIndex = readIndex
    BY <1>1, Shape, WrapOnce DEF Slots
<1>3. /\ readIndex' = (readIndex + 1) % arrayLength /\ readIndex' \in Slots
      /\ writeIndex' = readIndex'
    BY <1>2, Shape, WrapOnce, 1 \in 0..arrayLength
       DEF IncReadIndex, IncWriteIndex, WRAP, Slots
<1>4. IndicesAgree'
    BY <1>1, <1>3, Shape, WrapOnce DEF IndicesAgree, WRAP, Slots
<1>5. \A i \in 0..(arrayLength - 1) :
        /\ (readIndex' + i) % arrayLength = (readIndex + (i + 1)) % arrayLength
        /\ (readIndex' + i) % arrayLength \in Slots
    <2> TAKE i \in 0..(arrayLength - 1)
    <2>1. (readIndex' + i) % arrayLength = (readIndex + (i + 1)) % arrayLength
        BY <1>3, Shape, WrapNext DEF Slots
    <2>2. (readIndex' + i) % arrayLength \in Slots
        BY <1>3, Shape, WrapOnce, i \in 0..arrayLength DEF Slots
    <2> QED BY <2>1, <2>2
<1>6. \A i \in 0..(arrayLength - 2) :
        /\ (readIndex + (i + 1)) % arrayLength # writeIndex
        /\ array'[(readIndex' + i) % arrayLength]
                = array[(readIndex + (i + 1)) % arrayLength]
    <2> TAKE i \in 0..(arrayLength - 2)
    <2>1. /\ i \in 0..(arrayLength - 1) /\ i + 1 \in 0..(arrayLength - 1)
          /\ 0 \in 0..(arrayLength - 1) /\ i + 1 # 0 /\ readIndex + 0 = readIndex
        BY Shape DEF Slots
    <2>2. (readIndex + 0) % arrayLength = writeIndex
        <3>1. readIndex % arrayLength = readIndex
            BY Shape, WrapBelow DEF Slots
        <3> QED BY <1>2, <2>1, <3>1
    <2>3. (readIndex + (i + 1)) % arrayLength # writeIndex
        BY <2>1, <2>2, Shape, WrapInjective DEF Slots
    <2> QED BY <1>5, <2>1, <2>3, StoreEffect
<1>7. array'[(readIndex' + (arrayLength - 1)) % arrayLength] = info
    <2>1. /\ arrayLength - 1 \in 0..(arrayLength - 1)
          /\ (arrayLength - 1) + 1 = arrayLength
        BY Shape
    <2>2. (readIndex' + (arrayLength - 1)) % arrayLength = writeIndex
        BY <1>1, <1>5, <2>1, Shape
    <2> QED BY <2>2, StoreEffect
<1>8. LiveSlotsStored'
    <2>1. ASSUME NEW i \in 0..(arrayLength - 1)
          PROVE  array'[(readIndex' + i) % arrayLength] \in RtpPacketInfo
        <3>1. CASE i = arrayLength - 1
            BY <1>7, <3>1
        <3>2. CASE i # arrayLength - 1
            <4>1. i \in 0..(arrayLength - 2) /\ i + 1 \in 0..(packetCount - 1)
                BY <1>1, <3>2, Shape
            <4> QED BY <1>6, <4>1, Shape
        <3> QED BY <3>1, <3>2
    <2> QED BY <1>1, <2>1 DEF LiveSlotsStored, WRAP
<1>9. Contents # << >> /\ array[readIndex] = Head(Contents)
    <2>1. (readIndex + (1 - 1)) % arrayLength = readIndex
        <3>1. readIndex + (1 - 1) = readIndex  BY Shape DEF Slots
        <3> QED BY <3>1, Shape, WrapBelow DEF Slots
    <2>2. 1 \in 1..packetCount  BY <1>1, Shape
    <2> QED BY <1>1, <2>1, <2>2, ContentsIsSeq, EmptySeq
<1>10. Contents' = Append(Tail(Contents), info)
    <2>1. /\ Tail(Contents) \in Seq(RtpPacketInfo)
          /\ Len(Tail(Contents)) = arrayLength - 1
          /\ \A i \in 1..(arrayLength - 1) : Tail(Contents)[i] = Contents[i + 1]
        BY <1>1, <1>9, ContentsIsSeq, HeadTailProperties
    <2>2. Contents' = [i \in 1..arrayLength |->
                            array'[(readIndex' + i - 1) % arrayLength]]
        BY <1>1 DEF Contents, WRAP
    <2>3. ASSUME NEW i \in 1..arrayLength
          PROVE  array'[(readIndex' + i - 1) % arrayLength]
                    = IF i <= arrayLength - 1 THEN Tail(Contents)[i] ELSE info
        <3>1. readIndex' + i - 1 = readIndex' + (i - 1)
            BY <1>3, Shape DEF Slots
        <3>2. CASE i <= arrayLength - 1
            <4>1. /\ i \in 1..(arrayLength - 1) /\ i + 1 \in 1..packetCount
                  /\ i - 1 \in 0..(arrayLength - 2) /\ (i - 1) + 1 = (i + 1) - 1
                BY <1>1, <3>2, Shape
            <4> QED BY <1>6, <2>1, <3>1, <3>2, <4>1, ContentsIsSeq
        <3>3. CASE ~(i <= arrayLength - 1)
            <4>1. i - 1 = arrayLength - 1  BY <3>3, Shape
            <4> QED BY <1>7, <3>1, <3>3, <4>1
        <3> QED BY <3>2, <3>3
    <2>4. (arrayLength - 1) + 1 = arrayLength
        BY Shape
    <2>5. /\ Contents' = [i \in 1..(Len(Tail(Contents)) + 1) |-> Contents'[i]]
          /\ \A i \in 1..(Len(Tail(Contents)) + 1) :
                Contents'[i] = IF i <= Len(Tail(Contents))
                                   THEN Tail(Contents)[i] ELSE info
        BY <2>1, <2>2, <2>3, <2>4
    <2> QED BY <2>1, <2>5, IsAppend
<1> QED BY <1>3, <1>4, <1>8, <1>9, <1>10

(* A successful RtpPacketQueue_Init empties the queue.                     *)
LEMMA ResetStep ==
    ASSUME NEW n \in Lengths, RtpPacketQueue_Init(n), n >= 2
    PROVE  /\ TypeOK' /\ IndicesAgree' /\ LiveSlotsStored'
           /\ Contents' = << >>
<1>1. n \in Nat
    BY LengthsAssumption
<1>2. /\ arrayLength' = n /\ array' = Zeroed(n)
      /\ readIndex' = 0 /\ writeIndex' = 0 /\ packetCount' = 0
      /\ result' = "OK" /\ out' = NoInfo
    BY <1>1 DEF RtpPacketQueue_Init, Return
<1>3. TypeOK'
    BY <1>1, <1>2 DEF TypeOK, Zeroed, SlotInfo, Results
<1>4. (0 + 0) % n = 0
    BY <1>1, WrapBelow
<1> QED BY <1>2, <1>3, <1>4 DEF IndicesAgree, LiveSlotsStored, Contents, WRAP

LEMMA InitInv == Init => IInv /\ Fifo!Init
<1> SUFFICES ASSUME Init PROVE IInv /\ Fifo!Init
    OBVIOUS
<1>1. arrayLength \in Nat /\ arrayLength >= 2
    BY LengthsAssumption DEF Init
<1>2. TypeOK
    BY <1>1 DEF Init, TypeOK, Zeroed, SlotInfo, Results
<1>3. (0 + 0) % arrayLength = 0
    BY <1>1, WrapBelow
<1>4. IndicesAgree /\ LiveSlotsStored /\ Contents = << >>
    BY <1>3 DEF Init, IndicesAgree, LiveSlotsStored, Contents, WRAP
<1> QED BY <1>2, <1>4 DEF Init, IInv, Fifo!Init

(* A call that answers and leaves the ring alone.                          *)
LEMMA LookStep ==
    ASSUME IInv, UNCHANGED ring,
           result' \in Results, out' \in SlotInfo \cup {NoInfo}
    PROVE  IInv' /\ Contents' = Contents /\ arrayLength' = arrayLength
<1>1. TypeOK'
    BY DEF IInv, TypeOK, ring
<1>2. IndicesAgree'
    BY DEF IInv, IndicesAgree, ring, WRAP
<1>3. LiveSlotsStored'
    BY DEF IInv, LiveSlotsStored, ring, WRAP
<1> QED BY <1>1, <1>2, <1>3 DEF IInv, Contents, ring, WRAP

(* The first slot read is the head of the queue, whatever its length.      *)
LEMMA OldestSlot ==
    ASSUME IInv, ~QueueEmpty
    PROVE  /\ Contents # << >> /\ 1 \in 1..Len(Contents)
           /\ array[readIndex] = Contents[1]
           /\ array[readIndex] \in RtpPacketInfo
<1>1. packetCount >= 1 /\ 1 \in 1..packetCount /\ 0 \in 0..(packetCount - 1)
    BY Shape DEF QueueEmpty
<1>2. /\ readIndex + (1 - 1) = readIndex /\ readIndex + 0 = readIndex
      /\ readIndex % arrayLength = readIndex
    BY Shape, WrapBelow DEF Slots
<1> QED BY <1>1, <1>2, Shape, ContentsIsSeq, EmptySeq

-----------------------------------------------------------------------------
(* One lemma per function: the invariant is kept, and the call is a step   *)
(* of the bounded FIFO.                                                    *)

LEMMA RefuseInv ==
    ASSUME IInv, NEW r \in Results, Refuse(r)
    PROVE  /\ IInv' /\ Fifo!Refuse(r)
<1>1. /\ UNCHANGED ring /\ result' = r /\ out' = NoInfo
    BY DEF Refuse, Return
<1> QED BY <1>1, LookStep DEF Fifo!Refuse, Fifo!Answer

LEMMA InitCallInv ==
    ASSUME IInv, NEW n \in Lengths, RtpPacketQueue_Init(n)
    PROVE  IInv' /\ Fifo!Next
<1>1. CASE n < 2 /\ Refuse("BAD_PARAM")
    BY <1>1, RefuseInv DEF Results, Fifo!Next
<1>2. CASE n >= 2
    <2>1. Fifo!Reset(n)
        BY <1>2, ResetStep, LengthsAssumption
           DEF RtpPacketQueue_Init, Return, Fifo!Reset, Fifo!Answer
    <2> QED BY <1>2, <2>1, ResetStep DEF IInv, Fifo!Next
<1> QED BY <1>1, <1>2 DEF RtpPacketQueue_Init

LEMMA EnqueueInv ==
    ASSUME IInv, NEW info \in RtpPacketInfo, RtpPacketQueue_Enqueue(info)
    PROVE  IInv' /\ Fifo!Next
<1>1. CASE QueueFull /\ Refuse("FULL")
    <2>1. Len(Contents) = arrayLength
        BY <1>1, ContentsIsSeq DEF QueueFull
    <2> QED BY <1>1, <2>1, RefuseInv DEF Results, Fifo!Next
<1>2. CASE ~QueueFull /\ Store(info) /\ IncWriteIndex
           /\ packetCount' = packetCount + 1 /\ Return("OK", NoInfo)
           /\ UNCHANGED <<arrayLength, readIndex>>
    <2>1. /\ writeIndex' \in Slots /\ packetCount' \in 0..arrayLength
          /\ IndicesAgree' /\ LiveSlotsStored'
          /\ Contents' = Append(Contents, info)
        BY <1>2, EnqueueStep
    <2>2. TypeOK'
        BY <1>2, <2>1, StoreEffect
           DEF IInv, TypeOK, Slots, Return, Results
    <2>3. Len(Contents) < arrayLength
        BY <1>2, Shape, ContentsIsSeq DEF QueueFull
    <2>4. Fifo!Put(info)
        BY <1>2, <2>1, <2>3 DEF Return, Fifo!Put, Fifo!Answer
    <2> QED BY <2>1, <2>2, <2>4 DEF IInv, Fifo!Next
<1> QED BY <1>1, <1>2 DEF RtpPacketQueue_Enqueue

LEMMA ForceEnqueueInv ==
    ASSUME IInv, NEW info \in RtpPacketInfo, RtpPacketQueue_ForceEnqueue(info)
    PROVE  IInv' /\ Fifo!Next
<1>1. CASE QueueFull
    <2>1. /\ Store(info) /\ IncReadIndex /\ IncWriteIndex
          /\ packetCount' = packetCount /\ arrayLength' = arrayLength
          /\ Return("PACKET_DELETED", array[readIndex])
        BY <1>1, Shape DEF RtpPacketQueue_ForceEnqueue
    <2>2. /\ readIndex' \in Slots /\ writeIndex' \in Slots
          /\ IndicesAgree' /\ LiveSlotsStored'
          /\ Contents # << >> /\ array[readIndex] = Head(Contents)
          /\ Contents' = Append(Tail(Contents), info)
        BY <1>1, <2>1, DisplaceStep
    <2>3. TypeOK'
        BY <2>1, <2>2, StoreEffect
           DEF IInv, TypeOK, Slots, Return, Results
    <2>4. Len(Contents) = arrayLength
        BY <1>1, ContentsIsSeq DEF QueueFull
    <2>5. Fifo!Displace(info)
        BY <2>1, <2>2, <2>4 DEF Return, Fifo!Displace, Fifo!Answer
    <2> QED BY <2>2, <2>3, <2>5 DEF IInv, Fifo!Next
<1>2. CASE ~QueueFull
    <2>1. /\ Store(info) /\ IncWriteIndex /\ packetCount' = packetCount + 1
          /\ arrayLength' = arrayLength /\ readIndex' = readIndex
          /\ Return("OK", NoInfo)
        BY <1>2 DEF RtpPacketQueue_ForceEnqueue
    <2>2. /\ writeIndex' \in Slots /\ packetCount' \in 0..arrayLength
          /\ IndicesAgree' /\ LiveSlotsStored'
          /\ Contents' = Append(Contents, info)
        BY <1>2, <2>1, EnqueueStep
    <2>3. TypeOK'
        BY <2>1, <2>2, StoreEffect
           DEF IInv, TypeOK, Slots, Return, Results
    <2>4. Len(Contents) < arrayLength
        BY <1>2, Shape, ContentsIsSeq DEF QueueFull
    <2>5. Fifo!Put(info)
        BY <2>1, <2>2, <2>4 DEF Return, Fifo!Put, Fifo!Answer
    <2> QED BY <2>2, <2>3, <2>5 DEF IInv, Fifo!Next
<1> QED BY <1>1, <1>2

LEMMA DequeueInv ==
    ASSUME IInv, RtpPacketQueue_Dequeue
    PROVE  IInv' /\ Fifo!Next
<1>1. CASE QueueEmpty /\ Refuse("EMPTY")
    <2>1. Contents = << >>
        BY <1>1, ContentsIsSeq, EmptySeq DEF QueueEmpty
    <2> QED BY <1>1, <2>1, RefuseInv DEF Results, Fifo!Next
<1>2. CASE ~QueueEmpty /\ Return("OK", array[readIndex]) /\ IncReadIndex
           /\ packetCount' = packetCount - 1
           /\ UNCHANGED <<array, arrayLength, writeIndex>>
    <2>1. /\ readIndex' \in Slots /\ packetCount' \in 0..arrayLength
          /\ IndicesAgree' /\ LiveSlotsStored'
          /\ Contents # << >> /\ array[readIndex] = Head(Contents)
          /\ Contents' = Tail(Contents)
        BY <1>2, DequeueStep
    <2>2. TypeOK'
        BY <1>2, <2>1 DEF IInv, TypeOK, Slots, Return, Results
    <2>3. Fifo!Take
        BY <1>2, <2>1 DEF Return, Fifo!Take, Fifo!Answer
    <2> QED BY <2>1, <2>2, <2>3 DEF IInv, Fifo!Next
<1> QED BY <1>1, <1>2 DEF RtpPacketQueue_Dequeue

LEMMA PeekInv ==
    ASSUME IInv, RtpPacketQueue_Peek
    PROVE  IInv' /\ Fifo!Next
<1>1. CASE QueueEmpty /\ Refuse("EMPTY")
    <2>1. Contents = << >>
        BY <1>1, ContentsIsSeq, EmptySeq DEF QueueEmpty
    <2> QED BY <1>1, <2>1, RefuseInv DEF Results, Fifo!Next
<1>2. CASE ~QueueEmpty /\ Return("OK", array[readIndex]) /\ UNCHANGED ring
    <2>1. result' = "OK" /\ out' = array[readIndex] /\ out' \in SlotInfo
        BY <1>2, OldestSlot DEF Return, SlotInfo
    <2>2. IInv' /\ Contents' = Contents /\ arrayLength' = arrayLength
        BY <1>2, <2>1, LookStep DEF Results
    <2>3. Fifo!Look(1)
        BY <1>2, <2>1, <2>2, OldestSlot DEF Fifo!Look, Fifo!Answer
    <2> QED BY <1>2, <2>2, <2>3, OldestSlot DEF Fifo!Next
<1> QED BY <1>1, <1>2 DEF RtpPacketQueue_Peek

LEMMA RetrieveInv ==
    ASSUME IInv, NEW s \in SeqNum, RtpPacketQueue_Retrieve(s)
    PROVE  IInv' /\ Fifo!Next
<1>1. CASE QueueEmpty /\ Refuse("EMPTY")
    <2>1. Contents = << >>
        BY <1>1, ContentsIsSeq, EmptySeq DEF QueueEmpty
    <2> QED BY <1>1, <2>1, RefuseInv DEF Results, Fifo!Next
<1>2. \A i \in 1..Len(Contents) :
        /\ i - 1 \in 0..(packetCount - 1)
        /\ Contents[i].seqNum = s <=> i - 1 \in Matches(s)
    BY Shape, ContentsIsSeq DEF Matches, WRAP
<1>3. CASE ~QueueEmpty /\ Matches(s) = {} /\ Refuse("PACKET_NOT_FOUND")
    <2>1. \A i \in 1..Len(Contents) : Contents[i].seqNum # s
        BY <1>2, <1>3
    <2>2. Fifo!Absent(s)
        BY <1>3, <2>1, OldestSlot, RefuseInv DEF Results, Fifo!Absent
    <2> QED BY <1>3, <2>2, RefuseInv DEF Results, Fifo!Next
<1>4. CASE \E i \in Matches(s) :
            /\ \A j \in Matches(s) : i <= j
            /\ Return("OK", array[WRAP(readIndex + i)])
            /\ UNCHANGED ring
    <2>1. PICK i \in Matches(s) :
            /\ \A j \in Matches(s) : i <= j
            /\ Return("OK", array[WRAP(readIndex + i)])
            /\ UNCHANGED ring
        BY <1>4
    <2>2. /\ i \in 0..(packetCount - 1) /\ i + 1 \in 1..Len(Contents)
          /\ (i + 1) - 1 = i /\ array[WRAP(readIndex + i)] = Contents[i + 1]
        BY Shape, ContentsIsSeq DEF Matches, WRAP
    <2>3. /\ array[WRAP(readIndex + i)] \in RtpPacketInfo
          /\ Contents[i + 1].seqNum = s
        BY <1>2, <2>2, Shape DEF WRAP
    <2>4. IInv' /\ Contents' = Contents /\ arrayLength' = arrayLength
        BY <2>1, <2>3, LookStep DEF Return, Results, SlotInfo
    <2>5. \A j \in 1..((i + 1) - 1) : Contents[j].seqNum # s
        <3> SUFFICES ASSUME NEW j \in 1..i PROVE Contents[j].seqNum # s
            BY <2>2
        <3>1. j \in 1..Len(Contents) /\ ~(i <= j - 1)
            BY <2>2, ContentsIsSeq, Shape
        <3> QED BY <1>2, <2>1, <3>1
    <2>6. Fifo!Look(i + 1)
        BY <2>1, <2>2, <2>4 DEF Return, Fifo!Look, Fifo!Answer
    <2> QED BY <2>2, <2>3, <2>4, <2>5, <2>6 DEF Fifo!Find, Fifo!Next
<1> QED BY <1>1, <1>3, <1>4 DEF RtpPacketQueue_Retrieve

LEMMA NextInv == IInv /\ [Next]_vars => IInv' /\ [Fifo!Next]_(Fifo!fifoVars)
<1> SUFFICES ASSUME IInv, [Next]_vars
             PROVE  IInv' /\ [Fifo!Next]_(Fifo!fifoVars)
    OBVIOUS
<1>1. CASE \E n \in Lengths : RtpPacketQueue_Init(n)
    BY <1>1, InitCallInv
<1>2. CASE \E info \in RtpPacketInfo :
            RtpPacketQueue_Enqueue(info) \/ RtpPacketQueue_ForceEnqueue(info)
    BY <1>2, EnqueueInv, ForceEnqueueInv
<1>3. CASE RtpPacketQueue_Dequeue
    BY <1>3, DequeueInv
<1>4. CASE RtpPacketQueue_Peek
    BY <1>4, PeekInv
<1>5. CASE \E s \in SeqNum : RtpPacketQueue_Retrieve(s)
    BY <1>5, RetrieveInv
<1>6. CASE NullArgument
    BY <1>6, RefuseInv DEF NullArgument, Results, Fifo!Next
<1>7. CASE UNCHANGED vars
    <2>1. result' \in Results /\ out' \in SlotInfo \cup {NoInfo} /\ UNCHANGED ring
        BY <1>7 DEF vars, IInv, TypeOK
    <2> QED BY <1>7, <2>1, LookStep DEF vars, Fifo!fifoVars
<1> QED BY <1>1, <1>2, <1>3, <1>4, <1>5, <1>6, <1>7 DEF Next

-----------------------------------------------------------------------------
(* Whatever callers do, the three counters stay in range and agree, and    *)
(* every queued slot holds an info a caller stored: no call reads outside  *)
(* the array or hands out a zeroed slot.                                   *)
THEOREM RingIsConsistent == Spec => []IInv
<1>1. Init => IInv
    BY InitInv
<1>2. IInv /\ [Next]_vars => IInv'
    BY NextInv
<1> QED BY <1>1, <1>2, PTL DEF Spec

THEOREM TypeCorrect == Spec => []TypeOK
BY RingIsConsistent, PTL DEF IInv

(* The write index is always packetCount slots ahead of the read index.    *)
THEOREM CountersAgree == Spec => []IndicesAgree
BY RingIsConsistent, PTL DEF IInv

(* No queued slot is one that only memset has written.                     *)
THEOREM QueuedSlotsStored == Spec => []LiveSlotsStored
BY RingIsConsistent, PTL DEF IInv

(* For every array length the ring implements the bounded FIFO.            *)
THEOREM RefinesFifo == Spec => ImplementsFifo
<1>1. Init => IInv /\ Fifo!Init
    BY InitInv
<1>2. IInv /\ [Next]_vars => IInv' /\ [Fifo!Next]_(Fifo!fifoVars)
    BY NextInv
<1> QED BY <1>1, <1>2, PTL DEF Spec, ImplementsFifo, Fifo!Spec
-----------------------------------------------------------------------------
(* The history of what was sent.                                           *)

HistoryTypes ==
    /\ nextSeq \in SeqNum
    /\ sentCount \in 0..SeqMod
    /\ latest \in [SeqNum -> Packet \cup {NoPacket}]
    /\ arrayLength \in Lengths

(* What RetransmitsLatest rests on: the queue is as full as it can be, and *)
(* its k-th packet is the last one sent under its number, and was followed *)
(* by exactly those behind it in the queue.                                *)
QueueIsWindow ==
    /\ packetCount = IF sentCount < arrayLength THEN sentCount ELSE arrayLength
    /\ \A k \in 1..packetCount :
        /\ Contents[k].packet = latest[Contents[k].seqNum]
        /\ Age(Contents[k].seqNum) = packetCount - k

HInv == IInv /\ HistoryTypes /\ QueueIsWindow

-----------------------------------------------------------------------------
(* The counter, one round at most.                                         *)

LEMMA WrapBehind ==
    ASSUME NEW n \in Nat, n >= 1, NEW x \in (-n)..(-1)
    PROVE  x % n = x + n
BY SMTT(20)

LEMMA SeqFacts ==
    /\ SeqMod \in Nat /\ SeqMod >= 1
    /\ SeqNum = 0..(SeqMod - 1)
    /\ \A n \in Lengths : n \in Nat /\ n <= SeqMod
BY SeqModAssumption, LengthsAssumption

(* How far behind n, the number to be used next, s is.                     *)
LEMMA Behind ==
    ASSUME NEW n \in SeqNum, NEW s \in SeqNum
    PROVE  /\ s < n => WrapSeq(n - 1 - s) = n - 1 - s
           /\ s >= n => WrapSeq(n - 1 - s) = n - 1 - s + SeqMod
           /\ WrapSeq(n - 1 - s) \in 0..(SeqMod - 1)
<1>1. CASE s < n
    <2>1. n - 1 - s \in 0..(SeqMod - 1)
        BY <1>1, SeqFacts
    <2> QED BY <1>1, <2>1, SeqFacts, WrapBelow DEF WrapSeq
<1>2. CASE s >= n
    <2>1. n - 1 - s \in (-SeqMod)..(-1)
        BY <1>2, SeqFacts
    <2>2. WrapSeq(n - 1 - s) = n - 1 - s + SeqMod
        BY <2>1, SeqFacts, WrapBehind DEF WrapSeq
    <2> QED BY <1>2, <2>1, <2>2, SeqFacts
<1> QED BY <1>1, <1>2, SeqFacts

LEMMA AgeInjective ==
    ASSUME nextSeq \in SeqNum, NEW s \in SeqNum, NEW t \in SeqNum, Age(s) = Age(t)
    PROVE  s = t
<1>1. /\ s < nextSeq => Age(s) = nextSeq - 1 - s
      /\ s >= nextSeq => Age(s) = nextSeq - 1 - s + SeqMod
    BY Behind DEF Age
<1>2. /\ t < nextSeq => Age(t) = nextSeq - 1 - t
      /\ t >= nextSeq => Age(t) = nextSeq - 1 - t + SeqMod
    BY Behind DEF Age
<1> QED BY <1>1, <1>2, SeqFacts

LEMMA NextNumber ==
    ASSUME NEW n \in SeqNum
    PROVE  /\ n + 1 < SeqMod => WrapSeq(n + 1) = n + 1
           /\ n + 1 >= SeqMod => n + 1 = SeqMod /\ WrapSeq(n + 1) = 0
           /\ WrapSeq(n + 1) \in SeqNum
<1>1. CASE n + 1 < SeqMod
    <2>1. n + 1 \in 0..(SeqMod - 1)
        BY <1>1, SeqFacts
    <2> QED BY <1>1, <2>1, SeqFacts, WrapBelow DEF WrapSeq
<1>2. CASE n + 1 = SeqMod
    <2>1. SeqMod \in SeqMod..(2 * SeqMod - 1)
        BY SeqFacts
    <2>2. SeqMod % SeqMod = SeqMod - SeqMod
        BY <2>1, SeqFacts, WrapAbove
    <2> QED BY <1>2, <2>2, SeqFacts DEF WrapSeq
<1> QED BY <1>1, <1>2, SeqFacts

(* Sending makes every packet but the new one older by one.                *)
LEMMA SendAges ==
    ASSUME NEW n \in SeqNum, NEW s \in SeqNum
    PROVE  /\ WrapSeq(WrapSeq(n + 1) - 1 - n) = 0
           /\ s # n => WrapSeq(WrapSeq(n + 1) - 1 - s) = WrapSeq(n - 1 - s) + 1
<1> DEFINE m == WrapSeq(n + 1)
<1>1. /\ n + 1 < SeqMod => m = n + 1
      /\ n + 1 >= SeqMod => n + 1 = SeqMod /\ m = 0
      /\ m \in SeqNum
    BY NextNumber
<1> HIDE DEF m
<1>2. /\ n < m => WrapSeq(m - 1 - n) = m - 1 - n
      /\ n >= m => WrapSeq(m - 1 - n) = m - 1 - n + SeqMod
    BY <1>1, Behind
<1>3. /\ s < m => WrapSeq(m - 1 - s) = m - 1 - s
      /\ s >= m => WrapSeq(m - 1 - s) = m - 1 - s + SeqMod
    BY <1>1, Behind
<1>4. /\ s < n => WrapSeq(n - 1 - s) = n - 1 - s
      /\ s >= n => WrapSeq(n - 1 - s) = n - 1 - s + SeqMod
    BY Behind
<1>5. WrapSeq(m - 1 - n) = 0
    BY <1>1, <1>2, SeqFacts
<1>6. s # n => WrapSeq(m - 1 - s) = WrapSeq(n - 1 - s) + 1
    BY <1>1, <1>3, <1>4, SeqFacts
<1> QED BY <1>5, <1>6 DEF m

(* The number k sends ago is k - 1 sends old.                              *)
LEMMA NumberSent ==
    ASSUME NEW n \in SeqNum, NEW k \in 1..SeqMod
    PROVE  /\ WrapSeq(n - k) \in SeqNum
           /\ WrapSeq(n - 1 - WrapSeq(n - k)) = k - 1
<1> DEFINE s == WrapSeq(n - k)
<1>1. /\ n - k >= 0 => s = n - k
      /\ n - k < 0 => s = n - k + SeqMod
      /\ s \in SeqNum
    <2>1. CASE n - k >= 0
        <3>1. n - k \in 0..(SeqMod - 1)
            BY <2>1, SeqFacts
        <3> QED BY <2>1, <3>1, SeqFacts, WrapBelow DEF WrapSeq
    <2>2. CASE n - k < 0
        <3>1. n - k \in (-SeqMod)..(-1)
            BY <2>2, SeqFacts
        <3>2. s = n - k + SeqMod
            BY <3>1, SeqFacts, WrapBehind DEF WrapSeq
        <3> QED BY <2>2, <3>1, <3>2, SeqFacts
    <2> QED BY <2>1, <2>2, SeqFacts
<1> HIDE DEF s
<1>2. /\ s < n => WrapSeq(n - 1 - s) = n - 1 - s
      /\ s >= n => WrapSeq(n - 1 - s) = n - 1 - s + SeqMod
    BY <1>1, Behind
<1>3. WrapSeq(n - 1 - s) = k - 1
    BY <1>1, <1>2, SeqFacts
<1> QED BY <1>1, <1>3 DEF s

-----------------------------------------------------------------------------

LEMMA WindowFacts ==
    ASSUME HInv
    PROVE  /\ IInv /\ nextSeq \in SeqNum /\ sentCount \in 0..SeqMod
           /\ latest \in [SeqNum -> Packet \cup {NoPacket}]
           /\ arrayLength \in Lengths /\ arrayLength \in Nat /\ arrayLength >= 2
           /\ arrayLength <= SeqMod
           /\ packetCount \in Nat /\ packetCount <= arrayLength
           /\ packetCount = IF sentCount < arrayLength THEN sentCount ELSE arrayLength
           /\ Contents \in Seq(RtpPacketInfo) /\ Len(Contents) = packetCount
BY Shape, ContentsIsSeq, SeqFacts DEF HInv, HistoryTypes, QueueIsWindow

LEMMA NthPacket ==
    ASSUME HInv, NEW k \in 1..packetCount
    PROVE  /\ Contents[k].seqNum \in SeqNum
           /\ Contents[k].packet = latest[Contents[k].seqNum]
           /\ Contents[k] = [seqNum |-> Contents[k].seqNum,
                             packet |-> latest[Contents[k].seqNum]]
           /\ WrapSeq(nextSeq - 1 - Contents[k].seqNum) = packetCount - k
<1>1. Contents[k] \in RtpPacketInfo
    BY WindowFacts
<1>2. /\ Contents[k].packet = latest[Contents[k].seqNum]
      /\ Age(Contents[k].seqNum) = packetCount - k
    BY DEF HInv, QueueIsWindow
<1> QED BY <1>1, <1>2 DEF RtpPacketInfo, Age

LEMMA HistoryInitInv == HistoryInit => HInv
<1> SUFFICES ASSUME HistoryInit PROVE HInv
    OBVIOUS
<1>1. IInv
    BY InitInv DEF HistoryInit
<1>2. HistoryTypes
    BY SeqFacts DEF HistoryInit, HistoryTypes, Init
<1>3. packetCount = 0 /\ sentCount = 0 /\ arrayLength > 0
    BY <1>1, Shape DEF HistoryInit, Init
<1> QED BY <1>1, <1>2, <1>3 DEF HInv, QueueIsWindow

(* What ForceEnqueue does, seen in the contents of the queue.              *)
LEMMA ForceEnqueueEffect ==
    ASSUME IInv, NEW info \in RtpPacketInfo, RtpPacketQueue_ForceEnqueue(info)
    PROVE  /\ arrayLength' = arrayLength
           /\ \/ /\ packetCount = arrayLength /\ packetCount' = packetCount
                 /\ Contents # << >>
                 /\ Contents' = Append(Tail(Contents), info)
                 /\ result' = "PACKET_DELETED" /\ out' = Contents[1]
              \/ /\ packetCount # arrayLength /\ packetCount' = packetCount + 1
                 /\ Contents' = Append(Contents, info)
                 /\ result' = "OK" /\ out' = NoInfo
<1>1. CASE QueueFull
    <2>1. /\ Store(info) /\ IncReadIndex /\ IncWriteIndex
          /\ packetCount' = packetCount /\ arrayLength' = arrayLength
          /\ Return("PACKET_DELETED", array[readIndex])
        BY <1>1, Shape DEF RtpPacketQueue_ForceEnqueue
    <2>2. /\ Contents # << >> /\ Contents' = Append(Tail(Contents), info)
        BY <1>1, <2>1, DisplaceStep
    <2>3. array[readIndex] = Contents[1]
        BY <1>1, Shape, OldestSlot DEF QueueFull, QueueEmpty
    <2> QED BY <1>1, <2>1, <2>2, <2>3 DEF QueueFull, Return
<1>2. CASE ~QueueFull
    <2>1. /\ Store(info) /\ IncWriteIndex /\ packetCount' = packetCount + 1
          /\ arrayLength' = arrayLength /\ readIndex' = readIndex
          /\ Return("OK", NoInfo)
        BY <1>2 DEF RtpPacketQueue_ForceEnqueue
    <2>2. Contents' = Append(Contents, info)
        BY <1>2, <2>1, EnqueueStep
    <2> QED BY <1>2, <2>1, <2>2 DEF QueueFull, Return
<1> QED BY <1>1, <1>2

(* A packet that is not displaced keeps its place in the window: it is one *)
(* older, and no packet of its number has been sent since.                 *)
LEMMA StaysInWindow ==
    ASSUME HInv, Send, NEW k \in 1..packetCount, packetCount - k < SeqMod - 1
    PROVE  /\ latest'[Contents[k].seqNum] = Contents[k].packet
           /\ WrapSeq(nextSeq' - 1 - Contents[k].seqNum) = packetCount - k + 1
<1> DEFINE s == Contents[k].seqNum
<1>1. /\ s \in SeqNum /\ Contents[k].packet = latest[s]
      /\ WrapSeq(nextSeq - 1 - s) = packetCount - k
    BY NthPacket
<1> HIDE DEF s
<1>2. nextSeq \in SeqNum /\ latest \in [SeqNum -> Packet \cup {NoPacket}]
    BY WindowFacts
<1>3. WrapSeq(nextSeq - 1 - nextSeq) = SeqMod - 1
    <2>1. nextSeq >= nextSeq /\ nextSeq - 1 - nextSeq + SeqMod = SeqMod - 1
        BY <1>2, SeqFacts
    <2>2. nextSeq >= nextSeq =>
            WrapSeq(nextSeq - 1 - nextSeq) = nextSeq - 1 - nextSeq + SeqMod
        BY <1>2, Behind
    <2> QED BY <2>1, <2>2
<1>4. s # nextSeq
    <2> SUFFICES ASSUME s = nextSeq PROVE FALSE
        OBVIOUS
    <2>1. WrapSeq(nextSeq - 1 - s) = SeqMod - 1
        BY <1>3
    <2>2. packetCount - k = SeqMod - 1
        BY <1>1, <2>1
    <2> QED BY <2>2, WindowFacts, SeqFacts
<1>5. nextSeq' = WrapSeq(nextSeq + 1)
    BY DEF Send
<1>6. WrapSeq(nextSeq' - 1 - s) = WrapSeq(nextSeq - 1 - s) + 1
    BY <1>1, <1>2, <1>4, <1>5, SendAges
<1>7. latest'[s] = latest[s]
    BY <1>1, <1>2, <1>4 DEF Send
<1> QED BY <1>1, <1>6, <1>7 DEF s

LEMMA SendInv ==
    ASSUME HInv, Send
    PROVE  HInv'
<1>1. PICK p \in Packet :
        /\ RtpPacketQueue_ForceEnqueue([seqNum |-> nextSeq, packet |-> p])
        /\ latest' = [latest EXCEPT ![nextSeq] = p]
        /\ nextSeq' = WrapSeq(nextSeq + 1)
        /\ sentCount' = IF sentCount < SeqMod THEN sentCount + 1 ELSE SeqMod
    BY DEF Send
<1> DEFINE info == [seqNum |-> nextSeq, packet |-> p]
<1>2. info \in RtpPacketInfo
    BY WindowFacts DEF RtpPacketInfo
<1>3. IInv'
    BY <1>1, <1>2, WindowFacts, ForceEnqueueInv
<1>4. /\ arrayLength' = arrayLength
      /\ \/ /\ packetCount = arrayLength /\ packetCount' = packetCount
            /\ Contents # << >> /\ Contents' = Append(Tail(Contents), info)
         \/ /\ packetCount # arrayLength /\ packetCount' = packetCount + 1
            /\ Contents' = Append(Contents, info)
    BY <1>1, <1>2, WindowFacts, ForceEnqueueEffect
<1>5. HistoryTypes'
    BY <1>1, <1>4, WindowFacts, NextNumber, SeqFacts DEF HistoryTypes
<1>6. packetCount' = IF sentCount' < arrayLength' THEN sentCount' ELSE arrayLength'
    BY <1>1, <1>4, WindowFacts, SeqFacts
<1>7. latest'[nextSeq] = p /\ WrapSeq(nextSeq' - 1 - nextSeq) = 0
    BY <1>1, WindowFacts, SendAges
<1>8. ASSUME NEW k \in 1..packetCount'
      PROVE  /\ Contents'[k].packet = latest'[Contents'[k].seqNum]
             /\ WrapSeq(nextSeq' - 1 - Contents'[k].seqNum) = packetCount' - k
    <2>1. packetCount' \in Nat /\ packetCount' >= 1
        BY <1>4, WindowFacts
    <2>2. CASE k = packetCount'
        <3>1. Contents'[k] = info
            BY <1>4, <2>2, WindowFacts
        <3> QED BY <1>7, <2>1, <2>2, <3>1
    <2>3. CASE k # packetCount' /\ packetCount = arrayLength
        <3>1. /\ Contents'[k] = Contents[k + 1]
              /\ k + 1 \in 1..packetCount /\ packetCount' = packetCount
            BY <1>4, <2>3, WindowFacts
        <3>2. packetCount - (k + 1) < SeqMod - 1
            BY <2>1, <2>3, WindowFacts, SeqFacts
        <3>3. /\ latest'[Contents[k + 1].seqNum] = Contents[k + 1].packet
              /\ WrapSeq(nextSeq' - 1 - Contents[k + 1].seqNum)
                    = packetCount - (k + 1) + 1
            BY <3>1, <3>2, StaysInWindow
        <3> QED BY <3>1, <3>3, WindowFacts
    <2>4. CASE k # packetCount' /\ packetCount # arrayLength
        <3>0. k \in 1..packetCount /\ packetCount' = packetCount + 1
            BY <1>4, <2>4, WindowFacts
        <3>1. /\ Contents'[k] = Contents[k]
              /\ k \in 1..packetCount /\ packetCount' = packetCount + 1
            BY <1>4, <2>4, <3>0, WindowFacts
        <3>2. packetCount - k < SeqMod - 1
            BY <2>4, <3>1, WindowFacts, SeqFacts
        <3>3. /\ latest'[Contents[k].seqNum] = Contents[k].packet
              /\ WrapSeq(nextSeq' - 1 - Contents[k].seqNum) = packetCount - k + 1
            BY <3>1, <3>2, StaysInWindow
        <3> QED BY <3>1, <3>3, WindowFacts
    <2> QED BY <2>2, <2>3, <2>4
<1>9. QueueIsWindow'
    BY <1>6, <1>8 DEF QueueIsWindow, Age
<1> QED BY <1>3, <1>5, <1>9 DEF HInv

LEMMA UnchangedQueueInv ==
    ASSUME HInv, IInv', UNCHANGED <<ring, historyVars>>
    PROVE  HInv'
<1>1. Contents' = Contents /\ arrayLength' = arrayLength /\ packetCount' = packetCount
    BY DEF ring, Contents, WRAP
<1> QED BY <1>1 DEF HInv, HistoryTypes, QueueIsWindow, historyVars, Age

LEMMA ResendInv ==
    ASSUME HInv, NEW s \in SeqNum, Resend(s)
    PROVE  HInv'
<1>1. IInv'
    BY WindowFacts, RetrieveInv DEF Resend
<1>2. UNCHANGED ring
    BY DEF Resend, RtpPacketQueue_Retrieve, Refuse
<1> QED BY <1>1, <1>2, UnchangedQueueInv DEF Resend, historyVars

LEMMA HistoryNextInv ==
    HInv /\ [HistoryNext]_<<vars, historyVars>> => HInv'
<1> SUFFICES ASSUME HInv, [HistoryNext]_<<vars, historyVars>> PROVE HInv'
    OBVIOUS
<1>1. CASE Send
    BY <1>1, SendInv
<1>2. CASE \E s \in SeqNum : Resend(s)
    BY <1>2, ResendInv
<1>3. CASE UNCHANGED <<vars, historyVars>>
    <2>1. IInv'
        BY <1>3, WindowFacts, NextInv
    <2> QED BY <1>3, <2>1, UnchangedQueueInv DEF vars
<1> QED BY <1>1, <1>2, <1>3 DEF HistoryNext

-----------------------------------------------------------------------------

LEMMA RetransmitsStep ==
    ASSUME HInv, NEW s \in SeqNum, Resend(s)
    PROVE  IF InWindow(s)
            THEN result' = "OK" /\ out' = [seqNum |-> s, packet |-> latest[s]]
            ELSE result' \in {"EMPTY", "PACKET_NOT_FOUND"}
<1>1. Age(s) \in 0..(SeqMod - 1)
    BY WindowFacts, Behind DEF Age
<1>2. InWindow(s) <=> Age(s) < packetCount
    BY <1>1, WindowFacts DEF InWindow
<1>3. ASSUME NEW i \in 0..(packetCount - 1)
      PROVE  /\ i + 1 \in 1..packetCount
             /\ array[WRAP(readIndex + i)] = Contents[i + 1]
    <2>1. i + 1 \in 1..packetCount /\ (i + 1) - 1 = i
        BY WindowFacts
    <2> QED BY <2>1, WindowFacts, ContentsIsSeq DEF WRAP
<1>4. ASSUME NEW i \in Matches(s)
      PROVE  /\ Age(s) < packetCount
             /\ array[WRAP(readIndex + i)] = [seqNum |-> s, packet |-> latest[s]]
    <2>1. i \in 0..(packetCount - 1) /\ array[WRAP(readIndex + i)].seqNum = s
        BY DEF Matches
    <2>2. i + 1 \in 1..packetCount /\ Contents[i + 1].seqNum = s
        BY <1>3, <2>1
    <2>3. Age(s) = packetCount - (i + 1)
        BY <2>2, NthPacket DEF Age
    <2>4. Contents[i + 1] = [seqNum |-> s, packet |-> latest[s]]
        BY <2>2, NthPacket
    <2> QED BY <1>3, <2>1, <2>3, <2>4, WindowFacts
<1>5. ASSUME Age(s) < packetCount
      PROVE  Matches(s) # {}
    <2> DEFINE k == packetCount - Age(s)
    <2>1. k \in 1..packetCount /\ k - 1 \in 0..(packetCount - 1)
          /\ packetCount - k = Age(s) /\ (k - 1) + 1 = k
        BY <1>1, <1>5, WindowFacts
    <2> HIDE DEF k
    <2>2. Contents[k].seqNum \in SeqNum /\ Age(Contents[k].seqNum) = Age(s)
        BY <2>1, NthPacket DEF Age
    <2>3. Contents[k].seqNum = s
        BY <2>2, WindowFacts, AgeInjective
    <2>4. array[WRAP(readIndex + (k - 1))].seqNum = s
        BY <1>3, <2>1, <2>3
    <2> QED BY <2>1, <2>4 DEF Matches
<1>6. CASE Age(s) < packetCount
    <2>1. packetCount # 0
        BY <1>1, <1>6
    <2>2. PICK i \in Matches(s) : Return("OK", array[WRAP(readIndex + i)])
        BY <1>5, <1>6, <2>1 DEF Resend, RtpPacketQueue_Retrieve, QueueEmpty
    <2> QED BY <1>2, <1>4, <1>6, <2>2 DEF Return
<1>7. CASE ~(Age(s) < packetCount)
    <2>1. Matches(s) = {}
        BY <1>4, <1>7
    <2> QED BY <1>2, <1>7, <2>1
            DEF Resend, RtpPacketQueue_Retrieve, Refuse, Return
<1> QED BY <1>6, <1>7

LEMMA DeletesStep ==
    ASSUME HInv, Send
    PROVE  IF sentCount < arrayLength
            THEN result' = "OK" /\ out' = NoInfo
            ELSE LET s == WrapSeq(nextSeq - arrayLength)
                 IN  /\ result' = "PACKET_DELETED"
                     /\ out' = [seqNum |-> s, packet |-> latest[s]]
<1>1. PICK p \in Packet :
        RtpPacketQueue_ForceEnqueue([seqNum |-> nextSeq, packet |-> p])
    BY DEF Send
<1>2. [seqNum |-> nextSeq, packet |-> p] \in RtpPacketInfo
    BY WindowFacts DEF RtpPacketInfo
<1>3. \/ packetCount = arrayLength /\ result' = "PACKET_DELETED" /\ out' = Contents[1]
      \/ packetCount # arrayLength /\ result' = "OK" /\ out' = NoInfo
    BY <1>1, <1>2, WindowFacts, ForceEnqueueEffect
<1>4. sentCount < arrayLength <=> packetCount # arrayLength
    BY WindowFacts
<1>5. ASSUME packetCount = arrayLength
      PROVE  LET s == WrapSeq(nextSeq - arrayLength)
             IN  Contents[1] = [seqNum |-> s, packet |-> latest[s]]
    <2> DEFINE s == WrapSeq(nextSeq - arrayLength)
    <2>1. 1 \in 1..packetCount /\ arrayLength \in 1..SeqMod
        BY <1>5, WindowFacts
    <2>2. s \in SeqNum /\ WrapSeq(nextSeq - 1 - s) = arrayLength - 1
        BY <2>1, WindowFacts, NumberSent
    <2> HIDE DEF s
    <2>3. Contents[1].seqNum \in SeqNum /\ Age(Contents[1].seqNum) = Age(s)
        BY <1>5, <2>1, <2>2, NthPacket DEF Age
    <2>4. Contents[1].seqNum = s
        BY <2>2, <2>3, WindowFacts, AgeInjective
    <2> QED BY <2>1, <2>4, NthPacket DEF s
<1> QED BY <1>3, <1>4, <1>5

-----------------------------------------------------------------------------
(* However often the counter has wrapped: a reported packet is found       *)
(* exactly while it is in the window, and it is the one last sent.         *)
THEOREM ResendsLatestPacket == HistorySpec => RetransmitsLatest
<1>1. HistoryInit => HInv
    BY HistoryInitInv
<1>2. HInv /\ [HistoryNext]_<<vars, historyVars>> => HInv'
    BY HistoryNextInv
<1>3. HInv => \A s \in SeqNum : Resend(s) =>
                IF InWindow(s)
                    THEN result' = "OK" /\ out' = [seqNum |-> s, packet |-> latest[s]]
                    ELSE result' \in {"EMPTY", "PACKET_NOT_FOUND"}
    BY RetransmitsStep
<1> QED BY <1>1, <1>2, <1>3, PTL DEF HistorySpec, RetransmitsLatest

(* ForceEnqueue gives up the oldest packet of the window and no other.     *)
THEOREM DeletesOldestPacket == HistorySpec => DeletesOldest
<1>1. HistoryInit => HInv
    BY HistoryInitInv
<1>2. HInv /\ [HistoryNext]_<<vars, historyVars>> => HInv'
    BY HistoryNextInv
<1>3. HInv => (Send =>
        IF sentCount < arrayLength
            THEN result' = "OK" /\ out' = NoInfo
            ELSE LET s == WrapSeq(nextSeq - arrayLength)
                 IN  /\ result' = "PACKET_DELETED"
                     /\ out' = [seqNum |-> s, packet |-> latest[s]])
    BY DeletesStep
<1> QED BY <1>1, <1>2, <1>3, PTL DEF HistorySpec, DeletesOldest
=============================================================================
