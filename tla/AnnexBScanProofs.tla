-------------------------- MODULE AnnexBScanProofs --------------------------
(***************************************************************************)
(* The start code search finds the NAL units of every frame.  The scan     *)
(* steps over what it has matched, so the argument is about what may hide  *)
(* there: no start code overlaps the one before it, and a long start code  *)
(* is a zero and a short one.                                              *)
(***************************************************************************)
EXTENDS AnnexBScan, TLAPS

(* The start code at c that makes the scan go on at p.                     *)
CodeFromTo(c, p) ==
    \/ ThreeByteCode(c) /\ p = c + 3
    \/ c < Length /\ frame[c + 1] = 0 /\ ThreeByteCode(c + 1) /\ p = c + 4

(* Where a NAL unit may begin that the scan is in.                         *)
ScanStart(s) == s = 0 \/ s \in UnitStarts

LEMMA FrameType == TypeOK => frame \in Seq(Nat) /\ Length \in Nat
BY ScanAssumption DEF TypeOK, Length

(* A start code that is found is followed by a NAL unit, and no other NAL  *)
(* unit starts between it and the one before.                              *)
LEMMA NoStartSkipped ==
    ASSUME TypeOK,
           NEW s \in Nat, ScanStart(s),
           NEW c \in Nat, s <= c, NoCodeIn(s, c),
           NEW p \in Nat, CodeFromTo(c, p)
    PROVE  /\ p \in UnitStarts
           /\ CodeAt(c)
           /\ \A i \in UnitStarts : i < p <=> i <= s
<1>1. frame \in Seq(Nat) /\ Length \in Nat
  BY FrameType
<1>2. p \in UnitStarts /\ CodeAt(c)
  BY <1>1 DEF CodeFromTo, UnitStarts, ThreeByteCode, CodeAt
<1>3. ASSUME NEW i \in UnitStarts, i <= s
      PROVE  i < p
  BY <1>1, <1>3 DEF CodeFromTo, UnitStarts
<1>4. ASSUME NEW i \in UnitStarts, i < p, s < i
      PROVE  FALSE
  <2>1. i \in 3..Length /\ ThreeByteCode(i - 3)
    BY DEF UnitStarts
  <2>2. CASE i - 3 < s
    <3>1. s \in 3..Length /\ frame[s] = 1
      BY <1>1, <1>4, <2>1, <2>2 DEF ScanStart, UnitStarts, ThreeByteCode
    <3>2. i - 3 = s - 1 \/ i - 3 = s - 2
      BY <1>1, <1>4, <2>1, <2>2, <3>1
    <3> QED
      BY <1>1, <2>1, <3>1, <3>2 DEF ThreeByteCode
  <2>3. CASE i - 3 \in s..(c - 1)
    BY <1>1, <2>1, <2>3 DEF NoCodeIn, CodeAt
  <2>4. CASE i - 3 >= c
    BY <1>1, <1>4, <2>1, <2>4 DEF CodeFromTo, ThreeByteCode
  <2> QED
    BY <1>1, <2>1, <2>2, <2>3, <2>4
<1> QED
  BY <1>1, <1>2, <1>3, <1>4 DEF UnitStarts

(* A scan that has come to the end of the frame is in its last NAL unit.   *)
LEMMA NoStartBehind ==
    ASSUME TypeOK,
           NEW s \in Nat, ScanStart(s), NoCodeIn(s, Length)
    PROVE  \A i \in UnitStarts : i <= s
<1>1. frame \in Seq(Nat) /\ Length \in Nat
  BY FrameType
<1> SUFFICES ASSUME NEW i \in UnitStarts, s < i
             PROVE  FALSE
  BY <1>1 DEF UnitStarts
<1>2. i \in 3..Length /\ ThreeByteCode(i - 3)
  BY DEF UnitStarts
<1>3. CASE i - 3 < s
  <2>1. s \in 3..Length /\ frame[s] = 1
    BY <1>1, <1>2, <1>3 DEF ScanStart, UnitStarts, ThreeByteCode
  <2>2. i - 3 = s - 1 \/ i - 3 = s - 2
    BY <1>1, <1>2, <1>3, <2>1
  <2> QED
    BY <1>1, <1>2, <2>1, <2>2 DEF ThreeByteCode
<1>4. CASE i - 3 >= s
  BY <1>1, <1>2, <1>4 DEF NoCodeIn, CodeAt
<1> QED
  BY <1>1, <1>2, <1>3, <1>4

-----------------------------------------------------------------------------

(* Between two turns: what is behind the last start code holds none, and   *)
(* the NAL units before it have all been added.                            *)
InScan ==
    /\ frame # << >>
    /\ ScanStart(naluStartIndex)
    /\ firstStartCode <=> naluStartIndex = 0
    /\ NoCodeIn(naluStartIndex, currentIndex)
    /\ \A i \in UnitStarts :
          i < naluStartIndex <=> \E m \in 1..Len(nalus) : nalus[m].from = i

ScanIsConsistent ==
    /\ TypeOK
    /\ AddsUnitsInOrder
    /\ Len(nalus) <= room
    /\ ~Returned => InScan
    /\ lastHandled => currentIndex = Length
    /\ ResultTellsWhatIsLeft

(* AddsUnitsInOrder as it reads for any sequence of NAL units.             *)
InOrder(units) ==
    \A n \in 1..Len(units) :
        /\ IsUnit(units[n].from, units[n].to)
        /\ \A i \in UnitStarts :
              i < units[n].from <=> \E m \in 1..(n - 1) : units[m].from = i

(* The frame is the caller's, and its NAL units stay what they are.        *)
LEMMA SameStream ==
    ASSUME UNCHANGED call
    PROVE  /\ UnitStarts' = UnitStarts /\ Length' = Length
           /\ AddsUnitsInOrder' <=> InOrder(nalus')
           /\ \A i, j : IsUnit(i, j)' <=> IsUnit(i, j)
           /\ \A i, j : NoCodeIn(i, j)' <=> NoCodeIn(i, j)
<1> USE DEF call, UnitStarts, Length, IsUnit, ThreeByteCode, NoCodeIn, CodeAt
<1>1. frame' = frame
  OBVIOUS
<1>2. UnitStarts' = UnitStarts /\ Length' = Length
  BY <1>1
<1>3. /\ \A i, j : IsUnit(i, j)' <=> IsUnit(i, j)
      /\ \A i, j : NoCodeIn(i, j)' <=> NoCodeIn(i, j)
  BY <1>1
<1>4. AddsUnitsInOrder' <=> InOrder(nalus')
  BY <1>1 DEF AddsUnitsInOrder, InOrder
<1> QED
  BY <1>2, <1>3, <1>4

(* What the call of AddNalu that tries the next NAL unit leaves behind.    *)
UnitTried ==
    /\ nalus' \in Seq([from : Nat, to : Nat])
    /\ AddsUnitsInOrder'
    /\ Len(nalus') <= room
    /\ result' \in {"OK", "MALFORMED_PACKET", "OUT_OF_MEMORY"}
    /\ result' = "OK" =>
         \A i \in UnitStarts :
            i <= naluStartIndex <=> \E m \in 1..Len(nalus') : nalus'[m].from = i
    /\ result' # "OK" => ResultTellsWhatIsLeft'

(* The call of AddNalu keeps the order, for a NAL unit of the stream that  *)
(* comes next.                                                             *)
LEMMA AddNaluKeepsOrder ==
    ASSUME ScanIsConsistent, InScan, UNCHANGED call,
           NEW to \in Nat, IsUnit(naluStartIndex, to),
           AddNalu(naluStartIndex, to)
    PROVE  UnitTried
<1> DEFINE from == naluStartIndex
<1>1. /\ frame \in Seq(Nat) /\ Length \in Nat /\ room \in Nat /\ headerSize \in Nat
      /\ nalus \in Seq([from : Nat, to : Nat])
      /\ UnitStarts \subseteq Nat
      /\ naluStartIndex \in Nat
  BY FrameType, ScanAssumption DEF ScanIsConsistent, TypeOK, UnitStarts
<1>2. /\ UnitStarts' = UnitStarts /\ Length' = Length
      /\ AddsUnitsInOrder' <=> InOrder(nalus')
  BY SameStream
<1>3. AddsUnitsInOrder <=> InOrder(nalus)
  BY DEF AddsUnitsInOrder, InOrder
<1>4. CASE /\ to - from >= headerSize
           /\ Len(nalus) < room
           /\ nalus' = Append(nalus, [from |-> from, to |-> to])
           /\ result' = "OK"
  <2>1. /\ nalus' \in Seq([from : Nat, to : Nat])
        /\ Len(nalus') = Len(nalus) + 1
        /\ nalus'[Len(nalus) + 1] = [from |-> from, to |-> to]
        /\ \A m \in 1..Len(nalus) : nalus'[m] = nalus[m]
        /\ Len(nalus) \in Nat
    BY <1>1, <1>4
  <2>2. ASSUME NEW i \in UnitStarts
        PROVE  i <= from <=> \E m \in 1..Len(nalus') : nalus'[m].from = i
    <3>1. i < from <=> \E m \in 1..Len(nalus) : nalus[m].from = i
      BY DEF InScan
    <3>2. CASE i = from
      <4>1. Len(nalus') \in 1..Len(nalus') /\ nalus'[Len(nalus')].from = i
        BY <1>1, <2>1, <3>2
      <4> QED
        BY <1>1, <3>2, <4>1
    <3>3. ASSUME i < from
          PROVE  \E m \in 1..Len(nalus') : nalus'[m].from = i
      <4>1. PICK m \in 1..Len(nalus) : nalus[m].from = i
        BY <3>1, <3>3
      <4>2. m \in 1..Len(nalus')
        BY <2>1
      <4>3. nalus'[m].from = i
        BY <2>1, <4>1
      <4> QED
        BY <4>2, <4>3
    <3>4. ASSUME NEW m \in 1..Len(nalus'), nalus'[m].from = i
          PROVE  i <= from
      <4>1. CASE m = Len(nalus) + 1
        BY <1>1, <2>1, <3>4, <4>1
      <4>2. CASE m \in 1..Len(nalus)
        <5>1. nalus[m].from = i
          BY <2>1, <3>4, <4>2
        <5>2. i < from
          BY <3>1, <4>2, <5>1
        <5> QED
          BY <1>1, <5>2
      <4> QED
        BY <1>1, <2>1, <4>1, <4>2
    <3> QED
      BY <1>1, <3>2, <3>3, <3>4
  <2>3. InOrder(nalus')
    <3> SUFFICES ASSUME NEW n \in 1..Len(nalus')
                 PROVE  /\ IsUnit(nalus'[n].from, nalus'[n].to)
                        /\ \A i \in UnitStarts :
                            i < nalus'[n].from <=>
                                \E m \in 1..(n - 1) : nalus'[m].from = i
      BY DEF InOrder
    <3>1. \A m \in 1..(n - 1) : m \in 1..Len(nalus) /\ nalus'[m] = nalus[m]
      <4>1. \A m \in 1..(n - 1) : m \in 1..Len(nalus)
        BY <2>1
      <4> QED
        BY <2>1, <4>1
    <3>2. CASE n \in 1..Len(nalus)
      <4>1. nalus'[n] = nalus[n]
        BY <2>1, <3>2
      <4>2. /\ IsUnit(nalus[n].from, nalus[n].to)
            /\ \A i \in UnitStarts :
                 i < nalus[n].from <=> \E m \in 1..(n - 1) : nalus[m].from = i
        BY <1>3, <3>2 DEF ScanIsConsistent, InOrder
      <4> QED
        BY <3>1, <4>1, <4>2
    <3>3. CASE n = Len(nalus) + 1
      <4>1. nalus'[n].from = naluStartIndex /\ nalus'[n].to = to /\ n - 1 = Len(nalus)
        BY <1>1, <2>1, <3>3
      <4>2. \A i \in UnitStarts :
              i < naluStartIndex <=> \E m \in 1..(n - 1) : nalus[m].from = i
        BY <4>1 DEF InScan
      <4>3. IsUnit(nalus'[n].from, nalus'[n].to)
        BY <4>1
      <4>4. \A i \in UnitStarts :
              i < nalus'[n].from <=> \E m \in 1..(n - 1) : nalus'[m].from = i
        BY <3>1, <4>1, <4>2
      <4> QED
        BY <4>3, <4>4
    <3> QED
      BY <1>1, <2>1, <3>2, <3>3
  <2> QED
    <3>1. Len(nalus') <= room
      BY <1>1, <1>4, <2>1
    <3>2. \A i \in UnitStarts :
            i <= from <=> \E m \in 1..Len(nalus') : nalus'[m].from = i
      BY <2>2
    <3>3. AddsUnitsInOrder'
      BY <1>2, <2>3
    <3> QED
      BY <1>4, <2>1, <3>1, <3>2, <3>3 DEF UnitTried
<1>5. CASE result' # "OK" /\ UNCHANGED nalus
  <2>1. Left' = Left
    BY <1>2, <1>5 DEF Left
  <2>2. from \in Left /\ \A k \in Left : from <= k
    <3>1. from \in UnitStarts
      BY DEF IsUnit
    <3>2. \A i \in UnitStarts :
            i < from <=> \E m \in 1..Len(nalus) : nalus[m].from = i
      BY DEF InScan
    <3>3. ASSUME NEW k \in Left
          PROVE  from <= k
      BY <1>1, <3>2 DEF Left
    <3>4. from \in Left
      BY <1>1, <3>1, <3>2 DEF Left
    <3> QED
      BY <3>3, <3>4
  <2>3. /\ \/ to - from < headerSize /\ result' = "MALFORMED_PACKET"
           \/ /\ to - from >= headerSize
              /\ Len(nalus') = room'
              /\ result' = "OUT_OF_MEMORY"
        /\ headerSize' = headerSize
    BY <1>1, <1>5 DEF AddNalu, ScanIsConsistent, call
  <2>4. ResultTellsWhatIsLeft'
    <3>1. to \in 0..Length
      BY <1>1 DEF IsUnit
    <3>2. IsUnit(from, to) /\ \A i, j : IsUnit(i, j)' <=> IsUnit(i, j)
      BY SameStream
    <3> QED
      BY <1>2, <2>1, <2>2, <2>3, <3>1, <3>2 DEF ResultTellsWhatIsLeft
  <2> QED
    BY <1>1, <1>2, <1>3, <1>5, <2>3, <2>4 DEF ScanIsConsistent, UnitTried
<1> QED
  BY <1>4, <1>5 DEF AddNalu

-----------------------------------------------------------------------------

LEMMA InitIsConsistent == Init => ScanIsConsistent
<1> SUFFICES ASSUME Init
             PROVE  ScanIsConsistent
  OBVIOUS
<1>1. frame \in Seq(Nat) /\ Length \in Nat /\ room \in Nat /\ Len(nalus) = 0
  BY ScanAssumption DEF Init, Length
<1>2. TypeOK
  <2>1. /\ nalus = << >>
        /\ result \in {"OK", "BAD_PARAM"}
    BY DEF Init
  <2>2. nalus \in Seq([from : Nat, to : Nat])
    BY <2>1
  <2>3. firstStartCode \in BOOLEAN /\ lastHandled \in BOOLEAN
    BY DEF Init
  <2>4. currentIndex \in 0..Length /\ naluStartIndex \in 0..currentIndex
    BY <1>1 DEF Init
  <2>5. frame \in Frames /\ room \in Rooms /\ headerSize \in HeaderSizes
    BY DEF Init
  <2> QED
    BY <2>1, <2>2, <2>3, <2>4, <2>5 DEF TypeOK
<1>3. AddsUnitsInOrder
  BY <1>1 DEF AddsUnitsInOrder
<1>4. /\ Returned <=> result = "BAD_PARAM" /\ frame = << >>
      /\ ~lastHandled
  BY DEF Init, Returned
<1>5. ResultTellsWhatIsLeft
  BY <1>4 DEF ResultTellsWhatIsLeft
<1>6. ~Returned => InScan
  BY <1>1, <1>4 DEF Init, InScan, ScanStart, NoCodeIn, UnitStarts, Returned
<1> QED
  BY <1>1, <1>2, <1>3, <1>4, <1>5, <1>6 DEF ScanIsConsistent

(* A turn at a start code, short or long.                                  *)
LEMMA StartCodeKeeps ==
    ASSUME ScanIsConsistent, ~Returned, currentIndex < Length,
           NEW code \in {startCode1, startCode2},
           AtStartCode(code), UNCHANGED <<call, lastHandled>>
    PROVE  ScanIsConsistent'
<1> DEFINE p == currentIndex + Len(code)
<1>1. /\ frame \in Seq(Nat) /\ Length \in Nat /\ room \in Nat /\ headerSize \in Nat
      /\ nalus \in Seq([from : Nat, to : Nat])
      /\ currentIndex \in Nat /\ naluStartIndex \in 0..currentIndex
      /\ TypeOK /\ InScan /\ result = "OK" /\ ~lastHandled
  BY FrameType, ScanAssumption DEF ScanIsConsistent, TypeOK, Returned
<1>2. p \in Nat /\ CodeFromTo(currentIndex, p)
  <2>1. CASE code = startCode1
    <3>1. Len(code) = 4 /\ Length - currentIndex >= 4
          /\ frame[currentIndex + 1] = 0 /\ frame[currentIndex + 2] = 0
          /\ frame[currentIndex + 3] = 0 /\ frame[currentIndex + 4] = 1
      BY <1>1, <2>1 DEF AtStartCode, StartsWith, startCode1
    <3> QED
      BY <1>1, <3>1 DEF CodeFromTo, ThreeByteCode
  <2>2. CASE code = startCode2
    <3>1. Len(code) = 3 /\ Length - currentIndex >= 3
          /\ frame[currentIndex + 1] = 0 /\ frame[currentIndex + 2] = 0
          /\ frame[currentIndex + 3] = 1
      BY <1>1, <2>2 DEF AtStartCode, StartsWith, startCode2
    <3> QED
      BY <1>1, <3>1 DEF CodeFromTo, ThreeByteCode
  <2> QED
    BY <2>1, <2>2
<1>3. /\ p \in UnitStarts
      /\ CodeAt(currentIndex)
      /\ \A i \in UnitStarts : i < p <=> i <= naluStartIndex
  BY <1>1, <1>2, NoStartSkipped DEF InScan
<1>4. p \in 3..Length /\ UnitStarts \subseteq 3..Length
  BY <1>3 DEF UnitStarts
<1>5. /\ UnitStarts' = UnitStarts /\ Length' = Length /\ frame' = frame
      /\ room' = room /\ headerSize' = headerSize /\ lastHandled' = lastHandled
      /\ firstStartCode' = FALSE /\ naluStartIndex' = p /\ currentIndex' = p
  BY SameStream DEF call, AtStartCode
<1>6. /\ nalus' \in Seq([from : Nat, to : Nat])
      /\ AddsUnitsInOrder'
      /\ Len(nalus') <= room
      /\ result' \in {"OK", "MALFORMED_PACKET", "OUT_OF_MEMORY"}
      /\ result' = "OK" =>
           \A i \in UnitStarts :
               i < p <=> \E m \in 1..Len(nalus') : nalus'[m].from = i
      /\ result' # "OK" => ResultTellsWhatIsLeft'
  <2>1. CASE firstStartCode
    <3>1. UNCHANGED <<nalus, result>>
      BY <2>1 DEF AtStartCode
    <3>2. AddsUnitsInOrder' /\ Len(nalus') <= room
      BY <3>1, SameStream DEF ScanIsConsistent, AddsUnitsInOrder, InOrder
    <3>3. \A i \in UnitStarts :
            i < naluStartIndex <=> \E m \in 1..Len(nalus) : nalus[m].from = i
      BY <1>1 DEF InScan
    <3>4. \A i \in UnitStarts : ~(i <= naluStartIndex) /\ ~(i < naluStartIndex)
      BY <1>1, <1>4, <2>1 DEF InScan
    <3> QED
      BY <1>1, <1>3, <3>1, <3>2, <3>3, <3>4
  <2>2. CASE ~firstStartCode
    <3>1. AddNalu(naluStartIndex, currentIndex)
      BY <2>2 DEF AtStartCode
    <3>2. IsUnit(naluStartIndex, currentIndex)
      BY <1>1, <1>3, <2>2 DEF InScan, ScanStart, IsUnit
    <3>3. UnitTried
      BY <1>1, <3>1, <3>2, AddNaluKeepsOrder
    <3> QED
      BY <1>3, <3>3 DEF UnitTried
  <2> QED
    BY <2>1, <2>2
<1>7. TypeOK'
  <2>1. currentIndex' \in 0..Length' /\ naluStartIndex' \in 0..currentIndex'
    BY <1>2, <1>4, <1>5
  <2> QED
    BY <1>1, <1>5, <1>6, <2>1 DEF TypeOK
<1>8. ~Returned' => InScan'
  <2> SUFFICES ASSUME result' = "OK"
               PROVE  InScan'
    BY DEF Returned
  <2>1. NoCodeIn(naluStartIndex, currentIndex)'
    BY <1>1, <1>2, <1>5 DEF NoCodeIn
  <2>2. frame' # << >> /\ ScanStart(naluStartIndex)'
    BY <1>1, <1>3, <1>5 DEF InScan, ScanStart
  <2> QED
    BY <1>4, <1>5, <1>6, <2>1, <2>2 DEF InScan
<1>9. ResultTellsWhatIsLeft'
  BY <1>1, <1>5, <1>6 DEF ResultTellsWhatIsLeft, Returned
<1> QED
  BY <1>1, <1>5, <1>6, <1>7, <1>8, <1>9 DEF ScanIsConsistent

(* A turn that finds no start code moves on by one byte.                   *)
LEMMA ByteKeeps ==
    ASSUME ScanIsConsistent, ~Returned, currentIndex < Length,
           ~StartsWith(startCode1), ~StartsWith(startCode2),
           currentIndex' = currentIndex + 1,
           UNCHANGED <<naluStartIndex, firstStartCode, nalus, result>>,
           UNCHANGED <<call, lastHandled>>
    PROVE  ScanIsConsistent'
<1>1. /\ frame \in Seq(Nat) /\ Length \in Nat /\ room \in Nat
      /\ currentIndex \in Nat /\ naluStartIndex \in 0..currentIndex
      /\ TypeOK /\ InScan
  BY FrameType, ScanAssumption DEF ScanIsConsistent, TypeOK
<1>2. ~CodeAt(currentIndex)
  <2>1. ~ThreeByteCode(currentIndex)
    BY <1>1 DEF ThreeByteCode, StartsWith, startCode2
  <2>2. ASSUME frame[currentIndex + 1] = 0, ThreeByteCode(currentIndex + 1)
        PROVE  FALSE
    <3>1. /\ Length - currentIndex >= 4
          /\ frame[currentIndex + 2] = 0
          /\ frame[currentIndex + 3] = 0
          /\ frame[currentIndex + 4] = 1
      BY <1>1, <2>2 DEF ThreeByteCode
    <3>2. Len(startCode1) = 4 /\ startCode1[1] = 0 /\ startCode1[2] = 0
          /\ startCode1[3] = 0 /\ startCode1[4] = 1
      BY DEF startCode1
    <3>3. \A i \in 1..4 : frame[currentIndex + i] = startCode1[i]
      BY <2>2, <3>1, <3>2
    <3> QED
      BY <3>1, <3>2, <3>3 DEF StartsWith
  <2> QED
    BY <2>1, <2>2 DEF CodeAt
<1>3. NoCodeIn(naluStartIndex, currentIndex + 1)
  BY <1>1, <1>2 DEF InScan, NoCodeIn
<1>4. TypeOK'
  BY <1>1 DEF TypeOK, call, Length
<1>5. AddsUnitsInOrder'
  BY SameStream DEF ScanIsConsistent, AddsUnitsInOrder, InOrder
<1>6. InScan'
  <2>1. NoCodeIn(naluStartIndex, currentIndex)'
    BY <1>3, SameStream
  <2> QED
    BY <1>1, <2>1, SameStream DEF InScan, ScanStart, call
<1>7. ~Returned'
  BY DEF Returned
<1> QED
  BY <1>1, <1>4, <1>5, <1>6, <1>7
     DEF ScanIsConsistent, ResultTellsWhatIsLeft, Returned, call

(* The step behind the loop.                                               *)
LEMMA HandleLastKeeps ==
    ASSUME ScanIsConsistent, HandleLast
    PROVE  ScanIsConsistent'
<1>1. /\ frame \in Seq(Nat) /\ Length \in Nat /\ room \in Nat
      /\ nalus \in Seq([from : Nat, to : Nat])
      /\ currentIndex = Length /\ naluStartIndex \in 0..Length
      /\ TypeOK /\ InScan
  BY FrameType, ScanAssumption
     DEF ScanIsConsistent, TypeOK, HandleLast, Returned
<1>2. \A i \in UnitStarts : i <= naluStartIndex
  BY <1>1, NoStartBehind DEF InScan
<1>3. UNCHANGED call /\ UNCHANGED scan /\ lastHandled' = TRUE /\ Returned'
  BY DEF HandleLast, Returned
<1>4. UnitStarts' = UnitStarts /\ Length' = Length /\ UnitStarts \subseteq 3..Length
  BY <1>3, SameStream DEF UnitStarts
<1>5. CASE naluStartIndex > 0 /\ AddNalu(naluStartIndex, Length)
  <2>1. IsUnit(naluStartIndex, Length)
    BY <1>1, <1>5 DEF InScan, ScanStart, IsUnit
  <2>2. UnitTried
    BY <1>1, <1>3, <1>5, <2>1, AddNaluKeepsOrder
  <2>3. result' = "OK" => ResultTellsWhatIsLeft'
    <3> SUFFICES ASSUME result' = "OK"
                 PROVE  ResultTellsWhatIsLeft'
      OBVIOUS
    <3>1. Left' = {}
      BY <1>2, <1>4, <2>2 DEF Left, UnitTried
    <3>2. UnitStarts' # {}
      BY <1>4, <2>1 DEF IsUnit
    <3> QED
      BY <3>1, <3>2 DEF ResultTellsWhatIsLeft
  <2>4. TypeOK'
    BY <1>1, <1>3, <1>4, <2>2 DEF TypeOK, UnitTried, call, scan
  <2> QED
    BY <1>1, <1>3, <1>4, <2>2, <2>3, <2>4 DEF ScanIsConsistent, UnitTried, call, scan
<1>6. CASE /\ naluStartIndex = 0
           /\ result' = "MALFORMED_PACKET"
           /\ UNCHANGED nalus
  <2>1. AddsUnitsInOrder'
    BY <1>3, <1>6, SameStream DEF ScanIsConsistent, AddsUnitsInOrder, InOrder
  <2>2. UnitStarts = {}
    BY <1>2, <1>4, <1>6
  <2>3. ResultTellsWhatIsLeft'
    BY <1>1, <1>3, <1>4, <1>6, <2>2 DEF ResultTellsWhatIsLeft, InScan, call
  <2>4. TypeOK'
    BY <1>1, <1>3, <1>4, <1>6 DEF TypeOK, call, scan
  <2> QED
    BY <1>1, <1>3, <1>4, <1>6, <2>1, <2>3, <2>4 DEF ScanIsConsistent, call, scan
<1> QED
  BY <1>5, <1>6 DEF HandleLast

LEMMA StaysConsistent == Spec => []ScanIsConsistent
<1>1. ScanIsConsistent /\ [Next]_vars => ScanIsConsistent'
  <2> SUFFICES ASSUME ScanIsConsistent, [Next]_vars
               PROVE  ScanIsConsistent'
    OBVIOUS
  <2>1. CASE Turn
    <3>1. Length \in Nat
      BY FrameType DEF ScanIsConsistent
    <3>2. ~Returned
      BY <2>1, <3>1 DEF ScanIsConsistent, Turn, Returned
    <3> QED
      BY <2>1, <3>2, StartCodeKeeps, ByteKeeps DEF Turn
  <2>2. CASE HandleLast
    BY <2>2, HandleLastKeeps
  <2>3. CASE UNCHANGED vars
    <3>1. UNCHANGED call
      BY <2>3 DEF vars
    <3> USE <2>3 DEF vars, call, scan
    <3>2. AddsUnitsInOrder'
      BY <3>1, SameStream DEF ScanIsConsistent, AddsUnitsInOrder, InOrder
    <3>3. TypeOK'
      BY <3>1, SameStream DEF ScanIsConsistent, TypeOK
    <3>4. (~Returned => InScan)'
      BY <3>1, SameStream DEF ScanIsConsistent, Returned, InScan, ScanStart
    <3>5. ResultTellsWhatIsLeft'
      BY <3>1, SameStream DEF ScanIsConsistent, Returned, ResultTellsWhatIsLeft, Left
    <3> QED
      BY <3>1, <3>2, <3>3, <3>4, <3>5, SameStream DEF ScanIsConsistent
  <2> QED
    BY <2>1, <2>2, <2>3 DEF Next
<1> QED
  BY <1>1, InitIsConsistent, PTL DEF Spec

(* The indices stay in the frame, for frames of any length and content.    *)
THEOREM TypeCorrect == Spec => []TypeOK
<1>1. ScanIsConsistent => TypeOK
  BY DEF ScanIsConsistent
<1> QED
  BY <1>1, StaysConsistent, PTL

(* The NAL units added are the first ones of the byte stream, in order.    *)
THEOREM ScanFindsUnits == Spec => []AddsUnitsInOrder
<1>1. ScanIsConsistent => AddsUnitsInOrder
  BY DEF ScanIsConsistent
<1> QED
  BY <1>1, StaysConsistent, PTL

(* AddFrame returns OK when it has added all NAL units of the byte stream, *)
(* and otherwise says what is wrong with the next one.                     *)
THEOREM ScanTellsWhatIsLeft == Spec => []ResultTellsWhatIsLeft
<1>1. ScanIsConsistent => ResultTellsWhatIsLeft
  BY DEF ScanIsConsistent
<1> QED
  BY <1>1, StaysConsistent, PTL
=============================================================================
