--------------------------- MODULE FrameCodecProofs ---------------------------
(***************************************************************************)
(* Proofs about FrameCodec, for all frames, buffers, array lengths and     *)
(* losses: a reader of the VP8 payload descriptor finds what the           *)
(* packetizer put in, whatever lies behind it; the packets in the array    *)
(* agree with what was sent of the frame; and from these the four          *)
(* properties of the two ends, the refinement of UnitStream among them.    *)
(***************************************************************************)
EXTENDS FrameCodec, SequenceTheorems, FiniteSetTheorems, WellFoundedInduction, TLAPS

-----------------------------------------------------------------------------
(* Recursive functions over 0..n.  The first two lemmas are induction.     *)

(* Every nonempty set of natural numbers has a least element.              *)
LEMMA Least ==
    ASSUME NEW T \in SUBSET Nat, T # {}
    PROVE  \E n \in T : \A m \in T : n <= m
<1> DEFINE R == OpToRel(<, Nat)
<1>1. IsWellFoundedOn(R, Nat)
    BY NatLessThanWellFounded
<1>2. \A m, n \in Nat : m < n => <<m, n>> \in R
    BY DEF OpToRel
<1> HIDE DEF R
<1>3. PICK n \in T : \A m \in T : ~(<<m, n>> \in R)
    BY <1>1, WFMin
<1>4. \A m \in T : m \in Nat /\ n \in Nat /\ ~(m < n)
    BY <1>2, <1>3
<1> QED BY <1>4

(* Induction up to n, over a set that holds what is reached.               *)
LEMMA UpTo ==
    ASSUME NEW n \in Nat, NEW Reached, 0 \in Reached,
           \A i \in 1..n : i - 1 \in Reached => i \in Reached
    PROVE  \A i \in 0..n : i \in Reached
<1> DEFINE T == {i \in 0..n : i \notin Reached}
<1> SUFFICES ASSUME T # {} PROVE FALSE
    OBVIOUS
<1>1. T \in SUBSET Nat
    OBVIOUS
<1>2. PICK k \in T : \A m \in T : k <= m
    <2> HIDE DEF T
    <2> QED BY <1>1, Least
<1>3. k \in 1..n /\ ~(k - 1 \in T)
    <2>1. k \in 1..n
        OBVIOUS
    <2> HIDE DEF T
    <2> QED BY <1>2, <2>1
<1> QED BY <1>3

(* There is a function that begins with x and goes on as G says.           *)
Recursive(n, Values, x, G) ==
    \E f \in [0..n -> Values] : f[0] = x /\ \A i \in 1..n : f[i] = G[i][f[i - 1]]

(* Any step functions define a function over 0..n.                         *)
LEMMA Recursion ==
    ASSUME NEW n \in Nat, NEW Values, NEW x \in Values,
           NEW G \in [1..n -> [Values -> Values]]
    PROVE  Recursive(n, Values, x, G)
<1> DEFINE Is(f, k) == f[0] = x /\ \A i \in 1..k : f[i] = G[i][f[i - 1]]
           Reaches(k) == \E f \in [0..k -> Values] : Is(f, k)
           Reached == {k \in 0..n : Reaches(k)}
<1>1. Reaches(0)
    <2> DEFINE f == [i \in 0..0 |-> x]
    <2>1. f \in [0..0 -> Values] /\ Is(f, 0)
        OBVIOUS
    <2> QED BY <2>1, Zenon
<1>2. ASSUME NEW k \in 1..n, Reaches(k - 1) PROVE Reaches(k)
    <2>1. PICK f \in [0..(k - 1) -> Values] : Is(f, k - 1)
        BY <1>2, Zenon
    <2> DEFINE h == [i \in 0..k |-> IF i = k THEN G[k][f[k - 1]] ELSE f[i]]
    <2>2. f[k - 1] \in Values /\ G[k][f[k - 1]] \in Values
        OBVIOUS
    <2>3. \A i \in 0..k : i # k => i \in 0..(k - 1)
        OBVIOUS
    <2>4. h \in [0..k -> Values]
        BY <2>2, <2>3
    <2>5. Is(h, k)
        <3>1. \A i \in 0..(k - 1) : h[i] = f[i]
            BY <2>3
        <3>2. h[k] = G[k][f[k - 1]] /\ k # 0 /\ k - 1 \in 0..(k - 1)
            OBVIOUS
        <3>3. \A i \in 1..k : i # k => i \in 1..(k - 1) /\ i - 1 \in 0..(k - 1)
            OBVIOUS
        <3>4. 0 \in 0..(k - 1) /\ \A i \in 1..(k - 1) : i \in 0..(k - 1)
            OBVIOUS
        <3> HIDE DEF h
        <3> QED BY <2>1, <3>1, <3>2, <3>3, <3>4
    <2> QED BY <2>4, <2>5, Zenon
<1>3. Reaches(n)
    <2> HIDE DEF Reaches
    <2>1. 0 \in Reached /\ \A k \in 1..n : k - 1 \in Reached => k \in Reached
        BY <1>1, <1>2
    <2> HIDE DEF Reached
    <2>2. \A k \in 0..n : k \in Reached
        BY <2>1, UpTo
    <2>3. n \in Reached
        BY <2>2
    <2> QED BY <2>3 DEF Reached
<1> QED BY <1>3, Zenon DEF Recursive

(* l begins with x and grows by the weights.                               *)
Adds(l, n, x, w) ==
    /\ l = [i \in 0..n |-> l[i]]
    /\ l[0] = x
    /\ \A i \in 1..n : l[i] = l[i - 1] + w[i]

(* Running sums of integers exist,                                         *)
LEMMA AddsExists ==
    ASSUME NEW n \in Nat, NEW x \in Int, NEW w, \A i \in 1..n : w[i] \in Int
    PROVE  \E l : Adds(l, n, x, w)
<1> DEFINE G == [i \in 1..n |-> [v \in Int |-> v + w[i]]]
<1>1. G \in [1..n -> [Int -> Int]]
    OBVIOUS
<1>2. PICK f \in [0..n -> Int] : f[0] = x /\ \A i \in 1..n : f[i] = G[i][f[i - 1]]
    <2> HIDE DEF G
    <2>1. Recursive(n, Int, x, G)
        BY <1>1, Recursion
    <2> QED BY <2>1, Zenon DEF Recursive
<1>3. ASSUME NEW i \in 1..n PROVE f[i] = f[i - 1] + w[i]
    <2>1. f[i - 1] \in Int
        OBVIOUS
    <2>2. G[i][f[i - 1]] = f[i - 1] + w[i]
        BY <2>1
    <2> QED BY <1>2, <2>2
<1>4. Adds(f, n, x, w)
    BY <1>2, <1>3 DEF Adds
<1> QED BY <1>4, Zenon

(* are integers,                                                           *)
LEMMA AddsIntegers ==
    ASSUME NEW n \in Nat, NEW x \in Int, NEW w, \A i \in 1..n : w[i] \in Int,
           NEW l, Adds(l, n, x, w)
    PROVE  l \in [0..n -> Int]
<1> DEFINE Reached == {i \in 0..n : l[i] \in Int}
<1>0. l[0] = x /\ \A i \in 1..n : l[i] = l[i - 1] + w[i]
    BY Zenon DEF Adds
<1>1. 0 \in Reached /\ \A i \in 1..n : i - 1 \in Reached => i \in Reached
    BY <1>0
<1>2. \A i \in 0..n : i \in Reached
    <2> HIDE DEF Reached
    <2> QED BY <1>1, UpTo
<1> QED BY <1>2 DEF Adds

(* and depend on nothing but the weights.                                  *)
LEMMA SameSum ==
    ASSUME NEW n \in Nat, NEW m \in Nat, n <= m, NEW x, NEW f, NEW g, NEW v, NEW w,
           Adds(f, n, x, v), Adds(g, m, x, w), \A i \in 1..n : v[i] = w[i]
    PROVE  f[n] = g[n]
<1> DEFINE Reached == {i \in 0..n : f[i] = g[i]}
<1>0. /\ f[0] = x /\ \A i \in 1..n : f[i] = f[i - 1] + v[i]
      /\ g[0] = x /\ \A i \in 1..m : g[i] = g[i - 1] + w[i]
    BY Zenon DEF Adds
<1>1. 0 \in Reached /\ \A i \in 1..n : i - 1 \in Reached => i \in Reached
    BY <1>0
<1>2. \A i \in 0..n : i \in Reached
    <2> HIDE DEF Reached
    <2> QED BY <1>1, UpTo
<1> QED BY <1>2

-----------------------------------------------------------------------------
(* Payload descriptors: a reader of one, whatever lies behind it, finds    *)
(* what the packetizer put in.                                             *)

(* N and X are read back from the first byte, with S or without.           *)
LEMMA FirstByteBits ==
    ASSUME NEW n \in BOOLEAN, NEW x \in BOOLEAN,
           NEW b, b \in {Bit(n, N) + Bit(x, X), Bit(n, N) + Bit(x, X) + S}
    PROVE  (HasBit(b, N) <=> n) /\ (HasBit(b, X) <=> x)
BY DEF Bit, HasBit, N, X, S

(* So are I, L, T and K from the second.                                   *)
LEMMA ExtensionBits ==
    ASSUME NEW i \in BOOLEAN, NEW l \in BOOLEAN, NEW t \in BOOLEAN, NEW k \in BOOLEAN,
           NEW b, b = Bit(i, EXT_I) + Bit(l, EXT_L) + Bit(t, EXT_T) + Bit(k, EXT_K)
    PROVE  /\ (HasBit(b, EXT_I) <=> i) /\ (HasBit(b, EXT_L) <=> l)
           /\ (HasBit(b, EXT_T) <=> t) /\ (HasBit(b, EXT_K) <=> k)
BY DEF Bit, HasBit, EXT_I, EXT_L, EXT_T, EXT_K

(* A picture id of seven bits does not look like one of fifteen,           *)
LEMMA ShortPictureId ==
    ASSUME NEW p \in Nat, p < EXT_M
    PROVE  ~HasBit(p, EXT_M)
BY DEF HasBit, EXT_M

(* and one of fifteen bits is read back but for its highest.               *)
LEMMA LongPictureId ==
    ASSUME NEW p \in Nat, NEW b, b = ((p \div 256) % 128) + EXT_M
    PROVE  /\ HasBit(b, EXT_M)
           /\ ((b % 128) * 256) + (p % 256) = p % 32768
BY DEF HasBit, EXT_M

(* The temporal layer, Y and the key index share a byte.                   *)
LEMMA TidKeyIdxBits ==
    ASSUME NEW t \in BOOLEAN, NEW y \in BOOLEAN, NEW k \in BOOLEAN,
           NEW tid \in Nat, NEW key \in Nat, NEW b,
           b = Bit(t, (tid % 4) * EXT_TID) + Bit(y, EXT_Y) + Bit(k, key % 32)
    PROVE  /\ HasBit(b, EXT_Y) <=> y
           /\ t => b \div EXT_TID = tid % 4
           /\ k => b % 32 = key % 32
BY DEF Bit, HasBit, EXT_TID, EXT_Y

IsConcatenation(r, s, t) ==
    /\ r \in Seq(Byte)
    /\ Len(s) \in Nat /\ Len(t) \in Nat
    /\ Len(r) = Len(s) + Len(t)
    /\ \A i \in 1..Len(s) : r[i] = s[i]
    /\ \A i \in 1..Len(t) : r[Len(s) + i] = t[i]

(* Two sequences of bytes joined, element by element;                      *)
LEMMA Concatenation ==
    ASSUME NEW s \in Seq(Byte), NEW t \in Seq(Byte)
    PROVE  IsConcatenation(s \o t, s, t)
BY DEF IsConcatenation

AreBehindEachOther(d, a, p, l, k) ==
    /\ d \in Seq(Byte)
    /\ Len(d) = 2 + Len(p) + Len(l) + Len(k)
    /\ d[1] = a[1] /\ d[2] = a[2]
    /\ \A i \in 1..Len(p) : d[2 + i] = p[i]
    /\ \A i \in 1..Len(l) : d[2 + Len(p) + i] = l[i]
    /\ \A i \in 1..Len(k) : d[2 + Len(p) + Len(l) + i] = k[i]

(* and the four parts of a descriptor.                                     *)
LEMMA Concatenated ==
    ASSUME NEW a \in Seq(Byte), NEW p \in Seq(Byte), NEW l \in Seq(Byte),
           NEW k \in Seq(Byte),
           Len(a) = 2, NEW d, d = a \o p \o l \o k
    PROVE  AreBehindEachOther(d, a, p, l, k)
<1> DEFINE x == a \o p
           y == x \o l
           z == y \o k
<1>1. IsConcatenation(x, a, p)
    BY Concatenation
<1>2. x \in Seq(Byte) /\ y = x \o l
    BY <1>1 DEF IsConcatenation
<1> HIDE DEF x
<1>3. IsConcatenation(y, x, l)
    BY <1>2, Concatenation
<1>4. y \in Seq(Byte) /\ z = y \o k
    BY <1>3 DEF IsConcatenation
<1>5. d = z
    BY DEF x
<1> HIDE DEF y
<1>6. IsConcatenation(z, y, k)
    BY <1>4, Concatenation
<1> HIDE DEF z
<1>7. /\ Len(x) = 2 + Len(p) /\ Len(p) \in Nat
      /\ \A i \in 1..2 : x[i] = a[i]
      /\ \A i \in 1..Len(p) : x[2 + i] = p[i]
    BY <1>1 DEF IsConcatenation
<1>8. /\ Len(y) = 2 + Len(p) + Len(l) /\ Len(l) \in Nat
      /\ \A i \in 1..(2 + Len(p)) : y[i] = x[i]
      /\ \A i \in 1..Len(l) : y[2 + Len(p) + i] = l[i]
    BY <1>3, <1>7 DEF IsConcatenation
<1>9. /\ d \in Seq(Byte) /\ Len(d) = 2 + Len(p) + Len(l) + Len(k) /\ Len(k) \in Nat
      /\ \A i \in 1..(2 + Len(p) + Len(l)) : d[i] = y[i]
      /\ \A i \in 1..Len(k) : d[2 + Len(p) + Len(l) + i] = k[i]
    BY <1>5, <1>6, <1>8 DEF IsConcatenation
<1>10. d[1] = a[1] /\ d[2] = a[2]
    BY <1>7, <1>8, <1>9
<1>11. ASSUME NEW i \in 1..Len(p) PROVE d[2 + i] = p[i]
    <2>1. 2 + i \in 1..(2 + Len(p)) /\ 2 + i \in 1..(2 + Len(p) + Len(l))
        BY <1>7, <1>8
    <2>2. d[2 + i] = y[2 + i] /\ y[2 + i] = x[2 + i] /\ x[2 + i] = p[i]
        BY <1>7, <1>8, <1>9, <2>1, Zenon
    <2> QED BY <2>2
<1>12. ASSUME NEW i \in 1..Len(l) PROVE d[2 + Len(p) + i] = l[i]
    <2>1. 2 + Len(p) + i \in 1..(2 + Len(p) + Len(l))
        BY <1>7, <1>8
    <2>2. d[2 + Len(p) + i] = y[2 + Len(p) + i] /\ y[2 + Len(p) + i] = l[i]
        BY <1>8, <1>9, <2>1, Zenon
    <2> QED BY <2>2
<1> QED BY <1>9, <1>10, <1>11, <1>12 DEF AreBehindEachOther

(* Where GeneratePayloadDescriptor puts what.                              *)
PictureLength(info) ==
    IF ~Has(info, "PICTURE_ID_PRESENT") THEN 0
    ELSE IF info.pictureId < EXT_M THEN 1 ELSE 2

Tl0Length(info) == IF Has(info, "TL0PICIDX_PRESENT") THEN 1 ELSE 0

TidKeyIdxLength(info) == IF HasTidOrKeyIdx(info) THEN 1 ELSE 0

FirstByte(info) == Bit(Has(info, "NON_REF_FRAME"), N) + Bit(HasExtensions(info), X)

ExtensionByte(info) ==
    Bit(Has(info, "PICTURE_ID_PRESENT"), EXT_I)
    + Bit(Has(info, "TL0PICIDX_PRESENT"), EXT_L)
    + Bit(Has(info, "TID_PRESENT"), EXT_T)
    + Bit(Has(info, "KEYIDX_PRESENT"), EXT_K)

(* The ranges of the fields, as facts about numbers.                       *)
LEMMA InfoTypes ==
    ASSUME NEW info \in FrameInfo
    PROVE  /\ info.pictureId \in Nat /\ info.pictureId < 65536
           /\ info.tl0PicIndex \in Nat /\ info.tl0PicIndex < 256
           /\ info.tid \in Nat /\ info.keyIndex \in Nat
           /\ info.frameProperties \in SUBSET Flags
<1>1. /\ info.pictureId \in UInt16 /\ info.tl0PicIndex \in Byte
      /\ info.tid \in Byte /\ info.keyIndex \in Byte
      /\ info.frameProperties \in SUBSET Flags
    BY DEF FrameInfo
<1> QED BY <1>1 DEF Byte, UInt16

(* Every byte GeneratePayloadDescriptor writes, and where.                 *)
LEMMA Layout ==
    ASSUME NEW info \in FrameInfo, NEW d, d = GeneratePayloadDescriptor(info)
    PROVE  /\ d \in Seq(Byte)
           /\ d[1] = FirstByte(info)
           /\ ~HasExtensions(info) => Len(d) = 1
           /\ HasExtensions(info) =>
                /\ Len(d) = 2 + PictureLength(info) + Tl0Length(info)
                                + TidKeyIdxLength(info)
                /\ d[2] = ExtensionByte(info)
                /\ PictureLength(info) = 1 => d[3] = info.pictureId
                /\ PictureLength(info) = 2 =>
                    /\ d[3] = ((info.pictureId \div 256) % 128) + EXT_M
                    /\ d[4] = info.pictureId % 256
                /\ Tl0Length(info) = 1 => d[3 + PictureLength(info)] = info.tl0PicIndex
                /\ TidKeyIdxLength(info) = 1 =>
                    d[3 + PictureLength(info) + Tl0Length(info)] = TidKeyIdxByte(info)
<1>1. CASE ~HasExtensions(info)
    <2>1. d = <<Bit(Has(info, "NON_REF_FRAME"), N)>>
        BY <1>1 DEF GeneratePayloadDescriptor
    <2>2. /\ FirstByte(info) = Bit(Has(info, "NON_REF_FRAME"), N)
          /\ FirstByte(info) \in Byte
        BY <1>1 DEF FirstByte, Bit, N, X, Byte
    <2> HIDE DEF FirstByte
    <2> QED BY <1>1, <2>1, <2>2
<1>2. CASE HasExtensions(info)
    <2> DEFINE a == <<Bit(Has(info, "NON_REF_FRAME"), N) + X, ExtensionByte(info)>>
               p == PictureIdBytes(info)
               l == IF Has(info, "TL0PICIDX_PRESENT") THEN <<info.tl0PicIndex>> ELSE << >>
               k == IF HasTidOrKeyIdx(info) THEN <<TidKeyIdxByte(info)>> ELSE << >>
    <2>1. d = a \o p \o l \o k
        BY <1>2, Zenon DEF GeneratePayloadDescriptor, ExtensionByte
    <2>2. /\ a \in Seq(Byte) /\ Len(a) = 2 /\ a[1] = FirstByte(info)
          /\ a[2] = ExtensionByte(info)
        <3>1. FirstByte(info) = Bit(Has(info, "NON_REF_FRAME"), N) + X
            BY <1>2 DEF FirstByte, Bit, N, X
        <3>2. FirstByte(info) \in Byte
            BY DEF FirstByte, Bit, N, X, Byte
        <3>3. ExtensionByte(info) \in Byte
            BY DEF ExtensionByte, Bit, EXT_I, EXT_L, EXT_T, EXT_K, Byte
        <3> QED BY <3>1, <3>2, <3>3
    <2>3. /\ p \in Seq(Byte) /\ Len(p) = PictureLength(info)
          /\ Len(p) = 1 => p[1] = info.pictureId
          /\ Len(p) = 2 => /\ p[1] = ((info.pictureId \div 256) % 128) + EXT_M
                           /\ p[2] = info.pictureId % 256
        <3>1. info.pictureId \in Nat
            BY InfoTypes
        <3>2. /\ info.pictureId < EXT_M => info.pictureId \in Byte
              /\ ((info.pictureId \div 256) % 128) + EXT_M \in Byte
              /\ info.pictureId % 256 \in Byte
            BY <3>1 DEF EXT_M, Byte
        <3> QED BY <3>2 DEF PictureIdBytes, PictureLength
    <2>4. /\ l \in Seq(Byte) /\ Len(l) = Tl0Length(info)
          /\ Len(l) = 1 => l[1] = info.tl0PicIndex
        <3>1. info.tl0PicIndex \in Byte
            BY InfoTypes DEF Byte
        <3> QED BY <3>1 DEF Tl0Length
    <2>5. /\ k \in Seq(Byte) /\ Len(k) = TidKeyIdxLength(info)
          /\ Len(k) = 1 => k[1] = TidKeyIdxByte(info)
        <3>1. TidKeyIdxByte(info) \in Byte
            BY InfoTypes DEF TidKeyIdxByte, Bit, EXT_TID, EXT_Y, Byte
        <3> QED BY <3>1 DEF TidKeyIdxLength
    <2> HIDE DEF a, p, l, k
    <2>6. /\ PictureLength(info) \in Nat /\ Tl0Length(info) \in Nat
          /\ TidKeyIdxLength(info) \in Nat
        BY DEF PictureLength, Tl0Length, TidKeyIdxLength
    <2>7. /\ d \in Seq(Byte)
          /\ Len(d) = 2 + PictureLength(info) + Tl0Length(info) + TidKeyIdxLength(info)
          /\ d[1] = a[1] /\ d[2] = a[2]
          /\ \A i \in 1..PictureLength(info) : d[2 + i] = p[i]
          /\ \A i \in 1..Tl0Length(info) : d[2 + PictureLength(info) + i] = l[i]
          /\ \A i \in 1..TidKeyIdxLength(info) :
                d[2 + PictureLength(info) + Tl0Length(info) + i] = k[i]
        <3>1. AreBehindEachOther(d, a, p, l, k)
            BY <2>1, <2>2, <2>3, <2>4, <2>5, Concatenated, Zenon
        <3>2. /\ Len(p) = PictureLength(info) /\ Len(l) = Tl0Length(info)
              /\ Len(k) = TidKeyIdxLength(info)
            BY <2>3, <2>4, <2>5
        <3> QED BY <3>1, <3>2 DEF AreBehindEachOther
    <2>8. /\ PictureLength(info) = 1 => d[3] = info.pictureId
          /\ PictureLength(info) = 2 =>
                /\ d[3] = ((info.pictureId \div 256) % 128) + EXT_M
                /\ d[4] = info.pictureId % 256
        <3>1. \A i \in 1..PictureLength(info) : d[2 + i] = p[i]
            BY <2>7
        <3>2. PictureLength(info) = 1 => d[2 + 1] = p[1]
            BY <3>1
        <3>3. PictureLength(info) = 2 => d[2 + 1] = p[1] /\ d[2 + 2] = p[2]
            BY <3>1
        <3> QED BY <2>3, <3>2, <3>3
    <2>9. Tl0Length(info) = 1 => d[3 + PictureLength(info)] = info.tl0PicIndex
        <3>1. Tl0Length(info) = 1 => d[2 + PictureLength(info) + 1] = l[1]
            BY <2>7
        <3> QED BY <2>4, <2>6, <3>1
    <2>10. TidKeyIdxLength(info) = 1 =>
            d[3 + PictureLength(info) + Tl0Length(info)] = TidKeyIdxByte(info)
        <3>1. TidKeyIdxLength(info) = 1 =>
                d[2 + PictureLength(info) + Tl0Length(info) + 1] = k[1]
            BY <2>7
        <3> QED BY <2>5, <2>6, <3>1
    <2> QED BY <1>2, <2>2, <2>7, <2>8, <2>9, <2>10
<1> QED BY <1>1, <1>2

(* The first k bytes of a descriptor of info, S set in the first or not.   *)
BeginsWith(bytes, info, k) ==
    LET d == GeneratePayloadDescriptor(info)
    IN  /\ bytes[1] \in {d[1], d[1] + S}
        /\ \A i \in 2..k : bytes[i] = d[i]

(* The length of a descriptor is that of its parts.                        *)
LEMMA GeneratedLength ==
    ASSUME NEW info \in FrameInfo
    PROVE  /\ GeneratePayloadDescriptor(info) \in Seq(Byte)
           /\ Len(GeneratePayloadDescriptor(info)) =
                IF HasExtensions(info)
                    THEN 2 + PictureLength(info) + Tl0Length(info) + TidKeyIdxLength(info)
                    ELSE 1
           /\ PictureLength(info) \in {0, 1, 2} /\ Tl0Length(info) \in {0, 1}
           /\ TidKeyIdxLength(info) \in {0, 1}
BY Layout DEF PictureLength, Tl0Length, TidKeyIdxLength

(* What the bytes that are there say: X in the first, the extensions in    *)
(* the second, the length of the picture id in the third.                  *)
LEMMA BitsRead ==
    ASSUME NEW info \in FrameInfo, NEW bytes, NEW k, BeginsWith(bytes, info, k),
           k \in 1..Len(GeneratePayloadDescriptor(info))
    PROVE  /\ HasBit(bytes[1], X) <=> HasExtensions(info)
           /\ HasBit(bytes[1], N) <=> Has(info, "NON_REF_FRAME")
           /\ k >= 2 =>
                /\ HasExtensions(info)
                /\ HasBit(bytes[2], EXT_I) <=> Has(info, "PICTURE_ID_PRESENT")
                /\ HasBit(bytes[2], EXT_L) <=> Has(info, "TL0PICIDX_PRESENT")
                /\ HasBit(bytes[2], EXT_T) <=> Has(info, "TID_PRESENT")
                /\ HasBit(bytes[2], EXT_K) <=> Has(info, "KEYIDX_PRESENT")
           /\ k >= 3 /\ PictureLength(info) = 1 => ~HasBit(bytes[3], EXT_M)
           /\ k >= 3 /\ PictureLength(info) = 2 => HasBit(bytes[3], EXT_M)
<1> DEFINE d == GeneratePayloadDescriptor(info)
<1>1. d[1] = FirstByte(info)
    BY Layout
<1>2. /\ HasBit(bytes[1], X) <=> HasExtensions(info)
      /\ HasBit(bytes[1], N) <=> Has(info, "NON_REF_FRAME")
    <2>1. bytes[1] \in {FirstByte(info), FirstByte(info) + S}
        BY <1>1 DEF BeginsWith
    <2>2. Has(info, "NON_REF_FRAME") \in BOOLEAN /\ HasExtensions(info) \in BOOLEAN
        BY DEF Has, HasExtensions, HasTidOrKeyIdx
    <2> QED BY <2>1, <2>2, FirstByteBits DEF FirstByte
<1>3. ASSUME k >= 2
      PROVE  /\ HasExtensions(info)
             /\ HasBit(bytes[2], EXT_I) <=> Has(info, "PICTURE_ID_PRESENT")
             /\ HasBit(bytes[2], EXT_L) <=> Has(info, "TL0PICIDX_PRESENT")
             /\ HasBit(bytes[2], EXT_T) <=> Has(info, "TID_PRESENT")
             /\ HasBit(bytes[2], EXT_K) <=> Has(info, "KEYIDX_PRESENT")
    <2>1. HasExtensions(info)
        <3>1. SUFFICES ASSUME ~HasExtensions(info) PROVE FALSE
            OBVIOUS
        <3>2. Len(d) = 1
            BY <3>1, GeneratedLength
        <3>3. k \in 1..1
            BY <3>2
        <3> QED BY <1>3, <3>3
    <2>2. bytes[2] = ExtensionByte(info)
        BY <1>3, <2>1, Layout DEF BeginsWith
    <2>3. /\ Has(info, "PICTURE_ID_PRESENT") \in BOOLEAN
          /\ Has(info, "TL0PICIDX_PRESENT") \in BOOLEAN
          /\ Has(info, "TID_PRESENT") \in BOOLEAN
          /\ Has(info, "KEYIDX_PRESENT") \in BOOLEAN
        BY DEF Has
    <2> QED BY <2>1, <2>2, <2>3, ExtensionBits DEF ExtensionByte
<1>4. ASSUME k >= 3, PictureLength(info) = 1 PROVE ~HasBit(bytes[3], EXT_M)
    <2>1. HasExtensions(info)
        BY <1>3, <1>4
    <2>2. bytes[3] = info.pictureId
        BY <1>4, <2>1, Layout DEF BeginsWith
    <2>3. info.pictureId < EXT_M
        BY <1>4 DEF PictureLength
    <2>4. info.pictureId \in Nat
        BY InfoTypes
    <2>5. ~HasBit(info.pictureId, EXT_M)
        BY <2>3, <2>4, ShortPictureId
    <2> QED BY <2>2, <2>5
<1>5. ASSUME k >= 3, PictureLength(info) = 2 PROVE HasBit(bytes[3], EXT_M)
    <2>1. HasExtensions(info)
        BY <1>3, <1>5
    <2>2. bytes[3] = ((info.pictureId \div 256) % 128) + EXT_M
        BY <1>5, <2>1, Layout DEF BeginsWith
    <2>3. info.pictureId \in Nat
        BY InfoTypes
    <2> QED BY <2>2, <2>3, LongPictureId
<1> QED BY <1>2, <1>3, <1>4, <1>5

(* As soon as two bytes are there, every extension is told right.          *)
LEMMA ExtensionsRead ==
    ASSUME NEW info \in FrameInfo, NEW bytes, NEW k, BeginsWith(bytes, info, k),
           k \in 2..Len(GeneratePayloadDescriptor(info))
    PROVE  /\ HasBit(bytes[1], X) /\ HasExtensions(info)
           /\ HasExtension(bytes, EXT_I) <=> Has(info, "PICTURE_ID_PRESENT")
           /\ HasExtension(bytes, EXT_L) <=> Has(info, "TL0PICIDX_PRESENT")
           /\ HasExtension(bytes, EXT_T) <=> Has(info, "TID_PRESENT")
           /\ HasExtension(bytes, EXT_K) <=> Has(info, "KEYIDX_PRESENT")
           /\ HasTidKeyIdxByte(bytes) <=> HasTidOrKeyIdx(info)
           /\ k >= 3 => (HasWidePictureId(bytes) <=> PictureLength(info) = 2)
<1>1. k \in 1..Len(GeneratePayloadDescriptor(info)) /\ k >= 2
    BY GeneratedLength
<1>2. /\ HasBit(bytes[1], X) /\ HasExtensions(info)
      /\ HasExtension(bytes, EXT_I) <=> Has(info, "PICTURE_ID_PRESENT")
      /\ HasExtension(bytes, EXT_L) <=> Has(info, "TL0PICIDX_PRESENT")
      /\ HasExtension(bytes, EXT_T) <=> Has(info, "TID_PRESENT")
      /\ HasExtension(bytes, EXT_K) <=> Has(info, "KEYIDX_PRESENT")
    BY <1>1, BitsRead DEF HasExtension
<1>3. ASSUME k >= 3 PROVE HasWidePictureId(bytes) <=> PictureLength(info) = 2
    <2>1. PictureLength(info) = 0 <=> ~Has(info, "PICTURE_ID_PRESENT")
        BY DEF PictureLength
    <2>2. PictureLength(info) \in {0, 1, 2}
        BY DEF PictureLength
    <2> QED BY <1>1, <1>2, <1>3, <2>1, <2>2, BitsRead DEF HasWidePictureId
<1> QED BY <1>2, <1>3 DEF HasTidKeyIdxByte, HasTidOrKeyIdx

(* Where the parts are, as far as they are there.                          *)
LEMMA PartsRead ==
    ASSUME NEW info \in FrameInfo, NEW bytes, NEW k, BeginsWith(bytes, info, k),
           k \in 2..Len(GeneratePayloadDescriptor(info))
    PROVE  /\ k >= 3 => /\ Tl0PicIdxAt(bytes) = 3 + PictureLength(info)
                        /\ TidKeyIdxAt(bytes) = 3 + PictureLength(info) + Tl0Length(info)
                        /\ DescriptorLength(bytes) =
                            Len(GeneratePayloadDescriptor(info))
           /\ DescriptorLength(bytes) \in Nat
           /\ DescriptorLength(bytes) >= 2
           /\ PictureLength(info) = 0 =>
                DescriptorLength(bytes) = Len(GeneratePayloadDescriptor(info))
           /\ PictureLength(info) # 0 => DescriptorLength(bytes) >= 3
<1> DEFINE n == Len(GeneratePayloadDescriptor(info))
           i == Bit(HasExtension(bytes, EXT_I), 1)
           wide == Bit(HasWidePictureId(bytes), 1)
           l == Bit(HasExtension(bytes, EXT_L), 1)
           tk == Bit(HasTidKeyIdxByte(bytes), 1)
<1>1. /\ i \in {0, 1} /\ wide \in {0, 1}
      /\ l = Tl0Length(info) /\ tk = TidKeyIdxLength(info)
      /\ i = 0 <=> PictureLength(info) = 0
    BY ExtensionsRead DEF Bit, Tl0Length, TidKeyIdxLength, PictureLength
<1>2. wide = 1 => i = 1
    BY DEF HasWidePictureId, Bit
<1>3. k >= 3 => (wide = 1 <=> PictureLength(info) = 2)
    BY ExtensionsRead DEF Bit
<1>4. /\ Tl0PicIdxAt(bytes) = 3 + i + wide
      /\ TidKeyIdxAt(bytes) = Tl0PicIdxAt(bytes) + l
      /\ DescriptorLength(bytes) = TidKeyIdxAt(bytes) - 1 + tk
    BY ExtensionsRead DEF Tl0PicIdxAt, TidKeyIdxAt, DescriptorLength
<1>5. /\ n = 2 + PictureLength(info) + Tl0Length(info) + TidKeyIdxLength(info)
      /\ PictureLength(info) \in {0, 1, 2} /\ Tl0Length(info) \in {0, 1}
      /\ TidKeyIdxLength(info) \in {0, 1}
    BY ExtensionsRead, GeneratedLength
<1> HIDE DEF n, i, wide, l, tk
<1>6. k >= 3 => i + wide = PictureLength(info)
    BY <1>1, <1>2, <1>3, <1>5
<1>7. k >= 3 => /\ Tl0PicIdxAt(bytes) = 3 + PictureLength(info)
                /\ TidKeyIdxAt(bytes) = 3 + PictureLength(info) + Tl0Length(info)
                /\ DescriptorLength(bytes) = n
    BY <1>1, <1>4, <1>5, <1>6
<1>8. /\ DescriptorLength(bytes) \in Nat /\ DescriptorLength(bytes) >= 2
      /\ PictureLength(info) = 0 => DescriptorLength(bytes) = n
      /\ PictureLength(info) # 0 => DescriptorLength(bytes) >= 3
    BY <1>1, <1>2, <1>4, <1>5
<1> QED BY <1>7, <1>8 DEF n

(* Of a descriptor that was cut short, at least what is there is read.     *)
LEMMA LengthRead ==
    ASSUME NEW info \in FrameInfo, NEW bytes, NEW k, BeginsWith(bytes, info, k),
           k \in 1..Len(GeneratePayloadDescriptor(info))
    PROVE  /\ DescriptorLength(bytes) \in Nat
           /\ DescriptorLength(bytes) >= k
           /\ k = Len(GeneratePayloadDescriptor(info)) => DescriptorLength(bytes) = k
<1> DEFINE n == Len(GeneratePayloadDescriptor(info))
<1>1. /\ n = IF HasExtensions(info)
            THEN 2 + PictureLength(info) + Tl0Length(info) + TidKeyIdxLength(info)
            ELSE 1
      /\ PictureLength(info) \in {0, 1, 2} /\ Tl0Length(info) \in {0, 1}
      /\ TidKeyIdxLength(info) \in {0, 1}
      /\ k \in 1..n /\ k \in Int /\ n \in Int
    BY GeneratedLength
<1>2. HasBit(bytes[1], X) <=> HasExtensions(info)
    BY BitsRead
<1>3. CASE ~HasExtensions(info)
    <2>1. DescriptorLength(bytes) = 1
        BY <1>2, <1>3 DEF DescriptorLength
    <2> HIDE DEF n
    <2>2. n = 1 /\ k = 1
        BY <1>1, <1>3
    <2> QED BY <2>1, <2>2 DEF n
<1>4. CASE HasExtensions(info) /\ k = 1
    <2>1. DescriptorLength(bytes) \in Nat /\ DescriptorLength(bytes) >= 2
        <3>1. Tl0PicIdxAt(bytes) \in Nat /\ Tl0PicIdxAt(bytes) >= 3
            BY DEF Tl0PicIdxAt, Bit
        <3>2. TidKeyIdxAt(bytes) \in Nat /\ TidKeyIdxAt(bytes) >= 3
            BY <3>1 DEF TidKeyIdxAt, Bit
        <3> QED BY <1>2, <1>4, <3>2 DEF DescriptorLength, Bit
    <2> HIDE DEF n
    <2>2. n >= 2
        BY <1>1, <1>4
    <2>3. DescriptorLength(bytes) >= k /\ k # n
        BY <1>4, <2>1, <2>2
    <2> QED BY <2>1, <2>3 DEF n
<1>5. CASE HasExtensions(info) /\ k >= 2
    <2>1. k \in 2..n
        BY <1>1, <1>5
    <2>2. k >= 3 => DescriptorLength(bytes) = n
        BY <2>1, PartsRead
    <2>3. /\ DescriptorLength(bytes) \in Nat /\ DescriptorLength(bytes) >= 2
          /\ PictureLength(info) = 0 => DescriptorLength(bytes) = n
          /\ PictureLength(info) # 0 => DescriptorLength(bytes) >= 3
        BY <2>1, PartsRead
    <2> HIDE DEF n
    <2>4. PictureLength(info) # 0 => n >= 3
        BY <1>1, <1>5
    <2>5. DescriptorLength(bytes) >= k /\ (k = n => DescriptorLength(bytes) = k)
        BY <1>1, <1>5, <2>2, <2>3, <2>4
    <2> QED BY <2>3, <2>5 DEF n
<1> QED BY <1>1, <1>3, <1>4, <1>5

(* A whole descriptor gives back what it has room for.                     *)
LEMMA ReadBack ==
    ASSUME NEW info \in FrameInfo, NEW bytes, NEW old,
           BeginsWith(bytes, info, Len(GeneratePayloadDescriptor(info)))
    PROVE  /\ DescriptorLength(bytes) = Len(GeneratePayloadDescriptor(info))
           /\ Restores(ReadPayloadDescriptor(bytes, old).info, info)
<1> DEFINE d == GeneratePayloadDescriptor(info)
           n == Len(d)
           found == ReadPayloadDescriptor(bytes, old).info
<1>1. /\ n = IF HasExtensions(info)
            THEN 2 + PictureLength(info) + Tl0Length(info) + TidKeyIdxLength(info)
            ELSE 1
      /\ PictureLength(info) \in {0, 1, 2} /\ Tl0Length(info) \in {0, 1}
      /\ TidKeyIdxLength(info) \in {0, 1}
      /\ n \in Int
    BY GeneratedLength
<1>0. n \in 1..n
    <2> HIDE DEF n
    <2> QED BY <1>1
<1>2. DescriptorLength(bytes) = n
    BY <1>0, LengthRead
<1>3. /\ found.frameProperties = FlagsRead(bytes)
      /\ found.pictureId =
            IF HasWidePictureId(bytes) THEN ((bytes[3] % 128) * 256) + bytes[4]
            ELSE IF HasExtension(bytes, EXT_I) THEN bytes[3] ELSE old.pictureId
      /\ found.tl0PicIndex =
            IF HasExtension(bytes, EXT_L) THEN bytes[Tl0PicIdxAt(bytes)]
            ELSE old.tl0PicIndex
      /\ found.tid =
            IF HasExtension(bytes, EXT_T)
                THEN bytes[TidKeyIdxAt(bytes)] \div EXT_TID ELSE old.tid
      /\ found.keyIndex =
            IF HasExtension(bytes, EXT_K)
                THEN bytes[TidKeyIdxAt(bytes)] % 32 ELSE old.keyIndex
    BY DEF ReadPayloadDescriptor
<1>4. HasBit(bytes[1], N) <=> Has(info, "NON_REF_FRAME")
    BY <1>0, BitsRead
<1>5. /\ HasExtension(bytes, EXT_I) <=> Has(info, "PICTURE_ID_PRESENT")
      /\ HasExtension(bytes, EXT_L) <=> Has(info, "TL0PICIDX_PRESENT")
      /\ HasExtension(bytes, EXT_T) <=> Has(info, "TID_PRESENT")
      /\ HasExtension(bytes, EXT_K) <=> Has(info, "KEYIDX_PRESENT")
      /\ HasTidKeyIdxByte(bytes) <=> HasTidOrKeyIdx(info)
    <2>1. CASE HasExtensions(info)
        <3>1. n \in 2..n
            BY <1>1, <2>1
        <3> QED BY <3>1, ExtensionsRead
    <2>2. CASE ~HasExtensions(info)
        <3>1. ~HasBit(bytes[1], X)
            BY <1>0, <2>2, BitsRead
        <3> QED BY <2>2, <3>1 DEF HasExtension, HasExtensions, HasTidKeyIdxByte,
                                  HasTidOrKeyIdx
    <2> QED BY <2>1, <2>2
<1>6. ASSUME PictureLength(info) # 0 \/ Tl0Length(info) # 0 \/ TidKeyIdxLength(info) # 0
      PROVE  /\ HasExtensions(info) /\ n \in 2..n /\ n >= 3
             /\ HasWidePictureId(bytes) <=> PictureLength(info) = 2
             /\ Tl0PicIdxAt(bytes) = 3 + PictureLength(info)
             /\ TidKeyIdxAt(bytes) = 3 + PictureLength(info) + Tl0Length(info)
    <2>1. HasExtensions(info)
        BY <1>6 DEF PictureLength, Tl0Length, TidKeyIdxLength, HasExtensions
    <2>2. n \in 2..n /\ n >= 3
        BY <1>1, <1>6, <2>1
    <2> QED BY <2>1, <2>2, ExtensionsRead, PartsRead
<1>7. \A j \in 2..n : bytes[j] = d[j]
    BY DEF BeginsWith
<1>8. Has(info, "PICTURE_ID_PRESENT") => found.pictureId = info.pictureId % 32768
    <2>1. SUFFICES ASSUME Has(info, "PICTURE_ID_PRESENT")
                   PROVE  found.pictureId = info.pictureId % 32768
        OBVIOUS
    <2>2. PictureLength(info) = IF info.pictureId < EXT_M THEN 1 ELSE 2
        BY <2>1 DEF PictureLength
    <2>3. info.pictureId \in Nat
        BY InfoTypes
    <2>4. CASE info.pictureId < EXT_M
        <3>1. found.pictureId = bytes[3]
            BY <1>3, <1>5, <1>6, <2>1, <2>2, <2>4
        <3>2. 3 \in 2..n
            BY <1>1, <1>6, <2>2, <2>4
        <3>3. bytes[3] = info.pictureId
            BY <1>6, <1>7, <2>2, <2>4, <3>2, Layout
        <3> QED BY <2>3, <2>4, <3>1, <3>3 DEF EXT_M
    <2>5. CASE ~(info.pictureId < EXT_M)
        <3>1. found.pictureId = ((bytes[3] % 128) * 256) + bytes[4]
            BY <1>3, <1>5, <1>6, <2>1, <2>2, <2>5
        <3>2. 3 \in 2..n /\ 4 \in 2..n
            BY <1>1, <1>6, <2>2, <2>5
        <3>3. /\ bytes[3] = ((info.pictureId \div 256) % 128) + EXT_M
              /\ bytes[4] = info.pictureId % 256
            BY <1>6, <1>7, <2>2, <2>5, <3>2, Layout
        <3> QED BY <2>3, <3>1, <3>3, LongPictureId
    <2> QED BY <2>4, <2>5
<1>9. Has(info, "TL0PICIDX_PRESENT") => found.tl0PicIndex = info.tl0PicIndex
    <2>1. SUFFICES ASSUME Has(info, "TL0PICIDX_PRESENT")
                   PROVE  found.tl0PicIndex = info.tl0PicIndex
        OBVIOUS
    <2>2. Tl0Length(info) = 1
        BY <2>1 DEF Tl0Length
    <2>3. 3 + PictureLength(info) \in 2..n
        BY <1>1, <1>6, <2>2
    <2> QED BY <1>3, <1>5, <1>6, <1>7, <2>1, <2>2, <2>3, Layout
<1>10. HasTidOrKeyIdx(info) => bytes[TidKeyIdxAt(bytes)] = TidKeyIdxByte(info)
    <2>1. SUFFICES ASSUME HasTidOrKeyIdx(info)
                   PROVE  bytes[TidKeyIdxAt(bytes)] = TidKeyIdxByte(info)
        OBVIOUS
    <2>2. TidKeyIdxLength(info) = 1
        BY <2>1 DEF TidKeyIdxLength
    <2>3. 3 + PictureLength(info) + Tl0Length(info) \in 2..n
        BY <1>1, <1>6, <2>2
    <2> QED BY <1>6, <1>7, <2>2, <2>3, Layout
<1>11. HasTidOrKeyIdx(info) =>
        /\ HasBit(bytes[TidKeyIdxAt(bytes)], EXT_Y) <=> Has(info, "DEPENDS_ON_BASE_ONLY")
        /\ Has(info, "TID_PRESENT") =>
            bytes[TidKeyIdxAt(bytes)] \div EXT_TID = info.tid % 4
        /\ Has(info, "KEYIDX_PRESENT") =>
            bytes[TidKeyIdxAt(bytes)] % 32 = info.keyIndex % 32
    <2>1. /\ Has(info, "TID_PRESENT") \in BOOLEAN
          /\ Has(info, "DEPENDS_ON_BASE_ONLY") \in BOOLEAN
          /\ Has(info, "KEYIDX_PRESENT") \in BOOLEAN
        BY DEF Has
    <2>2. info.tid \in Nat /\ info.keyIndex \in Nat
        BY InfoTypes
    <2> QED BY <1>10, <2>1, <2>2, TidKeyIdxBits DEF TidKeyIdxByte
<1>12. /\ Has(info, "TID_PRESENT") => found.tid = info.tid % 4
       /\ Has(info, "KEYIDX_PRESENT") => found.keyIndex = info.keyIndex % 32
    BY <1>3, <1>5, <1>11 DEF HasTidOrKeyIdx
<1>13. found.frameProperties =
            IF HasTidOrKeyIdx(info) THEN info.frameProperties
            ELSE info.frameProperties \ {"DEPENDS_ON_BASE_ONLY"}
    <2>1. info.frameProperties \in SUBSET Flags
        BY InfoTypes
    <2>2. (HasTidKeyIdxByte(bytes) /\ HasBit(bytes[TidKeyIdxAt(bytes)], EXT_Y))
            <=> (HasTidOrKeyIdx(info) /\ Has(info, "DEPENDS_ON_BASE_ONLY"))
        BY <1>5, <1>11
    <2>3. \A f : f \in FlagsRead(bytes) <=>
            \/ f = "NON_REF_FRAME" /\ Has(info, "NON_REF_FRAME")
            \/ f = "PICTURE_ID_PRESENT" /\ Has(info, "PICTURE_ID_PRESENT")
            \/ f = "TL0PICIDX_PRESENT" /\ Has(info, "TL0PICIDX_PRESENT")
            \/ f = "TID_PRESENT" /\ Has(info, "TID_PRESENT")
            \/ f = "KEYIDX_PRESENT" /\ Has(info, "KEYIDX_PRESENT")
            \/ /\ f = "DEPENDS_ON_BASE_ONLY" /\ HasTidOrKeyIdx(info)
               /\ Has(info, "DEPENDS_ON_BASE_ONLY")
        BY <1>4, <1>5, <2>2 DEF FlagsRead
    <2>4. ASSUME NEW f
          PROVE  f \in FlagsRead(bytes) <=>
                    /\ f \in info.frameProperties
                    /\ HasTidOrKeyIdx(info) \/ f # "DEPENDS_ON_BASE_ONLY"
        BY <2>1, <2>3 DEF Has, Flags
    <2>5. CASE HasTidOrKeyIdx(info)
        <3>1. \A f : f \in FlagsRead(bytes) <=> f \in info.frameProperties
            BY <2>4, <2>5
        <3>2. FlagsRead(bytes) = info.frameProperties
            BY <3>1, Zenon
        <3> QED BY <1>3, <2>5, <3>2
    <2>6. CASE ~HasTidOrKeyIdx(info)
        <3>1. FlagsRead(bytes) = info.frameProperties \ {"DEPENDS_ON_BASE_ONLY"}
            BY <2>4, <2>6, Zenon
        <3> QED BY <1>3, <2>6, <3>1, Zenon
    <2> QED BY <2>5, <2>6
<1> QED BY <1>2, <1>8, <1>9, <1>12, <1>13 DEF Restores

-----------------------------------------------------------------------------
(* Packets one behind the other.                                           *)

Lens(packets) == [i \in 1..Len(packets) |-> packets[i].len]

(* The lengths CopiedLength adds up are those of the packets.              *)
LEMMA CopiedSum ==
    ASSUME NEW s \in Seq(Packet)
    PROVE  Adds(CopiedLength(s), Len(s), 0, Lens(s))
<1> DEFINE Is(l) == l = [k \in 0..Len(s) |-> IF k = 0 THEN 0 ELSE l[k - 1] + s[k].len]
           l == CHOOSE l : Is(l)
<1>1. Len(s) \in Nat /\ \A i \in 1..Len(s) : s[i].len \in Int /\ Lens(s)[i] = s[i].len
    <2>1. \A i \in 1..Len(s) : s[i] \in Packet
        OBVIOUS
    <2> QED BY <2>1 DEF Packet, Lens
<1>2. ASSUME NEW m PROVE Is(m) <=> Adds(m, Len(s), 0, Lens(s))
    BY <1>1 DEF Adds
<1>3. \E m : Adds(m, Len(s), 0, Lens(s))
    <2>1. 0 \in Int /\ \A i \in 1..Len(s) : Lens(s)[i] \in Int
        BY <1>1
    <2> QED BY <1>1, <2>1, AddsExists
<1>4. Adds(l, Len(s), 0, Lens(s))
    <2> HIDE DEF Is
    <2> QED BY <1>2, <1>3, Zenon
<1>5. CopiedLength(s) = l
    BY DEF CopiedLength
<1> QED BY <1>4, <1>5

(* All of them are integers, and the first is 0.                           *)
LEMMA CopiedIntegers ==
    ASSUME NEW s \in Seq(Packet)
    PROVE  /\ CopiedLength(s) \in [0..Len(s) -> Int]
           /\ CopiedLength(s)[0] = 0
<1>1. Len(s) \in Nat /\ 0 \in Int /\ \A i \in 1..Len(s) : Lens(s)[i] \in Int
    <2>1. \A i \in 1..Len(s) : s[i] \in Packet
        OBVIOUS
    <2> QED BY <2>1 DEF Packet, Lens
<1>2. Adds(CopiedLength(s), Len(s), 0, Lens(s))
    BY CopiedSum
<1>3. CopiedLength(s)[0] = 0
    BY <1>2, Zenon DEF Adds
<1> QED BY <1>1, <1>2, <1>3, AddsIntegers

(* A further packet adds its length behind what was there.                 *)
LEMMA CopiedAppend ==
    ASSUME NEW s \in Seq(Packet), NEW p \in Packet
    PROVE  /\ \A k \in 0..Len(s) : CopiedLength(Append(s, p))[k] = CopiedLength(s)[k]
           /\ CopiedLength(Append(s, p))[Len(s) + 1] = CopiedLength(s)[Len(s)] + p.len
<1> DEFINE t == Append(s, p)
           l == CopiedLength(s)
           m == CopiedLength(t)
<1>1. /\ t \in Seq(Packet) /\ Len(s) \in Nat /\ Len(t) = Len(s) + 1
      /\ \A i \in 1..Len(s) : t[i] = s[i]
      /\ t[Len(s) + 1] = p
    OBVIOUS
<1> HIDE DEF t
<1>2. Adds(l, Len(s), 0, Lens(s)) /\ Adds(m, Len(t), 0, Lens(t))
    BY <1>1, CopiedSum
<1> HIDE DEF l, m
<1>3. \A i \in 1..Len(s) : Lens(s)[i] = Lens(t)[i]
    BY <1>1 DEF Lens
<1>4. ASSUME NEW k \in 0..Len(s) PROVE m[k] = l[k]
    <2> DEFINE c == [i \in 0..k |-> l[i]]
    <2>1. k \in Nat /\ k <= Len(s) /\ k <= Len(t)
        BY <1>1
    <2>2. Adds(c, k, 0, Lens(s))
        <3>1. l[0] = 0 /\ \A i \in 1..Len(s) : l[i] = l[i - 1] + Lens(s)[i]
            BY <1>2, Zenon DEF Adds
        <3>2. c = [i \in 0..k |-> c[i]] /\ c[0] = 0
            BY <2>1, <3>1
        <3>3. ASSUME NEW i \in 1..k PROVE c[i] = c[i - 1] + Lens(s)[i]
            <4>1. i \in 1..Len(s) /\ i \in 0..k /\ i - 1 \in 0..k
                BY <1>1, <2>1
            <4>2. c[i] = l[i] /\ c[i - 1] = l[i - 1]
                BY <4>1
            <4> HIDE DEF c
            <4> QED BY <3>1, <4>1, <4>2
        <3> HIDE DEF c
        <3> QED BY <3>2, <3>3, Zenon DEF Adds
    <2>3. \A i \in 1..k : Lens(s)[i] = Lens(t)[i]
        BY <1>1, <1>3
    <2>4. c[k] = l[k]
        BY <2>1
    <2> HIDE DEF c
    <2>5. c[k] = m[k]
        BY <1>1, <1>2, <2>1, <2>2, <2>3, SameSum
    <2> QED BY <2>4, <2>5
<1>5. m[Len(t)] = l[Len(s)] + p.len
    <2>1. /\ Len(t) \in 1..Len(t) /\ Len(t) - 1 = Len(s) /\ Len(s) \in 0..Len(s)
          /\ Lens(t)[Len(t)] = p.len
        BY <1>1 DEF Lens
    <2>2. m[Len(t)] = m[Len(t) - 1] + Lens(t)[Len(t)]
        BY <1>2, <2>1, Zenon DEF Adds
    <2> QED BY <1>4, <2>1, <2>2
<1> QED BY <1>1, <1>4, <1>5 DEF l, m, t

(* Packets that carry bytes of the frame.                                  *)
Carriers(packets) == {i \in DOMAIN packets : HasBytes(packets[i])}

(* It counts as one if it has bytes.                                       *)
LEMMA CarriersAppend ==
    ASSUME NEW s \in Seq(Packet), NEW p \in Packet
    PROVE  /\ Cardinality(Carriers(s)) \in Nat
           /\ Cardinality(Carriers(Append(s, p))) =
                Cardinality(Carriers(s)) + IF HasBytes(p) THEN 1 ELSE 0
<1> DEFINE t == Append(s, p)
<1>1. /\ Len(s) \in Nat /\ DOMAIN s = 1..Len(s) /\ DOMAIN t = 1..(Len(s) + 1)
      /\ \A i \in 1..Len(s) : t[i] = s[i]
      /\ t[Len(s) + 1] = p
    OBVIOUS
<1> HIDE DEF t
<1>2. IsFiniteSet(Carriers(s)) /\ Cardinality(Carriers(s)) \in Nat
    <2>1. IsFiniteSet(1..Len(s))
        BY <1>1, FS_Interval
    <2>2. Carriers(s) \subseteq 1..Len(s)
        BY <1>1 DEF Carriers
    <2>3. IsFiniteSet(Carriers(s))
        BY <2>1, <2>2, FS_Subset
    <2> QED BY <2>3, FS_CardinalityType
<1>3. CASE HasBytes(p)
    <2>1. Carriers(t) = Carriers(s) \cup {Len(s) + 1} /\ Len(s) + 1 \notin Carriers(s)
        BY <1>1, <1>3 DEF Carriers
    <2> QED BY <1>2, <1>3, <2>1, FS_AddElement DEF t
<1>4. CASE ~HasBytes(p)
    <2>1. Carriers(t) = Carriers(s)
        BY <1>1, <1>4 DEF Carriers
    <2> QED BY <1>2, <1>4, <2>1 DEF t
<1> QED BY <1>2, <1>3, <1>4

-----------------------------------------------------------------------------
(* The inductive invariant.                                                *)

SenderInv ==
    /\ codec \in {"Opus", "G711", "VP8"}
    /\ frameInfo \in FrameInfo
    /\ payloadDesc = IF codec = "VP8" THEN GeneratePayloadDescriptor(frameInfo)
                     ELSE << >>
    /\ frameLength \in FrameLengths \ {0}
    /\ curFrameDataIndex \in 0..frameLength
    /\ sentCount \in Nat

(* A packet of the present frame, whole or cut off before its payload.     *)
Described(p, info) ==
    /\ Len(p.desc) \in 1..Len(GeneratePayloadDescriptor(info))
    /\ BeginsWith(p.desc, info, Len(p.desc))
    /\ HasBytes(p) => Len(p.desc) = Len(GeneratePayloadDescriptor(info))

(* Any packet of the frame that is missing keeps the count behind; as long *)
(* as none is, each is stored with exactly the bytes of the frame in front *)
(* of it.                                                                  *)
ReceiverInv ==
    /\ packetsArray \in Seq(Packet)
    /\ codec = "VP8" =>
        \A i \in DOMAIN packetsArray : Described(packetsArray[i], frameInfo)
    /\ \A k \in 0..Len(packetsArray) :
        CopiedLength(packetsArray)[k] <= curFrameDataIndex
    /\ Cardinality(Carriers(packetsArray)) <= sentCount
    /\ Cardinality(Carriers(packetsArray)) = sentCount =>
        /\ CopiedLength(packetsArray)[Len(packetsArray)] = curFrameDataIndex
        /\ \A i \in DOMAIN packetsArray :
            HasBytes(packetsArray[i]) =>
                packetsArray[i].from = CopiedLength(packetsArray)[i - 1]

IInv == SenderInv /\ ReceiverInv

(* The empty array of a new frame.                                         *)
LEMMA NothingStored ==
    ASSUME packetsArray' = << >>, curFrameDataIndex' = 0, sentCount' = 0
    PROVE  ReceiverInv'
<1>1. << >> \in Seq(Packet) /\ Len(<< >>) = 0 /\ DOMAIN << >> = {}
    OBVIOUS
<1>2. CopiedLength(<< >>)[0] = 0
    BY <1>1, CopiedIntegers
<1>3. Cardinality(Carriers(<< >>)) = 0
    BY <1>1, FS_EmptySet DEF Carriers
<1> QED BY <1>1, <1>2, <1>3 DEF ReceiverInv

(* The invariant holds to begin with.                                      *)
LEMMA InitConsistent == Init => IInv
<1> SUFFICES ASSUME Init PROVE IInv
    OBVIOUS
<1>1. SenderInv
    <2>1. ZeroInfo \in FrameInfo
        BY DEF ZeroInfo, FrameInfo, Byte, UInt16
    <2>2. frameInfo \in FrameInfo
        BY <2>1, VP8Assumption DEF Init
    <2> QED BY <2>2, LengthsAssumption DEF Init, SenderInv
<1>2. ReceiverInv
    <2>1. << >> \in Seq(Packet) /\ Len(<< >>) = 0 /\ DOMAIN << >> = {}
        OBVIOUS
    <2>2. CopiedLength(<< >>)[0] = 0
        BY <2>1, CopiedIntegers
    <2>3. Cardinality(Carriers(<< >>)) = 0
        BY <2>1, FS_EmptySet DEF Carriers
    <2>4. packetsArray = << >> /\ curFrameDataIndex = 0 /\ sentCount = 0
        BY DEF Init
    <2> QED BY <2>1, <2>2, <2>3, <2>4 DEF ReceiverInv
<1> QED BY <1>1, <1>2 DEF IInv

-----------------------------------------------------------------------------
(* What the operations do to it.                                           *)

(* GetPacket filled a packet, from where the one before it ended.          *)
Fills ==
    /\ packet' \in Packet
    /\ packet'.desc = DescToSend
    /\ packet'.from = curFrameDataIndex
    /\ packet'.len \in 1..(frameLength - curFrameDataIndex)
    /\ curFrameDataIndex' = curFrameDataIndex + packet'.len
    /\ sentCount' = sentCount + 1
    /\ sResult' = "OK"
    /\ UNCHANGED <<frameInfo, payloadDesc, frameLength>>

(* S changes nothing but the first byte of the descriptor.                 *)
LEMMA DescToSendBytes ==
    ASSUME SenderInv
    PROVE  /\ DescToSend \in Seq(Byte)
           /\ codec # "VP8" => DescToSend = << >>
           /\ codec = "VP8" =>
                /\ Len(DescToSend) = Len(GeneratePayloadDescriptor(frameInfo))
                /\ Len(DescToSend) \in 1..Len(GeneratePayloadDescriptor(frameInfo))
                /\ BeginsWith(DescToSend, frameInfo, Len(DescToSend))
<1>1. CASE codec # "VP8"
    BY <1>1 DEF SenderInv, DescToSend
<1>2. CASE codec = "VP8"
    <2> DEFINE d == GeneratePayloadDescriptor(frameInfo)
    <2>1. payloadDesc = d /\ frameInfo \in FrameInfo
        BY <1>2 DEF SenderInv
    <2>2. d \in Seq(Byte) /\ Len(d) >= 1 /\ d[1] = FirstByte(frameInfo)
        BY <2>1, GeneratedLength, Layout
    <2>3. FirstByte(frameInfo) + S \in Byte
        BY DEF FirstByte, Bit, N, X, S, Byte
    <2> HIDE DEF d
    <2>4. DescToSend = IF curFrameDataIndex = 0 THEN [d EXCEPT ![1] = @ + S] ELSE d
        BY <2>1, <2>2 DEF DescToSend
    <2>5. /\ DescToSend \in Seq(Byte) /\ Len(DescToSend) = Len(d)
          /\ DescToSend[1] \in {d[1], d[1] + S}
          /\ \A i \in 2..Len(d) : DescToSend[i] = d[i]
        BY <2>2, <2>3, <2>4
    <2> QED BY <1>2, <2>2, <2>5 DEF BeginsWith, d
<1> QED BY <1>1, <1>2

(* SendNext with room behind the descriptor sends at least one byte.       *)
LEMMA SendNextFills ==
    ASSUME SenderInv, NEW size \in Nat, frameLength # curFrameDataIndex,
           size > Len(payloadDesc), SendNext(size)
    PROVE  Fills
<1>1. /\ frameLength \in Nat /\ curFrameDataIndex \in Nat
      /\ curFrameDataIndex < frameLength
    BY LengthsAssumption DEF SenderInv
<1>2. Len(payloadDesc) \in Nat
    BY GeneratedLength DEF SenderInv
<1> DEFINE n == MIN(size - Len(payloadDesc), frameLength - curFrameDataIndex)
<1>3. n \in 1..(frameLength - curFrameDataIndex) /\ n \in Nat
    BY <1>1, <1>2 DEF MIN
<1>4. packet' = [desc |-> DescToSend, from |-> curFrameDataIndex, len |-> n]
    BY DEF SendNext
<1>5. packet' \in Packet
    BY <1>1, <1>3, <1>4, DescToSendBytes DEF Packet
<1> QED BY <1>3, <1>4, <1>5 DEF Fills, SendNext

(* GetPacket fills a packet or changes nothing but its result.             *)
LEMMA PacketizerSteps ==
    ASSUME SenderInv, NEW size \in Nat, PacketizerGetPacket(size)
    PROVE  \/ Fills
           \/ PacketizerReturns(sResult') /\ sResult' # "OK"
<1>1. codec # "VP8" => payloadDesc = << >>
    BY DEF SenderInv
<1>2. CASE codec # "VP8" /\ GetPacketOf(size)
    <2>1. size > 0 => size > Len(payloadDesc)
        BY <1>1, <1>2
    <2>2. CASE size > 0 /\ frameLength # curFrameDataIndex /\ SendNext(size)
        BY <2>1, <2>2, SendNextFills
    <2>3. CASE \E r \in {"BAD_PARAM", "NO_MORE_PACKETS"} : PacketizerReturns(r)
        BY <2>3 DEF PacketizerReturns
    <2> QED BY <1>2, <2>2, <2>3 DEF GetPacketOf
<1>3. CASE VP8Packetizer_GetPacket(size)
    <2>1. CASE frameLength # curFrameDataIndex /\ size > Len(payloadDesc) /\ SendNext(size)
        BY <2>1, SendNextFills
    <2>2. CASE \E r \in {"OUT_OF_MEMORY", "NO_MORE_PACKETS"} : PacketizerReturns(r)
        BY <2>2 DEF PacketizerReturns
    <2> QED BY <1>3, <2>1, <2>2 DEF VP8Packetizer_GetPacket
<1> QED BY <1>2, <1>3 DEF PacketizerGetPacket, OpusPacketizer_GetPacket,
                          G711Packetizer_GetPacket

(* AddPacket stores the packet behind the others, or leaves the array.     *)
LEMMA AddPacketSteps ==
    ASSUME NEW p, AddPacket(p)
    PROVE  \/ packetsArray' = Append(packetsArray, p)
           \/ packetsArray' = packetsArray
<1>1. ASSUME StorePacket(p)
      PROVE  packetsArray' = Append(packetsArray, p) \/ packetsArray' = packetsArray
    BY <1>1 DEF StorePacket, DepacketizerReturns
<1>2. ASSUME StoreNonEmptyPacket(p)
      PROVE  packetsArray' = Append(packetsArray, p) \/ packetsArray' = packetsArray
    BY <1>1, <1>2 DEF StoreNonEmptyPacket, DepacketizerReturns
<1> QED BY <1>1, <1>2 DEF AddPacket, OpusDepacketizer_AddPacket,
                 G711Depacketizer_AddPacket, VP8Depacketizer_AddPacket

(* What of ReceiverInv a packet that is put behind the others keeps.       *)
LEMMA Stored ==
    ASSUME IInv, NEW p \in Packet, packetsArray' = Append(packetsArray, p),
           UNCHANGED <<codec, frameInfo>>,
           codec = "VP8" => Described(p, frameInfo),
           curFrameDataIndex' \in Int, sentCount' \in Int,
           curFrameDataIndex' >= curFrameDataIndex + p.len,
           sentCount' >= sentCount + (IF HasBytes(p) THEN 1 ELSE 0),
           sentCount' = sentCount + (IF HasBytes(p) THEN 1 ELSE 0) =>
                /\ curFrameDataIndex' = curFrameDataIndex + p.len
                /\ HasBytes(p) => p.from = curFrameDataIndex
    PROVE  ReceiverInv'
<1> DEFINE s == packetsArray
           t == Append(s, p)
           one == IF HasBytes(p) THEN 1 ELSE 0
<1>1. /\ s \in Seq(Packet) /\ curFrameDataIndex \in Int /\ sentCount \in Nat
      /\ \A k \in 0..Len(s) : CopiedLength(s)[k] <= curFrameDataIndex
      /\ Cardinality(Carriers(s)) <= sentCount
      /\ Cardinality(Carriers(s)) = sentCount =>
            /\ CopiedLength(s)[Len(s)] = curFrameDataIndex
            /\ \A i \in DOMAIN s : HasBytes(s[i]) => s[i].from = CopiedLength(s)[i - 1]
      /\ codec = "VP8" => \A i \in DOMAIN s : Described(s[i], frameInfo)
    BY DEF IInv, SenderInv, ReceiverInv
<1>2. /\ t \in Seq(Packet) /\ Len(s) \in Nat /\ Len(t) = Len(s) + 1
      /\ DOMAIN t = 1..(Len(s) + 1) /\ DOMAIN s = 1..Len(s)
      /\ \A i \in 1..Len(s) : t[i] = s[i]
      /\ t[Len(s) + 1] = p
    BY <1>1
<1>3. p.len \in Nat
    BY DEF Packet
<1>4. /\ \A k \in 0..Len(s) : CopiedLength(t)[k] = CopiedLength(s)[k]
      /\ CopiedLength(t)[Len(s) + 1] = CopiedLength(s)[Len(s)] + p.len
      /\ \A k \in 0..Len(s) : CopiedLength(s)[k] \in Int
    BY <1>1, CopiedAppend, CopiedIntegers
<1>5. /\ Cardinality(Carriers(s)) \in Nat
      /\ Cardinality(Carriers(t)) = Cardinality(Carriers(s)) + one
    BY <1>1, CarriersAppend
<1>6. packetsArray' = t
    OBVIOUS
<1> HIDE DEF s, t
<1>7. codec' = "VP8" => \A i \in DOMAIN t : Described(t[i], frameInfo')
    <2> SUFFICES ASSUME codec = "VP8", NEW i \in DOMAIN t PROVE Described(t[i], frameInfo)
        OBVIOUS
    <2>1. i = Len(s) + 1 \/ i \in 1..Len(s)
        BY <1>2
    <2> QED BY <1>1, <1>2, <2>1
<1>8. \A k \in 0..Len(t) : CopiedLength(t)[k] <= curFrameDataIndex'
    <2> SUFFICES ASSUME NEW k \in 0..Len(t)
                 PROVE  CopiedLength(t)[k] <= curFrameDataIndex'
        OBVIOUS
    <2>1. k = Len(s) + 1 \/ k \in 0..Len(s)
        BY <1>2
    <2>2. Len(s) \in 0..Len(s)
        BY <1>2
    <2>3. CASE k = Len(s) + 1
        <3>1. /\ CopiedLength(s)[Len(s)] <= curFrameDataIndex
              /\ CopiedLength(s)[Len(s)] \in Int
              /\ CopiedLength(t)[k] = CopiedLength(s)[Len(s)] + p.len
            BY <1>1, <1>4, <2>2, <2>3
        <3> QED BY <1>1, <1>3, <3>1
    <2>4. CASE k \in 0..Len(s)
        <3>1. /\ CopiedLength(s)[k] <= curFrameDataIndex /\ CopiedLength(s)[k] \in Int
              /\ CopiedLength(t)[k] = CopiedLength(s)[k]
            BY <1>1, <1>4, <2>4
        <3> QED BY <1>1, <1>3, <3>1
    <2> QED BY <2>1, <2>3, <2>4
<1>9. one \in {0, 1}
    OBVIOUS
<1>10. Cardinality(Carriers(t)) <= sentCount'
    <2> HIDE DEF one
    <2>1. sentCount' >= sentCount + one
        BY DEF one
    <2> QED BY <1>1, <1>5, <1>9, <2>1
<1>11. ASSUME Cardinality(Carriers(t)) = sentCount'
       PROVE  /\ Cardinality(Carriers(s)) = sentCount
              /\ curFrameDataIndex' = curFrameDataIndex + p.len
              /\ HasBytes(p) => p.from = curFrameDataIndex
    <2> HIDE DEF one
    <2>1. /\ sentCount' >= sentCount + one
          /\ sentCount' = sentCount + one =>
                /\ curFrameDataIndex' = curFrameDataIndex + p.len
                /\ HasBytes(p) => p.from = curFrameDataIndex
        BY DEF one
    <2>2. Cardinality(Carriers(s)) = sentCount /\ sentCount' = sentCount + one
        BY <1>1, <1>5, <1>9, <1>11, <2>1
    <2> QED BY <2>1, <2>2
<1>12. Cardinality(Carriers(t)) = sentCount' =>
        /\ CopiedLength(t)[Len(t)] = curFrameDataIndex'
        /\ \A i \in DOMAIN t : HasBytes(t[i]) => t[i].from = CopiedLength(t)[i - 1]
    <2> SUFFICES ASSUME Cardinality(Carriers(t)) = sentCount'
                 PROVE  /\ CopiedLength(t)[Len(t)] = curFrameDataIndex'
                        /\ \A i \in DOMAIN t :
                            HasBytes(t[i]) => t[i].from = CopiedLength(t)[i - 1]
        OBVIOUS
    <2>1. /\ CopiedLength(s)[Len(s)] = curFrameDataIndex
          /\ \A i \in DOMAIN s : HasBytes(s[i]) => s[i].from = CopiedLength(s)[i - 1]
          /\ curFrameDataIndex' = curFrameDataIndex + p.len
          /\ HasBytes(p) => p.from = curFrameDataIndex
        BY <1>1, <1>11
    <2>2. CopiedLength(t)[Len(t)] = curFrameDataIndex'
        BY <1>2, <1>4, <2>1
    <2>3. ASSUME NEW i \in DOMAIN t, HasBytes(t[i])
          PROVE  t[i].from = CopiedLength(t)[i - 1]
        <3>1. CASE i = Len(s) + 1
            <4>1. i - 1 = Len(s) /\ Len(s) \in 0..Len(s)
                BY <1>2, <3>1
            <4> QED BY <1>2, <1>4, <2>1, <2>3, <3>1, <4>1
        <3>2. CASE i \in 1..Len(s)
            <4>1. i - 1 \in 0..Len(s) /\ i \in DOMAIN s
                BY <1>2, <3>2
            <4> QED BY <1>2, <1>4, <2>1, <2>3, <3>2, <4>1
        <3> QED BY <1>2, <3>1, <3>2
    <2> QED BY <2>2, <2>3
<1> QED BY <1>2, <1>6, <1>7, <1>8, <1>10, <1>12 DEF ReceiverInv

(* Nothing is stored; the sender may have gone on.                         *)
LEMMA NotStored ==
    ASSUME IInv, UNCHANGED <<codec, frameInfo, packetsArray>>,
           curFrameDataIndex' \in Int, sentCount' \in Int,
           curFrameDataIndex' >= curFrameDataIndex,
           \/ sentCount' > sentCount
           \/ sentCount' = sentCount /\ curFrameDataIndex' = curFrameDataIndex
    PROVE  ReceiverInv'
<1>1. /\ packetsArray \in Seq(Packet) /\ curFrameDataIndex \in Int /\ sentCount \in Nat
      /\ Cardinality(Carriers(packetsArray)) <= sentCount
      /\ \A k \in 0..Len(packetsArray) :
            CopiedLength(packetsArray)[k] <= curFrameDataIndex
    BY DEF IInv, SenderInv, ReceiverInv
<1>2. Cardinality(Carriers(packetsArray)) \in Int
    <2>1. Cardinality(Carriers(packetsArray)) \in Nat
        <3>1. IsFiniteSet(1..Len(packetsArray))
            BY <1>1, FS_Interval
        <3>2. Carriers(packetsArray) \subseteq 1..Len(packetsArray)
            BY <1>1 DEF Carriers
        <3> QED BY <3>1, <3>2, FS_Subset, FS_CardinalityType
    <2> QED BY <2>1
<1>3. \A k \in 0..Len(packetsArray) : CopiedLength(packetsArray)[k] <= curFrameDataIndex'
    BY <1>1, CopiedIntegers
<1>4. /\ Cardinality(Carriers(packetsArray)) <= sentCount'
      /\ Cardinality(Carriers(packetsArray)) = sentCount' =>
            /\ Cardinality(Carriers(packetsArray)) = sentCount
            /\ curFrameDataIndex' = curFrameDataIndex
    BY <1>1, <1>2
<1> QED BY <1>3, <1>4 DEF IInv, ReceiverInv

(* The sender stays in its frame.                                          *)
LEMMA FillsKeeps ==
    ASSUME SenderInv, Fills, codec' = codec
    PROVE  SenderInv'
<1>1. /\ frameLength \in Nat /\ curFrameDataIndex \in Nat
      /\ packet'.len \in 1..(frameLength - curFrameDataIndex)
      /\ curFrameDataIndex' = curFrameDataIndex + packet'.len
    BY LengthsAssumption DEF SenderInv, Fills
<1>2. curFrameDataIndex' \in 0..frameLength
    BY <1>1
<1> QED BY <1>2 DEF SenderInv, Fills

(* A packet that was cut short carries nothing, only VP8's can be.         *)
LEMMA TruncatedPacket ==
    ASSUME SenderInv, Fills, NEW p \in Truncated(packet')
    PROVE  /\ p \in Packet /\ p.len = 0 /\ codec = "VP8"
           /\ Described(p, frameInfo)
<1> DEFINE d == packet'.desc
           n == Len(GeneratePayloadDescriptor(frameInfo))
<1>1. PICK k \in 1..Len(d) : p = [packet' EXCEPT !.desc = SubSeq(d, 1, k), !.len = 0]
    BY DEF Truncated
<1>2. packet' \in Packet /\ d = DescToSend
    BY DEF Fills
<1>3. codec = "VP8"
    BY <1>2, DescToSendBytes
<1>4. /\ d \in Seq(Byte) /\ Len(d) = n /\ BeginsWith(d, frameInfo, Len(d))
    BY <1>2, <1>3, DescToSendBytes
<1> HIDE DEF d
<1>5. /\ SubSeq(d, 1, k) \in Seq(Byte) /\ Len(SubSeq(d, 1, k)) = k
      /\ \A i \in 1..k : SubSeq(d, 1, k)[i] = d[i]
    BY <1>4
<1>6. /\ p \in Packet /\ p.len = 0 /\ p.desc = SubSeq(d, 1, k)
    BY <1>1, <1>2, <1>5 DEF Packet
<1>7. k \in 1..n
    BY <1>4
<1>8. BeginsWith(p.desc, frameInfo, k)
    <2>1. /\ d[1] \in {GeneratePayloadDescriptor(frameInfo)[1],
                      GeneratePayloadDescriptor(frameInfo)[1] + S}
          /\ \A i \in 2..Len(d) : d[i] = GeneratePayloadDescriptor(frameInfo)[i]
        BY <1>4 DEF BeginsWith
    <2>2. /\ 1 \in 1..k /\ k <= Len(d)
          /\ \A i \in 2..k : i \in 1..k /\ i \in 2..Len(d)
        BY <1>4, <1>7
    <2> QED BY <1>5, <1>6, <2>1, <2>2 DEF BeginsWith
<1>9. ~HasBytes(p)
    BY <1>6 DEF HasBytes
<1> QED BY <1>3, <1>5, <1>6, <1>7, <1>8, <1>9 DEF Described

(* A packet that is sent, and stored, cut short or lost.                   *)
LEMMA GetPacketConsistent ==
    ASSUME IInv, GetPacket
    PROVE  IInv'
<1>1. PICK size \in PacketSizes : SendPacket(size)
    BY DEF GetPacket
<1>2. /\ PacketizerGetPacket(size) /\ size \in Nat /\ codec' = codec
      /\ \/ sResult' = "OK" /\ AddPacket(packet')
         \/ sResult' = "OK" /\ \E p \in Truncated(packet') : AddPacket(p)
         \/ UNCHANGED depacketizer
    BY <1>1, LengthsAssumption DEF SendPacket
<1>3. SenderInv
    BY DEF IInv
<1>4. CASE PacketizerReturns(sResult') /\ sResult' # "OK"
    <2>1. UNCHANGED <<frameInfo, payloadDesc, frameLength, curFrameDataIndex, sentCount,
                      packetsArray>>
        BY <1>2, <1>4 DEF PacketizerReturns, depacketizer
    <2>2. SenderInv'
        BY <1>2, <1>3, <2>1 DEF SenderInv
    <2>3. ReceiverInv'
        BY <1>2, <2>1 DEF IInv, ReceiverInv
    <2> QED BY <2>2, <2>3 DEF IInv
<1>5. CASE Fills
    <2>1. SenderInv'
        BY <1>2, <1>3, <1>5, FillsKeeps
    <2>2. /\ curFrameDataIndex \in Int /\ sentCount \in Int
          /\ packet' \in Packet /\ packet'.len \in Nat /\ packet'.len >= 1
          /\ packet'.from = curFrameDataIndex
          /\ curFrameDataIndex' = curFrameDataIndex + packet'.len
          /\ sentCount' = sentCount + 1
          /\ UNCHANGED <<codec, frameInfo>>
        BY <1>2, <1>3, <1>5 DEF SenderInv, Fills
    <2>3. curFrameDataIndex' \in Int /\ sentCount' \in Int
          /\ curFrameDataIndex' >= curFrameDataIndex /\ sentCount' > sentCount
        BY <2>2
    <2>4. packetsArray' = packetsArray => ReceiverInv'
        BY <2>2, <2>3, NotStored
    <2>5. CASE AddPacket(packet')
        <3>1. HasBytes(packet')
            BY <2>2 DEF HasBytes
        <3>2. codec = "VP8" => Described(packet', frameInfo)
            BY <1>3, <1>5, DescToSendBytes DEF Described, Fills
        <3>3. ASSUME packetsArray' = Append(packetsArray, packet') PROVE ReceiverInv'
            <4>1. /\ curFrameDataIndex' >= curFrameDataIndex + packet'.len
                  /\ sentCount' >= sentCount + (IF HasBytes(packet') THEN 1 ELSE 0)
                BY <2>2, <2>3, <3>1
            <4> QED BY <2>2, <2>3, <3>2, <3>3, <4>1, Stored
        <3> QED BY <2>1, <2>4, <2>5, <3>3, AddPacketSteps DEF IInv
    <2>6. CASE \E p \in Truncated(packet') : AddPacket(p)
        <3>1. PICK p \in Truncated(packet') : AddPacket(p)
            BY <2>6
        <3>2. p \in Packet /\ p.len = 0 /\ Described(p, frameInfo)
            BY <1>3, <1>5, TruncatedPacket
        <3>3. ~HasBytes(p)
            BY <3>2 DEF HasBytes
        <3>4. ASSUME packetsArray' = Append(packetsArray, p) PROVE ReceiverInv'
            <4>1. /\ curFrameDataIndex' >= curFrameDataIndex + p.len
                  /\ sentCount' >= sentCount + (IF HasBytes(p) THEN 1 ELSE 0)
                  /\ sentCount' # sentCount + (IF HasBytes(p) THEN 1 ELSE 0)
                BY <2>2, <2>3, <3>2, <3>3
            <4> QED BY <2>2, <2>3, <3>2, <3>4, <4>1, Stored
        <3> QED BY <2>1, <2>4, <3>1, <3>4, AddPacketSteps DEF IInv
    <2>7. CASE UNCHANGED depacketizer
        <3>1. packetsArray' = packetsArray
            BY <2>7 DEF depacketizer
        <3> QED BY <2>1, <2>4, <3>1 DEF IInv
    <2> QED BY <1>2, <2>5, <2>6, <2>7
<1> QED BY <1>2, <1>3, <1>4, <1>5, PacketizerSteps

(* GetFrame reads: the packets stay in the array.                          *)
LEMMA GetFrameReads ==
    ASSUME NEW size, DepacketizerGetFrame(size)
    PROVE  packetsArray' = packetsArray
BY DEF DepacketizerGetFrame, OpusDepacketizer_GetFrame, G711Depacketizer_GetFrame,
       VP8Depacketizer_GetFrame, DepacketizerReturns, CopyPackets, CopyDescribedPackets

(* Steps that touch neither the frame nor the array.                       *)
LEMMA UnchangedConsistent ==
    ASSUME IInv, UNCHANGED <<codec, frameInfo, payloadDesc, frameLength,
                             curFrameDataIndex, sentCount, packetsArray>>
    PROVE  IInv'
<1>1. SenderInv'
    BY DEF IInv, SenderInv
<1>2. ReceiverInv'
    BY DEF IInv, ReceiverInv
<1> QED BY <1>1, <1>2 DEF IInv

(* Both Init functions start over.                                         *)
LEMMA NextFrameConsistent ==
    ASSUME IInv, NextFrame
    PROVE  IInv'
<1>1. PICK len \in FrameLengths \ {0} : PacketizerInit(len)
    BY DEF NextFrame
<1>2. PICK n \in ArrayLengths \ {0} : DepacketizerInit(n)
    BY DEF NextFrame
<1>3. len > 0 /\ n > 0 /\ codec' = codec /\ codec \in {"Opus", "G711", "VP8"}
    BY LengthsAssumption DEF NextFrame, IInv, SenderInv
<1>4. /\ frameInfo' \in FrameInfo
      /\ payloadDesc' = IF codec = "VP8" THEN GeneratePayloadDescriptor(frameInfo')
                        ELSE << >>
      /\ frameLength' = len /\ curFrameDataIndex' = 0 /\ sentCount' = 0
    <2>1. CASE codec = "VP8"
        <3>1. PICK info \in FrameInfos : VP8Packetizer_Init(len, info)
            BY <1>1, <2>1 DEF PacketizerInit, OpusPacketizer_Init, G711Packetizer_Init
        <3>2. StartFrame(len, info, GeneratePayloadDescriptor(info))
            BY <1>3, <3>1 DEF VP8Packetizer_Init, InitPacketizer
        <3>3. info \in FrameInfo
            BY VP8Assumption
        <3> QED BY <2>1, <3>2, <3>3 DEF StartFrame
    <2>2. CASE codec # "VP8"
        <3>1. StartFrame(len, ZeroInfo, << >>)
            BY <1>1, <1>3, <2>2 DEF PacketizerInit, OpusPacketizer_Init,
                G711Packetizer_Init, VP8Packetizer_Init, InitPacketizer
        <3>2. ZeroInfo \in FrameInfo
            BY DEF ZeroInfo, FrameInfo, Byte, UInt16
        <3> QED BY <2>2, <3>1, <3>2 DEF StartFrame
    <2> QED BY <2>1, <2>2
<1>5. SenderInv'
    BY <1>3, <1>4, LengthsAssumption DEF SenderInv
<1>6. packetsArray' = << >>
    BY <1>2, <1>3 DEF DepacketizerInit, OpusDepacketizer_Init, G711Depacketizer_Init,
        VP8Depacketizer_Init, InitDepacketizer, StartArray
<1>7. ReceiverInv'
    BY <1>4, <1>6, NothingStored
<1> QED BY <1>5, <1>7 DEF IInv

(* Calls that are refused.                                                 *)
LEMMA BadCallConsistent ==
    ASSUME IInv, BadCall
    PROVE  IInv'
<1>1. CASE /\ PacketizerInit(0) \/ PacketizerGetPacket(0)
           /\ UNCHANGED <<codec, depacketizer>>
    <2>1. ASSUME PacketizerInit(0) PROVE PacketizerReturns("BAD_PARAM")
        BY <2>1 DEF PacketizerInit, OpusPacketizer_Init, G711Packetizer_Init,
            VP8Packetizer_Init, InitPacketizer
    <2>2. ASSUME PacketizerGetPacket(0) PROVE PacketizerReturns(sResult')
        <3>1. CASE codec # "VP8" /\ GetPacketOf(0)
            BY <3>1 DEF GetPacketOf, PacketizerReturns
        <3>2. CASE VP8Packetizer_GetPacket(0)
            <4>1. Len(payloadDesc) \in Nat
                BY GeneratedLength, <3>2 DEF IInv, SenderInv, VP8Packetizer_GetPacket
            <4> QED BY <3>2, <4>1 DEF VP8Packetizer_GetPacket, PacketizerReturns
        <3> QED BY <2>2, <3>1, <3>2 DEF PacketizerGetPacket, OpusPacketizer_GetPacket,
                G711Packetizer_GetPacket
    <2> QED BY <1>1, <2>1, <2>2, UnchangedConsistent DEF PacketizerReturns, depacketizer
<1>2. CASE /\ DepacketizerInit(0) \/ DepacketizerGetFrame(0)
           /\ UNCHANGED <<codec, packetizer>>
    <2>1. ASSUME DepacketizerInit(0) PROVE packetsArray' = packetsArray
        BY <2>1 DEF DepacketizerInit, OpusDepacketizer_Init, G711Depacketizer_Init,
            VP8Depacketizer_Init, InitDepacketizer, DepacketizerReturns
    <2>2. packetsArray' = packetsArray
        BY <1>2, <2>1, GetFrameReads
    <2> QED BY <1>2, <2>2, UnchangedConsistent DEF packetizer
<1> QED BY <1>1, <1>2 DEF BadCall

(* A packet without bytes, which G711 alone stores.                        *)
LEMMA EmptyPacketConsistent ==
    ASSUME IInv, EmptyPacketArrives
    PROVE  IInv'
<1> DEFINE p == [desc |-> << >>, from |-> 0, len |-> 0]
<1>1. /\ p \in Packet /\ p.len = 0 /\ ~HasBytes(p) /\ PacketLength(p) = 0
    <2>1. << >> \in Seq(Byte)
        OBVIOUS
    <2> QED BY <2>1 DEF Packet, HasBytes, PacketLength
<1>2. AddPacket(p) /\ UNCHANGED <<codec, packetizer>>
    BY DEF EmptyPacketArrives
<1> HIDE DEF p
<1>3. /\ UNCHANGED <<codec, frameInfo, payloadDesc, frameLength, curFrameDataIndex,
                     sentCount>>
    BY <1>2 DEF packetizer
<1>4. CASE packetsArray' = packetsArray
    BY <1>3, <1>4, UnchangedConsistent
<1>5. CASE packetsArray' = Append(packetsArray, p) /\ packetsArray' # packetsArray
    <2>1. codec # "VP8"
        BY <1>1, <1>2, <1>5 DEF AddPacket, OpusDepacketizer_AddPacket,
            G711Depacketizer_AddPacket, VP8Depacketizer_AddPacket,
            StoreNonEmptyPacket, DepacketizerReturns
    <2>2. /\ curFrameDataIndex \in Int /\ sentCount \in Int
          /\ curFrameDataIndex' = curFrameDataIndex /\ sentCount' = sentCount
        BY <1>3 DEF IInv, SenderInv
    <2>3. /\ curFrameDataIndex' \in Int /\ sentCount' \in Int
          /\ curFrameDataIndex' >= curFrameDataIndex + p.len
          /\ curFrameDataIndex' = curFrameDataIndex + p.len
          /\ sentCount' >= sentCount + (IF HasBytes(p) THEN 1 ELSE 0)
        BY <1>1, <2>2
    <2>4. ReceiverInv'
        BY <1>1, <1>3, <1>5, <2>1, <2>3, Stored
    <2>5. SenderInv'
        BY <1>3 DEF IInv, SenderInv
    <2> QED BY <2>4, <2>5 DEF IInv
<1> QED BY <1>2, <1>4, <1>5, AddPacketSteps

(* The invariant is inductive.                                             *)
LEMMA NextConsistent == IInv /\ [Next]_vars => IInv'
<1> SUFFICES ASSUME IInv, [Next]_vars PROVE IInv'
    OBVIOUS
<1>1. CASE GetPacket
    BY <1>1, GetPacketConsistent
<1>2. CASE GetFrame
    <2>1. packetsArray' = packetsArray /\ UNCHANGED <<codec, packetizer>>
        BY <1>2, GetFrameReads DEF GetFrame
    <2> QED BY <2>1, UnchangedConsistent DEF packetizer
<1>3. CASE NextFrame
    BY <1>3, NextFrameConsistent
<1>4. CASE BadCall
    BY <1>4, BadCallConsistent
<1>5. CASE EmptyPacketArrives
    BY <1>5, EmptyPacketConsistent
<1>6. CASE UNCHANGED vars
    BY <1>6, UnchangedConsistent DEF vars, packetizer, depacketizer
<1> QED BY <1>1, <1>2, <1>3, <1>4, <1>5, <1>6 DEF Next

(* The two ends agree about the packets of the frame.                      *)
THEOREM BothEndsAgree == Spec => []IInv
<1> QED BY InitConsistent, NextConsistent, PTL DEF Spec
-----------------------------------------------------------------------------
(* What a reader of the packets makes of them.                             *)

(* Reading one descriptor after the other is well defined.                 *)
LEMMA DescriptorsInOrder ==
    ASSUME packetsArray \in Seq(Packet), NEW junk
    PROVE  \A k \in 1..Len(packetsArray) :
            DescriptorsRead(junk)[k] =
                ReadPayloadDescriptor(packetsArray[k].desc \o junk,
                                      DescriptorsRead(junk)[k - 1].info)
<1> DEFINE n == Len(packetsArray)
           zero == [length |-> 0, info |-> readInfo]
           Read(k, old) == ReadPayloadDescriptor(packetsArray[k].desc \o junk, old)
           Is(f, m) == f = [k \in 0..m |-> IF k = 0 THEN zero ELSE Read(k, f[k - 1].info)]
           Exists(m) == \E f : Is(f, m)
           All == {m \in 0..n : Exists(m)}
<1>1. n \in Nat
    OBVIOUS
<1> HIDE DEF n, zero, Read
<1>2. Exists(0)
    <2> DEFINE f == [k \in 0..0 |-> zero]
    <2>1. Is(f, 0)
        OBVIOUS
    <2> QED BY <2>1, Zenon
<1>3. ASSUME NEW m \in 1..n, Exists(m - 1) PROVE Exists(m)
    <2>1. PICK f : Is(f, m - 1)
        BY <1>3, Zenon
    <2> DEFINE h == [k \in 0..m |-> IF k = m THEN Read(m, f[m - 1].info) ELSE f[k]]
    <2>2. m - 1 \in 0..(m - 1) /\ m # 0 /\ m \in 0..m
        BY <1>1
    <2>3. \A k \in 0..m : k # m => k \in 0..(m - 1)
        BY <1>1
    <2>4. \A k \in 0..m : k # 0 => k - 1 \in 0..(m - 1) /\ k - 1 \in 0..m /\ k - 1 # m
        BY <1>1
    <2>5. \A k \in 0..(m - 1) : k \in 0..m /\ k # m /\ h[k] = f[k]
        BY <1>1
    <2>6. h[m] = Read(m, f[m - 1].info) /\ h[m - 1] = f[m - 1]
        BY <2>2, <2>5
    <2>7. \A k \in 0..(m - 1) : f[k] = IF k = 0 THEN zero ELSE Read(k, f[k - 1].info)
        BY <2>1, Zenon
    <2>8. h = [k \in 0..m |-> h[k]]
        OBVIOUS
    <2> HIDE DEF h
    <2>9. \A k \in 0..m : h[k] = IF k = 0 THEN zero ELSE Read(k, h[k - 1].info)
        <3> SUFFICES ASSUME NEW k \in 0..m
                     PROVE  h[k] = IF k = 0 THEN zero ELSE Read(k, h[k - 1].info)
            OBVIOUS
        <3>1. CASE k = m
            BY <2>2, <2>6, <3>1, Zenon
        <3>2. CASE k # m
            <4>1. k \in 0..(m - 1) /\ h[k] = f[k]
                BY <2>3, <2>5, <3>2, Zenon
            <4>2. CASE k = 0
                BY <2>7, <4>1, <4>2, Zenon
            <4>3. CASE k # 0
                <5>1. h[k - 1] = f[k - 1]
                    BY <2>4, <2>5, <4>3, Zenon
                <5> QED BY <2>7, <4>1, <4>3, <5>1, Zenon
            <4> QED BY <4>2, <4>3
        <3> QED BY <3>1, <3>2
    <2>10. Is(h, m)
        BY <2>8, <2>9, Zenon
    <2> QED BY <2>10, Zenon
<1>4. Exists(n)
    <2> HIDE DEF Exists
    <2>1. 0 \in All /\ \A m \in 1..n : m - 1 \in All => m \in All
        BY <1>1, <1>2, <1>3
    <2> HIDE DEF All
    <2>2. \A m \in 0..n : m \in All
        BY <1>1, <2>1, UpTo
    <2>3. n \in All
        BY <1>1, <2>2
    <2> QED BY <2>3 DEF All
<1> DEFINE d == CHOOSE f : Is(f, n)
<1>5. Is(d, n)
    BY <1>4, Zenon
<1>6. DescriptorsRead(junk) = d
    BY DEF DescriptorsRead, n, zero, Read
<1> HIDE DEF d
<1>7. ASSUME NEW k \in 1..n PROVE d[k] = Read(k, d[k - 1].info)
    <2>1. k \in 0..n /\ k # 0
        BY <1>1
    <2> QED BY <1>5, <2>1, Zenon
<1> QED BY <1>6, <1>7 DEF n, Read

(* What lies behind a packet does not change the bytes of the packet.      *)
LEMMA BehindDescriptor ==
    ASSUME NEW p \in Packet, NEW junk \in Junk, NEW info \in FrameInfo, Described(p, info)
    PROVE  BeginsWith(p.desc \o junk, info, Len(p.desc))
<1>1. p.desc \in Seq(Byte) /\ junk \in Seq(Byte)
    BY VP8Assumption DEF Packet
<1>2. IsConcatenation(p.desc \o junk, p.desc, junk)
    BY <1>1, Concatenation
<1> DEFINE bytes == p.desc \o junk
           d == p.desc
<1>3. /\ Len(d) \in Nat /\ Len(d) >= 1 /\ \A i \in 1..Len(d) : bytes[i] = d[i]
    <2>1. Len(d) \in Nat /\ \A i \in 1..Len(d) : bytes[i] = d[i]
        BY <1>2 DEF IsConcatenation
    <2>2. Len(d) \in 1..Len(GeneratePayloadDescriptor(info))
        BY DEF Described
    <2>3. Len(GeneratePayloadDescriptor(info)) \in Int
        BY GeneratedLength
    <2> HIDE DEF bytes, d
    <2> QED BY <2>1, <2>2, <2>3
<1>4. /\ d[1] \in {GeneratePayloadDescriptor(info)[1],
                  GeneratePayloadDescriptor(info)[1] + S}
      /\ \A i \in 2..Len(d) : d[i] = GeneratePayloadDescriptor(info)[i]
    BY DEF Described, BeginsWith
<1>5. 1 \in 1..Len(d) /\ \A i \in 2..Len(d) : i \in 1..Len(d)
    <2> HIDE DEF bytes, d
    <2> QED BY <1>3
<1> HIDE DEF bytes, d
<1>6. BeginsWith(bytes, info, Len(d))
    BY <1>3, <1>4, <1>5 DEF BeginsWith
<1> QED BY <1>6 DEF bytes, d

(* A packet that the reader finds payload in has some, and its descriptor  *)
(* is whole.                                                               *)
LEMMA PayloadFound ==
    ASSUME IInv, codec = "VP8", NEW junk \in Junk, NEW i \in 1..Len(packetsArray),
           HasPayload(packetsArray[i], DescriptorsRead(junk)[i].length)
    PROVE  /\ HasBytes(packetsArray[i])
           /\ Restores(DescriptorsRead(junk)[i].info, frameInfo)
<1> DEFINE p == packetsArray[i]
           bytes == p.desc \o junk
           old == DescriptorsRead(junk)[i - 1].info
<1>1. /\ packetsArray \in Seq(Packet) /\ p \in Packet /\ i \in DOMAIN packetsArray
      /\ frameInfo \in FrameInfo
    BY DEF IInv, SenderInv, ReceiverInv
<1>2. Described(p, frameInfo)
    BY <1>1 DEF IInv, ReceiverInv
<1>3. BeginsWith(bytes, frameInfo, Len(p.desc))
    BY <1>1, <1>2, BehindDescriptor
<1>4. DescriptorsRead(junk)[i] = ReadPayloadDescriptor(bytes, old)
    BY <1>1, DescriptorsInOrder
<1>5. DescriptorsRead(junk)[i].length = DescriptorLength(bytes)
    BY <1>4 DEF ReadPayloadDescriptor
<1> HIDE DEF p, bytes, old
<1>6. Len(p.desc) \in 1..Len(GeneratePayloadDescriptor(frameInfo))
    BY <1>2 DEF Described
<1>7. DescriptorLength(bytes) \in Nat /\ DescriptorLength(bytes) >= Len(p.desc)
    BY <1>1, <1>3, <1>6, LengthRead
<1>8. Len(p.desc) + p.len > DescriptorLength(bytes)
    BY <1>5 DEF HasPayload, PacketLength, p
<1>9. HasBytes(p)
    <2>1. Len(p.desc) \in Nat /\ p.len \in Nat
        BY <1>1 DEF Packet
    <2> QED BY <1>7, <1>8, <2>1 DEF HasBytes
<1>10. Len(p.desc) = Len(GeneratePayloadDescriptor(frameInfo))
    BY <1>2, <1>9 DEF Described
<1>11. Restores(ReadPayloadDescriptor(bytes, old).info, frameInfo)
    BY <1>1, <1>3, <1>10, ReadBack
<1> QED BY <1>4, <1>9, <1>11 DEF p

-----------------------------------------------------------------------------
(* The properties of the two ends.                                         *)

(* Packets that arrived are never refused by a buffer as long as the       *)
(* frame they belong to.                                                   *)
THEOREM FrameBufferIsEnough == Spec => FrameBufferSuffices
<1> DEFINE P == rResult' = "OUT_OF_MEMORY" =>
                    \A size \in BufferSizes :
                        size >= frameLength => ~DepacketizerGetFrame(size)
<1>1. IInv => P
    <2> SUFFICES ASSUME IInv, rResult' = "OUT_OF_MEMORY", NEW size \in BufferSizes,
                        size >= frameLength, DepacketizerGetFrame(size)
                 PROVE  FALSE
        OBVIOUS
    <2>1. /\ frameLength \in Nat /\ size \in Nat /\ curFrameDataIndex \in Nat
          /\ curFrameDataIndex <= frameLength
          /\ packetsArray \in Seq(Packet)
          /\ \A k \in 0..Len(packetsArray) :
                CopiedLength(packetsArray)[k] <= curFrameDataIndex
        BY LengthsAssumption DEF IInv, SenderInv, ReceiverInv
    <2>2. \E k \in 0..Len(packetsArray) :
            k < Len(packetsArray) /\ CopiedLength(packetsArray)[k + 1] > size
        BY DEF DepacketizerGetFrame, OpusDepacketizer_GetFrame, G711Depacketizer_GetFrame,
            VP8Depacketizer_GetFrame, DepacketizerReturns, CopyPackets,
            CopyDescribedPackets
    <2>3. PICK k \in 0..Len(packetsArray) :
            k < Len(packetsArray) /\ CopiedLength(packetsArray)[k + 1] > size
        BY <2>2
    <2>4. k + 1 \in 0..Len(packetsArray)
        BY <2>1, <2>3
    <2>5. CopiedLength(packetsArray)[k + 1] \in Int
        BY <2>1, <2>4, CopiedIntegers
    <2> QED BY <2>1, <2>3, <2>4, <2>5
<1>2. Spec => [][P]_vars
    BY <1>1, BothEndsAgree, PTL DEF Spec
<1> QED BY <1>2 DEF FrameBufferSuffices

(* GetFrame never returns OK while a packet that was cut off before its    *)
(* payload is in the array, whatever lies behind that packet in memory.    *)
THEOREM TruncatedIsNoticed == Spec => NoFrameFromTruncated
<1> DEFINE P == (codec = "VP8" /\ \E i \in DOMAIN packetsArray : ~HasBytes(packetsArray[i]))
                    => (rResult' = "OK" => ~GetFrame)
<1>1. IInv => P
    <2> SUFFICES ASSUME IInv, codec = "VP8", NEW i \in DOMAIN packetsArray,
                        ~HasBytes(packetsArray[i]), rResult' = "OK", GetFrame
                 PROVE  FALSE
        OBVIOUS
    <2>1. PICK size \in BufferSizes \ {0} : CopyDescribedPackets(size)
        BY DEF GetFrame, DepacketizerGetFrame, OpusDepacketizer_GetFrame,
            G711Depacketizer_GetFrame, VP8Depacketizer_GetFrame, DepacketizerReturns
    <2>2. PICK junk \in Junk : \A j \in 1..Len(packetsArray) :
            HasPayload(packetsArray[j], DescriptorsRead(junk)[j].length)
        BY <2>1 DEF CopyDescribedPackets
    <2>3. i \in 1..Len(packetsArray)
        BY DEF IInv, ReceiverInv
    <2> QED BY <2>2, <2>3, PayloadFound
<1>2. Spec => [][P]_vars
    BY <1>1, BothEndsAgree, PTL DEF Spec
<1> QED BY <1>2 DEF NoFrameFromTruncated

(* A GetFrame that returns OK once every packet arrived has put the frame  *)
(* together, with the fields it was sent with.                             *)
THEOREM FrameComesBack == Spec => RoundTrip
<1> DEFINE P == rResult' = "OK" /\ AllArrived /\ GetFrame =>
                    /\ IsWholeFrame(read')
                    /\ frameDataLength' = frameLength
                    /\ codec = "VP8" => Restores(readInfo', frameInfo)
<1>1. IInv => P
    <2> SUFFICES ASSUME IInv, rResult' = "OK", AllArrived, GetFrame
                 PROVE  /\ IsWholeFrame(read')
                        /\ frameDataLength' = frameLength
                        /\ codec = "VP8" => Restores(readInfo', frameInfo)
        OBVIOUS
    <2> DEFINE n == Len(packetsArray)
    <2>1. packetsArray \in Seq(Packet) /\ n \in Nat
        BY DEF IInv, ReceiverInv
    <2>2. /\ CopiedLength(packetsArray)[n] = frameLength
          /\ \A i \in DOMAIN packetsArray :
                HasBytes(packetsArray[i]) =>
                    packetsArray[i].from = CopiedLength(packetsArray)[i - 1]
        BY DEF IInv, ReceiverInv, AllArrived, Carriers
    <2>3. IsWholeFrame(packetsArray)
        BY <2>2 DEF IsWholeFrame
    <2>4. n >= 1
        <3>1. frameLength # 0
            BY DEF IInv, SenderInv
        <3> QED BY <2>1, <2>2, <3>1, CopiedIntegers
    <2>5. SubSeq(packetsArray, 1, n) = packetsArray
        BY <2>1
    <2>6. PICK size \in BufferSizes \ {0} : DepacketizerGetFrame(size)
        BY DEF GetFrame
    <2>7. CASE codec # "VP8"
        <3>1. CopyPackets(size)
            BY <2>6, <2>7 DEF DepacketizerGetFrame, OpusDepacketizer_GetFrame,
                G711Depacketizer_GetFrame, VP8Depacketizer_GetFrame, DepacketizerReturns
        <3>2. /\ read' = SubSeq(packetsArray, 1, n)
              /\ frameDataLength' = CopiedLength(packetsArray)[n]
            BY <3>1 DEF CopyPackets
        <3> QED BY <2>2, <2>3, <2>5, <2>7, <3>2
    <2>8. CASE codec = "VP8"
        <3>1. CopyDescribedPackets(size)
            BY <2>6, <2>8 DEF DepacketizerGetFrame, OpusDepacketizer_GetFrame,
                G711Depacketizer_GetFrame, VP8Depacketizer_GetFrame, DepacketizerReturns
        <3>2. PICK junk \in Junk :
                /\ \A i \in 1..n :
                    HasPayload(packetsArray[i], DescriptorsRead(junk)[i].length)
                /\ read' = SubSeq(packetsArray, 1, n)
                /\ frameDataLength' = CopiedLength(packetsArray)[n]
                /\ readInfo' = DescriptorsRead(junk)[n].info
            BY <3>1 DEF CopyDescribedPackets
        <3>3. n \in 1..n
            BY <2>1, <2>4
        <3>4. Restores(readInfo', frameInfo)
            BY <2>8, <3>2, <3>3, PayloadFound
        <3> QED BY <2>2, <2>3, <2>5, <3>2, <3>4
    <2> QED BY <2>7, <2>8
<1>2. Spec => [][P]_vars
    BY <1>1, BothEndsAgree, PTL DEF Spec
<1> QED BY <1>2 DEF RoundTrip

-----------------------------------------------------------------------------
(* The packetizer implements UnitStream.                                   *)

(* A frame given to Init is a unit accepted.                               *)
LEMMA StreamStarts == Init => Stream!Init
<1> SUFFICES ASSUME Init PROVE Stream!Init
    OBVIOUS
<1>1. /\ frameLength \in FrameLengths \ {0} /\ curFrameDataIndex = 0
      /\ packet = NoPacket
    BY DEF Init
<1>2. <<[len |-> frameLength]>>[1] \in [len : FrameLengths \ {0}]
    BY <1>1
<1>3. \A i \in 1..Len(<<[len |-> frameLength]>>) :
        <<[len |-> frameLength]>>[i] \in [len : FrameLengths \ {0}]
    BY <1>2
<1>4. Done = 0 /\ SlicesOf(packet) = << >>
    BY <1>1 DEF Done, SlicesOf
<1> QED BY <1>1, <1>3, <1>4 DEF Stream!Init

(* A packet is the whole frame or the next slice of it.                    *)
LEMMA FillsIsSend ==
    ASSUME SenderInv, Fills
    PROVE  Stream!Next
<1> DEFINE n == packet'.len
           c == curFrameDataIndex
           slices == SlicesOf(packet)'
           s == [unit |-> 0, from |-> c, len |-> n, first |-> c = 0,
                 last |-> c + n = frameLength]
           a == <<[len |-> frameLength]>>
<1>1. /\ frameLength \in Nat /\ c \in Nat /\ n \in Nat /\ n >= 1
      /\ n <= frameLength - c /\ c < frameLength
      /\ curFrameDataIndex' = c + n /\ frameLength' = frameLength
    BY LengthsAssumption DEF SenderInv, Fills
<1>2. slices = <<s>>
    <2>1. packet' # NoPacket
        BY NoPacketAssumption DEF Fills
    <2>2. packet'.from = c
        BY DEF Fills
    <2> QED BY <1>1, <2>1, <2>2 DEF SlicesOf
<1>3. Len(a) = 1 /\ a[1].len = frameLength
    OBVIOUS
<1>4. Done = 0
    BY <1>1 DEF Done
<1>5. Done' = IF c + n = frameLength THEN 1 ELSE 0
    BY <1>1 DEF Done
<1>6. a' = a
    BY <1>1
<1> DEFINE offset == IF Done = 1 THEN 0 ELSE curFrameDataIndex
<1>7. offset = c /\ offset' = IF c + n = frameLength THEN 0 ELSE c + n
    BY <1>1, <1>4, <1>5
<1>8. CASE c = 0 /\ n = frameLength
    <2>1. s = [unit |-> 0, from |-> 0, len |-> frameLength, first |-> TRUE, last |-> TRUE]
        <3>1. (c = 0) = TRUE /\ (c + n = frameLength) = TRUE
            BY <1>1, <1>8
        <3>2. c = 0 /\ n = frameLength
            BY <1>8
        <3> HIDE DEF c, n
        <3> QED BY <3>1, <3>2, Zenon
    <2>2. Len(slices) = 1
        BY <1>2
    <2>3. <<s>> = [i \in 1..1 |-> s]
        OBVIOUS
    <2>4. [i \in 1..1 |-> Stream!Slice(Done + i - 1, 0, a[Done + i].len, TRUE, TRUE)]
            = [i \in 1..1 |-> s]
        <3>1. ASSUME NEW i \in 1..1
              PROVE  Stream!Slice(Done + i - 1, 0, a[Done + i].len, TRUE, TRUE) = s
            <4>1. Done + i - 1 = 0 /\ Done + i = 1
                BY <1>4
            <4> HIDE DEF a, s
            <4> QED BY <1>3, <2>1, <4>1 DEF Stream!Slice
        <3> HIDE DEF a, s
        <3> QED BY <3>1, Zenon
    <2>5. Done' = Done + 1 /\ offset' = offset /\ offset = 0
        BY <1>1, <1>4, <1>5, <1>7, <1>8
    <2>6. 1 >= 1 /\ Done + 1 <= Len(a)
        BY <1>3, <1>4
    <2>7. Stream!SendWhole(1)
        <3> HIDE DEF s, a, offset, slices
        <3>1. slices = [i \in 1..1 |->
                            Stream!Slice(Done + i - 1, 0, a[Done + i].len, TRUE, TRUE)]
            BY <1>2, <2>3, <2>4, Zenon
        <3> QED BY <1>6, <2>5, <2>6, <3>1, Zenon
            DEF Stream!SendWhole, a, offset, slices
    <2> QED BY <2>2, <2>7 DEF Stream!Next
<1>9. CASE ~(c = 0 /\ n = frameLength)
    <2>1. slices # << >> /\ slices[1].len = n
        BY <1>2
    <2>2. (IF offset = 0 THEN 0 ELSE offset) = c
        BY <1>7
    <2>3. a[Done + 1].len - c = frameLength - c
        BY <1>3, <1>4
    <2>4. <<s>> = <<Stream!Slice(Done, c, n, offset = 0, n = frameLength - c)>>
        BY <1>1, <1>4, <1>7 DEF Stream!Slice
    <2>5. ~(offset = 0 /\ n = frameLength - c)
        BY <1>1, <1>7, <1>9
    <2>6. \/ n < frameLength - c /\ offset' = c + n /\ Done' = Done
          \/ n = frameLength - c /\ offset' = 0 /\ Done' = Done + 1
        BY <1>1, <1>4, <1>5, <1>7
    <2>7. Done < Len(a) /\ n >= 0
        BY <1>1, <1>3, <1>4
    <2> HIDE DEF s, a, offset, n, c, slices
    <2>8. Stream!SendSlice(n)
        BY <1>2, <1>6, <2>2, <2>3, <2>4, <2>5, <2>6, <2>7
        DEF Stream!SendSlice, a, offset, slices
    <2> QED BY <2>1, <2>8 DEF Stream!Next, slices
<1> QED BY <1>8, <1>9

(* Init with the next frame starts the stream again.                       *)
LEMMA StartIsRestart ==
    ASSUME frameLength' \in FrameLengths \ {0}, curFrameDataIndex' = 0, packet' = NoPacket
    PROVE  Stream!Restart
<1>1. <<[len |-> frameLength']>>[1] \in [len : FrameLengths \ {0}]
    OBVIOUS
<1>2. \A i \in 1..Len(<<[len |-> frameLength']>>) :
        <<[len |-> frameLength']>>[i] \in [len : FrameLengths \ {0}]
    BY <1>1
<1>3. Done' = 0 /\ SlicesOf(packet)' = << >>
    BY DEF Done, SlicesOf
<1> QED BY <1>2, <1>3 DEF Stream!Restart

(* The packetizer's steps are GetPacket's and Init's.                      *)
LEMMA StreamSteps ==
    ASSUME IInv, [Next]_vars
    PROVE  [Stream!Next]_(Stream!streamVars)
<1> DEFINE Same == UNCHANGED <<frameLength, curFrameDataIndex, packet>>
<1>1. ASSUME Same PROVE UNCHANGED Stream!streamVars
    BY <1>1 DEF Stream!streamVars, Done, SlicesOf
<1>2. ASSUME NEW r, PacketizerReturns(r) PROVE Same
    BY <1>2 DEF PacketizerReturns
<1>3. ASSUME UNCHANGED packetizer PROVE Same
    BY <1>3 DEF packetizer
<1>4. CASE GetPacket
    <2>1. PICK size \in PacketSizes : PacketizerGetPacket(size)
        BY <1>4 DEF GetPacket, SendPacket
    <2>2. Fills \/ PacketizerReturns(sResult')
        BY <2>1, LengthsAssumption, PacketizerSteps DEF IInv
    <2> QED BY <1>1, <1>2, <2>2, FillsIsSend DEF IInv
<1>5. CASE NextFrame
    <2>1. PICK len \in FrameLengths \ {0} : PacketizerInit(len)
        BY <1>5 DEF NextFrame
    <2>2. len > 0
        BY LengthsAssumption
    <2>3. \E info, desc : StartFrame(len, info, desc)
        BY <2>1, <2>2, Zenon DEF PacketizerInit, OpusPacketizer_Init, G711Packetizer_Init,
            VP8Packetizer_Init, InitPacketizer
    <2>4. /\ frameLength' \in FrameLengths \ {0} /\ curFrameDataIndex' = 0
          /\ packet' = NoPacket
        BY <2>3 DEF StartFrame
    <2> QED BY <2>4, StartIsRestart DEF Stream!Next
<1>6. CASE BadCall
    <2>1. ASSUME PacketizerInit(0) PROVE Same
        <3>1. PacketizerReturns("BAD_PARAM")
            BY <2>1 DEF PacketizerInit, OpusPacketizer_Init, G711Packetizer_Init,
                VP8Packetizer_Init, InitPacketizer
        <3> QED BY <1>2, <3>1
    <2>2. ASSUME PacketizerGetPacket(0) PROVE Stream!Next \/ Same
        BY <1>2, <2>2, PacketizerSteps, FillsIsSend DEF IInv
    <2> QED BY <1>1, <1>3, <1>6, <2>1, <2>2 DEF BadCall
<1>7. CASE GetFrame \/ EmptyPacketArrives \/ UNCHANGED vars
    <2>1. UNCHANGED packetizer
        BY <1>7 DEF GetFrame, EmptyPacketArrives, vars
    <2> QED BY <1>1, <1>3, <2>1
<1> QED BY <1>4, <1>5, <1>6, <1>7 DEF Next

(* Whatever the buffers, every byte of a frame leaves once and in order,   *)
(* the first packet and the last known as such.                            *)
THEOREM RefinesStream == Spec => ImplementsStream
<1>1. Init => Stream!Init
    BY StreamStarts
<1>2. IInv /\ [Next]_vars => [Stream!Next]_(Stream!streamVars)
    BY StreamSteps
<1> QED BY <1>1, <1>2, BothEndsAgree, PTL DEF Spec, ImplementsStream, Stream!Spec
=============================================================================
