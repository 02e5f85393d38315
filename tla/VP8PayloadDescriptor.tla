------------------------ MODULE VP8PayloadDescriptor ------------------------
(***************************************************************************)
(* The payload descriptor in front of every VP8 packet: how                *)
(* vp8_packetizer.c builds it from the properties of a frame and how       *)
(* vp8_depacketizer.c reads it back.  Bytes are numbers; which bytes are   *)
(* there, and so where the next one is, depends on bits of earlier ones.   *)
(***************************************************************************)
EXTENDS Integers, Sequences

X == 128
N == 32
S == 16
EXT_I == 128
EXT_L == 64
EXT_T == 32
EXT_K == 16
EXT_M == 128
EXT_TID == 64
EXT_Y == 32

(* No payload descriptor is longer.                                        *)
MAX_LENGTH == 6

Flags == {"NON_REF_FRAME", "PICTURE_ID_PRESENT", "TL0PICIDX_PRESENT",
          "TID_PRESENT", "KEYIDX_PRESENT", "DEPENDS_ON_BASE_ONLY"}

Byte == {n \in Nat : n < 256}
UInt16 == {n \in Nat : n < 65536}

(* The fields of VP8Frame_t beside the frame itself, as wide as they are.  *)
FrameInfo == [frameProperties : SUBSET Flags, pictureId : UInt16,
              tl0PicIndex : Byte, tid : Byte, keyIndex : Byte]

ZeroInfo == [frameProperties |-> {}, pictureId |-> 0, tl0PicIndex |-> 0,
             tid |-> 0, keyIndex |-> 0]

Bit(set, mask) == IF set THEN mask ELSE 0

HasBit(byte, mask) == (byte \div mask) % 2 = 1

Has(info, flag) == flag \in info.frameProperties

HasTidOrKeyIdx(info) == Has(info, "TID_PRESENT") \/ Has(info, "KEYIDX_PRESENT")

HasExtensions(info) ==
    \/ Has(info, "PICTURE_ID_PRESENT")
    \/ Has(info, "TL0PICIDX_PRESENT")
    \/ HasTidOrKeyIdx(info)

(* Mutant: one byte for any picture id.                                    *)
PictureIdInOneByte(info) ==
    IF Has(info, "PICTURE_ID_PRESENT") THEN <<info.pictureId % 128>> ELSE << >>

(* One byte, or 15 bits in two, marked by M.                               *)
PictureIdBytes(info) ==
    IF ~Has(info, "PICTURE_ID_PRESENT") THEN << >>
    ELSE IF info.pictureId < EXT_M THEN <<info.pictureId>>
    ELSE <<((info.pictureId \div 256) % 128) + EXT_M, info.pictureId % 256>>

TidKeyIdxByte(info) ==
    Bit(Has(info, "TID_PRESENT"), (info.tid % 4) * EXT_TID)
    + Bit(Has(info, "DEPENDS_ON_BASE_ONLY"), EXT_Y)
    + Bit(Has(info, "KEYIDX_PRESENT"), info.keyIndex % 32)

GeneratePayloadDescriptor(info) ==
    LET first == Bit(Has(info, "NON_REF_FRAME"), N)
        ext == Bit(Has(info, "PICTURE_ID_PRESENT"), EXT_I)
               + Bit(Has(info, "TL0PICIDX_PRESENT"), EXT_L)
               + Bit(Has(info, "TID_PRESENT"), EXT_T)
               + Bit(Has(info, "KEYIDX_PRESENT"), EXT_K)
    IN  IF ~HasExtensions(info) THEN <<first>>
        ELSE <<first + X, ext>>
             \o PictureIdBytes(info)
             \o (IF Has(info, "TL0PICIDX_PRESENT")
                    THEN <<info.tl0PicIndex>> ELSE << >>)
             \o (IF HasTidOrKeyIdx(info) THEN <<TidKeyIdxByte(info)>> ELSE << >>)

(* Where the parts of a descriptor are, read off its bytes.                *)
HasExtension(bytes, mask) == HasBit(bytes[1], X) /\ HasBit(bytes[2], mask)

HasWidePictureId(bytes) ==
    HasExtension(bytes, EXT_I) /\ HasBit(bytes[3], EXT_M)

Tl0PicIdxAt(bytes) ==
    3 + Bit(HasExtension(bytes, EXT_I), 1) + Bit(HasWidePictureId(bytes), 1)

TidKeyIdxAt(bytes) == Tl0PicIdxAt(bytes) + Bit(HasExtension(bytes, EXT_L), 1)

HasTidKeyIdxByte(bytes) ==
    HasExtension(bytes, EXT_T) \/ HasExtension(bytes, EXT_K)

DescriptorLength(bytes) ==
    IF HasBit(bytes[1], X)
        THEN TidKeyIdxAt(bytes) - 1 + Bit(HasTidKeyIdxByte(bytes), 1) ELSE 1

FlagsRead(bytes) ==
    LET flag(present, name) == IF present THEN {name} ELSE {}
    IN  flag(HasBit(bytes[1], N), "NON_REF_FRAME")
        \cup flag(HasExtension(bytes, EXT_I), "PICTURE_ID_PRESENT")
        \cup flag(HasExtension(bytes, EXT_L), "TL0PICIDX_PRESENT")
        \cup flag(HasExtension(bytes, EXT_T), "TID_PRESENT")
        \cup flag(HasExtension(bytes, EXT_K), "KEYIDX_PRESENT")
        \cup flag(HasTidKeyIdxByte(bytes) /\ HasBit(bytes[TidKeyIdxAt(bytes)], EXT_Y),
                  "DEPENDS_ON_BASE_ONLY")

(* What is read off the bytes of a packet into the fields of a frame that  *)
(* hold `info', and how long the descriptor is.  A field that is not there *)
(* keeps its value.                                                        *)
ReadPayloadDescriptor(bytes, info) ==
    [length |-> DescriptorLength(bytes),
     info |->
        [frameProperties |-> FlagsRead(bytes),
         pictureId |->
            IF HasWidePictureId(bytes) THEN ((bytes[3] % 128) * 256) + bytes[4]
            ELSE IF HasExtension(bytes, EXT_I) THEN bytes[3] ELSE info.pictureId,
         tl0PicIndex |->
            IF HasExtension(bytes, EXT_L) THEN bytes[Tl0PicIdxAt(bytes)]
            ELSE info.tl0PicIndex,
         tid |->
            IF HasExtension(bytes, EXT_T)
                THEN bytes[TidKeyIdxAt(bytes)] \div EXT_TID ELSE info.tid,
         keyIndex |->
            IF HasExtension(bytes, EXT_K)
                THEN bytes[TidKeyIdxAt(bytes)] % 32 ELSE info.keyIndex]]
=============================================================================
