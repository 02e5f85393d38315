---------------------------- MODULE MCFrameCodec ----------------------------
(* Instance of FrameCodec for TLC: frames of 3 bytes, sent by 2 and 7       *)
(* bytes at most, descriptors included, so at once and with and without a   *)
(* remainder; arrays of 2 and 3 slots, too short and long enough; buffers   *)
(* shorter than the frame and as long; VP8 frames with no descriptor        *)
(* extension, two and all, with fields that fit and that do not; and ones   *)
(* in memory behind the packets.                                            *)
EXTENDS FrameCodec

MCFrameLengths == {0, 3}
MCPacketSizes == {0, 2, 7}
MCArrayLengths == {0, 2, 3}
MCBufferSizes == {0, 2, 3}
Info(flags, picture, tl0, t, key) ==
    [frameProperties |-> flags, pictureId |-> picture, tl0PicIndex |-> tl0,
     tid |-> t, keyIndex |-> key]
MCFrameInfos ==
    {Info({"NON_REF_FRAME", "DEPENDS_ON_BASE_ONLY"}, 0, 0, 0, 0),
     Info({"PICTURE_ID_PRESENT", "KEYIDX_PRESENT"}, 127, 0, 0, 40),
     Info(Flags, 33000, 170, 6, 31)}
MCJunk == {[i \in 1..6 |-> 255]}
=============================================================================
