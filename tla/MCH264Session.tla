--------------------------- MODULE MCH264Session ----------------------------
(* Instance of H264Session for TLC.  A buffer of 4 bytes takes the NAL unit *)
(* of 4 bytes whole, and 1 or 2 bytes of it once it is being cut, which a   *)
(* buffer of 3 bytes does: one packet, two fragments or three.  The one of  *)
(* 2 bytes is never cut.  A receiving array of 3 is too short for most      *)
(* frames of up to three NAL units.                                         *)
EXTENDS H264Session

H(f, nri, type) == [f |-> f, nri |-> nri, type |-> type]

idr == [header |-> H(1, 3, 5), len |-> 4]
aud == [header |-> H(0, 0, 9), len |-> 2]

MCNalu == {idr, aud}
MCFrames == {<<idr, idr, aud>>, <<aud, idr, aud, idr>>}
MCArrayLengths == {3}
MCSizes == {3, 4}
MCSizeMod == 16
MCPacketArrayLengths == {3, 9}
=============================================================================
