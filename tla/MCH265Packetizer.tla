-------------------------- MODULE MCH265Packetizer --------------------------
(* Instance of H265Packetizer for TLC.  Buffers of 5 and 6 bytes carry 2 or *)
(* 3 bytes of a NAL unit in a fragment, so the ones of 7 and 8 bytes are    *)
(* cut exactly and with a remainder; buffers of 2 and 3 bytes are refused.  *)
(* Two of 2 bytes fill a buffer of 10 exactly, 2 and 3 of them do not fit.  *)
EXTENDS H265Packetizer

H(f, type, layerId, tid) ==
    [f |-> f, type |-> type, layerId |-> layerId, tid |-> tid]

idr == [header |-> H(0, 19, 0, 1), len |-> 8]
trail == [header |-> H(1, 1, 3, 2), len |-> 7]
aud == [header |-> H(0, 35, 0, 1), len |-> 2]
sei == [header |-> H(0, 39, 0, 2), len |-> 3]
short == [header |-> NoHeader, len |-> 1]

MCNalu == {idr, trail, aud, sei, short}
MCFrames == {<< >>, <<aud, sei, aud>>, <<aud, idr>>, <<sei, short, aud>>}
MCArrayLengths == {0, 1, 3}
MCSizes == {2, 3, 5, 6, 10}
MCNaluSizeMod == 16
=============================================================================
