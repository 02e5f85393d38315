-------------------------- MODULE MCH264Packetizer --------------------------
(* Instance of H264Packetizer for TLC.  Buffers of 2 to 4 bytes carry at    *)
(* most 0 to 2 bytes of payload in a fragment: the NAL units of 1, 3, 5     *)
(* and 6 bytes are sent whole, cut exactly and cut with a remainder.  In a  *)
(* buffer of 1 byte what is left of the size_t wraps.                       *)
EXTENDS H264Packetizer

H(f, nri, type) == [f |-> f, nri |-> nri, type |-> type]

idr == [header |-> H(0, 3, 5), len |-> 6]
slice == [header |-> H(1, 2, 1), len |-> 5]
sps == [header |-> H(0, 3, 7), len |-> 3]
aud == [header |-> H(0, 0, 9), len |-> 1]
empty == [header |-> NoHeader, len |-> 0]

MCNalu == {idr, slice, sps, aud, empty}
MCFrames == {<< >>, <<sps, idr>>, <<aud, empty, idr>>, <<aud, sps, slice>>}
MCArrayLengths == 0..3
MCSizes == 0..4
MCSizeMod == 16
=============================================================================
