--------------------------- MODULE MCH265Session ----------------------------
(* Instance of H265Session for TLC.  A buffer of 12 bytes aggregates the    *)
(* NAL units of 2 and 4 bytes exactly; one of 5 or 6 bytes takes them alone *)
(* and cuts the one of 7 bytes, of another layer, in two or three.  The     *)
(* array of 2 packets and the buffers of 3 and 17 bytes are too short.  A   *)
(* stray of every kind the code tells apart: fragments without and with an  *)
(* end, an aggregation packet cut short, one with a byte too many, and a    *)
(* packet of a type that is not supported.                                  *)
EXTENDS H265Session, TLC

H(f, type, layerId, tid) ==
    [f |-> f, type |-> type, layerId |-> layerId, tid |-> tid]

layer == [header |-> H(1, 1, 33, 2), len |-> 7]
sei == [header |-> H(0, 39, 0, 3), len |-> 4]
aud == [header |-> H(0, 35, 0, 1), len |-> 2]
trailN == [header |-> H(0, 0, 0, 1), len |-> 4]

MCNalu == {layer, sei, aud}
MCFrames == {<<aud, sei, layer>>, <<layer, layer, sei>>, <<layer, aud, sei>>}

TrailN == {trailN}
TrailNFrames == {<<trailN>>}
NoStrays == {}

MCArrayLengths == {3}
MCSizes == {5, 6, 12}
MCNaluSizeMod == 16
MCPacketArrayLengths == {2, 10}
MCBufferSizes == {3, 17, 64}

Stray(header, fu, sizes, len) ==
    [header |-> header, fu |-> fu, sizes |-> sizes, runs |-> << >>,
     packetDataLength |-> len]

Fu(s, e, len) ==
    Stray(H(0, FU_PACKET_TYPE, 0, 1), [s |-> s, e |-> e, type |-> 1], NoSizes, len)

Ap(sizes, len) == Stray(H(0, AP_PACKET_TYPE, 0, 1), NoFuHeader, sizes, len)

MCStrays ==
    {Fu(TRUE, FALSE, 5), Fu(FALSE, TRUE, 4), Ap(2 :> 2 @@ 6 :> 9, 10), Ap(2 :> 2, 7),
     Stray(H(0, 60, 0, 1), NoFuHeader, NoSizes, 4)}
=============================================================================
