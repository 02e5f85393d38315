------------------------- MODULE MCH264Depacketizer -------------------------
(* Instance of H264Depacketizer for TLC: a packet of each kind the code     *)
(* tells apart, well formed and not, in arrays of up to three.              *)
EXTENDS H264Depacketizer, TLC

Single(len) ==
    [first |-> [f |-> 0, nri |-> 3, type |-> 1], fu |-> NoFuHeader,
     packetDataLength |-> len]

FuA(s, e, len) ==
    [first |-> [f |-> 0, nri |-> 3, type |-> FU_A_PACKET_TYPE],
     fu |-> [s |-> s, e |-> e, type |-> 5], packetDataLength |-> len]

StapA(sizes, len) ==
    [first |-> [f |-> 0, nri |-> 3, type |-> STAP_A_PACKET_TYPE],
     fu |-> NoFuHeader, packetDataLength |-> len, sizes |-> sizes]

Reserved ==
    [first |-> [f |-> 0, nri |-> 0, type |-> 30], fu |-> NoFuHeader,
     packetDataLength |-> 2]

(* Two NAL units; the second cut short; one byte too many for a size.       *)
Stap == StapA(1 :> 1 @@ 4 :> 2, 8)
StapTruncated == StapA(1 :> 1 @@ 4 :> 9, 8)
StapTrailing == StapA(1 :> 1, 5)

MCPackets == {Single(2), Single(7), FuA(TRUE, FALSE, 3), FuA(FALSE, FALSE, 2),
              FuA(FALSE, TRUE, 4), FuA(TRUE, FALSE, 1), Stap, StapTruncated,
              StapTrailing, Reserved}
MCArrayLengths == {0, 3}
MCNaluSizes == {1, 2, 8}
MCFrameSizes == {0, 10, 13, 34}

OneLength == {3}
SmallSizes == {1}
NoSizes == {}
SinglePackets == {Single(1), Single(2)}
=============================================================================
