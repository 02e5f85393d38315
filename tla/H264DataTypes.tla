--------------------------- MODULE H264DataTypes ----------------------------
(***************************************************************************)
(* The constants of h264_data_types.h that H264Packetizer and              *)
(* H264Depacketizer share, and what both mean by a packet.                 *)
(*                                                                         *)
(* A byte string is known by its length and by where it comes from: the    *)
(* first byte is the record of its bit fields, the rest is a `run', so     *)
(* many bytes of a NAL unit from an offset in it.                          *)
(***************************************************************************)
EXTENDS Integers

NALU_HEADER_SIZE == 1

SINGLE_NALU_PACKET_TYPE_START == 1
SINGLE_NALU_PACKET_TYPE_END == 23
STAP_A_PACKET_TYPE == 24
FU_A_PACKET_TYPE == 28

FU_A_HEADER_SIZE == 2

STAP_A_HEADER_SIZE == 1
STAP_A_NALU_SIZE == 2

H264_MIN(a, b) == IF a < b THEN a ELSE b

(* F, NRI and Type of a NAL unit header, an FU indicator, a STAP-A header. *)
HeaderByte == [f : 0..1, nri : 0..3, type : 0..31]

(* S, E and Type of an FU header.                                          *)
FuHeader == [s : BOOLEAN, e : BOOLEAN, type : 0..31]

NoFuHeader == [s |-> FALSE, e |-> FALSE, type |-> 0]
=============================================================================
