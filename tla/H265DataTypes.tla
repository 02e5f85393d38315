--------------------------- MODULE H265DataTypes ----------------------------
(***************************************************************************)
(* The constants of h265_data_types.h that H265Packetizer and              *)
(* H265Depacketizer share.  As for H264 a byte string is known by its      *)
(* length and by where it comes from; the two header bytes that NAL units  *)
(* and packets begin with are the record of their bit fields.              *)
(***************************************************************************)
EXTENDS Integers

NALU_HEADER_SIZE == 2

SINGLE_NALU_PACKET_TYPE_START == 1
SINGLE_NALU_PACKET_TYPE_END == 47
AP_PACKET_TYPE == 48
FU_PACKET_TYPE == 49

FU_PAYLOAD_HEADER_SIZE == 2
FU_HEADER_SIZE == 1

(* What precedes the payload of a fragment.                                *)
FuHeadersSize == FU_PAYLOAD_HEADER_SIZE + FU_HEADER_SIZE

AP_HEADER_SIZE == 2
AP_NALU_LENGTH_FIELD_SIZE == 2

H265_MIN(a, b) == IF a < b THEN a ELSE b

(* F, Type, LayerId and TID of a NAL unit header or a payload header.      *)
Header == [f : 0..1, type : 0..63, layerId : 0..63, tid : 0..7]

NoHeader == [f |-> 0, type |-> 0, layerId |-> 0, tid |-> 0]

(* S, E and FuType of an FU header.                                        *)
FuHeader == [s : BOOLEAN, e : BOOLEAN, type : 0..63]

NoFuHeader == [s |-> FALSE, e |-> FALSE, type |-> 0]
=============================================================================
