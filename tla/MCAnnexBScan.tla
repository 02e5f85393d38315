---------------------------- MODULE MCAnnexBScan ----------------------------
(* Every frame of up to seven bytes that are 0, 1 or neither, and longer   *)
(* ones put together from start codes, zeros and payload.                  *)
EXTENDS AnnexBScan

MaxShort == 7       \* bound on the length of the arbitrary frames

Short == UNION {[1..n -> 0..2] : n \in 0..MaxShort}

Codes == {<<0, 0, 1>>, <<0, 0, 0, 1>>, <<0, 0, 0, 0, 1>>}
Units == {<< >>, <<2>>, <<2, 0>>, <<0, 1, 2>>}

Joined == {c1 \o u1 \o c2 \o u2 \o c3 \o u3 :
              c1, c2, c3 \in Codes, u1, u2, u3 \in Units}

MCFrames == Short \cup Joined
MCRooms == {0, 1, 2, 4}
MCHeaderSizes == {1, 2}
=============================================================================
