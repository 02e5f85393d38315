------------------------- MODULE MCRtpSerialization -------------------------
(* Instance of RtpSerialization for TLC: a bare header; CSRCs with an       *)
(* extension and a padded payload; a TWCC extension; padding that is the    *)
(* whole payload, none of it, and one byte more; more CSRCs than fit the    *)
(* count; a payload the caller has not written.  Buffers that take some of  *)
(* these packets, strays of a wrong version, with counts and lengths that   *)
(* go past the end, and with padding longer than the payload.               *)
EXTENDS RtpSerialization

P(flags, csrc, profile, extension, payload, length) ==
    [flags |-> flags, payloadType |-> 200, sequenceNumber |-> 258,
     timestamp |-> <<1, 2, 3, 4>>, ssrc |-> <<255, 0, 128, 7>>, csrc |-> csrc,
     profile |-> profile, extension |-> extension, payload |-> payload,
     payloadLength |-> length]

MCTwccFields == {<<15, 65535>>, <<3, 513>>}
MCPackets ==
    {P({}, << >>, 0, << >>, << >>, 0),
     P({MARKER, EXTENSION, PADDING}, <<<<1, 2, 3, 4>>, <<5, 6, 7, 8>>>>, 4660,
       <<<<9, 10, 11, 12>>, <<0, 0, 0, 1>>>>, <<7, 7, 2>>, 3),
     P({EXTENSION}, << >>, 48862, <<TWCC_CREATE_PAYLOAD(15, 65535)>>, <<1>>, 1),
     P({EXTENSION, PADDING}, <<<<0, 0, 0, 255>>>>, 48862,
       <<TWCC_CREATE_PAYLOAD(3, 513)>>, << >>, 0),
     P({PADDING}, << >>, 0, << >>, <<9, 2>>, 2),
     P({PADDING}, << >>, 0, << >>, <<9, 0>>, 2),
     P({PADDING}, << >>, 0, << >>, <<9, 3>>, 2),
     P({EXTENSION}, [i \in 1..16 |-> <<1, 0, 0, i>>], 1, << >>, <<5>>, 1),
     P({PADDING}, << >>, 0, << >>, << >>, 2)}
MCBufferLengths == {13, 45}
Header(first) == <<first, 96, 0, 1>> \o [i \in 1..8 |-> i]
MCStrays ==
    {Header(64), Header(129), Header(144), Header(144) \o <<1, 2, 0, 1>>,
     Header(145) \o <<144, 0, 0, 0, 144, 0, 0, 0>>,
     Header(145) \o <<144, 0, 0, 0, 190, 222, 1, 0, 5>>,
     Header(160) \o <<2>>, Header(160) \o <<2, 2>>}
=============================================================================
