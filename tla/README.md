# Verification of the RTP library

TLA+ modules for the C library in this repository, TLC configurations that
model-check them on small instances, and theorems that TLAPS checks for every
value of the constants. The library is single-threaded and keeps all its state
in contexts and arrays its callers supply, so one call is one step of a model,
and what is hard about it lies in *sequences* of calls: offsets and counters
that outlive a call, errors half-way through one, buffers whose length changes
from call to call, packets that the network loses, cuts or brings from
elsewhere, and numbers at the edges of their ranges.

## 1. Inventory

| Component | State it keeps | Operations | Modelled in |
|---|---|---|---|
| RTP packet queue, `source/rtp_pkt_queue.c` | ring of packet infos, read and write index, count | Init, Enqueue, ForceEnqueue, Dequeue, Peek, Retrieve | `RtpPacketQueue`, `RtpSendHistory` |
| H264 packetizer | array of NAL units, head and tail index, count, fragmentation state | Init, AddNalu, AddFrame, GetPacket | `H264Packetizer` |
| Annex B scan in `H264Packetizer_AddFrame` (and the H265 one) | indices into the frame, during the call | splits a frame at start codes | `AnnexBScan` |
| H264 depacketizer | array of packets, head and tail index, count, offset in an aggregation packet | Init, AddPacket, GetNalu, GetFrame, GetPacketProperties | `H264Depacketizer` |
| H265 packetizer | as H264, fragmentation state with a payload header | Init, AddNalu, AddFrame, GetPacket (single, fragment, aggregate) | `H265Packetizer` |
| H265 depacketizer | as H264 | as H264 | `H265Depacketizer` |
| Opus, G711, VP8 packetizer | the frame, an index into it; VP8: the payload descriptor | Init, GetPacket | `FrameCodec`, `VP8PayloadDescriptor` |
| Opus, G711, VP8 depacketizer | array of packets, count | Init, AddPacket, GetFrame, GetPacketProperties | `FrameCodec`, `VP8PayloadDescriptor` |
| RTP serializer, `source/rtp_api.c` | byte order functions in the context | Init, Serialize (also to ask for the length), DeSerialize | `RtpSerialization` |
| Endianness helpers, `source/rtp_endianness.c` | none | word readers and writers, and the choice of them | `RtpSerialization` |
| TWCC macros, `rtp_data_types.h:17-44` | none | for applications; unused by the library | `RtpSerialization` |
| Unit tests, CMake, Coverity configuration | none | | not part of the program |

**How they interact.** The components do not call each other. An application
adds a frame to a packetizer, takes packets from it until there are no more,
gives each to the serializer, keeps it in a packet queue for retransmission and
sends it; on the other side the packets of a frame are deserialized, sorted,
added to a depacketizer and read back. Everything they share is the wire
format of a packet, and the order of calls that the repository's README.md
(Packetization, Depacketization) prescribes. `H264Session`, `H265Session`,
`FrameCodec` and `RtpSerialization` compose both ends of that path;
`RtpSendHistory` composes the queue with the sender's sequence number.

**What makes each component correct, and what is hard to test about it** (each
item is a hazard of PROJECT.json, with its line):

- *Queue.* Three counters updated by different functions must agree in any
  mixture of calls; a full ring must give up exactly its oldest info; slots
  that were dequeued keep their contents and must never be found again; the
  16-bit sequence number comes round.
- *H264 packetizer.* A NAL unit that is cut spans many calls, whose buffers may
  have different lengths and between which more NAL units are added; every byte
  must leave once and in order with correct S and E bits. AddNalu checks only a
  count and writes at an index that only Init rewinds. AddFrame can fail
  half-way. Buffers of one and two bytes leave no room for payload.
- *Annex B scan.* Two patterns, one a suffix of the other, are searched at once
  against the end of the frame; units may be empty, the first and the last are
  special, and AddNalu may refuse one in the middle.
- *H264 depacketizer.* A lost packet turns a sequence of fragments into one the
  sender never made; a short buffer fails after fragments were consumed; the
  offset in an aggregation packet survives the call and must not survive the
  packet; one error code is dropped.
- *H265.* As H264, and: the sizes of the waiting NAL units decide between three
  packet kinds, and a NAL unit that fits alone need not fit with its size
  field; a fragmentation may fail in the middle of a NAL unit and go on later;
  the packetizer sends a type under which the depacketizer looks for something
  else.
- *Opus, G711.* The end of a frame is an equality of counters; a buffer of
  exactly the frame's length must do; the packets stay after GetFrame.
- *VP8.* Which bytes the descriptor has depends on bits of earlier ones; it is
  read before its length is compared with the packet's; the descriptor of the
  last packet overwrites what the earlier ones left.
- *Serializer.* The length is computed apart from the writes; counts in the
  packet decide where its parts are; CSRCs and extension words are converted in
  place, so another call reads changed bytes; the padding count is in the
  payload.

## 2. Modules

| Module | What it is |
|---|---|
| `PacketFifo` | abstract: a bounded FIFO of packet infos, each operation with its answer |
| `RtpPacketQueue` | the ring, one action per function; `ImplementsFifo` maps it to `PacketFifo` |
| `RtpSendHistory` | a sender that keeps what it sent in the ring (ForceEnqueue) and answers retransmission requests from it (Retrieve), with a sequence number modulo `SeqMod` |
| `UnitStream` | abstract: units accepted leave in order, whole, several in one packet, or in consecutive slices, the first and last marked. Three packetizer modules implement it |
| `H264DataTypes`, `H265DataTypes` | the constants of the two `..._data_types.h` |
| `AnnexBScan` | the loop of `AddFrame`, one action per turn, for H264 and H265 (they differ in `headerSize`) |
| `H264Packetizer`, `H265Packetizer` | the packetizers; `ImplementsStream` maps them to `UnitStream` |
| `H264Depacketizer`, `H265Depacketizer` | the depacketizers |
| `H264Session`, `H265Session` | packetizer and depacketizer at the two ends of a network that loses packets and, for H265, brings strays |
| `VP8PayloadDescriptor` | the descriptor in bytes: how it is built and read back |
| `FrameCodec` | Opus, G711 and VP8, packetizer, network and depacketizer together; the packetizers implement `UnitStream` with no restated header |
| `RtpSerialization` | `rtp_api.c`, `rtp_endianness.c` and the TWCC macros: serialize, deliver, deserialize once or again |
| `MC...` | instances for TLC |
| `...Proofs` | theorems and proofs, eight modules |

### Correspondence of state and data

Variables have the names of the context fields. Besides those, a module keeps
the return code of the last call (`result`) and what it wrote through output
pointers (`packet`, `nalu`, `frame`, `received`), because properties speak of
them.

- In the H264 and H265 modules packet bytes are not modelled one by one. The
  header of a packet is the record of its bit fields, because the code decides
  by them; every other byte is known by where it came from (NAL unit or packet,
  offset, length). "Every byte once and in order" is then a statement about
  offsets and lengths. H265 packets carry `runs`, the NAL units and offsets
  their bytes are from, which no receiver looks at: the properties of
  `H265Session` do.
- An aggregation packet carries a function `sizes` that tells what 16-bit size
  would be read at each offset where the code reads one; offsets outside the
  packet are never read, which an assumption of the modules states. The H265
  packetizer writes sizes modulo `NaluSizeMod`, 65536 in the code.
- VP8 descriptors and all of `RtpSerialization` are bytes, because where the
  next field is depends on bits of earlier ones.
- `VP8Depacketizer_GetFrame` reads a descriptor before it compares its length
  with the packet's. What lies behind a packet that was cut short is one of
  `Junk`, any bytes.
- In `RtpSerialization` a word is four bytes, most significant first; `Native`
  is what it looks like in the memory of the machine, which is little-endian or
  not. Addresses are offsets in the packet.
- In `H264Packetizer`, subtraction in `size_t` is modulo `SizeMod`
  (`MaxNaluDataLengthToSend`), because one byte of buffer makes it wrap. The
  other sums stay below the lengths of objects in memory.
- `H264Packetizer_AddFrame` and `H265Packetizer_AddFrame` take a sequence of
  NAL units: the result of the Annex B scan, a component of its own;
  `ResultTellsWhatIsLeft` is what links them. Each is one action, since nothing
  can happen between the AddNalu calls it makes; the existential over `k` is
  the number of calls that succeed, fixed by the conditions that follow.
- GetFrame of both depacketizers is one action for the call and one for each
  turn of its loop (`GetFrameTurn`), so each turn is the GetNalu of the code; no
  other call can come between (`Idle`).
- Loops over fragments, packets and waiting NAL units are the existential over
  how many turns the loop makes, with the conditions that keep it going and the
  one that ends it.
- `H264Depacketizer` models the code's dropped return value as it is:
  `DepacketizeCurrent` computes a result of `DepacketizeSingleNaluPacket` and
  returns OK. The H265 code assigns it.

### Assumptions about callers

Two guards are the caller's, not the code's. `SlotsFor` (packetizers) and
`SlotFree` (depacketizers): once packets have been taken, the caller adds
another unit only if it knows there is a slot left behind `headIndex`. The code
tests the count, which is enough if a frame is added before its packets are
taken, the order README.md gives; `headIndex` is rewound by Init only. Without
the guard the code writes behind the array, which a model of array slots cannot
follow. Callers start with a successful Init. NULL arguments and zero lengths
are calls like any other, but in `RtpSerialization`, where they are left out.
Receivers add the packets of a frame in order, duplicates dropped; a receiver
in a session gives the frame up when a call fails and nothing moves.

## 3. Runs

Every configuration is checked to completion, without symmetry; deadlock
checking is on in all but `annexb_scan`, whose call returns.

| Run | Instance | What it shows |
|---|---|---|
| `queue` | three sequence numbers, two packets, rings of two and three slots (and the refused one) | the counters agree, only enqueued infos come out, the ring is the FIFO |
| `send_history` | sequence number modulo 4, two packets, rings of 2 to 4 slots | a packet can be sent again exactly while it is among the last `arrayLength`, and never one of the round before; the packet given up is the oldest |
| `annexb_scan` | every frame of up to 7 bytes of 0, 1 and another value; 1728 joined from three start codes (with zeros before) and payloads, up to 24 bytes; room for 0, 1, 2 and 4 units; both header lengths | AddFrame adds the NAL units of the byte stream in order, and its result tells what was left |
| `h264_packetizer` | NAL units of 0, 1, 3, 5 and 6 bytes, frames of 0, 2 and 3 of them, arrays of 0 to 3, buffers of 0 to 4 bytes, any order of calls | packets fit but for fragments in a buffer of one byte, the saved state stays consistent, `UnitStream` is implemented, and no NAL unit is left for ever |
| `h264_depacketizer` | ten packets: single NAL units of 2 and 7 bytes, all kinds of fragment, well-formed, truncated and trailing aggregation packets, a reserved type; arrays of 3 slots; buffers too short, exact and long | the offset stays a boundary inside its packet, no byte twice or out of order, OK frames complete, well-formed packets always drained |
| `h264_depacketizer_dropped` | single NAL unit packets of 2 bytes, a buffer of 1 byte | *violated*: the packets run out or a call fails |
| `h264_session` | up to four NAL units of 2 and 4 bytes, one with F = 1, buffers of 3 and 4, arrays of 3 and 9 packets, any packet may be lost | round trip, containment of losses, marks |
| `h265_packetizer` | NAL units of 1 (refused), 2, 3, 7 and 8 bytes, frames of up to three, buffers of 2 and 3 (refused), 5, 6 and 10 bytes, any order of calls | as `h264_packetizer`, with aggregation and with calls that fail between fragments |
| `h265_session` | NAL units of 2, 4 and 7 bytes, one of another layer with F = 1, buffers of 5, 6 and 12 bytes, arrays of 2 and 10 packets, reading buffers too short, nearly and well long enough, losses, five kinds of stray | round trip, containment of losses and strays, marks, offset inside its packet, OK frames complete |
| `h265_session_trail_n` | one NAL unit of type 0, no strays | *violated*: what was added is read back |
| `frame_codec` | frames of 3 bytes in packets of 2 and 7, arrays of 2 and 3, buffers of 2 and 3, losses, empty packets, packets cut in their descriptor with ones behind them, three VP8 frames with no extension, some and all; the three libraries | slices cover the frame once and are put together again with the VP8 fields, by a buffer as long as the frame; a truncated packet never passes; packets come to an end |
| `rtp_serialization` | nine packets (bare; CSRCs, extension and padding; TWCC; padding of none, all and one more than the payload; 16 CSRCs; no payload written), buffers too short and long, every prefix of what was written, eight strays, three calls with each, both byte orders | SSRC, header and payload end where the reported length says and no other byte is touched, a round trip, reads inside the packet, further calls agree |

**Why the bounds are enough.** Ring arithmetic shows all its cases at two and
three slots: the indices wrap, coincide when full and when empty, and a queue
of three can be full across the end of the array. Fragmentation depends on how
payload room divides the NAL unit; one to three bytes of room against the
payloads of the instances give exact divisions, remainders, single-fragment
remainders, and a buffer that grows past the remainder between two calls.
Aggregation depends on how sizes add up to the buffer: in the H265 instances
some sets fit exactly, some all but their last size field. The scan looks at
four bytes at a time, so frames of seven hold every overlap of two start codes.
Three slots in the depacketizer let a packet of any kind come before, between
and after fragments of another, and one stray to a frame can hit each place
between its packets. The checks of Rtp_DeSerialize are one for each part of a
packet; cutting a packet that has every part after each of its bytes meets both
sides of each. The third call is the first that reads bytes converted twice.
The theorems remove the bounds where the table of section 5 says so.

### What the violated runs mean

1. `h264_depacketizer.c:281`: the result of DepacketizeSingleNaluPacket is not
   assigned, so GetNalu with a buffer that is too short gives OK and no
   progress, for ever, where README.md tells callers to go on until
   `H264_RESULT_NO_MORE_NALUS`. `DrainsOrFails` asks only that the packets run
   out or some call fails: with the result assigned, the same run passes. The
   only buffer of the instance is the short one, because a call that changes
   nothing is a stutter, and weak fairness of the calls would then take the
   longer buffer.
2. `h265_depacketizer.c:280`: types of single NAL units begin with 1
   (`h265_data_types.h:33`), but 0 is TRAIL_N, a coded slice that
   H265Packetizer sends as a single NAL unit packet. The depacketizer refuses
   the packet, keeps it, and fails the same way at every later call. The unit
   tests of the depacketizer expect that refusal (`h265_utest.c:1279-1312` and
   `:2175-2190`, which call type 0 unsupported); none sends such a NAL unit
   through both ends.

Three more disagreements are part of the models; the properties around them say
what the code does there, or name the condition that excludes them:

- `rtp_pkt_queue.c:197`: the comment of RtpPacketQueue_Retrieve says "Read and
  remove"; the code (line 242) reads. A retransmission cache needs the code:
  `RetransmitsLatest` would not hold otherwise.
- `h264_packetizer.c:73`: with a buffer of two bytes GetPacket produces
  fragments of no payload, OK, for ever (`ReachesNoMorePackets` therefore asks
  for buffers with room), and with one byte the room wraps in `size_t`:
  all that is left of the NAL unit goes into one packet, longer than the buffer
  and, if nothing was sent before, with both marks. `PacketFitsBuffer` and
  `ImplementsStream` (`GetPacketWithoutRoom`) say so, and only so; the instance
  has such a buffer, and the runs fail without that exception. The H265 packetizer refuses both lengths.
- `h264_packetizer.c:86`: the FU indicator does not carry F, so the header that
  is restored from fragments lacks it; `RoundTrip` of `H264Session` compares
  headers but for F. In H265 the FU payload header carries no LayerId
  (`h265_packetizer.c:73-78`), and `RoundTrip` of `H265Session` excepts that.

### Fairness

The library schedules nothing; what recurs is what its callers are told to
repeat. `FairSpec` of the two packetizers, and the specification of
`FrameCodec`, have weak fairness of GetPacket calls with room for payload, that
of `H264Depacketizer` strong fairness (a GetFrame call in progress disables
them) of GetNalu calls with a buffer as long as a packet, because README.md
tells callers to repeat those calls until there is no more; the calls with
other buffers are free to come in any order between them. GetFrame is one call
in the code, so its loop goes on (`WF_vars(GetFrameTurn)`). The violated
liveness run has weak fairness of every GetNalu call, and still does not come
to an end. The sessions and `RtpSerialization` state safety only, without
fairness: what was delivered is judged when the receiver has come to an end of
a frame.

## 4. The properties worth knowing

- `ImplementsFifo`: order is kept, only a full queue displaces, only its oldest,
  which it reports; looking removes nothing; Retrieve finds the oldest match
  among the queued infos only.
- `RetransmitsLatest`: relates the ring to the whole history of the sequence
  number. It holds because the ring is no longer than the round of the number
  (`SeqModAssumption`); with a longer one the oldest match would be a packet of
  the round before.
- `AddsUnitsInOrder`, `ResultTellsWhatIsLeft`: the NAL units of a byte stream
  are defined without a scan (behind every 0 0 1, up to the next start code),
  and the scan finds exactly these. A zero before a start code of four bytes
  belongs to the NAL unit before it; that is what the code does.
- `ImplementsStream`: whatever buffers, additions, refused and failed calls
  come between fragments, and whatever the sizes make of a NAL unit.
- `CursorInPacket`, `DeliversOnceInOrder`: the offset kept across calls is a
  NAL unit boundary of the packet at the tail, and no byte is delivered twice,
  after any mixture of malformed packets and short buffers.
- `OkFrameIsComplete`: a GetFrame that returns OK has left nothing out. For
  H264 this is so although GetNalu can return OK without a NAL unit: the turn
  after the dropped error finds the buffer full.
- `RoundTrip` of the sessions: whichever way the receiver reads, and whatever
  kinds of packet the lengths led to, what was added comes back byte for byte.
- `LossIsContained`: if the receiver reads to the end, any NAL unit all of whose
  packets arrived, without a stray among them, is delivered intact, except a fragmented one right behind a
  fragment that is not the last of its NAL unit. The exception is real: without
  it the runs fail.
- `DrainsWellFormed`: a fragment without its start or end, followed by a packet
  of any other kind, never blocks the queue.
- `NoFrameFromTruncated`: the check that comes after a VP8 descriptor was read
  is enough, whatever the bytes read behind the packet were.
- `RoundTrip` of `RtpSerialization`: field for field on either machine, after
  any number of calls; CSRCs and extension words, converted in place, are right
  after every odd call only on a little-endian machine (`AsConverted`).
- `RepeatAgrees`: although a call changes the bytes the next one reads, the
  bytes that decide are none of those.

## 5. Proofs

TLAPS checks these for every value of the constants under the assumptions
their modules state (and TLC evaluates on every run) and those named here.

| Theorem | Statement | Argument |
|---|---|---|
| `RtpPacketQueueProofs!TypeCorrect`, `CountersAgree`, `QueuedSlotsStored` | `Spec => []TypeOK`, `[]IndicesAgree`, `[]LiveSlotsStored` | The conjunction of the three is inductive (`RingIsConsistent`); none of them alone is: the slot that Enqueue writes is the first free one only because the counters agree. Lemmas on `%` shift an index by one modulo the length. |
| `RtpPacketQueueProofs!RefinesFifo` | `Spec => ImplementsFifo` | Under the invariant each action maps to the FIFO's: a write at the write index appends to `Contents`, a step of the read index drops its head, an eviction does both. |
| `RtpPacketQueueProofs!ResendsLatestPacket`, `DeletesOldestPacket` | `HistorySpec => RetransmitsLatest`, `DeletesOldest` | The inductive invariant says that the i-th queued info has the sequence number i back from the write end and the packet last sent under it, and that the count is the lesser of packets sent and length. The numbers in the window differ because the window is no longer than the round, so the oldest match is the only one. |
| `AnnexBScanProofs!ScanFindsUnits`, `ScanTellsWhatIsLeft`, `TypeCorrect` | `Spec => []AddsUnitsInOrder`, `[]ResultTellsWhatIsLeft`, `[]TypeOK` | Between two turns what is behind the last start code holds none, and the units before it have been added (`InScan`). No unit starts inside what a turn steps over, because two start codes do not overlap (`NoStartSkipped`). |
| `H264SessionProofs!TypeCorrect`, `QueueStaysConsistent`, `FuStateStaysConsistent` | `Spec => []...` | The conjunction is inductive (`PacketizerIsConsistent`). |
| `H264SessionProofs!PacketsFit`, `RefinesStream` | `Spec => PacketFitsBuffer`, `Spec => ImplementsStream`, for buffers of any length | Each action maps to an action of `UnitStream` or a stutter (`StreamStep`). In a buffer of one byte the room wraps to the largest number (`ModMinusOne`), so the fragment is the last (`FitsOrRest`): the exception both properties state. |
| `H264DepacketizerProofs!QueueStaysConsistent`, `CursorStaysInPacket` | `Spec => []QueueConsistent`, `[]CursorInPacket` | The conjunction, with the types of the counters, is inductive (`DepacketizerIsConsistent`); a fragment or a single NAL unit at the tail implies that the offset is zero. |
| `H264DepacketizerProofs!DeliveryIsOnceInOrder` | `Spec => DeliversOnceInOrder` | What a call assembles of k fragments ascends, from the offset at the tail to behind the last of them: induction over k, one concatenation at a time (`TurnsWrite`). |
| `H264DepacketizerProofs!OkMeansComplete` | `Spec => OkFrameIsComplete` | While GetFrame runs, its index is the length of the frame written so far, and a turn that wrote no NAL unit left the frame so full that the next one fails (`FrameInv`). |
| `H264SessionProofs!MarksStayTrue` | `SessionSpec => []MarksAgree`, assuming `NaluTypes` (the NAL units have types 1..23) and `RoomForPayload` (no buffer of exactly two bytes, which the code would fill with fragments of no payload) | The invariant of the sender says of every packet sent whether it is a NAL unit or a fragment of one, and of which bytes (`SentPacket`). |
| `H264SessionProofs!SessionIsConsistent` | `SessionSpec => []SessionInv`, under the same assumptions | Adds the network: what lies in the receiver's slots is of what was sent, in order, and where one packet does not start at the end of the one before it, it starts at the end of a lost one (`NetworkInv`). The receiver's own invariant comes from `H264DepacketizerProofs`, instantiated with the packets a sender can send. |
| `H264SessionProofs!LossStaysContained` | `SessionSpec => []LossIsContained`, assuming also that the receiver's buffer takes each NAL unit (`RoomForNalus`) | The packets of a NAL unit that arrived lie in adjacent slots (`UnitExists`), a turn at the first of them delivers it intact (`UnitRead`), and no turn ends inside them or steps over their start, unless they are right behind an open fragment (`TailStops`); hence each such NAL unit is ahead of the tail or delivered (`ContainmentInv`). |
| `H264SessionProofs!FramesComeBack` | `SessionSpec => []RoundTrip`, assuming also that the receiver's buffer takes a frame of as many NAL units as the sender's array (`RoomForFrame`) | If nothing was lost, the number of NAL units read is the number of the one that starts at the tail (`RoundTripInv`), and while one is left GetFrame has room for it (`RoomLeft`). |
| `H265SessionProofs!TypeCorrect`, `FuStateStaysConsistent`, `PacketsFit` | `Spec => []TypeOK` (with the indices of the array), `[]FuStateConsistent`, `PacketFitsBuffer`, for buffers of any length | `TypeOK /\ FuStateConsistent` is inductive (`PacketizerIsConsistent`). The length of an aggregation packet is a recursive function; no proof needs what it computes, only that the scan compared it with the buffer (`Fits`). |
| `H265SessionProofs!RefinesStream` | `Spec => ImplementsStream`, assuming that no NAL unit has the type of a fragment (`NaluTypes`) | Packets map to slices: a fragment to one, an aggregate to one for each NAL unit, from `tailIndex` on. A packet is known for a fragment by its type, hence the assumption. |
| `H265SessionProofs!MarksStayTrue` | `SessionSpec => []MarksAgree`, assuming `SingleTypes` and `DatagramSizes` | As for H264. The lemmas `ApLengthFacts` and `ApSizes` say of an aggregation packet that its sizes are the lengths of its NAL units, each at the offset where the unit starts. `SingleTypes`: NAL units have types 1 to 47, for with type 0 the property is false (the finding on `H265_SINGLE_NALU_PACKET_TYPE_START`). `DatagramSizes`: no buffer is longer than a 16-bit size can count. |
| `H265SessionProofs!ContextsStayConsistent` | `SessionSpec => []ContextsInv`, under the same assumptions | What the sender has sent (`SenderInv`), what the callers are at (`StageInv`), and the invariants of `H265DepacketizerProofs`, instantiated with the packets the sender can send and the strays. |
| `H265SessionProofs!CursorStaysInPacket`, `OkMeansComplete` | `SessionSpec => []CursorInPacket`, `OkFrameIsComplete`, under the same assumptions | Every step of the session is one of the receiver's or none (`ReceiverSteps`), so its theorems carry over. |
| `H265SessionProofs!SessionIsConsistent` | `SessionSpec => []SessionInv`, under the same assumptions | Adds the network: every byte before the sender's place is in some packet sent, and a fragment that does not start its NAL unit has one that ends where it starts (`StreamInv`); what lies in the receiver's slots is strays, and what was sent, in that order (`NetworkInv`). |
| `H265SessionProofs!LossStaysContained` | `SessionSpec => []LossIsContained`, under the same assumptions | A NAL unit all of whose packets arrived uninterrupted lies whole in a packet, or in consecutive slots with its fragments (`UnitExists`). A turn that comes to it delivers it intact (`WholeRead`, `FragmentsRead`), and stops where the next NAL unit starts, in an aggregate or behind it (`GoesOn`); a turn that starts before it stops before it (`TailStops`). Hence it is ahead of the receiver or delivered (`ContainmentInv`). The number of sizes at or before an offset gives the NAL unit that starts there (`CountOffsets`). |
| `H265SessionProofs!FramesComeBack` | `SessionSpec => []RoundTrip`, under the same assumptions | If nothing was lost or added, the number of NAL units read is the number of the one read next, at the tail or inside the aggregate there (`RoundTripInv`); the index into the frame is where that many end (`FrameEnds`), so GetFrame finds room for the next (`RoomFound`). |
| `H265DepacketizerProofs!QueueStaysConsistent`, `CursorStaysInPacket` | `Spec => []QueueConsistent`, `[]CursorInPacket`, assuming `Callers`: packets are of their types, and hold a size where the code reads one | As for H264. |
| `H265DepacketizerProofs!OkMeansComplete` | `Spec => OkFrameIsComplete`, assuming `Callers` | As for H264. |
| `FrameCodecProofs!BothEndsAgree` | `Spec => []IInv` | The inductive invariant: what the array holds is never more than what was sent of the frame, every descriptor in it is the frame's or cut short, and if as many packets with payload were stored as were sent, each starts where the bytes before it end. |
| `FrameCodecProofs!FrameComesBack`, `TruncatedIsNoticed`, `FrameBufferIsEnough` | `Spec => RoundTrip`, `NoFrameFromTruncated`, `FrameBufferSuffices` | A descriptor read behind any bytes gives back its fields (`ReadBack`, over all sixteen combinations of parts), so the offsets GetFrame copies from are those the packetizer wrote to. |
| `FrameCodecProofs!RefinesStream` | `Spec => ImplementsStream` | Each packet filled is the next slice. |
| `RtpSerializationProofs!ReadsStayInside` | `Spec => []ReadsInsidePacket` | It is inductive with the types of the variables and with `LeavesRest`, that nothing behind what was written is touched (`SerializationIsConsistent`). Lemmas give the range of every position computed from received bytes; the conversion in place keeps the length of the packet. |
| `RtpSerializationProofs!WireFormatHolds` | `Spec => []WireFormat` | `SentBytes` gives the buffer as the packet's words byte by byte, then its payload, and the reported length as theirs together; the SSRC is the third of the words and `LastHeaderWord` the last (`LastWord`, `SentIsWireFormat`). `LeavesRest` gives the bytes behind. |
| `RtpSerializationProofs!RepeatsAgree` | `Spec => RepeatAgrees` | `Outcome` is the answer of a call as a function of bytes and fields, and `OneOutcome` says it is one. The invariant `Settled` says that the answer last given is what another call would give: the conversion changes none of the words that decide (`SameReading`), and overwriting the fields with what they already are changes nothing, whatever path was taken (`StagesAgain`). |
| `RtpSerializationProofs!PacketsComeBack` | `Spec => []RoundTrip`, assuming that applications create TWCC extensions of identifiers and numbers that fit (`TwccAssumption`) | What is in the buffer after an OK is the packet's words byte by byte and its payload (`SentBytes`). The invariant on a packet that arrived whole (`WholePackets`) says of each of its words that it is as it was sent or, after an odd number of calls on a little-endian machine and where the code converts, turned over; a call turns exactly those (`AllWords`), and what it reads depends on the others (`ReadsCarried`). |

**Induction.** What a recursive function computes (the length of fragments
together, the place of a descriptor, the length of a frame) is needed in these
proofs for every length. The proofs do not cite an induction theorem with an
operator parameter: `Least`, `UpTo` and `Recursion` state induction over a
*set* of numbers, and a recursive function is shown to exist, and to satisfy
its equation, for the concrete body at hand.

**Model-checked only.** Liveness, `ReachesNoMorePackets` of the packetizers and
`DrainsWellFormed` of `H264Depacketizer`: properties under fairness are out of
the prover's reach. Every other property of a passing run is a theorem.

## 6. Not modelled, and what could follow

Left out:

- `GetPacketProperties` of Opus, G711 and VP8: pure functions of one packet,
  two of them constant. Those of H264 and H265 are checked by `MarksAgree`.
- Calls of `Rtp_...` functions with a NULL argument: they return and change
  nothing.
- NAL units of more than 65535 bytes in an aggregation packet
  (`h265_packetizer.c:171`): their size field wraps, but such a packet fits in
  no datagram. The field is modelled modulo `NaluSizeMod`; no run or proof
  reaches the wrap.
- Bit masks of H264 and H265 headers (the fields are modelled, not the shifts).
- Unit tests, build files and static analysis configuration.

Four hazards of PROJECT.json have no property. Nothing is promised about two of
them: GetFrame of H264 refuses a buffer of exactly the frame's length
(`h264_depacketizer.c:331`), and a packet the depacketizer does not support
stays at the tail (`h264_depacketizer.c:296`). Two are beyond what the models
can reach: a NAL unit added behind the end of the array
(`h264_packetizer.c:275`) is what `SlotsFor` excludes, and the size field that
wraps (`h265_packetizer.c:171`) is the item above.

What could follow: `RoundTrip` of `H264Session` for buffers that take the frame
at hand, as it is proved of `H265Session`, in place of a frame of as many NAL
units as the array holds.
