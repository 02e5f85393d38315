----------------------------- MODULE AnnexBScan -----------------------------
(***************************************************************************)
(* The search for Annex B start codes in a call of H264Packetizer_AddFrame *)
(* (codec_packetizers/h264/h264_packetizer.c), one step for each turn of   *)
(* its loop.  H265Packetizer_AddFrame is the same text; the two differ in  *)
(* NALU_HEADER_SIZE, the least length AddNalu takes.  Offsets count from   *)
(* 0, as in the code.                                                      *)
(***************************************************************************)
EXTENDS Naturals, Sequences

CONSTANTS
    Frames,         \* frames callers pass, as sequences of byte values
    Rooms,          \* naluArrayLength - naluCount at the call
    HeaderSizes     \* NALU_HEADER_SIZE: 1 for H264, 2 for H265

ASSUME ScanAssumption ==
    /\ Frames \subseteq Seq(Nat)
    /\ Rooms \subseteq Nat
    /\ HeaderSizes \subseteq Nat \ {0}

VARIABLES
    frame,          \* pFrame, fixed by the call
    room,
    headerSize,
    currentIndex,
    naluStartIndex,
    firstStartCode,
    nalus,          \* offsets [from, to) of the NAL units added so far
    result,
    lastHandled     \* the code behind the loop has been run

call == <<frame, room, headerSize>>
scan == <<currentIndex, naluStartIndex, firstStartCode>>
vars == <<call, scan, nalus, result, lastHandled>>

Length == Len(frame)

-----------------------------------------------------------------------------

startCode1 == <<0, 0, 0, 1>>
startCode2 == <<0, 0, 1>>

(* Mutant: a start code that ends with the frame is not seen.              *)
StartsWithExclusive(code) ==
    /\ Length - currentIndex > Len(code)
    /\ \A i \in 1..Len(code) : frame[currentIndex + i] = code[i]

(* The remaining length, then memcmp.                                      *)
StartsWith(code) ==
    /\ Length - currentIndex >= Len(code)
    /\ \A i \in 1..Len(code) : frame[currentIndex + i] = code[i]

(* Mutant: a full array before an empty NAL unit.                          *)
AddNaluRoomFirst(from, to) ==
    \/ /\ Len(nalus) >= room
       /\ result' = "OUT_OF_MEMORY"
       /\ UNCHANGED nalus
    \/ /\ Len(nalus) < room
       /\ to - from < headerSize
       /\ result' = "MALFORMED_PACKET"
       /\ UNCHANGED nalus
    \/ /\ Len(nalus) < room
       /\ to - from >= headerSize
       /\ nalus' = Append(nalus, [from |-> from, to |-> to])
       /\ result' = "OK"

(* AddNalu: a NAL unit of length 0 (H265: 1) and a full array are refused. *)
AddNalu(from, to) ==
    \/ /\ to - from < headerSize
       /\ result' = "MALFORMED_PACKET"
       /\ UNCHANGED nalus
    \/ /\ to - from >= headerSize
       /\ Len(nalus) >= room
       /\ result' = "OUT_OF_MEMORY"
       /\ UNCHANGED nalus
    \/ /\ to - from >= headerSize
       /\ Len(nalus) < room
       /\ nalus' = Append(nalus, [from |-> from, to |-> to])
       /\ result' = "OK"

(* Mutant: the size of the longer start code in both branches.             *)
AtStartCodeOfFour(code) ==
    /\ StartsWith(code)
    /\ \/ firstStartCode /\ UNCHANGED <<nalus, result>>
       \/ ~firstStartCode /\ AddNalu(naluStartIndex, currentIndex)
    /\ firstStartCode' = FALSE
    /\ naluStartIndex' = currentIndex + Len(startCode1)
    /\ currentIndex' = currentIndex + Len(startCode1)

(* Data before the first start code is not a NAL unit.                     *)
AtStartCode(code) ==
    /\ StartsWith(code)
    /\ \/ firstStartCode /\ UNCHANGED <<nalus, result>>
       \/ ~firstStartCode /\ AddNalu(naluStartIndex, currentIndex)
    /\ firstStartCode' = FALSE
    /\ naluStartIndex' = currentIndex + Len(code)
    /\ currentIndex' = currentIndex + Len(code)

Turn ==
    /\ result = "OK"
    /\ currentIndex < Length
    /\ \/ AtStartCode(startCode1)
       \/ ~StartsWith(startCode1) /\ AtStartCode(startCode2)
       \/ /\ ~StartsWith(startCode1)
          /\ ~StartsWith(startCode2)
          /\ currentIndex' = currentIndex + 1
          /\ UNCHANGED <<naluStartIndex, firstStartCode, nalus, result>>
    /\ UNCHANGED <<call, lastHandled>>

(* The NAL unit behind the last start code.                                *)
HandleLast ==
    /\ result = "OK"
    /\ currentIndex >= Length
    /\ ~lastHandled
    /\ \/ naluStartIndex > 0 /\ AddNalu(naluStartIndex, Length)
       \/ /\ naluStartIndex = 0
          /\ result' = "MALFORMED_PACKET"
          /\ UNCHANGED nalus
    /\ lastHandled' = TRUE
    /\ UNCHANGED <<call, scan>>

Init ==
    /\ frame \in Frames
    /\ room \in Rooms
    /\ headerSize \in HeaderSizes
    /\ currentIndex = 0
    /\ naluStartIndex = 0
    /\ firstStartCode = TRUE
    /\ nalus = << >>
    /\ result = IF frame = << >> THEN "BAD_PARAM" ELSE "OK"
    /\ lastHandled = FALSE

Next == Turn \/ HandleLast

Spec == Init /\ [][Next]_vars

Returned == result # "OK" \/ lastHandled

-----------------------------------------------------------------------------
(* The NAL units of a byte stream, told without a scan: one starts behind  *)
(* every 0 0 1 and reaches to the next 0 0 1 or 0 0 0 1, or to the end.    *)

ThreeByteCode(k) ==
    /\ k + 3 <= Length
    /\ frame[k + 1] = 0 /\ frame[k + 2] = 0 /\ frame[k + 3] = 1

CodeAt(k) == ThreeByteCode(k) \/ (k < Length /\ frame[k + 1] = 0 /\ ThreeByteCode(k + 1))

NoCodeIn(i, j) == \A k \in i..(j - 1) : ~CodeAt(k)

UnitStarts == {i \in 3..Length : ThreeByteCode(i - 3)}

IsUnit(i, j) ==
    /\ i \in UnitStarts
    /\ j \in i..Length
    /\ NoCodeIn(i, j)
    /\ j = Length \/ CodeAt(j)

-----------------------------------------------------------------------------

(* Types and ranges: the indices never leave the frame.                    *)
TypeOK ==
    /\ frame \in Frames
    /\ room \in Rooms
    /\ headerSize \in HeaderSizes
    /\ currentIndex \in 0..Length
    /\ naluStartIndex \in 0..currentIndex
    /\ firstStartCode \in BOOLEAN
    /\ nalus \in Seq([from : Nat, to : Nat])
    /\ result \in {"OK", "BAD_PARAM", "MALFORMED_PACKET", "OUT_OF_MEMORY"}
    /\ lastHandled \in BOOLEAN

(* What AddFrame hands to AddNalu are NAL units of the byte stream, in     *)
(* stream order, with none left out before one that was added: whatever    *)
(* zeros, short and long start codes come together, also at the end.       *)
AddsUnitsInOrder ==
    \A n \in 1..Len(nalus) :
        /\ IsUnit(nalus[n].from, nalus[n].to)
        /\ \A i \in UnitStarts :
              i < nalus[n].from <=> \E m \in 1..(n - 1) : nalus[m].from = i

Left == {i \in UnitStarts : \A n \in 1..Len(nalus) : nalus[n].from # i}

(* When AddFrame returns OK every NAL unit of the stream was added; else   *)
(* the first one left out, if there is one, is too short or does not fit   *)
(* in the array.  This is H264Packetizer_AddFrame of module H264Packetizer *)
(* for the NAL units of the stream.                                        *)
ResultTellsWhatIsLeft ==
    Returned =>
        \/ result = "BAD_PARAM" /\ frame = << >>
        \/ result = "OK" /\ Left = {} /\ UnitStarts # {}
        \/ result = "MALFORMED_PACKET" /\ frame # << >> /\ UnitStarts = {}
        \/ \E i \in Left, j \in 0..Length :
              /\ \A k \in Left : i <= k
              /\ IsUnit(i, j)
              /\ \/ j - i < headerSize /\ result = "MALFORMED_PACKET"
                 \/ /\ j - i >= headerSize
                    /\ Len(nalus) = room
                    /\ result = "OUT_OF_MEMORY"
=============================================================================
