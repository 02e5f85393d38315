----------------------------- MODULE UnitStream -----------------------------
(***************************************************************************)
(* What a packetizer promises, whatever the codec: the units it accepted   *)
(* leave in order, each one whole, alone or with others in one packet, or  *)
(* in consecutive slices that cover it once, the first and the last slice  *)
(* of a unit marked as such.  The first Restated bytes of a fragmented     *)
(* unit (its header) are not sent as payload: the marks of its packets     *)
(* restate them.                                                           *)
(***************************************************************************)
EXTENDS Integers, Sequences

CONSTANTS
    Unit,       \* [len : Nat \ {0}] records: NAL units, frames
    Restated    \* bytes a fragment's own header stands for

VARIABLES
    accepted,   \* units accepted since the restart
    done,       \* how many of them have left completely
    offset,     \* bytes of the next one that have left
    slices      \* what the last packet that left carries

streamVars == <<accepted, done, offset, slices>>

Slice(u, from, n, first, last) ==
    [unit |-> u, from |-> from, len |-> n, first |-> first, last |-> last]

(* A packetizer that is initialised with a unit accepts it right away.     *)
Restart ==
    /\ \A i \in 1..Len(accepted') : accepted'[i] \in Unit
    /\ done' = 0
    /\ offset' = 0
    /\ slices' = << >>

(* New units go behind the ones already accepted.                          *)
Accept ==
    /\ Len(accepted') >= Len(accepted)
    /\ \A i \in 1..Len(accepted) : accepted'[i] = accepted[i]
    /\ \A i \in 1..Len(accepted') : accepted'[i] \in Unit
    /\ UNCHANGED <<done, offset, slices>>

(* The next n units, whole, in one packet.                                 *)
SendWhole(n) ==
    /\ n >= 1
    /\ done + n <= Len(accepted)
    /\ offset = 0
    /\ slices' = [i \in 1..n |->
                    Slice(done + i - 1, 0, accepted[done + i].len, TRUE, TRUE)]
    /\ done' = done + n
    /\ UNCHANGED <<accepted, offset>>

(* A slice of n bytes from where the previous one ended.  Only a unit cut  *)
(* in two or more slices goes this way: no slice is both first and last.   *)
SendSlice(n) ==
    LET from == IF offset = 0 THEN Restated ELSE offset
        rest == accepted[done + 1].len - from
    IN  /\ done < Len(accepted)
        /\ slices' = <<Slice(done, from, n, offset = 0, n = rest)>>
        /\ ~(offset = 0 /\ n = rest)
        /\ n >= 0
        /\ \/ n < rest /\ offset' = from + n /\ done' = done
           \/ n = rest /\ offset' = 0 /\ done' = done + 1
        /\ UNCHANGED accepted

(* The next unit in a single slice, marked first and last: no step of Next, *)
(* a packetizer that may do so states when.                                *)
SendOnlySlice ==
    /\ done < Len(accepted)
    /\ offset = 0
    /\ slices' = <<Slice(done, Restated, accepted[done + 1].len - Restated,
                        TRUE, TRUE)>>
    /\ done' = done + 1
    /\ UNCHANGED <<accepted, offset>>

Init ==
    /\ \A i \in 1..Len(accepted) : accepted[i] \in Unit
    /\ done = 0
    /\ offset = 0
    /\ slices = << >>

Next ==
    \/ Restart
    \/ Accept
    \/ SendWhole(Len(slices'))
    \/ slices' # << >> /\ SendSlice(slices'[1].len)

Spec == Init /\ [][Next]_streamVars
=============================================================================
