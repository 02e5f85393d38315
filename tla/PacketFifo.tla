----------------------------- MODULE PacketFifo -----------------------------
(***************************************************************************)
(* What a packet queue promises its caller, with no ring in sight: a       *)
(* bounded first-in first-out sequence of packet infos.  Each call leaves  *)
(* its return code in `result' and what it wrote through its output        *)
(* pointer in `out' (NoInfo when it wrote nothing).                        *)
(***************************************************************************)
EXTENDS Naturals, Sequences

CONSTANTS
    Info,       \* every packet info a caller can hand over
    NoInfo,     \* `nothing was written to the output pointer'
    SeqNum,     \* sequence numbers
    Capacities  \* capacities a caller may ask for

VARIABLES fifo, capacity, result, out

fifoVars == <<fifo, capacity, result, out>>

Answer(r, o) == result' = r /\ out' = o

Reset(n) ==
    /\ n >= 2
    /\ fifo' = << >>
    /\ capacity' = n
    /\ Answer("OK", NoInfo)

(* A call that is refused, or that only looks: nothing but the answer.     *)
Refuse(r) ==
    /\ Answer(r, NoInfo)
    /\ UNCHANGED <<fifo, capacity>>

Put(p) ==
    /\ Len(fifo) < capacity
    /\ fifo' = Append(fifo, p)
    /\ Answer("OK", NoInfo)
    /\ UNCHANGED capacity

(* Making room costs the oldest packet info, and only that one.            *)
Displace(p) ==
    /\ Len(fifo) = capacity
    /\ fifo' = Append(Tail(fifo), p)
    /\ Answer("PACKET_DELETED", Head(fifo))
    /\ UNCHANGED capacity

Take ==
    /\ fifo # << >>
    /\ fifo' = Tail(fifo)
    /\ Answer("OK", Head(fifo))
    /\ UNCHANGED capacity

(* A look at the i-th oldest packet info removes nothing.                  *)
Look(i) ==
    /\ Answer("OK", fifo[i])
    /\ UNCHANGED <<fifo, capacity>>

(* The oldest packet info that carries sequence number s.                  *)
Find(s) ==
    \E i \in 1..Len(fifo) :
        /\ fifo[i].seqNum = s
        /\ \A j \in 1..(i - 1) : fifo[j].seqNum # s
        /\ Look(i)

Absent(s) ==
    /\ fifo # << >>
    /\ \A i \in 1..Len(fifo) : fifo[i].seqNum # s
    /\ Refuse("PACKET_NOT_FOUND")

Init ==
    /\ fifo = << >>
    /\ capacity \in {n \in Capacities : n >= 2}
    /\ result = "OK"
    /\ out = NoInfo

Next ==
    \/ \E n \in Capacities : Reset(n)
    \/ Refuse("BAD_PARAM")
    \/ Len(fifo) = capacity /\ Refuse("FULL")
    \/ fifo = << >> /\ Refuse("EMPTY")
    \/ \E p \in Info : Put(p) \/ Displace(p)
    \/ Take
    \/ fifo # << >> /\ Look(1)
    \/ \E s \in SeqNum : Find(s) \/ Absent(s)

Spec == Init /\ [][Next]_fifoVars
=============================================================================
