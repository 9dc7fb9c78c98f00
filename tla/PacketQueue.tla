----------------------------- MODULE PacketQueue -----------------------------
(***************************************************************************)
(* What the programs of the system expect of a spool directory: a set of   *)
(* packets that any program may add to, from which each packet is handed   *)
(* to at most one program.  A packet that was added may also be lost (its  *)
(* reader died, or another packet took its file name), but it never comes  *)
(* back and is never handed out twice.  Spool implements this.             *)
(***************************************************************************)
CONSTANT Packets          \* everything that may ever be put into the spool

VARIABLES
    pending,              \* packets that wait in the spool
    taken,                \* packets handed to a reader
    lost                  \* packets that nobody will ever get

vars == <<pending, taken, lost>>

Known == pending \cup taken \cup lost

Init == pending = {} /\ taken = {} /\ lost = {}

\* A new packet arrives; the packets in gone are displaced by it.
Put(x, gone) ==
    /\ x \notin Known
    /\ gone \subseteq pending
    /\ pending' = (pending \ gone) \cup {x}
    /\ lost' = lost \cup gone
    /\ UNCHANGED taken

\* A waiting packet is handed to one reader.
Take(x) ==
    /\ x \in pending
    /\ pending' = pending \ {x}
    /\ taken' = taken \cup {x}
    /\ UNCHANGED lost

\* A waiting packet disappears without having been handed over.
Lose(x) ==
    /\ x \in pending
    /\ pending' = pending \ {x}
    /\ lost' = lost \cup {x}
    /\ UNCHANGED taken

Next ==
    \E x \in Packets :
        \/ \E gone \in SUBSET pending : Put(x, gone)
        \/ Take(x)
        \/ Lose(x)

Spec == Init /\ [][Next]_vars
=============================================================================
