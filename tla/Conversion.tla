----------------------------- MODULE Conversion -----------------------------
(***************************************************************************)
(* What converting a library's records promises of each of them: it waits, *)
(* is underway, is converted, and stays converted. It is lost only if a    *)
(* fault has hit it.                                                       *)
(***************************************************************************)
CONSTANT Biblios

VARIABLES
    status,     \* status[b]: how far record b is
    gone        \* records a fault has hit

vars == <<status, gone>>

Init == status = [b \in Biblios |-> "waiting"] /\ gone = {}

Becomes(b, old, new) == status[b] = old /\ status'[b] = new

Move(b) ==
    \/ status'[b] = status[b]
    \/ Becomes(b, "waiting", "underway")
    \/ Becomes(b, "underway", "converted")
    \* A fault: the record is lost, has to begin again, or turns up once more.
    \/ b \in gone' /\ status[b] # "converted" /\ status'[b] \in {"lost", "waiting", "underway"}

Next ==
    /\ status' \in [Biblios -> {"waiting", "underway", "converted", "lost"}]
    /\ gone \subseteq gone' /\ gone' \subseteq Biblios
    /\ \A b \in Biblios : Move(b)

Spec == Init /\ [][Next]_vars
=============================================================================
