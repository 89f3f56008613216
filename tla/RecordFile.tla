----------------------------- MODULE RecordFile -----------------------------
(***************************************************************************)
(* What a file of records promises to the program that reads it: the       *)
(* records come in the order in which they were written, none is left out  *)
(* or altered, and the end is reported only behind the last one. Reading   *)
(* may fail.                                                               *)
(***************************************************************************)
EXTENDS Naturals, Sequences

CONSTANT Records

VARIABLES
    sent,     \* records written
    received, \* records read
    phase     \* "writing", "reading", "end" or "failed"

Init == sent = <<>> /\ received = <<>> /\ phase = "writing"

Send(r) ==
    /\ phase = "writing"
    /\ sent' = Append(sent, r)
    /\ UNCHANGED <<received, phase>>

Close ==
    /\ phase = "writing"
    /\ phase' = "reading"
    /\ UNCHANGED <<sent, received>>

Receive ==
    /\ phase = "reading" /\ Len(received) < Len(sent)
    /\ received' = Append(received, sent[Len(received) + 1])
    /\ UNCHANGED <<sent, phase>>

End ==
    /\ phase = "reading" /\ received = sent
    /\ phase' = "end"
    /\ UNCHANGED <<sent, received>>

Fail ==
    /\ phase = "reading"
    /\ phase' = "failed"
    /\ UNCHANGED <<sent, received>>

Next == (\E r \in Records : Send(r)) \/ Close \/ Receive \/ End \/ Fail

Spec == Init /\ [][Next]_<<sent, received, phase>>
=============================================================================
