----------------------------- MODULE MCPipeline -----------------------------
(***************************************************************************)
(* An instance of Pipeline with two schedules: one script after the other, *)
(* among cataloguers and faults, and two scripts at once, undisturbed. The *)
(* one that is in the way of the other is started once, and nobody edits   *)
(* the second record.                                                      *)
(***************************************************************************)
EXTENDS Pipeline, TLC

CONSTANT r1     \* the script that runs in either schedule

VARIABLES
    alone,      \* the schedule
    active      \* the scripts that are started

mcvars == <<vars, alone, active>>

Languages4 == [b \in Biblios |-> IF b = 3 THEN "sv" ELSE "fi"]

MCInit == Init /\ alone \in BOOLEAN /\ active = IF alone THEN {r1} ELSE Runs

Undisturbed == UNCHANGED <<edits, counters>>

MCNext ==
    /\ Next
    /\ \A r \in Runs \ active : pc'[r] = "idle"
    /\ edits'[2] = edits[2]
    /\ alone \/ Undisturbed
    /\ active' = active \ {r \in Runs \ {r1} : Finish(r)}
    /\ UNCHANGED alone

MCSpec ==
    /\ MCInit /\ [][MCNext]_mcvars
    /\ \A r \in Runs : WF_vars(Advance(r)) /\ WF_vars(r \in active /\ Start(r))
=============================================================================
