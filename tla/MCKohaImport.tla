---------------------------- MODULE MCKohaImport ----------------------------
(***************************************************************************)
(* Instances of KohaImport: files with known, unknown and no records; one  *)
(* importer with the command lines of convert_all_rda.sh and of an         *)
(* operator, among crashes, or two importers that may overlap.             *)
(***************************************************************************)
EXTENDS KohaImport, TLC

CONSTANTS r1, f1, f2, f3    \* the importer that may work alone, and the files

VARIABLE active             \* the importers that are started

mcvars == <<vars, active>>

\* convert_all_rda.sh -c, a limited batch, and --commit with --revert.
CommitRun == [commit |-> TRUE, revert |-> FALSE, matcher |-> TRUE,
              skip_bb |-> TRUE, batch_size |-> 0]
LimitedRun == [CommitRun EXCEPT !.batch_size = 1]
CommitAndRevertRun == [CommitRun EXCEPT !.revert = TRUE]
CommitRuns == {CommitRun, LimitedRun, CommitAndRevertRun}

\* f1 and f2 are the fi and sv files of one export; biblio 3 is not in Koha.
MCContent == f1 :> {1, 2, 3} @@ f2 :> {3} @@ f3 :> {}
MCStamp == [f \in Files |-> IF f = f3 THEN 2 ELSE 1]

MCInit == Init /\ active \in {{r1}, Runs}

\* Two importers commit two files, and neither is killed.
MCNext ==
    /\ Next
    /\ \A r \in Runs \ active : pc'[r] = "idle"
    /\ active = Runs => /\ crashes' = 0 /\ arrivals' <= 2 /\ f3 \notin dir'
                       /\ \A r \in Runs : opts'[r] \in {NoOption, CommitRun}
    /\ UNCHANGED active

MCSpec ==
    /\ MCInit /\ [][MCNext]_mcvars
    /\ \A r \in Runs : /\ WF_vars(Advance(r))
                        /\ WF_vars(r \in active /\ \E o \in Options : Start(r, o))
=============================================================================
