------------------------------ MODULE MCExport ------------------------------
(* Instances of Export: the command line of convert_all_rda.sh, and pages  *)
(* with records that cannot be printed.                                    *)
EXTENDS Export, TLC

\* convert_all_rda.sh, with pages of two records.
RdaRun == [start_file |-> TRUE, biblionumber |-> 0, biblionumber_file |-> {},
           size |-> 2, limit |-> 0, check_sv |-> TRUE, no_rda |-> FALSE]
RdaRuns == {RdaRun}

Kinds4 == 1 :> "fi" @@ 2 :> "broken" @@ 3 :> "sv" @@ 4 :> "rda"
KindsStuck == 1 :> "broken" @@ 2 :> "failing" @@ 3 :> "fi"
=============================================================================
