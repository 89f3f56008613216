----------------------------- MODULE KohaImport -----------------------------
(***************************************************************************)
(* import_records.pl and Modules/KohaImporter.pm: files of converted       *)
(* records are staged into Koha, matched, committed and moved away.        *)
(*                                                                         *)
(* Each element of Runs is one importer process: cron starts it again and  *)
(* again, and nothing stops two of them from working on one directory.     *)
(* The directory, its processed/ subdirectory and Koha's tables survive a  *)
(* crash; what a run has in memory does not.                               *)
(*                                                                         *)
(* One step is one statement that another process, or a crash, can come    *)
(* between: an SQL statement, one record of a commit, a rename.            *)
(***************************************************************************)
EXTENDS Integers, Sequences, FiniteSets

CONSTANTS
    Runs,           \* importer processes
    Files,          \* names of converted files
    Biblios,        \* biblionumbers
    Content,        \* Content[f]: the biblionumbers of the records in file f
    Stamp,          \* Stamp[f]: the 14-digit timestamp that f's name begins with
    Options,        \* the command lines used, a set of option records
    Catalogued,     \* the biblionumbers Koha holds a record of at the start
    MaxArrivals,    \* bound: files put into the directory
    MaxCrashes,     \* bound: crashes
    None            \* "no file"

Option == [commit : BOOLEAN, revert : BOOLEAN, matcher : BOOLEAN,
           skip_bb : BOOLEAN, batch_size : Nat]

ASSUME RunsAssumption == Runs # {}
ASSUME BibliosAssumption == Biblios \subseteq Nat /\ 0 \notin Biblios
ASSUME ContentAssumption == Content \in [Files -> SUBSET Biblios]
ASSUME FinitenessAssumption == \A f \in Files : IsFiniteSet(Content[f])
ASSUME StampAssumption == Stamp \in [Files -> Nat]
\* import_records.pl refuses --skip_bb without --matcher_id.
ASSUME OptionsAssumption ==
    /\ Options \subseteq Option
    /\ \A o \in Options : o.skip_bb => o.matcher
    /\ Options # {}
ASSUME CataloguedAssumption == Catalogued \subseteq Biblios
ASSUME BoundsAssumption == MaxArrivals \in Nat /\ MaxCrashes \in Nat
ASSUME NoneAssumption == None \notin Files

VARIABLES
    dir,        \* files in the import directory
    processed,  \* files in its processed/ subdirectory
    batches,    \* Koha's import batches, in the order of their ids
    catalog,    \* catalog[b]: how many records Koha holds for biblio b
    bbLog,      \* biblionumbers logged for the broadcast plugin
    pc,         \* pc[r]: the statement run r is at
    opts,       \* opts[r]: its command line
    todo,       \* todo[r]: listed files it has not come to yet
    file,       \* file[r]: the file in hand
    bid,        \* bid[r]: $batch_id, 0 when undefined
    left,       \* left[r]: what BatchCommitRecords has still to do, <<biblio, action>>
    changed,    \* changed[r]: $num_added + $num_updated > 0
    count,      \* count[r]: files moved by this run
    arrivals,   \* files put into the directory so far
    crashes,    \* crashes so far
    overlapped  \* history: a run was started while another was not at its end

store == <<dir, processed, batches, catalog, bbLog>>
local == <<opts, todo, file, bid, left, changed, count>>
env == <<arrivals, crashes, overlapped>>
vars == <<store, pc, local, env>>

\* The defaults of the command line.
NoOption == [commit |-> FALSE, revert |-> FALSE, matcher |-> FALSE,
             skip_bb |-> FALSE, batch_size |-> 0]

Statement == {"idle", "scan", "find", "stage", "duplicates", "overlay", "nomatch",
              "commit", "record", "revert", "skip_bb", "move", "unlink"}
Matching == {"duplicates", "overlay", "nomatch"}
Status == {"staged", "importing", "imported", "reverted"}
Action == {"replace", "create_new", "ignore"}

\* A batch: the file it was staged from, the records the matcher found in the
\* catalog, the overlay and no-match actions, the records committed and, of
\* those, the ones added as new.
Batch == [file : Files, status : Status, dups : SUBSET Biblios,
          overlay : Action, nomatch : Action,
          imported : SUBSET Biblios, created : SUBSET Biblios]

Init ==
    /\ dir = {} /\ processed = {} /\ batches = <<>> /\ bbLog = {}
    /\ catalog = [b \in Biblios |-> IF b \in Catalogued THEN 1 ELSE 0]
    /\ pc = [r \in Runs |-> "idle"]
    /\ opts = [r \in Runs |-> NoOption]
    /\ todo = [r \in Runs |-> {}]
    /\ file = [r \in Runs |-> None]
    /\ bid = [r \in Runs |-> 0]
    /\ left = [r \in Runs |-> {}]
    /\ changed = [r \in Runs |-> FALSE]
    /\ count = [r \in Runs |-> 0]
    /\ arrivals = 0 /\ crashes = 0 /\ overlapped = FALSE

Goto(r, label) == pc' = [pc EXCEPT ![r] = label]

\* The process is gone, and all it held with it.
Exit(r) ==
    /\ Goto(r, "idle")
    /\ opts' = [opts EXCEPT ![r] = NoOption]
    /\ todo' = [todo EXCEPT ![r] = {}]
    /\ file' = [file EXCEPT ![r] = None]
    /\ bid' = [bid EXCEPT ![r] = 0]
    /\ left' = [left EXCEPT ![r] = {}]
    /\ changed' = [changed EXCEPT ![r] = FALSE]
    /\ count' = [count EXCEPT ![r] = 0]

-----------------------------------------------------------------------------
(* The loop over the directory *)

\* The command line is checked, the directory listed.
Start(r, o) ==
    /\ pc[r] = "idle"
    /\ opts' = [opts EXCEPT ![r] = o]
    /\ todo' = [todo EXCEPT ![r] = dir]
    /\ Goto(r, "scan")
    /\ overlapped' = (overlapped \/ \E q \in Runs : pc[q] # "idle")
    /\ UNCHANGED <<store, file, bid, left, changed, count, arrivals, crashes>>

\* The listed files in timestamp order; files of the same second in any order.
Earliest(S) == {f \in S : \A g \in S : Stamp[f] <= Stamp[g]}

\* Variant for mutation: the processed/ directory is not consulted.
NextFileUnchecked(r) ==
    /\ pc[r] = "scan"
    /\ \E f \in Earliest(todo[r]) :
        /\ todo' = [todo EXCEPT ![r] = @ \ {f}]
        /\ file' = [file EXCEPT ![r] = f]
        /\ Goto(r, "find")
    /\ UNCHANGED <<store, opts, bid, left, changed, count, env>>

NextFile(r) ==
    /\ pc[r] = "scan"
    /\ \E f \in Earliest(todo[r]) :
        /\ todo' = [todo EXCEPT ![r] = @ \ {f}]
        /\ \/ /\ f \in processed
              /\ UNCHANGED <<pc, file>>
           \/ /\ f \notin processed
              /\ file' = [file EXCEPT ![r] = f]
              /\ Goto(r, "find")
    /\ UNCHANGED <<store, opts, bid, left, changed, count, env>>

\* The end of the list, or batch_size files moved.
Finish(r) ==
    /\ pc[r] = "scan"
    /\ todo[r] = {}
    /\ Exit(r)
    /\ UNCHANGED <<store, env>>

move_file(r) ==
    /\ pc[r] = "move"
    /\ file[r] \in dir
    /\ dir' = dir \ {file[r]}
    /\ processed' = processed \union {file[r]}
    /\ count' = [count EXCEPT ![r] = @ + 1]
    /\ file' = [file EXCEPT ![r] = None]
    /\ bid' = [bid EXCEPT ![r] = 0]
    /\ todo' = [todo EXCEPT ![r] =
                   IF opts[r].batch_size > 0 /\ count[r] + 1 = opts[r].batch_size
                   THEN {} ELSE @]
    /\ Goto(r, "scan")
    /\ UNCHANGED <<batches, catalog, bbLog, opts, left, changed, env>>

\* Variant for mutation: a file that imported nothing is left where it is.
UnlinkNothing(r) ==
    /\ pc[r] = "unlink"
    /\ file' = [file EXCEPT ![r] = None]
    /\ bid' = [bid EXCEPT ![r] = 0]
    /\ Goto(r, "scan")
    /\ UNCHANGED <<store, opts, todo, left, changed, count, env>>

\* importRecords returned 0: the file is deleted, a failing delete only warns.
Unlink(r) ==
    /\ pc[r] = "unlink"
    /\ dir' = dir \ {file[r]}
    /\ file' = [file EXCEPT ![r] = None]
    /\ bid' = [bid EXCEPT ![r] = 0]
    /\ Goto(r, "scan")
    /\ UNCHANGED <<processed, batches, catalog, bbLog, opts, todo, left, changed, count, env>>

\* A file another run has taken: opening it for reading, or renaming it, dies.
Die(r) ==
    /\ pc[r] \in {"stage", "move"}
    /\ file[r] \notin dir
    /\ Exit(r)
    /\ UNCHANGED <<store, env>>

-----------------------------------------------------------------------------
(* KohaImporter::importRecords *)

\* The optional phases, in the order importRecords tests for them.
AfterRevert(r) == IF opts[r].skip_bb THEN "skip_bb" ELSE "move"
AfterCommit(r) == IF opts[r].revert THEN "revert" ELSE AfterRevert(r)
AfterStaging(r) == IF opts[r].commit THEN "commit" ELSE AfterCommit(r)

StagedBatches(f) ==
    {i \in DOMAIN batches : batches[i].file = f /\ batches[i].status = "staged"}

findImportedBatchByFileName(r) ==
    /\ pc[r] = "find"
    /\ \/ /\ StagedBatches(file[r]) = {}
          /\ Goto(r, "stage")
          /\ UNCHANGED bid
       \/ \E i \in StagedBatches(file[r]) :
             /\ bid' = [bid EXCEPT ![r] = i]
             /\ Goto(r, AfterStaging(r))
    /\ UNCHANGED <<store, opts, todo, file, left, changed, count, env>>

\* RecordsFromMARCXMLFile and BatchStageMarcRecords. A new batch has Koha's
\* default actions: every record is added as new.
Stage(r) ==
    /\ pc[r] = "stage"
    /\ file[r] \in dir
    /\ \/ /\ Content[file[r]] = {}
          /\ Goto(r, "unlink")
          /\ UNCHANGED <<batches, bid>>
       \/ /\ Content[file[r]] # {}
          /\ batches' = Append(batches,
                 [file |-> file[r], status |-> "staged", dups |-> {},
                  overlay |-> "create_new", nomatch |-> "create_new",
                  imported |-> {}, created |-> {}])
          /\ bid' = [bid EXCEPT ![r] = Len(batches) + 1]
          /\ Goto(r, IF opts[r].matcher THEN "duplicates" ELSE AfterStaging(r))
    /\ UNCHANGED <<dir, processed, catalog, bbLog, opts, todo, file, left, changed, count, env>>

\* matchRecords: BatchFindDuplicates, then the actions, one UPDATE each.
FindDuplicates(r) ==
    /\ pc[r] = "duplicates"
    /\ batches' = [batches EXCEPT ![bid[r]].dups =
                      {b \in Content[file[r]] : catalog[b] > 0}]
    /\ Goto(r, "overlay")
    /\ UNCHANGED <<dir, processed, catalog, bbLog, local, env>>

SetOverlayAction(r) ==
    /\ pc[r] = "overlay"
    /\ batches' = [batches EXCEPT ![bid[r]].overlay = "replace"]
    /\ Goto(r, "nomatch")
    /\ UNCHANGED <<dir, processed, catalog, bbLog, local, env>>

\* Variant for mutation: the no-match action keeps Koha's default.
SetNoMatchDefault(r) ==
    /\ pc[r] = "nomatch"
    /\ Goto(r, AfterStaging(r))
    /\ UNCHANGED <<store, local, env>>

SetNoMatchAction(r) ==
    /\ pc[r] = "nomatch"
    /\ batches' = [batches EXCEPT ![bid[r]].nomatch = "ignore"]
    /\ Goto(r, AfterStaging(r))
    /\ UNCHANGED <<dir, processed, catalog, bbLog, local, env>>

\* commitRecords. BatchCommitRecords reads the batch's actions and records,
\* passing over records already imported, marks the batch and goes through them.
ActionOf(batch, b) == IF b \in batch.dups THEN batch.overlay ELSE batch.nomatch

BeginCommit(r) ==
    /\ pc[r] = "commit"
    /\ LET batch == batches[bid[r]]
       IN left' = [left EXCEPT ![r] =
              {<<b, ActionOf(batch, b)>> : b \in Content[file[r]] \ batch.imported}]
    /\ batches' = [batches EXCEPT ![bid[r]].status = "importing"]
    /\ changed' = [changed EXCEPT ![r] = FALSE]
    /\ Goto(r, "record")
    /\ UNCHANGED <<dir, processed, catalog, bbLog, opts, todo, file, bid, count, env>>

CommitRecord(r) ==
    /\ pc[r] = "record"
    /\ \E next \in left[r] :
        /\ \A other \in left[r] : next[1] <= other[1]
        /\ left' = [left EXCEPT ![r] = @ \ {next}]
        /\ \/ /\ next[2] = "ignore"
              /\ UNCHANGED <<batches, catalog, changed>>
           \/ /\ next[2] = "replace"
              /\ batches' = [batches EXCEPT ![bid[r]].imported = @ \union {next[1]}]
              /\ changed' = [changed EXCEPT ![r] = TRUE]
              /\ UNCHANGED catalog
           \/ /\ next[2] = "create_new"
              /\ batches' = [batches EXCEPT ![bid[r]].imported = @ \union {next[1]},
                                            ![bid[r]].created = @ \union {next[1]}]
              /\ catalog' = [catalog EXCEPT ![next[1]] = @ + 1]
              /\ changed' = [changed EXCEPT ![r] = TRUE]
    /\ UNCHANGED <<dir, processed, bbLog, pc, opts, todo, file, bid, count, env>>

\* Variant for mutation: the commit ends at the first progress report.
EndCommitEarly(r) ==
    /\ pc[r] = "record"
    /\ changed[r]
    /\ batches' = [batches EXCEPT ![bid[r]].status = "imported"]
    /\ Goto(r, AfterCommit(r))
    /\ UNCHANGED <<dir, processed, catalog, bbLog, local, env>>

\* Variant for mutation: the result of the commit is tested the wrong way round.
EndCommitInverted(r) ==
    /\ pc[r] = "record"
    /\ left[r] = {}
    /\ batches' = [batches EXCEPT ![bid[r]].status = "imported"]
    /\ Goto(r, IF changed[r] THEN "unlink" ELSE AfterCommit(r))
    /\ UNCHANGED <<dir, processed, catalog, bbLog, local, env>>

EndCommit(r) ==
    /\ pc[r] = "record"
    /\ left[r] = {}
    /\ batches' = [batches EXCEPT ![bid[r]].status = "imported"]
    /\ Goto(r, IF changed[r] THEN AfterCommit(r) ELSE "unlink")
    /\ UNCHANGED <<dir, processed, catalog, bbLog, local, env>>

\* revertRecords: what the batch replaced is restored, what it added deleted;
\* only the restored records are counted.
revertRecords(r) ==
    /\ pc[r] = "revert"
    /\ LET batch == batches[bid[r]]
       IN /\ batches' = [batches EXCEPT ![bid[r]].status = "reverted",
                                        ![bid[r]].imported = {},
                                        ![bid[r]].created = {}]
          /\ catalog' = [b \in Biblios |->
                            IF b \in batch.created THEN catalog[b] - 1 ELSE catalog[b]]
          /\ Goto(r, IF batch.imported # batch.created THEN AfterRevert(r) ELSE "unlink")
    /\ UNCHANGED <<dir, processed, bbLog, local, env>>

\* Variant for mutation: a row is logged even if no biblionumber was found.
skipUnmatched(r) ==
    /\ pc[r] = "skip_bb"
    /\ LET last == {b \in batches[bid[r]].dups : \A c \in Content[file[r]] : c <= b}
       IN bbLog' = bbLog \union (IF last = {} THEN {0} ELSE last)
    /\ Goto(r, "move")
    /\ UNCHANGED <<dir, processed, batches, catalog, local, env>>

\* Only the batch's last record is logged, if the matcher had found it.
skipRecordsFromBroadcastBiblios(r) ==
    /\ pc[r] = "skip_bb"
    /\ bbLog' = bbLog \union {b \in batches[bid[r]].dups : \A c \in Content[file[r]] : c <= b}
    /\ Goto(r, "move")
    /\ UNCHANGED <<dir, processed, batches, catalog, local, env>>

-----------------------------------------------------------------------------
(* Around the program *)

\* The conversion writes a file, again if a conversion is repeated.
Arrive(f) ==
    /\ arrivals < MaxArrivals
    /\ f \notin dir
    /\ dir' = dir \union {f}
    /\ arrivals' = arrivals + 1
    /\ UNCHANGED <<processed, batches, catalog, bbLog, pc, local, crashes, overlapped>>

Crash(r) ==
    /\ pc[r] # "idle"
    /\ crashes < MaxCrashes
    /\ crashes' = crashes + 1
    /\ Exit(r)
    /\ UNCHANGED <<store, arrivals, overlapped>>

importRecords(r) ==
    \/ findImportedBatchByFileName(r) \/ Stage(r)
    \/ FindDuplicates(r) \/ SetOverlayAction(r) \/ SetNoMatchAction(r)
    \/ BeginCommit(r) \/ CommitRecord(r) \/ EndCommit(r)
    \/ revertRecords(r) \/ skipRecordsFromBroadcastBiblios(r)

Advance(r) ==
    \/ NextFile(r) \/ Finish(r) \/ importRecords(r)
    \/ move_file(r) \/ Unlink(r) \/ Die(r)

Next ==
    \/ \E r \in Runs : Advance(r) \/ Crash(r) \/ \E o \in Options : Start(r, o)
    \/ \E f \in Files : Arrive(f)

Spec == Init /\ [][Next]_vars

\* A started process is scheduled, and cron starts the next one.
FairSpec ==
    /\ Spec
    /\ \A r \in Runs : WF_vars(Advance(r)) /\ WF_vars(\E o \in Options : Start(r, o))

-----------------------------------------------------------------------------
TypeOK ==
    /\ dir \subseteq Files /\ processed \subseteq Files
    /\ batches \in Seq(Batch)
    /\ catalog \in [Biblios -> Int]
    /\ bbLog \subseteq Biblios
    /\ pc \in [Runs -> Statement]
    /\ opts \in [Runs -> Options \union {NoOption}]
    /\ todo \in [Runs -> SUBSET Files]
    /\ file \in [Runs -> Files \union {None}]
    /\ bid \in [Runs -> Nat]
    /\ left \in [Runs -> SUBSET (Biblios \X Action)]
    /\ changed \in [Runs -> BOOLEAN]
    /\ count \in [Runs -> Nat]
    /\ arrivals \in 0 .. MaxArrivals /\ crashes \in 0 .. MaxCrashes
    /\ overlapped \in BOOLEAN

\* The batches by which file f has changed the catalog.
Imports(f) == {i \in DOMAIN batches : batches[i].file = f /\ batches[i].imported # {}}

\* While runs do not overlap, a file is imported into the catalog once, and once
\* more for each crash between its commit and its move to processed/: the
\* staged-batch lookup (KohaImporter.pm:223) does not find a batch that is
\* already imported.
ImportedOnce ==
    ~ overlapped => \A f \in Files : Cardinality(Imports(f)) <= 1 + crashes

NothingAdded == \A b \in Biblios : catalog[b] = IF b \in Catalogued THEN 1 ELSE 0

\* With a matcher the importer only replaces: the no-match action 'ignore'
\* reaches the batch before the commit does, so no record is added, as long as
\* no run has been cut off in between and no two runs overlap.
OnlyReplaces == crashes = 0 /\ ~ overlapped => NothingAdded

\* When every run commits, and none reverts what another is committing, a file in
\* processed/ has a batch of which every record Koha knows was written, or that was
\* reverted: a commit cut short leaves its file to be staged again, and no other
\* run moves the file in the meantime.
ProcessedIsComplete ==
    \A f \in processed : \E i \in DOMAIN batches :
        /\ batches[i].file = f
        /\ \/ Content[f] \intersect Catalogued \subseteq batches[i].imported
           \/ batches[i].status = "reverted"

\* While runs do not overlap, a file is deleted instead of kept only if it was
\* empty, or its commit was carried out and had no effect: nothing of it is in the
\* catalog, but for an import before a crash, whose batch no later run reverts.
DeletedWithoutEffect ==
    [][~ overlapped => \A f \in dir \ (dir' \union processed') :
          /\ Cardinality(Imports(f)) <= crashes
          /\ \/ Content[f] = {}
             \/ \E i \in DOMAIN batches : /\ batches[i].file = f
                                         /\ batches[i].status \in {"imported", "reverted"}]_vars

\* A commit that will add records begins only while another run is still
\* matching the same file's batch, or after a crash: the lookup by file name
\* skips the matching of a batch it finds (KohaImporter.pm:95).
AddsOnlyWhenInterrupted ==
    [][\A r \in Runs :
          /\ pc[r] = "commit" /\ pc'[r] = "record"
          /\ \E next \in left'[r] : next[2] = "create_new"
          => \/ crashes > 0
             \/ \E q \in Runs \ {r} : file[q] = file[r] /\ pc[q] \in Matching]_vars

\* A listed file that was not yet processed is dealt with: it ends in
\* processed/ or is deleted, whatever the batch size and however many runs.
FileDealtWith == \A f \in Files : f \in dir ~> (f \notin dir \/ f \in processed)

=============================================================================
