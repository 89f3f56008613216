------------------------------- MODULE Export -------------------------------
(***************************************************************************)
(* print_marcs.pl and Modules/Chunker.pm: a page of Koha's records is      *)
(* printed into a Finnish and a Swedish file, and the number of the last   *)
(* one is written to the start file, from which the next run goes on.      *)
(*                                                                         *)
(* Each element of Runs is one exporter process, started again and again   *)
(* by cron. The start file and the printed files survive a crash. Opening  *)
(* a file for writing empties it, and its content comes later: a crash, or *)
(* another run, can find it in between.                                    *)
(*                                                                         *)
(* Records are stored, never deleted: a deleted record needs no export.    *)
(* The rows of the SELECT come in the order of their biblionumbers.        *)
(***************************************************************************)
EXTENDS Integers, FiniteSets

CONSTANTS
    Runs,       \* exporter processes
    MaxBiblio,  \* bound: biblionumbers
    Kind,       \* Kind[b]: what print_marcs.pl makes of record b
    Options,    \* the command lines used, a set of option records
    MaxClock,   \* bound: seconds in which files are opened
    MaxCrashes  \* bound: crashes

Biblios == 1 .. MaxBiblio
Lang == {"fi", "sv"}
\* A broken record is dropped by the Chunker, a failing one dies while it is
\* printed; an RDA record is left out with --no_rda.
Kinds == Lang \union {"rda", "failing", "broken"}
Option == [start_file : BOOLEAN, biblionumber : Nat, biblionumber_file : SUBSET Biblios,
           size : Nat \ {0}, limit : Nat, check_sv : BOOLEAN, no_rda : BOOLEAN]
NoOption == [start_file |-> FALSE, biblionumber |-> 0, biblionumber_file |-> {},
             size |-> 100, limit |-> 0, check_sv |-> FALSE, no_rda |-> FALSE]

ASSUME BibliosAssumption == MaxBiblio \in Nat
ASSUME KindAssumption == Kind \in [Biblios -> Kinds]
ASSUME OptionsAssumption == Options \subseteq Option /\ Options # {}
ASSUME BoundsAssumption == MaxClock \in Nat \ {0} /\ MaxCrashes \in Nat

VARIABLES
    pending,    \* biblionumbers given out whose record is not stored yet
    db,         \* biblionumbers with a record in biblio_metadata
    late,       \* history: stored after a record with a higher number
    cursor,     \* content of the start file, 0 when it is empty or missing
    files,      \* files[n]: the records in the file named n
    opened,     \* names of the files there are
    shared,     \* history: a file was opened over one of the same second
    clock,      \* the second it is
    pc,         \* pc[r]: the statement run r is at
    opts,       \* opts[r]: its command line
    start,      \* start[r]: $biblionumber, 0 when undefined
    page,       \* page[r][l]: the records it prints into the file of language l
    last,       \* last[r]: $last_biblionumber
    second,     \* second[r]: $timestamp
    left,       \* left[r]: records not printed yet into the file it has open
    crashes     \* crashes so far

koha == <<pending, db, late>>
disk == <<cursor, files, opened, shared>>
local == <<opts, start, page, last, second, left>>
vars == <<koha, disk, clock, pc, local, crashes>>

Name == (1 .. MaxClock) \X Lang
Statement == {"idle", "read", "fetch", "open_fi", "print_fi", "open_sv", "print_sv",
              "truncate", "write", "end"}
NoPage == [l \in Lang |-> {}]

Init ==
    /\ pending = {} /\ db = {} /\ late = {}
    /\ cursor = 0 /\ opened = {} /\ shared = FALSE /\ clock = 1 /\ crashes = 0
    /\ files = [n \in Name |-> {}]
    /\ pc = [r \in Runs |-> "idle"]
    /\ opts = [r \in Runs |-> NoOption]
    /\ start = [r \in Runs |-> 0]
    /\ page = [r \in Runs |-> NoPage]
    /\ last = [r \in Runs |-> 0]
    /\ second = [r \in Runs |-> 1]
    /\ left = [r \in Runs |-> {}]

Goto(r, label) == pc' = [pc EXCEPT ![r] = label]

Exit(r) ==
    /\ Goto(r, "idle")
    /\ opts' = [opts EXCEPT ![r] = NoOption]
    /\ start' = [start EXCEPT ![r] = 0]
    /\ page' = [page EXCEPT ![r] = NoPage]
    /\ last' = [last EXCEPT ![r] = 0]
    /\ second' = [second EXCEPT ![r] = 1]
    /\ left' = [left EXCEPT ![r] = {}]

-----------------------------------------------------------------------------
(* Koha and the clock *)

AddBiblio(b) ==
    /\ b \in Biblios \ (pending \union db)
    /\ \A c \in Biblios \ (pending \union db) : b <= c
    /\ pending' = pending \union {b}
    /\ UNCHANGED <<db, late, disk, clock, pc, local, crashes>>

\* The biblio row comes first, its biblio_metadata row in a later statement.
StoreMarc(b) ==
    /\ b \in pending
    /\ pending' = pending \ {b}
    /\ db' = db \union {b}
    /\ late' = IF \E c \in db : c > b THEN late \union {b} ELSE late
    /\ UNCHANGED <<disk, clock, pc, local, crashes>>

Used(s) == \E l \in Lang : <<s, l>> \in opened

\* A second in which no file is opened makes no difference.
Tick ==
    /\ Used(clock) /\ clock < MaxClock
    /\ clock' = clock + 1
    /\ UNCHANGED <<koha, disk, pc, local, crashes>>

-----------------------------------------------------------------------------
(* print_marcs.pl *)

\* Perl and Koha's modules take more than a second to load.
Start(r, o) ==
    /\ pc[r] = "idle"
    /\ Used(clock) => clock < MaxClock
    /\ clock' = IF Used(clock) THEN clock + 1 ELSE clock
    /\ opts' = [opts EXCEPT ![r] = o]
    /\ Goto(r, "read")
    /\ UNCHANGED <<koha, disk, start, page, last, second, left, crashes>>

\* Variant for mutation: the start file is not read.
ReadNothing(r) ==
    /\ pc[r] = "read"
    /\ start' = [start EXCEPT ![r] = opts[r].biblionumber]
    /\ Goto(r, "fetch")
    /\ UNCHANGED <<koha, disk, clock, opts, page, last, second, left, crashes>>

\* A line of the start file replaces the biblionumber of the command line.
ReadCursor(r) ==
    /\ pc[r] = "read"
    /\ start' = [start EXCEPT ![r] =
           IF opts[r].start_file /\ cursor # 0 THEN cursor ELSE opts[r].biblionumber]
    /\ Goto(r, "fetch")
    /\ UNCHANGED <<koha, disk, clock, opts, page, last, second, left, crashes>>

\* The first size rows of S.
FirstRows(S, size) == {b \in S : Cardinality({c \in S : c < b}) < size}

\* Variants for mutation: the row after the start is passed over, the start
\* itself comes again.
RowsAfterNext(o, from) == FirstRows({b \in db : b > from + 1}, o.size)
RowsFromStart(o, from) == FirstRows({b \in db : b >= from}, o.size)

\* Chunker::_getChunk: the listed records, or those after the start.
Rows(o, from) ==
    FirstRows(IF o.biblionumber_file # {} THEN db \intersect o.biblionumber_file
              ELSE {b \in db : b > from}, o.size)

\* Chunker::_isChunkWithinBounds; without a limit there is no bound.
isChunkWithinBounds(end, position_end, size) ==
    end # 0 /\ end < position_end => end > position_end - size

\* The record is printed; into the Swedish file.
Printable(o, b) == Kind[b] \in Lang \/ (Kind[b] = "rda" /\ ~o.no_rda)
svRecord(o, b) == o.check_sv /\ Kind[b] = "sv"

Printed(o, from) ==
    IF isChunkWithinBounds(o.limit, o.size, o.size)
    THEN {b \in Rows(o, from) : Printable(o, b)} ELSE {}

\* $last_biblionumber after printing the records S.
LastOf(S) == IF S = {} THEN {0} ELSE {b \in S : \A c \in S : c <= b}

\* Where a run goes on when it has computed its page, or closed its Finnish file,
\* and when its files are closed.
AfterFiles(o, n) == IF o.start_file /\ n > 0 THEN "truncate" ELSE "end"
AfterFi(o, p, n) == IF p["sv"] # {} THEN "open_sv" ELSE AfterFiles(o, n)
AfterFetch(o, p, n) == IF p["fi"] # {} THEN "open_fi" ELSE AfterFi(o, p, n)

\* getChunkAsMARCRecord and the loop over its records: broken records are
\* spliced out, a failing or left out record ends its try block before
\* $last_biblionumber is assigned. The page after it is fetched and dropped.
Fetch(r) ==
    /\ pc[r] = "fetch"
    /\ LET o == opts[r]
           printed == Printed(o, start[r])
           p == [l \in Lang |-> {b \in printed : svRecord(o, b) <=> l = "sv"}]
       IN \E n \in LastOf(printed) :
            /\ page' = [page EXCEPT ![r] = p]
            /\ last' = [last EXCEPT ![r] = n]
            /\ Goto(r, AfterFetch(o, p, n))
    /\ second' = [second EXCEPT ![r] = clock]
    /\ UNCHANGED <<koha, disk, clock, opts, start, left, crashes>>

FileOf(r, l) == <<second[r], l>>

\* open for writing creates or empties the file.
OpenFile(r, l) ==
    /\ files' = [files EXCEPT ![FileOf(r, l)] = {}]
    /\ opened' = opened \union {FileOf(r, l)}
    /\ shared' = (shared \/ FileOf(r, l) \in opened)
    /\ left' = [left EXCEPT ![r] = page[r][l]]
    /\ UNCHANGED <<koha, cursor, clock, opts, start, page, last, second, crashes>>

\* print goes out a buffer at a time: here, a record at a time.
PrintRecord(r, l) ==
    /\ \E b \in left[r] :
        /\ \A c \in left[r] : b <= c
        /\ left' = [left EXCEPT ![r] = @ \ {b}]
        /\ files' = [files EXCEPT ![FileOf(r, l)] = @ \union {b}]
    /\ UNCHANGED <<koha, cursor, opened, shared, clock, pc, opts, start, page, last, second, crashes>>

CloseFile(r) ==
    /\ left[r] = {}
    /\ UNCHANGED <<koha, disk, clock, local, crashes>>

OpenFi(r) == pc[r] = "open_fi" /\ OpenFile(r, "fi") /\ Goto(r, "print_fi")
PrintFi(r) == pc[r] = "print_fi" /\ PrintRecord(r, "fi")
CloseFi(r) == pc[r] = "print_fi" /\ CloseFile(r) /\ Goto(r, AfterFi(opts[r], page[r], last[r]))
OpenSv(r) == pc[r] = "open_sv" /\ OpenFile(r, "sv") /\ Goto(r, "print_sv")
PrintSv(r) == pc[r] = "print_sv" /\ PrintRecord(r, "sv")
CloseSv(r) == pc[r] = "print_sv" /\ CloseFile(r) /\ Goto(r, AfterFiles(opts[r], last[r]))

\* The start file is opened for writing, its content comes with the close.
TruncateCursor(r) ==
    /\ pc[r] = "truncate"
    /\ cursor' = 0
    /\ Goto(r, "write")
    /\ UNCHANGED <<koha, files, opened, shared, clock, local, crashes>>

\* Variant for mutation: $last_biblionumber is assigned after the increment.
WriteNext(r) ==
    /\ pc[r] = "write"
    /\ cursor' = last[r] + 1
    /\ Goto(r, "end")
    /\ UNCHANGED <<koha, files, opened, shared, clock, local, crashes>>

WriteCursor(r) ==
    /\ pc[r] = "write"
    /\ cursor' = last[r]
    /\ Goto(r, "end")
    /\ UNCHANGED <<koha, files, opened, shared, clock, local, crashes>>

Finish(r) ==
    /\ pc[r] = "end"
    /\ Exit(r)
    /\ UNCHANGED <<koha, disk, clock, crashes>>

Crash(r) ==
    /\ pc[r] # "idle"
    /\ crashes < MaxCrashes
    /\ crashes' = crashes + 1
    /\ Exit(r)
    /\ UNCHANGED <<koha, disk, clock>>

Advance(r) ==
    \/ ReadCursor(r) \/ Fetch(r)
    \/ OpenFi(r) \/ PrintFi(r) \/ CloseFi(r)
    \/ OpenSv(r) \/ PrintSv(r) \/ CloseSv(r)
    \/ TruncateCursor(r) \/ WriteCursor(r) \/ Finish(r)

Next ==
    \/ \E b \in Biblios : AddBiblio(b) \/ StoreMarc(b)
    \/ Tick
    \/ \E r \in Runs : Advance(r) \/ Crash(r) \/ \E o \in Options : Start(r, o)

Spec == Init /\ [][Next]_vars

\* A started process is scheduled, and cron starts the next one.
FairSpec ==
    /\ Spec
    /\ \A r \in Runs : WF_vars(Advance(r)) /\ WF_vars(\E o \in Options : Start(r, o))

-----------------------------------------------------------------------------
TypeOK ==
    /\ pending \subseteq Biblios /\ db \subseteq Biblios /\ late \subseteq db
    /\ cursor \in Biblios \union {0}
    /\ files \in [Name -> SUBSET Biblios]
    /\ opened \subseteq Name /\ shared \in BOOLEAN
    /\ clock \in 1 .. MaxClock /\ crashes \in 0 .. MaxCrashes
    /\ pc \in [Runs -> Statement]
    /\ opts \in [Runs -> Options \union {NoOption}]
    /\ start \in [Runs -> Nat]
    /\ page \in [Runs -> [Lang -> SUBSET Biblios]]
    /\ last \in [Runs -> Biblios \union {0}]
    /\ second \in [Runs -> 1 .. MaxClock]
    /\ left \in [Runs -> SUBSET Biblios]

\* Records every command line prints.
Ordinary(b) == \A o \in Options : Printable(o, b)
InFile(b) == \E n \in Name : b \in files[n]

\* The cursor never passes a record that is in no file: it is written after the
\* files are closed, and is only as far as the last record printed. Left out
\* are records stored after one with a higher number, and files opened twice
\* in one second.
PassedIsPrinted ==
    ~shared => \A b \in db \ late : b <= cursor /\ Ordinary(b) => InFile(b)

\* A record is printed again only after a crash: of one exporter that follows
\* its start file, a crash costs at most one more copy of each record, though
\* it can empty the start file (print_marcs.pl:164) and all begins anew.
Copies(b) == Cardinality({s \in 1 .. MaxClock : \E l \in Lang : b \in files[<<s, l>>]})
PrintedOncePerCrash == \A b \in Biblios : Copies(b) <= 1 + crashes

\* Every record that can be printed is, in the end: as long as no whole page of
\* records fails, cron's runs get to it (the usage text: "Will print all active
\* MARC records in database").
EveryRecordPrinted ==
    \A b \in Biblios : (b \in db \ late /\ Ordinary(b)) ~> InFile(b)

=============================================================================
