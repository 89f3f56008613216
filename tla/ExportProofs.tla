---------------------------- MODULE ExportProofs ----------------------------
(* Proofs about Export: the type invariant, that nothing is passed over, and that a crash costs one copy. *)
EXTENDS Export, FiniteSetTheorems, TLAPS

USE BibliosAssumption, KindAssumption, OptionsAssumption, BoundsAssumption

(***************************************************************************)
(* The type invariant                                                      *)
(***************************************************************************)

\* The types of what an option record holds.
LEMMA OptionTypes ==
    ASSUME NEW o \in Options \union {NoOption}
    PROVE  /\ o.start_file \in BOOLEAN /\ o.biblionumber \in Nat
           /\ o.biblionumber_file \subseteq Biblios /\ o.size \in Nat \ {0}
           /\ o.limit \in Nat /\ o.check_sv \in BOOLEAN /\ o.no_rda \in BOOLEAN
<1>1. NoOption \in Option
  BY DEF Option, NoOption
<1>2. o \in Option
  BY <1>1, OptionsAssumption
<1> HIDE DEF NoOption
<1> QED BY <1>2 DEF Option

LEMMA InitType == Init => TypeOK
<1> SUFFICES ASSUME Init PROVE TypeOK
  OBVIOUS
<1>1. NoPage \in [Lang -> SUBSET Biblios]
  BY DEF NoPage
<1>2. "idle" \in Statement
  BY DEF Statement
<1>3. /\ pending \subseteq Biblios /\ db \subseteq Biblios /\ late \subseteq db
      /\ cursor \in Biblios \union {0} /\ files \in [Name -> SUBSET Biblios]
      /\ opened \subseteq Name /\ shared \in BOOLEAN
  BY DEF Init
<1>4. clock \in 1 .. MaxClock /\ crashes \in 0 .. MaxCrashes
  BY BoundsAssumption DEF Init
<1>5. /\ pc \in [Runs -> Statement] /\ opts \in [Runs -> Options \union {NoOption}]
      /\ start \in [Runs -> Nat] /\ page \in [Runs -> [Lang -> SUBSET Biblios]]
  BY <1>1, <1>2 DEF Init
<1>6. /\ last \in [Runs -> Biblios \union {0}] /\ left \in [Runs -> SUBSET Biblios]
  BY DEF Init
<1>7. second \in [Runs -> 1 .. MaxClock]
  BY BoundsAssumption DEF Init
<1> QED BY <1>3, <1>4, <1>5, <1>6, <1>7 DEF TypeOK

\* One lemma for all steps that only leave a process where it ended.
LEMMA ExitType ==
    ASSUME TypeOK, NEW r \in Runs, Exit(r), UNCHANGED <<koha, disk, clock>>,
           crashes' \in 0 .. MaxCrashes
    PROVE  TypeOK'
  BY DEF TypeOK, Exit, Goto, koha, disk, NoPage, Lang, Statement, Name, Used, Biblios

LEMMA EnvironmentType ==
    ASSUME TypeOK
    PROVE  /\ \A b \in Biblios : AddBiblio(b) \/ StoreMarc(b) => TypeOK'
           /\ Tick => TypeOK'
<1>1. ASSUME NEW b \in Biblios, AddBiblio(b) PROVE TypeOK'
  BY <1>1 DEF TypeOK, AddBiblio, disk, local
<1>2. ASSUME NEW b \in Biblios, StoreMarc(b) PROVE TypeOK'
  BY <1>2 DEF TypeOK, StoreMarc, disk, local
<1>3. ASSUME Tick PROVE TypeOK'
  BY <1>3 DEF TypeOK, Tick, koha, disk, local
<1> QED BY <1>1, <1>2, <1>3

LEMMA FetchType ==
    ASSUME TypeOK, NEW r \in Runs, Fetch(r)
    PROVE  TypeOK'
<1> DEFINE o == opts[r]
           S == Printed(o, start[r])
           p == [l \in Lang |-> {b \in S : svRecord(o, b) <=> l = "sv"}]
<1>1. S \subseteq Biblios
  BY DEF Printed, Rows, FirstRows, TypeOK
<1>2. p \in [Lang -> SUBSET Biblios]
  BY <1>1
<1>3. PICK n \in LastOf(S) : /\ page' = [page EXCEPT ![r] = p]
                             /\ last' = [last EXCEPT ![r] = n]
                             /\ pc' = [pc EXCEPT ![r] = AfterFetch(o, p, n)]
  BY DEF Fetch, Goto
<1>4. n \in Biblios \union {0}
  BY <1>1, <1>3 DEF LastOf
<1>5. AfterFetch(o, p, n) \in Statement
  BY DEF AfterFetch, AfterFi, AfterFiles, Statement
<1> HIDE DEF p, S
<1> QED
  BY <1>2, <1>3, <1>4, <1>5 DEF Fetch, TypeOK, koha, disk

LEMMA FileType ==
    ASSUME TypeOK, NEW r \in Runs, NEW l \in Lang
    PROVE  /\ OpenFile(r, l) /\ pc' \in [Runs -> Statement] => TypeOK'
           /\ PrintRecord(r, l) => TypeOK'
           /\ CloseFile(r) /\ pc' \in [Runs -> Statement] => TypeOK'
<1>1. FileOf(r, l) \in Name
  BY DEF TypeOK, FileOf, Name
<1>2. ASSUME OpenFile(r, l), pc' \in [Runs -> Statement] PROVE TypeOK'
  BY <1>1, <1>2 DEF TypeOK, OpenFile, koha
<1>3. ASSUME PrintRecord(r, l) PROVE TypeOK'
  BY <1>1, <1>3 DEF TypeOK, PrintRecord, koha
<1>4. ASSUME CloseFile(r), pc' \in [Runs -> Statement] PROVE TypeOK'
  BY <1>4 DEF TypeOK, CloseFile, koha, disk, local
<1> QED BY <1>2, <1>3, <1>4

LEMMA NextType == TypeOK /\ [Next]_vars => TypeOK'
<1> SUFFICES ASSUME TypeOK, [Next]_vars PROVE TypeOK'
  OBVIOUS
<1>1. ASSUME NEW r \in Runs, NEW o \in Options, Start(r, o) PROVE TypeOK'
  BY <1>1 DEF TypeOK, Start, Goto, koha, disk, Statement
<1>2. ASSUME NEW r \in Runs, ReadCursor(r) PROVE TypeOK'
  <2>1. opts[r].biblionumber \in Nat
    BY OptionTypes DEF TypeOK
  <2> QED BY <1>2, <2>1 DEF TypeOK, ReadCursor, Goto, koha, disk, Statement, Biblios
<1>3. ASSUME NEW r \in Runs, OpenFi(r) \/ OpenSv(r) \/ CloseFi(r) \/ CloseSv(r) PROVE TypeOK'
  <2>1. pc' \in [Runs -> Statement]
    BY <1>3 DEF TypeOK, OpenFi, OpenSv, CloseFi, CloseSv, Goto, AfterFi, AfterFiles, Statement
  <2> QED BY <1>3, <2>1, FileType DEF OpenFi, OpenSv, CloseFi, CloseSv, Lang
<1>4. ASSUME NEW r \in Runs, PrintFi(r) \/ PrintSv(r) PROVE TypeOK'
  BY <1>4, FileType DEF PrintFi, PrintSv, Lang
<1>5. ASSUME NEW r \in Runs, TruncateCursor(r) \/ WriteCursor(r) PROVE TypeOK'
  BY <1>5 DEF TypeOK, TruncateCursor, WriteCursor, Goto, koha, local, Statement
<1>6. ASSUME NEW r \in Runs, Finish(r) \/ Crash(r) PROVE TypeOK'
  <2>1. crashes' \in 0 .. MaxCrashes
    BY <1>6 DEF TypeOK, Finish, Crash
  <2> QED BY <1>6, <2>1, ExitType DEF Finish, Crash
<1>7. CASE UNCHANGED vars
  BY <1>7 DEF TypeOK, vars, koha, disk, local
<1> QED
  BY <1>1, <1>2, <1>3, <1>4, <1>5, <1>6, <1>7, EnvironmentType, FetchType DEF Next, Advance

\* The type invariant holds for any number of exporters, records and crashes.
THEOREM TypeCorrect == Spec => []TypeOK
<1> QED BY InitType, NextType, PTL DEF Spec

(***************************************************************************)
(* Nothing is passed over. What a run remembers, the start file it read    *)
(* and the page it holds, must stay true while others store records and    *)
(* open files: records stored later are late or lie beyond, and without a  *)
(* file opened twice in one second no record leaves a file.                *)
(***************************************************************************)

\* The command lines with a start file name no other place to begin.
CursorOptions ==
    \A o \in Options : o.start_file => o.biblionumber = 0 /\ o.biblionumber_file = {}

\* The records the start file must not pass before they are in a file.
Due(b) == b \in db \ late /\ Ordinary(b)

Fresh ==
    /\ \A n \in Name \ opened : files[n] = {}
    /\ \A r \in Runs : /\ pc[r] = "print_fi" => FileOf(r, "fi") \in opened
                       /\ pc[r] = "print_sv" => FileOf(r, "sv") \in opened

\* Positions are those of stored records.
Stored ==
    /\ cursor \in db \union {0}
    /\ \A r \in Runs : /\ last[r] \in db \union {0}
                       /\ opts[r].start_file \/ pc[r] = "idle" => start[r] \in db \union {0}

StartSafe(r) ==
    opts[r].start_file /\ pc[r] \notin {"idle", "read"}
        => \A b \in Biblios : Due(b) /\ b <= start[r] => InFile(b)

PageCovers(r) ==
    opts[r].start_file /\ pc[r] \notin {"idle", "read", "fetch"}
        => \A b \in Biblios : Due(b) /\ start[r] < b /\ b <= last[r]
                => b \in page[r]["fi"] \union page[r]["sv"]

FiPrinted(r) ==
    /\ pc[r] = "print_fi" => \A b \in page[r]["fi"] \ left[r] : InFile(b)
    /\ pc[r] \in {"open_sv", "print_sv", "truncate", "write", "end"}
          => \A b \in page[r]["fi"] : InFile(b)

SvPrinted(r) ==
    /\ pc[r] = "print_sv" => \A b \in page[r]["sv"] \ left[r] : InFile(b)
    /\ pc[r] \in {"truncate", "write", "end"} => \A b \in page[r]["sv"] : InFile(b)

RunInv(r) == StartSafe(r) /\ PageCovers(r) /\ FiPrinted(r) /\ SvPrinted(r)
Passed == \A b \in Biblios : Due(b) /\ b <= cursor => InFile(b)

\* Only a run with a start file comes to write it.
Writers == \A r \in Runs : pc[r] \in {"truncate", "write"} => opts[r].start_file

\* The inductive invariant.
Inv ==
    /\ TypeOK /\ Fresh /\ Stored /\ Writers
    /\ ~shared => Passed /\ \A r \in Runs : RunInv(r)

LEMMA InitInv == Init => Inv
<1> SUFFICES ASSUME Init PROVE Inv
  OBVIOUS
<1>1. TypeOK
  BY InitType
<1>2. Fresh /\ Stored /\ Writers
  BY DEF Init, Fresh, Stored, Writers
<1>3. Passed
  BY DEF Init, Passed, Due
<1>4. ASSUME NEW r \in Runs PROVE RunInv(r)
  BY DEF Init, RunInv, StartSafe, PageCovers, FiPrinted, SvPrinted
<1> QED BY <1>1, <1>2, <1>3, <1>4 DEF Inv

\* What holds of the files after a step.
FilesOK ==
    /\ Fresh'
    /\ shared => shared'
    /\ ~shared' => \A b \in Biblios : InFile(b) => InFile(b)'

LEMMA OpenGrows ==
    ASSUME TypeOK, Fresh, NEW r \in Runs, NEW l \in Lang, OpenFile(r, l),
           pc' = [pc EXCEPT ![r] = IF l = "fi" THEN "print_fi" ELSE "print_sv"]
    PROVE  FilesOK
<1>1. FileOf(r, l) \in Name
  BY DEF TypeOK, FileOf, Name
<1>2. \A n \in Name \ opened' : files'[n] = {}
  BY <1>1 DEF OpenFile, Fresh, TypeOK
<1>3. ASSUME NEW q \in Runs
      PROVE  /\ pc'[q] = "print_fi" => FileOf(q, "fi")' \in opened'
             /\ pc'[q] = "print_sv" => FileOf(q, "sv")' \in opened'
  <2>1. CASE q = r
    BY <2>1 DEF OpenFile, Fresh, TypeOK, FileOf, Lang
  <2>2. CASE q # r
    BY <2>2 DEF OpenFile, Fresh, TypeOK, FileOf
  <2> QED BY <2>1, <2>2
<1>4. ~shared' => files' = files
  BY <1>1 DEF OpenFile, Fresh, TypeOK
<1>5. ~shared' => \A b \in Biblios : InFile(b) => InFile(b)'
  BY <1>4 DEF InFile
<1>6. shared => shared'
  BY DEF OpenFile
<1> QED BY <1>2, <1>3, <1>5, <1>6 DEF FilesOK, Fresh

LEMMA PrintGrows ==
    ASSUME TypeOK, Fresh, NEW r \in Runs, NEW l \in Lang, PrintRecord(r, l),
           FileOf(r, l) \in opened
    PROVE  FilesOK
<1>1. FileOf(r, l) \in Name
  BY DEF TypeOK, FileOf, Name
<1>2. \A n \in Name : files[n] \subseteq files'[n]
  BY <1>1 DEF PrintRecord, TypeOK
<1>3. \A n \in Name \ opened' : files'[n] = {}
  BY <1>1 DEF PrintRecord, Fresh, TypeOK
<1>4. Fresh'
  BY <1>3 DEF PrintRecord, Fresh, FileOf
<1>5. \A b \in Biblios : InFile(b) => InFile(b)'
  BY <1>2 DEF InFile
<1>6. shared => shared'
  BY DEF PrintRecord
<1> QED BY <1>4, <1>5, <1>6 DEF FilesOK

LEMMA OthersKeepFiles ==
    ASSUME TypeOK, Fresh, UNCHANGED <<files, opened, shared>>,
           \A q \in Runs : pc'[q] \in {"print_fi", "print_sv"}
                              => pc'[q] = pc[q] /\ second'[q] = second[q]
    PROVE  FilesOK
<1>1. Fresh'
  BY DEF Fresh, FileOf
<1> QED BY <1>1 DEF FilesOK, InFile

\* Files are only added to, as long as none is opened twice.
LEMMA FilesGrow ==
    ASSUME TypeOK, Fresh, [Next]_vars
    PROVE  FilesOK
<1>1. ASSUME NEW r \in Runs, OpenFi(r) \/ OpenSv(r) PROVE FilesOK
  <2>1. CASE OpenFi(r)
    BY <2>1, OpenGrows, "fi" \in Lang DEF OpenFi, Goto, Lang
  <2>2. CASE OpenSv(r)
    BY <2>2, OpenGrows, "sv" \in Lang, "sv" # "fi" DEF OpenSv, Goto, Lang
  <2> QED BY <1>1, <2>1, <2>2
<1>2. ASSUME NEW r \in Runs, PrintFi(r) \/ PrintSv(r) PROVE FilesOK
  BY <1>2, PrintGrows DEF PrintFi, PrintSv, Fresh, Lang
<1>3. ASSUME NEW r \in Runs, NEW o \in Options, Start(r, o) PROVE FilesOK
  BY <1>3, OthersKeepFiles DEF Start, Goto, disk, TypeOK
<1>4. ASSUME NEW r \in Runs, ReadCursor(r) \/ CloseFi(r) \/ CloseSv(r) \/ TruncateCursor(r) \/ WriteCursor(r)
      PROVE FilesOK
  BY <1>4, OthersKeepFiles
     DEF ReadCursor, CloseFi, CloseSv, CloseFile, TruncateCursor, WriteCursor, Goto, disk, local, TypeOK,
         AfterFi, AfterFiles
<1>5. ASSUME NEW r \in Runs, Fetch(r) PROVE FilesOK
  <2>1. /\ UNCHANGED <<files, opened, shared>>
        /\ second' = [second EXCEPT ![r] = clock]
        /\ \E label \in {"open_fi", "open_sv", "truncate", "end"} : pc' = [pc EXCEPT ![r] = label]
    BY <1>5 DEF Fetch, Goto, disk, AfterFetch, AfterFi, AfterFiles
  <2> QED BY <2>1, OthersKeepFiles DEF TypeOK
<1>6. ASSUME NEW r \in Runs, Finish(r) \/ Crash(r) PROVE FilesOK
  BY <1>6, OthersKeepFiles DEF Finish, Crash, Exit, Goto, disk, TypeOK
<1>7. ASSUME NEW b \in Biblios, AddBiblio(b) \/ StoreMarc(b) PROVE FilesOK
  BY <1>7, OthersKeepFiles DEF AddBiblio, StoreMarc, disk, local
<1>8. CASE Tick \/ UNCHANGED vars
  BY <1>8, OthersKeepFiles DEF Tick, disk, local, vars
<1> QED
  BY <1>1, <1>2, <1>3, <1>4, <1>5, <1>6, <1>7, <1>8 DEF Next, Advance

\* A record stored by a step is late, or lies beyond every stored record.
LEMMA DueStays ==
    ASSUME TypeOK, [Next]_vars
    PROVE  /\ db \subseteq db'
           /\ \A b \in Biblios, x \in db \union {0} : Due(b)' /\ b <= x => Due(b)
<1>1. ASSUME NEW c \in Biblios, StoreMarc(c)
      PROVE  /\ db \subseteq db'
             /\ \A b \in Biblios, x \in db \union {0} : Due(b)' /\ b <= x => Due(b)
  <2>1. db' = db \union {c} /\ late \subseteq late'
    BY <1>1 DEF StoreMarc
  <2> SUFFICES ASSUME NEW b \in Biblios, NEW x \in db \union {0}, Due(b)', b <= x PROVE Due(b)
    BY <2>1
  <2>2. CASE b \in db
    BY <2>1, <2>2 DEF Due, Ordinary, Printable
  <2>3. CASE b \notin db
    <3>1. b = c /\ x \in db /\ c < x
      BY <2>1, <2>3 DEF Due, Biblios, TypeOK
    <3>2. c \in late'
      BY <1>1, <3>1 DEF StoreMarc
    <3> QED BY <3>1, <3>2 DEF Due
  <2> QED BY <2>2, <2>3
<1>2. ASSUME UNCHANGED <<db, late>>
      PROVE  /\ db \subseteq db'
             /\ \A b \in Biblios, x \in db \union {0} : Due(b)' /\ b <= x => Due(b)
  BY <1>2 DEF Due, Ordinary, Printable
<1>3. ASSUME ~(\E c \in Biblios : StoreMarc(c)) PROVE UNCHANGED <<db, late>>
  BY <1>3 DEF Next, AddBiblio, Tick, Start, Advance, ReadCursor, Fetch, OpenFi, PrintFi, CloseFi,
       OpenSv, PrintSv, CloseSv, OpenFile, PrintRecord, CloseFile, TruncateCursor, WriteCursor,
       Finish, Crash, koha, vars
<1> QED BY <1>1, <1>2, <1>3

\* A process that a step leaves alone.
Alone(q) ==
    /\ pc'[q] = pc[q] /\ opts'[q] = opts[q] /\ start'[q] = start[q]
    /\ page'[q] = page[q] /\ last'[q] = last[q] /\ left'[q] = left[q]

LEMMA AloneInv ==
    ASSUME TypeOK, Stored, [Next]_vars, FilesOK, ~shared', NEW q \in Runs, Alone(q), RunInv(q)
    PROVE  RunInv(q)'
<1>1. page[q]["fi"] \subseteq Biblios /\ page[q]["sv"] \subseteq Biblios
  BY DEF TypeOK, Lang
<1>2. \A b \in Biblios : InFile(b) => InFile(b)'
  BY DEF FilesOK
<1>3. StartSafe(q)'
  <2> SUFFICES ASSUME opts[q].start_file, pc[q] \notin {"idle", "read"},
                      NEW b \in Biblios, Due(b)', b <= start[q]
               PROVE  InFile(b)'
    BY DEF StartSafe, Alone
  <2>1. Due(b)
    BY DueStays DEF Stored
  <2> QED BY <1>2, <2>1 DEF RunInv, StartSafe
<1>4. PageCovers(q)'
  <2> SUFFICES ASSUME opts[q].start_file, pc[q] \notin {"idle", "read", "fetch"},
                      NEW b \in Biblios, Due(b)', start[q] < b, b <= last[q]
               PROVE  b \in page[q]["fi"] \union page[q]["sv"]
    BY DEF PageCovers, Alone
  <2>1. Due(b)
    BY DueStays DEF Stored
  <2> QED BY <2>1 DEF RunInv, PageCovers
<1>5. FiPrinted(q)'
  BY <1>1, <1>2 DEF RunInv, FiPrinted, Alone
<1>6. SvPrinted(q)'
  BY <1>1, <1>2 DEF RunInv, SvPrinted, Alone
<1> QED BY <1>3, <1>4, <1>5, <1>6 DEF RunInv

\* Of a page in key order: what the start file would pass is on the page.
LEMMA PageInOrder ==
    ASSUME TypeOK, NEW o \in Options, o.biblionumber_file = {}, NEW from \in Nat,
           NEW n \in LastOf(Printed(o, from)),
           NEW b \in db, from < b, b <= n, Printable(o, b)
    PROVE  b \in Printed(o, from)
<1> DEFINE S == {c \in db : c > from}
           Below(x) == {c \in S : c < x}
<1>1. Rows(o, from) = FirstRows(S, o.size)
  BY DEF Rows
<1>2. b \in Biblios /\ S \subseteq Biblios /\ IsFiniteSet(S)
  <2>1. IsFiniteSet(Biblios)
    BY FS_Interval DEF Biblios
  <2> QED BY <2>1, FS_Subset DEF TypeOK
<1>3. n \in Printed(o, from)
  BY <1>2 DEF LastOf, Biblios
<1>4. n \in S /\ Cardinality(Below(n)) < o.size
  BY <1>1, <1>3 DEF Printed, FirstRows
<1>5. Below(b) \subseteq Below(n)
  BY <1>2, <1>4 DEF Biblios
<1>6. IsFiniteSet(Below(n)) /\ IsFiniteSet(Below(b))
  <2>1. Below(n) \subseteq S /\ Below(b) \subseteq S
    OBVIOUS
  <2> HIDE DEF Below, S
  <2> QED BY <1>2, <2>1, FS_Subset
<1>7. Cardinality(Below(b)) <= Cardinality(Below(n))
  <2> HIDE DEF Below, S
  <2> QED BY <1>5, <1>6, FS_Subset
<1>8. Cardinality(Below(b)) < o.size
  <2>1. Cardinality(Below(b)) \in Nat /\ Cardinality(Below(n)) \in Nat /\ o.size \in Nat
    BY <1>6, FS_CardinalityType, OptionTypes
  <2> HIDE DEF Below, S
  <2> QED BY <1>4, <1>7, <2>1
<1>9. b \in FirstRows(S, o.size)
  BY <1>8 DEF FirstRows
<1> QED BY <1>1, <1>3, <1>9 DEF Printed

LEMMA StoredStep ==
    ASSUME CursorOptions, TypeOK, Stored, [Next]_vars
    PROVE  Stored'
<1>1. db \subseteq db'
  BY DueStays
<1>2. ASSUME UNCHANGED <<cursor, opts, start, last>>,
             \A q \in Runs : pc'[q] = "idle" => pc[q] = "idle"
      PROVE  Stored'
  BY <1>1, <1>2 DEF Stored
<1>3. ASSUME NEW r \in Runs, NEW o \in Options, Start(r, o) PROVE Stored'
  <2>1. start[r] \in db \union {0}
    BY <1>3 DEF Start, Stored
  <2> QED BY <1>1, <1>3, <2>1 DEF Start, Goto, Stored, disk, TypeOK
<1>4. ASSUME NEW r \in Runs, ReadCursor(r) PROVE Stored'
  <2>1. opts[r].start_file => start'[r] \in db \union {0}
    BY <1>4, OptionTypes DEF ReadCursor, Stored, TypeOK, CursorOptions, NoOption
  <2>2. pc'[r] # "idle"
    BY <1>4 DEF ReadCursor, Goto, TypeOK
  <2> QED BY <1>1, <1>4, <2>1, <2>2 DEF ReadCursor, Goto, Stored, disk, TypeOK
<1>5. ASSUME NEW r \in Runs, Fetch(r) PROVE Stored'
  <2>1. PICK n \in LastOf(Printed(opts[r], start[r])) : last' = [last EXCEPT ![r] = n]
    BY <1>5 DEF Fetch
  <2>2. n \in db \union {0}
    BY DEF LastOf, Printed, Rows, FirstRows
  <2>3. \A q \in Runs : pc'[q] = "idle" => pc[q] = "idle"
    BY <1>5 DEF Fetch, Goto, TypeOK, AfterFetch, AfterFi, AfterFiles
  <2> QED BY <1>1, <1>5, <2>1, <2>2, <2>3 DEF Fetch, Stored, disk, TypeOK
<1>6. ASSUME NEW r \in Runs, WriteCursor(r) \/ TruncateCursor(r) PROVE Stored'
  <2>1. \A q \in Runs : pc'[q] = "idle" => pc[q] = "idle"
    BY <1>6 DEF WriteCursor, TruncateCursor, Goto, TypeOK
  <2> QED BY <1>1, <1>6, <2>1 DEF WriteCursor, TruncateCursor, Stored, local, TypeOK
<1>7. ASSUME NEW r \in Runs, Finish(r) \/ Crash(r) PROVE Stored'
  BY <1>1, <1>7 DEF Finish, Crash, Exit, Goto, Stored, disk, TypeOK, NoOption
<1>8. ASSUME NEW r \in Runs, OpenFi(r) \/ PrintFi(r) \/ CloseFi(r) \/ OpenSv(r) \/ PrintSv(r) \/ CloseSv(r)
      PROVE Stored'
  BY <1>2, <1>8 DEF OpenFi, PrintFi, CloseFi, OpenSv, PrintSv, CloseSv, OpenFile, PrintRecord, CloseFile,
       Goto, TypeOK, AfterFi, AfterFiles, disk, local
<1>9. ASSUME NEW b \in Biblios, AddBiblio(b) \/ StoreMarc(b) PROVE Stored'
  BY <1>2, <1>9 DEF AddBiblio, StoreMarc, disk, local
<1>10. CASE Tick \/ UNCHANGED vars
  BY <1>2, <1>10 DEF Tick, disk, local, vars
<1> QED
  BY <1>3, <1>4, <1>5, <1>6, <1>7, <1>8, <1>9, <1>10 DEF Next, Advance

\* A step that leaves the start file alone keeps what it passed in files.
LEMMA PassedStays ==
    ASSUME TypeOK, Stored, [Next]_vars, FilesOK, ~shared', cursor' = cursor, Passed
    PROVE  Passed'
<1> SUFFICES ASSUME NEW b \in Biblios, Due(b)', b <= cursor PROVE InFile(b)'
  BY DEF Passed
<1>1. Due(b)
  BY DueStays DEF Stored
<1> QED BY <1>1 DEF Passed, FilesOK

\* What a run that goes on from a fetch, or from a closed file, has printed.
LEMMA FetchInv ==
    ASSUME CursorOptions, TypeOK, Stored, FilesOK, ~shared', NEW r \in Runs, RunInv(r), Fetch(r)
    PROVE  RunInv(r)'
<1> DEFINE o == opts[r]
           S == Printed(o, start[r])
           p == [l \in Lang |-> {b \in S : svRecord(o, b) <=> l = "sv"}]
<1>1. PICK n \in LastOf(S) : /\ page' = [page EXCEPT ![r] = p]
                             /\ last' = [last EXCEPT ![r] = n]
                             /\ pc' = [pc EXCEPT ![r] = AfterFetch(o, p, n)]
  BY DEF Fetch, Goto
<1>2. page'[r]["fi"] = {b \in S : ~svRecord(o, b)} /\ page'[r]["sv"] = {b \in S : svRecord(o, b)}
  BY <1>1 DEF TypeOK, Lang
<1>3. \A b \in Biblios : Due(b)' = Due(b) /\ (InFile(b) => InFile(b)')
  BY DEF Fetch, koha, Due, Ordinary, Printable, FilesOK
<1>4. pc[r] = "fetch" /\ opts'[r] = o /\ start'[r] = start[r]
  BY DEF Fetch
<1>5. StartSafe(r)'
  BY <1>3, <1>4 DEF RunInv, StartSafe
<1>6. PageCovers(r)'
  <2> SUFFICES ASSUME o.start_file, NEW b \in Biblios, Due(b), start[r] < b, b <= last'[r]
               PROVE  b \in page'[r]["fi"] \union page'[r]["sv"]
    BY <1>3, <1>4 DEF PageCovers
  <2>1. last'[r] = n
    BY <1>1 DEF TypeOK
  <2>2. o \in Options
    BY DEF TypeOK, NoOption
  <2>3. o.biblionumber_file = {} /\ Printable(o, b) /\ b \in db /\ start[r] \in Nat
    BY <2>2 DEF CursorOptions, Due, Ordinary, TypeOK
  <2>4. b \in S
    BY <2>1, <2>2, <2>3, PageInOrder
  <2> QED BY <1>2, <2>4
<1>7. CASE page'[r]["fi"] # {}
  <2>1. pc'[r] = "open_fi"
    BY <1>1, <1>7 DEF AfterFetch, TypeOK
  <2> QED BY <1>5, <1>6, <2>1 DEF RunInv, FiPrinted, SvPrinted
<1>8. CASE page'[r]["fi"] = {} /\ page'[r]["sv"] # {}
  <2>1. pc'[r] = "open_sv"
    BY <1>1, <1>8 DEF AfterFetch, AfterFi, TypeOK
  <2> QED BY <1>5, <1>6, <1>8, <2>1 DEF RunInv, FiPrinted, SvPrinted
<1>9. CASE page'[r]["fi"] = {} /\ page'[r]["sv"] = {}
  <2>1. pc'[r] \in {"truncate", "end"}
    BY <1>1, <1>9 DEF AfterFetch, AfterFi, AfterFiles, TypeOK
  <2> QED BY <1>5, <1>6, <1>9, <2>1 DEF RunInv, FiPrinted, SvPrinted
<1> QED BY <1>7, <1>8, <1>9

LEMMA ReadInv ==
    ASSUME CursorOptions, TypeOK, Stored, FilesOK, ~shared', Passed,
           NEW r \in Runs, ReadCursor(r)
    PROVE  RunInv(r)'
<1>1. pc'[r] = "fetch" /\ opts'[r] = opts[r]
  BY DEF ReadCursor, Goto, TypeOK
<1>2. StartSafe(r)'
  <2> SUFFICES ASSUME opts[r].start_file, NEW b \in Biblios, Due(b), b <= start'[r] PROVE InFile(b)'
    BY <1>1 DEF StartSafe, ReadCursor, koha, Due, Ordinary, Printable
  <2>1. start'[r] = cursor
    BY DEF ReadCursor, TypeOK, CursorOptions, NoOption
  <2> QED BY <2>1 DEF Passed, FilesOK
<1> QED BY <1>1, <1>2 DEF RunInv, PageCovers, FiPrinted, SvPrinted

LEMMA FileStepInv ==
    ASSUME TypeOK, FilesOK, ~shared', NEW r \in Runs, RunInv(r),
           \/ OpenFi(r) \/ PrintFi(r) \/ CloseFi(r)
           \/ OpenSv(r) \/ PrintSv(r) \/ CloseSv(r)
    PROVE  RunInv(r)'
<1>1. /\ UNCHANGED <<db, late>> /\ opts'[r] = opts[r] /\ start'[r] = start[r]
      /\ page'[r] = page[r] /\ last'[r] = last[r]
  BY DEF OpenFi, PrintFi, CloseFi, OpenSv, PrintSv, CloseSv, OpenFile, PrintRecord, CloseFile, koha, local
<1>2. /\ page[r]["fi"] \subseteq Biblios /\ page[r]["sv"] \subseteq Biblios
      /\ \A b \in Biblios : InFile(b) => InFile(b)'
  BY DEF TypeOK, Lang, FilesOK
<1>3. pc[r] \notin {"idle", "read", "fetch"}
  BY DEF OpenFi, PrintFi, CloseFi, OpenSv, PrintSv, CloseSv
<1>4. StartSafe(r)'
  BY <1>1, <1>2, <1>3 DEF RunInv, StartSafe, Due, Ordinary, Printable
<1>5. PageCovers(r)'
  BY <1>1, <1>3 DEF RunInv, PageCovers, Due, Ordinary, Printable
<1>6. CASE OpenFi(r)
  <2>1. pc'[r] = "print_fi" /\ left'[r] = page[r]["fi"]
    BY <1>6 DEF OpenFi, OpenFile, Goto, TypeOK
  <2> QED BY <1>1, <1>4, <1>5, <2>1 DEF RunInv, FiPrinted, SvPrinted
<1>7. CASE OpenSv(r)
  <2>1. pc[r] = "open_sv" /\ pc'[r] = "print_sv" /\ left'[r] = page[r]["sv"]
    BY <1>7 DEF OpenSv, OpenFile, Goto, TypeOK
  <2> QED BY <1>1, <1>2, <1>4, <1>5, <2>1 DEF RunInv, FiPrinted, SvPrinted
<1>8. ASSUME NEW l \in Lang, PrintRecord(r, l)
      PROVE  \E b \in left[r] : left'[r] = left[r] \ {b} /\ InFile(b)'
  <2>1. FileOf(r, l) \in Name
    BY DEF TypeOK, FileOf, Name
  <2>2. PICK b \in left[r] : /\ left' = [left EXCEPT ![r] = @ \ {b}]
                             /\ files' = [files EXCEPT ![FileOf(r, l)] = @ \union {b}]
    BY <1>8 DEF PrintRecord
  <2>3. b \in files'[FileOf(r, l)]
    BY <2>1, <2>2 DEF TypeOK
  <2>4. left'[r] = left[r] \ {b}
    BY <2>2 DEF TypeOK
  <2> QED BY <2>1, <2>3, <2>4 DEF InFile
<1>9. CASE PrintFi(r)
  <2>1. pc[r] = "print_fi" /\ pc'[r] = "print_fi"
    BY <1>9 DEF PrintFi, PrintRecord
  <2>2. PICK b \in left[r] : left'[r] = left[r] \ {b} /\ InFile(b)'
    BY <1>8, <1>9 DEF PrintFi, Lang
  <2> QED BY <1>1, <1>2, <1>4, <1>5, <2>1, <2>2 DEF RunInv, FiPrinted, SvPrinted
<1>10. CASE PrintSv(r)
  <2>1. pc[r] = "print_sv" /\ pc'[r] = "print_sv"
    BY <1>10 DEF PrintSv, PrintRecord
  <2>2. PICK b \in left[r] : left'[r] = left[r] \ {b} /\ InFile(b)'
    BY <1>8, <1>10 DEF PrintSv, Lang
  <2> QED BY <1>1, <1>2, <1>4, <1>5, <2>1, <2>2 DEF RunInv, FiPrinted, SvPrinted
<1>11. CASE CloseFi(r)
  <2>1. /\ pc[r] = "print_fi" /\ left[r] = {}
        /\ IF page[r]["sv"] # {} THEN pc'[r] = "open_sv" ELSE pc'[r] \in {"truncate", "end"}
    BY <1>11 DEF CloseFi, CloseFile, Goto, AfterFi, AfterFiles, TypeOK
  <2> QED BY <1>1, <1>2, <1>4, <1>5, <2>1 DEF RunInv, FiPrinted, SvPrinted
<1>12. CASE CloseSv(r)
  <2>1. pc[r] = "print_sv" /\ left[r] = {} /\ pc'[r] \in {"truncate", "end"}
    BY <1>12 DEF CloseSv, CloseFile, Goto, AfterFiles, TypeOK
  <2> QED BY <1>1, <1>2, <1>4, <1>5, <2>1 DEF RunInv, FiPrinted, SvPrinted
<1> QED BY <1>6, <1>7, <1>9, <1>10, <1>11, <1>12

\* The start file is written when all before it is in files.
LEMMA CursorStepInv ==
    ASSUME TypeOK, Stored, FilesOK, ~shared', NEW r \in Runs, RunInv(r), Passed, CursorOptions,
           pc[r] = "write" => opts[r].start_file,
           TruncateCursor(r) \/ WriteCursor(r)
    PROVE  RunInv(r)' /\ Passed'
<1>1. /\ UNCHANGED <<db, late, files, opts, start, page, last, left>>
      /\ pc[r] \in {"truncate", "write"} /\ pc'[r] \in {"write", "end"}
  BY DEF TruncateCursor, WriteCursor, koha, local, Goto, TypeOK
<1>2. RunInv(r)'
  BY <1>1 DEF RunInv, StartSafe, PageCovers, FiPrinted, SvPrinted, Due, Ordinary, Printable, InFile
<1>3. CASE TruncateCursor(r)
  <2>1. \A b \in Biblios : ~(b <= 0)
    BY DEF Biblios
  <2> QED BY <1>2, <1>3, <2>1 DEF TruncateCursor, Passed
<1>4. CASE WriteCursor(r)
  <2> SUFFICES ASSUME NEW b \in Biblios, Due(b), b <= last[r] PROVE InFile(b)
    BY <1>1, <1>2, <1>4 DEF WriteCursor, Passed, Due, Ordinary, Printable, InFile
  <2>1. opts[r].start_file /\ pc[r] = "write"
    BY <1>4 DEF WriteCursor
  <2>2. CASE b <= start[r]
    BY <2>1, <2>2 DEF RunInv, StartSafe
  <2>3. CASE start[r] < b
    <3>1. b \in page[r]["fi"] \union page[r]["sv"]
      BY <2>1, <2>3 DEF RunInv, PageCovers
    <3> QED BY <2>1, <3>1 DEF RunInv, FiPrinted, SvPrinted
  <2>4. start[r] \in Nat /\ b \in Int
    BY DEF TypeOK, Biblios
  <2> QED BY <2>2, <2>3, <2>4
<1> QED BY <1>2, <1>3, <1>4

LEMMA WritersStep ==
    ASSUME TypeOK, Writers, [Next]_vars
    PROVE  Writers'
<1>1. ASSUME \A q \in Runs : pc'[q] \in {"truncate", "write"}
                 => pc[q] \in {"truncate", "write"} /\ opts'[q] = opts[q]
      PROVE  Writers'
  BY <1>1 DEF Writers
<1>2. ASSUME NEW r \in Runs, NEW o \in Options, Start(r, o) PROVE Writers'
  BY <1>1, <1>2 DEF Start, Goto, TypeOK
<1>3. ASSUME NEW r \in Runs, Fetch(r) \/ CloseFi(r) \/ CloseSv(r) PROVE Writers'
  <2>1. PICK label : pc' = [pc EXCEPT ![r] = label] /\ (label = "truncate" => opts[r].start_file)
                     /\ label # "write" /\ opts' = opts
    BY <1>3 DEF Fetch, CloseFi, CloseSv, CloseFile, Goto, AfterFetch, AfterFi, AfterFiles, local
  <2> QED BY <2>1 DEF Writers, TypeOK
<1>4. ASSUME NEW r \in Runs,
             \/ ReadCursor(r) \/ OpenFi(r) \/ PrintFi(r) \/ OpenSv(r) \/ PrintSv(r)
             \/ TruncateCursor(r) \/ WriteCursor(r)
      PROVE  Writers'
  BY <1>1, <1>4 DEF ReadCursor, OpenFi, PrintFi, OpenSv, PrintSv, OpenFile, PrintRecord,
       TruncateCursor, WriteCursor, Goto, TypeOK, local
<1>5. ASSUME NEW r \in Runs, Finish(r) \/ Crash(r) PROVE Writers'
  BY <1>1, <1>5 DEF Finish, Crash, Exit, Goto, TypeOK
<1>6. ASSUME NEW b \in Biblios, AddBiblio(b) \/ StoreMarc(b) PROVE Writers'
  BY <1>1, <1>6 DEF AddBiblio, StoreMarc, local
<1>7. CASE Tick \/ UNCHANGED vars
  BY <1>1, <1>7 DEF Tick, vars, local
<1> QED BY <1>2, <1>3, <1>4, <1>5, <1>6, <1>7 DEF Next, Advance

\* The other processes in a step of r.
LEMMA OthersAlone ==
    ASSUME TypeOK, NEW r \in Runs, NEW q \in Runs \ {r},
           Advance(r) \/ Crash(r) \/ \E o \in Options : Start(r, o)
    PROVE  Alone(q)
<1>1. CASE \E o \in Options : Start(r, o)
  BY <1>1 DEF Start, Goto, Alone, TypeOK
<1>2. CASE Crash(r) \/ Finish(r)
  BY <1>2 DEF Crash, Finish, Exit, Goto, Alone, TypeOK
<1>3. CASE Fetch(r)
  BY <1>3 DEF Fetch, Goto, Alone, TypeOK
<1>4. CASE \/ ReadCursor(r) \/ TruncateCursor(r) \/ WriteCursor(r)
  BY <1>4 DEF ReadCursor, TruncateCursor, WriteCursor, Goto, Alone, TypeOK, local
<1>5. CASE OpenFi(r) \/ PrintFi(r) \/ CloseFi(r) \/ OpenSv(r) \/ PrintSv(r) \/ CloseSv(r)
  BY <1>5 DEF OpenFi, PrintFi, CloseFi, OpenSv, PrintSv, CloseSv, OpenFile, PrintRecord, CloseFile,
       Goto, Alone, TypeOK, local
<1> QED BY <1>1, <1>2, <1>3, <1>4, <1>5 DEF Advance

\* A process that has just ended or begun has nothing to remember.
LEMMA IdleInv ==
    ASSUME TypeOK, NEW r \in Runs,
           Finish(r) \/ Crash(r) \/ \E o \in Options : Start(r, o)
    PROVE  RunInv(r)'
<1>1. pc'[r] \in {"idle", "read"}
  BY DEF Finish, Crash, Exit, Start, Goto, TypeOK
<1> QED BY <1>1 DEF RunInv, StartSafe, PageCovers, FiPrinted, SvPrinted

LEMMA NextInv == CursorOptions /\ Inv /\ [Next]_vars => Inv'
<1> SUFFICES ASSUME CursorOptions, Inv, [Next]_vars PROVE Inv'
  OBVIOUS
<1> USE DEF Inv
<1>1. TypeOK' /\ Stored' /\ Writers'
  BY NextType, StoredStep, WritersStep
<1>2. FilesOK
  BY FilesGrow
<1>3. Fresh'
  BY <1>2 DEF FilesOK
<1> SUFFICES ASSUME ~shared' PROVE Passed' /\ \A q \in Runs : RunInv(q)'
  BY <1>1, <1>3
<1>4. Passed /\ \A q \in Runs : RunInv(q)
  BY <1>2 DEF FilesOK
<1>5. ASSUME cursor' = cursor PROVE Passed'
  BY <1>2, <1>4, <1>5, PassedStays
<1>6. ASSUME NEW r \in Runs, Advance(r) \/ Crash(r) \/ \E o \in Options : Start(r, o),
             RunInv(r)'
      PROVE  \A q \in Runs : RunInv(q)'
  BY <1>2, <1>4, <1>6, OthersAlone, AloneInv
<1>7. ASSUME \A q \in Runs : Alone(q), cursor' = cursor
      PROVE  Passed' /\ \A q \in Runs : RunInv(q)'
  BY <1>2, <1>4, <1>5, <1>7, AloneInv
<1>8. ASSUME NEW r \in Runs, Finish(r) \/ Crash(r) \/ \E o \in Options : Start(r, o)
      PROVE  Passed' /\ \A q \in Runs : RunInv(q)'
  <2>1. cursor' = cursor
    BY <1>8 DEF Finish, Crash, Start, disk
  <2> QED BY <1>5, <1>6, <1>8, <2>1, IdleInv DEF Advance
<1>9. ASSUME NEW r \in Runs, ReadCursor(r) PROVE Passed' /\ \A q \in Runs : RunInv(q)'
  <2>1. cursor' = cursor
    BY <1>9 DEF ReadCursor, disk
  <2> QED BY <1>2, <1>4, <1>5, <1>6, <1>9, <2>1, ReadInv DEF Advance
<1>10. ASSUME NEW r \in Runs, Fetch(r) PROVE Passed' /\ \A q \in Runs : RunInv(q)'
  <2>1. cursor' = cursor
    BY <1>10 DEF Fetch, disk
  <2> QED BY <1>2, <1>4, <1>5, <1>6, <1>10, <2>1, FetchInv DEF Advance
<1>11. ASSUME NEW r \in Runs,
              \/ OpenFi(r) \/ PrintFi(r) \/ CloseFi(r)
              \/ OpenSv(r) \/ PrintSv(r) \/ CloseSv(r)
       PROVE  Passed' /\ \A q \in Runs : RunInv(q)'
  <2>1. cursor' = cursor
    BY <1>11 DEF OpenFi, PrintFi, CloseFi, OpenSv, PrintSv, CloseSv, OpenFile, PrintRecord, CloseFile, disk
  <2> QED BY <1>2, <1>4, <1>5, <1>6, <1>11, <2>1, FileStepInv DEF Advance
<1>12. ASSUME NEW r \in Runs, TruncateCursor(r) \/ WriteCursor(r)
       PROVE  Passed' /\ \A q \in Runs : RunInv(q)'
  BY <1>2, <1>4, <1>6, <1>12, CursorStepInv DEF Advance, Writers
<1>13. ASSUME NEW b \in Biblios, AddBiblio(b) \/ StoreMarc(b)
       PROVE  Passed' /\ \A q \in Runs : RunInv(q)'
  BY <1>7, <1>13 DEF AddBiblio, StoreMarc, disk, local, Alone
<1>14. CASE Tick \/ UNCHANGED vars
  BY <1>7, <1>14 DEF Tick, vars, disk, local, Alone
<1> QED
  BY <1>8, <1>9, <1>10, <1>11, <1>12, <1>13, <1>14 DEF Next, Advance

\* For any number of exporters, with crashes anywhere and records stored in any
\* order: the start file never passes a record that is in no file.
THEOREM NothingPassedOver ==
    ASSUME CursorOptions
    PROVE  Spec => []PassedIsPrinted
<1>1. Inv => PassedIsPrinted
  <2> SUFFICES ASSUME Inv, ~shared, NEW b \in db \ late, b <= cursor, Ordinary(b) PROVE InFile(b)
    BY DEF PassedIsPrinted
  <2> QED BY DEF Inv, Passed, Due, TypeOK
<1>2. Inv /\ [Next]_vars => Inv'
  BY NextInv
<1> QED BY <1>1, <1>2, InitInv, PTL DEF Spec

(***************************************************************************)
(* Each crash costs one copy, when one exporter follows its start file.    *)
(***************************************************************************)

Printing == {"open_fi", "print_fi", "open_sv", "print_sv", "truncate", "write", "end"}
OnPage(r) == page[r]["fi"] \union page[r]["sv"]

\* Where a run is between the record it began behind and the last one of its page.
InOrder(r) ==
    /\ pc[r] # "idle" => opts[r] \in Options
    /\ pc[r] \in {"fetch", "open_fi", "print_fi", "open_sv", "print_sv", "truncate"} => start[r] = cursor
    /\ pc[r] \in Printing =>
           /\ \A b \in OnPage(r) : start[r] < b /\ b <= last[r]
           /\ last[r] = 0 \/ start[r] < last[r]
           /\ page[r]["fi"] \intersect page[r]["sv"] = {}
    /\ pc[r] = "print_fi" => left[r] \subseteq page[r]["fi"]
    /\ pc[r] = "print_sv" => left[r] \subseteq page[r]["sv"]
    /\ pc[r] \in {"truncate", "write"} => last[r] # 0
    /\ pc[r] = "end" => cursor = IF last[r] = 0 THEN start[r] ELSE last[r]

\* The records of its page that a run has printed.
OnPaper(r) ==
    {b \in OnPage(r) :
        \/ pc[r] = "print_fi" /\ b \in page[r]["fi"] \ left[r]
        \/ pc[r] = "open_sv" /\ b \in page[r]["fi"]
        \/ pc[r] = "print_sv" /\ b \notin left[r]
        \/ pc[r] \in {"truncate", "write"}}

\* The records that are not to be printed again, as long as nothing crashes.
Behind(r, b) ==
    IF pc[r] \in {"idle", "read", "end"} THEN b <= cursor ELSE b <= start[r] \/ b \in OnPaper(r)

CopiesInv(r) ==
    \A b \in Biblios : /\ Copies(b) <= crashes + 1
                       /\ ~ Behind(r, b) => Copies(b) <= crashes

\* The seconds in which there is a copy.
Seconds(b) == {s \in 1 .. MaxClock : \E l \in Lang : b \in files[<<s, l>>]}

LEMMA SecondsFinite == \A b : IsFiniteSet(Seconds(b)) /\ Cardinality(Seconds(b)) \in Nat
<1>1. IsFiniteSet(1 .. MaxClock)
  BY FS_Interval
<1>2. \A b : Seconds(b) \subseteq 1 .. MaxClock
  BY DEF Seconds
<1>3. \A b : IsFiniteSet(Seconds(b))
  BY <1>1, <1>2, FS_Subset
<1> QED BY <1>3, FS_CardinalityType

\* A record that no file gains has no more copies.
LEMMA NoMoreCopies ==
    ASSUME NEW b, \A n \in Name : b \in files'[n] => b \in files[n]
    PROVE  Copies(b)' <= Copies(b)
<1>1. Seconds(b)' \subseteq Seconds(b)
  BY DEF Seconds, Name
<1>2. Cardinality(Seconds(b)') <= Cardinality(Seconds(b))
  BY <1>1, SecondsFinite, FS_Subset
<1> QED BY <1>2 DEF Copies, Seconds

\* One that one file gains has at most one more.
LEMMA OneMoreCopy ==
    ASSUME NEW b, NEW m \in Name, \A n \in Name \ {m} : b \in files'[n] => b \in files[n]
    PROVE  Copies(b)' <= Copies(b) + 1
<1> DEFINE S == Seconds(b)
           T == Seconds(b) \union {m[1]}
<1>1. Seconds(b)' \subseteq T
  BY DEF Seconds, Name
<1>2. IsFiniteSet(S) /\ Cardinality(S) \in Nat
  BY SecondsFinite
<1>3. IsFiniteSet(T) /\ Cardinality(T) <= Cardinality(S) + 1
  <2> HIDE DEF S
  <2>1. IsFiniteSet(S \union {m[1]})
        /\ Cardinality(S \union {m[1]}) = IF m[1] \in S THEN Cardinality(S) ELSE Cardinality(S) + 1
    BY <1>2, FS_AddElement
  <2> QED BY <1>2, <2>1 DEF S
<1>4. Cardinality(Seconds(b)') <= Cardinality(T)
  <2> HIDE DEF T
  <2> QED BY <1>1, <1>3, FS_Subset
<1>5. Cardinality(Seconds(b)') \in Nat /\ Cardinality(T) \in Nat
  <2>1. IsFiniteSet(Seconds(b)')
    <3> HIDE DEF T
    <3> QED BY <1>1, <1>3, FS_Subset
  <2> HIDE DEF T
  <2> QED BY <1>3, <2>1, FS_CardinalityType
<1>6. Copies(b) = Cardinality(S) /\ Copies(b)' = Cardinality(Seconds(b)')
  BY DEF Copies, Seconds
<1> HIDE DEF S, T
<1> QED BY <1>2, <1>3, <1>4, <1>5, <1>6

LEMMA CopiesTypes == \A b : Copies(b) \in Nat /\ Copies(b)' \in Nat
<1>1. \A b : Copies(b) \in Nat
  BY SecondsFinite DEF Copies, Seconds
<1>2. ASSUME NEW b PROVE Copies(b)' \in Nat
  <2>1. IsFiniteSet(1 .. MaxClock)
    BY FS_Interval
  <2>2. Seconds(b)' \subseteq 1 .. MaxClock
    BY DEF Seconds
  <2>3. IsFiniteSet(Seconds(b)')
    BY <2>1, <2>2, FS_Subset
  <2>4. Cardinality(Seconds(b)') \in Nat
    BY <2>3, FS_CardinalityType
  <2> QED BY <2>4 DEF Copies, Seconds
<1> QED BY <1>1, <1>2

\* A step that prints nothing, and after which no record lies ahead again.
LEMMA CopiesKept ==
    ASSUME TypeOK, TypeOK', NEW r \in Runs, CopiesInv(r), crashes' = crashes,
           \A b \in Biblios, n \in Name : b \in files'[n] => b \in files[n],
           \A b \in Biblios : Behind(r, b) => Behind(r, b)'
    PROVE  CopiesInv(r)'
<1> SUFFICES ASSUME NEW b \in Biblios
             PROVE  Copies(b)' <= crashes + 1 /\ (~ Behind(r, b)' => Copies(b)' <= crashes)
  BY DEF CopiesInv
<1>1. Copies(b)' <= Copies(b)
  BY NoMoreCopies
<1>2. Copies(b) \in Nat /\ Copies(b)' \in Nat /\ crashes \in Nat
  BY CopiesTypes DEF TypeOK
<1> QED BY <1>1, <1>2 DEF CopiesInv

\* A record of the page goes into its file.
LEMMA CopiesPrint ==
    ASSUME TypeOK, NEW r \in Runs, CopiesInv(r), crashes' = crashes,
           NEW c \in Biblios, ~ Behind(r, c), Behind(r, c)', NEW m \in Name,
           \A b \in Biblios \ {c} : \A n \in Name : b \in files'[n] => b \in files[n],
           \A n \in Name \ {m} : c \in files'[n] => c \in files[n],
           \A b \in Biblios : Behind(r, b) => Behind(r, b)'
    PROVE  CopiesInv(r)'
<1> SUFFICES ASSUME NEW b \in Biblios
             PROVE  Copies(b)' <= crashes + 1 /\ (~ Behind(r, b)' => Copies(b)' <= crashes)
  BY DEF CopiesInv
<1>1. Copies(b) \in Nat /\ Copies(b)' \in Nat /\ crashes \in Nat
  BY CopiesTypes DEF TypeOK
<1>2. CASE b = c
  <2>1. Copies(b)' <= Copies(b) + 1
    BY <1>2, OneMoreCopy
  <2>2. Copies(b) <= crashes
    BY <1>2 DEF CopiesInv
  <2> QED BY <1>1, <1>2, <2>1, <2>2
<1>3. CASE b # c
  <2>1. Copies(b)' <= Copies(b)
    BY <1>3, NoMoreCopies
  <2> QED BY <1>1, <2>1 DEF CopiesInv
<1> QED BY <1>2, <1>3
\* What the one exporter does: no other process opens a file or moves the start file.
Follower == CursorOptions /\ \A o \in Options : o.start_file

\* The page that a run is given lies behind the start file.
LEMMA PageFetched ==
    ASSUME Follower, TypeOK, NEW r \in Runs, InOrder(r), Fetch(r)
    PROVE  /\ pc[r] = "fetch" /\ start'[r] = start[r] /\ start[r] = cursor /\ opts'[r] = opts[r]
           /\ \A b \in OnPage(r)' : start[r] < b /\ b <= last'[r]
           /\ page'[r]["fi"] \intersect page'[r]["sv"] = {}
           /\ IF OnPage(r)' = {} THEN last'[r] = 0 ELSE start[r] < last'[r]
           /\ \/ pc'[r] = "open_fi"
              \/ pc'[r] = "open_sv" /\ page'[r]["fi"] = {}
              \/ pc'[r] = "end" /\ last'[r] = 0 /\ OnPage(r)' = {}
<1> DEFINE o == opts[r]
           S == Printed(o, start[r])
           p == [l \in Lang |-> {b \in S : svRecord(o, b) <=> l = "sv"}]
<1>1. PICK n \in LastOf(S) : /\ page' = [page EXCEPT ![r] = p]
                             /\ last' = [last EXCEPT ![r] = n]
                             /\ pc' = [pc EXCEPT ![r] = AfterFetch(o, p, n)]
  BY DEF Fetch, Goto
<1>2. pc[r] = "fetch" /\ start'[r] = start[r] /\ start[r] = cursor /\ opts'[r] = opts[r] /\ o \in Options
  BY DEF Fetch, InOrder
<1>3. /\ page'[r] = p /\ last'[r] = n /\ pc'[r] = AfterFetch(o, p, n)
      /\ p["fi"] = {b \in S : ~svRecord(o, b)} /\ p["sv"] = {b \in S : svRecord(o, b)}
  BY <1>1 DEF TypeOK, Lang
<1>4. OnPage(r)' = S
  BY <1>3 DEF OnPage
<1>5. \A b \in S : b \in Biblios /\ start[r] < b
  BY <1>2 DEF Follower, CursorOptions, Printed, Rows, FirstRows, TypeOK, Biblios
<1>6. IF S = {} THEN n = 0 ELSE n \in S
  BY DEF LastOf
<1>7. \A b \in S : b <= n
  BY <1>1 DEF LastOf
<1>8. \/ pc'[r] = "open_fi"
      \/ pc'[r] = "open_sv" /\ p["fi"] = {}
      \/ pc'[r] = "end" /\ n = 0 /\ S = {}
  <2>1. p["fi"] = {} /\ p["sv"] = {} => S = {}
    BY <1>3
  <2> HIDE DEF S, p
  <2> QED BY <1>3, <1>6, <2>1 DEF AfterFetch, AfterFi, AfterFiles
<1> HIDE DEF S, p
<1> QED BY <1>2, <1>3, <1>4, <1>5, <1>6, <1>7, <1>8

\* A record is printed.
LEMMA RecordPrinted ==
    ASSUME TypeOK, NEW r \in Runs, NEW l \in Lang, PrintRecord(r, l)
    PROVE  \E c \in left[r] :
               /\ left'[r] = left[r] \ {c}
               /\ FileOf(r, l) \in Name
               /\ \A b \in Biblios \ {c} : \A n \in Name : b \in files'[n] => b \in files[n]
               /\ \A n \in Name \ {FileOf(r, l)} : c \in files'[n] => c \in files[n]
<1>1. FileOf(r, l) \in Name
  BY DEF TypeOK, FileOf, Name
<1>2. PICK c \in left[r] : /\ left' = [left EXCEPT ![r] = @ \ {c}]
                           /\ files' = [files EXCEPT ![FileOf(r, l)] = @ \union {c}]
  BY DEF PrintRecord
<1> QED BY <1>1, <1>2 DEF TypeOK
Kept(r) == InOrder(r)' /\ CopiesInv(r)'

LEMMA BeginKept ==
    ASSUME Follower, TypeOK, TypeOK', NEW r \in Runs, InOrder(r), CopiesInv(r),
           ReadCursor(r) \/ \E o \in Options : Start(r, o)
    PROVE  Kept(r)
<1>1. /\ files' = files /\ crashes' = crashes /\ cursor' = cursor
  BY DEF ReadCursor, Start, disk
<1>2. CASE \E o \in Options : Start(r, o)
  <2>1. pc[r] = "idle" /\ pc'[r] = "read" /\ opts'[r] \in Options
    BY <1>2 DEF Start, Goto, TypeOK
  <2>2. InOrder(r)'
    BY <2>1 DEF InOrder, Printing
  <2>3. \A b \in Biblios : Behind(r, b) => Behind(r, b)'
    BY <1>1, <2>1 DEF Behind
  <2> QED BY <1>1, <2>2, <2>3, CopiesKept DEF Kept
<1>3. CASE ReadCursor(r)
  <2>1. pc[r] = "read" /\ pc'[r] = "fetch" /\ opts'[r] = opts[r] /\ opts[r] \in Options
    BY <1>3 DEF ReadCursor, Goto, TypeOK, InOrder
  <2>2. start'[r] = cursor
    BY <1>3, <2>1 DEF ReadCursor, TypeOK, Follower, CursorOptions
  <2>3. InOrder(r)'
    BY <1>1, <2>1, <2>2 DEF InOrder, Printing
  <2>4. \A b \in Biblios : Behind(r, b) => Behind(r, b)'
    BY <1>1, <2>1, <2>2 DEF Behind
  <2> QED BY <1>1, <2>3, <2>4, CopiesKept DEF Kept
<1> QED BY <1>2, <1>3

LEMMA FetchKept ==
    ASSUME Follower, TypeOK, TypeOK', NEW r \in Runs, InOrder(r), CopiesInv(r), Fetch(r)
    PROVE  Kept(r)
<1>1. /\ files' = files /\ crashes' = crashes /\ cursor' = cursor
  BY DEF Fetch, disk
<1> DEFINE After == /\ pc[r] = "fetch" /\ start'[r] = start[r] /\ start[r] = cursor /\ opts'[r] = opts[r]
                    /\ \A b \in OnPage(r)' : start[r] < b /\ b <= last'[r]
                    /\ page'[r]["fi"] \intersect page'[r]["sv"] = {}
                    /\ IF OnPage(r)' = {} THEN last'[r] = 0 ELSE start[r] < last'[r]
                    /\ \/ pc'[r] = "open_fi"
                       \/ pc'[r] = "open_sv" /\ page'[r]["fi"] = {}
                       \/ pc'[r] = "end" /\ last'[r] = 0 /\ OnPage(r)' = {}
<1>2. After
  BY PageFetched
<1>3. InOrder(r)'
  BY <1>1, <1>2 DEF InOrder, Printing
<1>4. \A b \in Biblios : Behind(r, b) => Behind(r, b)'
  <2>1. OnPaper(r) = {}
    BY <1>2 DEF OnPaper
  <2> QED BY <1>1, <1>2, <2>1 DEF Behind
<1> QED BY <1>1, <1>3, <1>4, CopiesKept DEF Kept

\* Opening a file only empties one.
LEMMA OpenKept ==
    ASSUME TypeOK, TypeOK', NEW r \in Runs, InOrder(r), CopiesInv(r), OpenFi(r) \/ OpenSv(r)
    PROVE  Kept(r)
<1>1. /\ crashes' = crashes /\ cursor' = cursor /\ opts'[r] = opts[r] /\ start'[r] = start[r]
      /\ page'[r] = page[r] /\ last'[r] = last[r]
  BY DEF OpenFi, OpenSv, OpenFile
<1>2. \/ pc[r] = "open_fi" /\ pc'[r] = "print_fi" /\ left'[r] = page[r]["fi"]
      \/ pc[r] = "open_sv" /\ pc'[r] = "print_sv" /\ left'[r] = page[r]["sv"]
  BY DEF OpenFi, OpenSv, OpenFile, Goto, TypeOK
<1>3. \A b \in Biblios, n \in Name : b \in files'[n] => b \in files[n]
  <2>1. FileOf(r, "fi") \in Name /\ FileOf(r, "sv") \in Name
    BY DEF TypeOK, FileOf, Name, Lang
  <2> QED BY <2>1 DEF OpenFi, OpenSv, OpenFile, TypeOK
<1>4. InOrder(r)'
  <2>1. OnPage(r)' = OnPage(r)
    BY <1>1 DEF OnPage
  <2> QED BY <1>1, <1>2, <2>1 DEF InOrder, Printing
<1>5. \A b \in Biblios : Behind(r, b) => Behind(r, b)'
  <2>1. \A b \in OnPaper(r) : b \in OnPaper(r)'
    BY <1>1, <1>2 DEF OnPaper, OnPage, InOrder, Printing
  <2> QED BY <1>1, <1>2, <2>1 DEF Behind
<1> QED BY <1>1, <1>3, <1>4, <1>5, CopiesKept DEF Kept

LEMMA PrintKept ==
    ASSUME TypeOK, TypeOK', NEW r \in Runs, InOrder(r), CopiesInv(r), PrintFi(r) \/ PrintSv(r)
    PROVE  Kept(r)
<1>1. /\ crashes' = crashes /\ cursor' = cursor /\ opts'[r] = opts[r] /\ start'[r] = start[r]
      /\ page'[r] = page[r] /\ last'[r] = last[r] /\ pc'[r] = pc[r]
  BY DEF PrintFi, PrintSv, PrintRecord
<1>2. PICK l \in Lang : /\ PrintRecord(r, l)
                        /\ pc[r] = IF l = "fi" THEN "print_fi" ELSE "print_sv"
  BY DEF PrintFi, PrintSv, Lang
<1>3. left[r] \subseteq page[r][l] /\ page[r]["fi"] \intersect page[r]["sv"] = {}
      /\ page[r]["fi"] \subseteq OnPage(r) /\ page[r]["sv"] \subseteq OnPage(r)
      /\ page[r][l] \subseteq Biblios
  BY <1>2 DEF InOrder, Printing, Lang, OnPage, TypeOK
<1>4. PICK c \in left[r] :
          /\ left'[r] = left[r] \ {c}
          /\ FileOf(r, l) \in Name
          /\ \A b \in Biblios \ {c} : \A n \in Name : b \in files'[n] => b \in files[n]
          /\ \A n \in Name \ {FileOf(r, l)} : c \in files'[n] => c \in files[n]
  BY <1>2, RecordPrinted
<1>5. c \in Biblios /\ start[r] < c /\ start[r] \in Nat
  BY <1>2, <1>3, <1>4 DEF InOrder, Printing, TypeOK
<1>6. OnPaper(r)' = OnPaper(r) \union {c} /\ c \notin OnPaper(r)
  BY <1>1, <1>2, <1>3, <1>4 DEF OnPaper, OnPage, Lang
<1>7. InOrder(r)'
  <2>1. OnPage(r)' = OnPage(r)
    BY <1>1 DEF OnPage
  <2> QED BY <1>1, <1>2, <1>4, <2>1 DEF InOrder, Printing
<1>8. ~ Behind(r, c) /\ Behind(r, c)' /\ \A b \in Biblios : Behind(r, b) => Behind(r, b)'
  BY <1>1, <1>2, <1>5, <1>6 DEF Behind, Biblios
<1>9. CopiesInv(r)'
  BY <1>1, <1>4, <1>5, <1>8, CopiesPrint
<1> QED BY <1>7, <1>9 DEF Kept

LEMMA CloseKept ==
    ASSUME Follower, TypeOK, TypeOK', NEW r \in Runs, InOrder(r), CopiesInv(r), CloseFi(r) \/ CloseSv(r)
    PROVE  Kept(r)
<1>1. /\ files' = files /\ crashes' = crashes /\ cursor' = cursor /\ opts'[r] = opts[r]
      /\ start'[r] = start[r] /\ page'[r] = page[r] /\ last'[r] = last[r] /\ left'[r] = left[r] /\ left[r] = {}
  BY DEF CloseFi, CloseSv, CloseFile, disk, local
<1>2. OnPage(r)' = OnPage(r)
  BY <1>1 DEF OnPage
<1>3. opts[r] \in Options /\ opts[r].start_file /\ last[r] \in Biblios \union {0} /\ start[r] \in Nat
  BY DEF CloseFi, CloseSv, InOrder, Follower, TypeOK
<1>4. \/ pc[r] = "print_fi" /\ pc'[r] = "open_sv"
      \/ /\ pc[r] = "print_sv" \/ (pc[r] = "print_fi" /\ page[r]["sv"] = {})
         /\ pc'[r] = IF last[r] > 0 THEN "truncate" ELSE "end"
  <2>1. CASE CloseFi(r)
    <3>1. pc[r] = "print_fi" /\ pc' = [pc EXCEPT ![r] = AfterFi(opts[r], page[r], last[r])]
      BY <2>1 DEF CloseFi, Goto
    <3>2. pc'[r] = AfterFi(opts[r], page[r], last[r])
      BY <3>1 DEF TypeOK
    <3> QED BY <1>3, <3>1, <3>2 DEF AfterFi, AfterFiles
  <2>2. CASE CloseSv(r)
    <3>1. pc[r] = "print_sv" /\ pc' = [pc EXCEPT ![r] = AfterFiles(opts[r], last[r])]
      BY <2>2 DEF CloseSv, Goto
    <3>2. pc'[r] = AfterFiles(opts[r], last[r])
      BY <3>1 DEF TypeOK
    <3> QED BY <1>3, <3>1, <3>2 DEF AfterFiles
  <2> QED BY <2>1, <2>2
<1>5. InOrder(r)'
  <2>1. last[r] > 0 \/ last[r] = 0
    BY <1>3 DEF Biblios
  <2> QED BY <1>1, <1>2, <1>4, <2>1 DEF InOrder, Printing
<1>6. ASSUME NEW b \in Biblios, Behind(r, b) PROVE Behind(r, b)'
  <2>1. CASE pc'[r] = "end"
    <3>1. last[r] = 0 /\ start[r] = cursor
      BY <1>3, <1>4, <2>1 DEF InOrder, Printing, Biblios
    <3>2. OnPage(r) = {}
      <4>1. \A c \in OnPage(r) : start[r] < c /\ c <= 0 /\ c \in Biblios
        BY <1>4, <3>1 DEF InOrder, Printing, OnPage, TypeOK, Lang
      <4> QED BY <4>1 DEF Biblios
    <3>3. b <= start[r]
      BY <1>4, <1>6, <3>2 DEF Behind, OnPaper
    <3> QED BY <1>1, <2>1, <3>1, <3>3 DEF Behind
  <2>2. CASE pc'[r] # "end"
    <3>1. OnPaper(r) \subseteq OnPaper(r)'
      BY <1>1, <1>2, <1>4, <2>2 DEF OnPaper, OnPage, InOrder, Printing
    <3> QED BY <1>1, <1>4, <1>6, <2>2, <3>1 DEF Behind
  <2> QED BY <2>1, <2>2
<1> QED BY <1>1, <1>5, <1>6, CopiesKept DEF Kept

LEMMA CursorKept ==
    ASSUME TypeOK, TypeOK', NEW r \in Runs, InOrder(r), CopiesInv(r),
           TruncateCursor(r) \/ WriteCursor(r) \/ Finish(r)
    PROVE  Kept(r)
<1>1. files' = files /\ crashes' = crashes
  BY DEF TruncateCursor, WriteCursor, Finish, disk
<1>2. CASE TruncateCursor(r)
  <2>1. /\ pc[r] = "truncate" /\ pc'[r] = "write" /\ opts'[r] = opts[r] /\ start'[r] = start[r]
        /\ page'[r] = page[r] /\ last'[r] = last[r] /\ left'[r] = left[r]
    BY <1>2 DEF TruncateCursor, Goto, local, TypeOK
  <2>2. OnPage(r)' = OnPage(r) /\ OnPaper(r)' = OnPage(r) /\ OnPaper(r) = OnPage(r)
    BY <2>1 DEF OnPage, OnPaper
  <2>3. InOrder(r)'
    BY <2>1, <2>2 DEF InOrder, Printing
  <2>4. \A b \in Biblios : Behind(r, b) => Behind(r, b)'
    BY <2>1, <2>2 DEF Behind
  <2> QED BY <1>1, <2>3, <2>4, CopiesKept DEF Kept
<1>3. CASE WriteCursor(r)
  <2>1. /\ pc[r] = "write" /\ pc'[r] = "end" /\ opts'[r] = opts[r] /\ start'[r] = start[r]
        /\ page'[r] = page[r] /\ last'[r] = last[r] /\ cursor' = last[r]
    BY <1>3 DEF WriteCursor, Goto, local, TypeOK
  <2>2. OnPage(r)' = OnPage(r) /\ OnPaper(r) = OnPage(r)
    BY <2>1 DEF OnPage, OnPaper
  <2>3. InOrder(r)'
    BY <2>1, <2>2 DEF InOrder, Printing
  <2>4. start[r] < last[r] /\ (\A b \in OnPage(r) : b <= last[r]) /\ start[r] \in Nat
        /\ last[r] \in Biblios \union {0}
    BY <2>1 DEF InOrder, Printing, TypeOK
  <2>5. \A b \in Biblios : Behind(r, b) => Behind(r, b)'
    BY <2>1, <2>2, <2>4 DEF Behind, Biblios
  <2> QED BY <1>1, <2>3, <2>5, CopiesKept DEF Kept
<1>4. CASE Finish(r)
  <2>1. pc[r] = "end" /\ pc'[r] = "idle" /\ cursor' = cursor
    BY <1>4 DEF Finish, Exit, Goto, disk, TypeOK
  <2>2. InOrder(r)'
    BY <2>1 DEF InOrder, Printing
  <2>3. \A b \in Biblios : Behind(r, b) => Behind(r, b)'
    BY <2>1 DEF Behind
  <2> QED BY <1>1, <2>2, <2>3, CopiesKept DEF Kept
<1> QED BY <1>2, <1>3, <1>4

\* What a crash leaves behind may all come again.
LEMMA CrashKept ==
    ASSUME TypeOK, TypeOK', NEW r \in Runs, CopiesInv(r), Crash(r)
    PROVE  Kept(r)
<1>1. pc'[r] = "idle" /\ files' = files /\ crashes' = crashes + 1
  BY DEF Crash, Exit, Goto, disk, TypeOK
<1>2. InOrder(r)'
  BY <1>1 DEF InOrder, Printing
<1>3. \A b \in Biblios : Copies(b)' <= Copies(b) /\ Copies(b)' \in Nat /\ Copies(b) \in Nat
  BY <1>1, NoMoreCopies, CopiesTypes
<1>4. crashes \in Nat
  BY DEF TypeOK
<1>5. CopiesInv(r)'
  BY <1>1, <1>3, <1>4 DEF CopiesInv
<1> QED BY <1>2, <1>5 DEF Kept

\* Koha and the clock leave the exporter alone.
LEMMA AwayKept ==
    ASSUME TypeOK, TypeOK', NEW r \in Runs, InOrder(r), CopiesInv(r),
           UNCHANGED <<disk, pc, local, crashes>>
    PROVE  Kept(r)
<1>1. InOrder(r)'
  BY DEF InOrder, OnPage, disk, local
<1>2. \A b \in Biblios : Behind(r, b) => Behind(r, b)'
  BY DEF Behind, OnPaper, OnPage, disk, local
<1>3. files' = files /\ crashes' = crashes
  BY DEF disk
<1> QED BY <1>1, <1>2, <1>3, CopiesKept DEF Kept

\* One exporter that follows its start file, for any number of records, seconds
\* and crashes, and any size of page: however records are stored meanwhile, each
\* record is in at most one file more than there were crashes.
THEOREM EachCrashOneCopy ==
    ASSUME NEW only, Runs = {only}, Follower
    PROVE  Spec => []PrintedOncePerCrash
<1> DEFINE CInv == TypeOK /\ InOrder(only) /\ CopiesInv(only)
<1>1. Init => CInv
  <2> SUFFICES ASSUME Init PROVE InOrder(only) /\ CopiesInv(only)
    BY InitType
  <2>1. InOrder(only)
    BY DEF Init, InOrder, Printing
  <2>2. ASSUME NEW b \in Biblios PROVE Copies(b) = 0
    <3>1. {s \in 1 .. MaxClock : \E l \in Lang : b \in files[<<s, l>>]} = {}
      BY DEF Init, Name
    <3> QED BY <3>1, FS_EmptySet DEF Copies
  <2>3. CopiesInv(only)
    BY <2>2 DEF CopiesInv, Init
  <2> QED BY <2>1, <2>3
<1>2. CInv /\ [Next]_vars => CInv'
  <2> SUFFICES ASSUME TypeOK, InOrder(only), CopiesInv(only), [Next]_vars
               PROVE  TypeOK' /\ Kept(only)
    BY DEF Kept
  <2>1. TypeOK'
    BY NextType
  <2>2. ASSUME Advance(only) \/ Crash(only) \/ \E o \in Options : Start(only, o) PROVE Kept(only)
    BY <2>1, <2>2, BeginKept, FetchKept, OpenKept, PrintKept, CloseKept, CursorKept, CrashKept DEF Advance
  <2>3. ASSUME NEW b \in Biblios, AddBiblio(b) \/ StoreMarc(b) PROVE Kept(only)
    BY <2>1, <2>3, AwayKept DEF AddBiblio, StoreMarc
  <2>4. CASE Tick \/ UNCHANGED vars
    BY <2>1, <2>4, AwayKept DEF Tick, vars
  <2> QED BY <2>1, <2>2, <2>3, <2>4 DEF Next
<1>3. CInv => PrintedOncePerCrash
  <2> SUFFICES ASSUME CInv, NEW b \in Biblios PROVE Copies(b) <= 1 + crashes
    BY DEF PrintedOncePerCrash
  <2>1. Copies(b) \in Nat /\ crashes \in Nat
    BY CopiesTypes DEF TypeOK
  <2> QED BY <2>1 DEF CopiesInv
<1> HIDE DEF CInv
<1> QED BY <1>1, <1>2, <1>3, PTL DEF Spec
=============================================================================
