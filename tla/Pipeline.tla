------------------------------ MODULE Pipeline ------------------------------
(***************************************************************************)
(* convert_all_rda.sh and usemarcon_converter.sh: a page of records is     *)
(* exported to xml/, converted to isbd/ and to rda/, a pass for each       *)
(* language, and imported back into Koha. Cataloguers go on editing.       *)
(*                                                                         *)
(* Each element of Runs is one invocation of the script after the other;   *)
(* the script looks out for other jobs, but not for itself. Files stay     *)
(* behind when it is killed. Every day has a directory tree of its own.    *)
(*                                                                         *)
(* A conversion has of its input what was in it when it was opened. Exports *)
(* begin in different seconds, so that their files have names of their own *)
(* (Export has the other case), and a file is imported as one (KohaImport). *)
(***************************************************************************)
EXTENDS Integers, FiniteSets

CONSTANTS
    Runs,           \* invocations that may overlap
    MaxBiblio,      \* bound: biblionumbers
    Language,       \* Language[b]: "fi" or "sv"
    PageSize,       \* records in an export
    MaxExports,     \* bound: exports
    MaxEdits,       \* bound: edits of a record
    MaxCrashes,     \* bound: kills of the script
    MaxFailures,    \* bound: conversions that break off
    MaxDays         \* bound: days

Biblios == 1 .. MaxBiblio
Lang == {"fi", "sv"}
Stage == {"xml", "isbd", "rda"}
\* A file name: the export and the language. A record in a file: its number and
\* the edit it was exported with.
Name == (1 .. MaxExports) \X Lang
Record == Biblios \X (0 .. MaxEdits)
None == <<0, "fi">>

ASSUME BoundsAssumption ==
    /\ MaxBiblio \in Nat /\ MaxExports \in Nat /\ MaxEdits \in Nat /\ MaxCrashes \in Nat
    /\ MaxFailures \in Nat /\ MaxDays \in Nat /\ PageSize \in Nat \ {0}
ASSUME LanguageAssumption == Language \in [Biblios -> Lang]

VARIABLES
    edit,       \* edit[b]: the edit Koha's record b has
    converted,  \* converted[b]: it has been replaced by a converted one
    cursor,     \* the start file
    exports,    \* exports made
    dir,        \* dir[s][n]: the records in file n of today's directory s
    names,      \* names[s]: the files in it
    processed,  \* files in rda/processed/
    pc, pass,   \* pc[r], pass[r]: where run r is
    todo,       \* todo[r]: files of its loop it has not come to
    file,       \* file[r]: the file in hand
    page,       \* page[r]: records it has fetched, of files it has still to open
    unread,     \* unread[r]: records it has still to read from, or print to, its file
    last,       \* last[r]: the last biblionumber printed
    edits,      \* history: edits[b] made, and quiet[b] of them with no run going
    quiet,
    gone,       \* history: records of broken off conversions, of files left behind
                \* at midnight, of files that two runs had in hand, and those a
                \* start file passes that two runs wrote at once
    crashes, failures, days

koha == <<edit, converted>>
disk == <<cursor, exports, dir, names, processed>>
local == <<pass, todo, file, page, unread, last>>
history == <<edits, quiet, gone>>
counters == <<crashes, failures, days>>
vars == <<koha, disk, pc, local, history, counters>>

Label == {"idle", "print", "open", "printing", "truncate", "cursor",
          "pass", "file", "convert", "move", "list", "import"}

\* Variants for mutation: RDA before ISBD, and the last call with the language
\* of the one before it.
RdaFirst == << <<"isbd", "rda", "fi">>, <<"isbd", "rda", "sv">>,
               <<"xml", "isbd", "fi">>, <<"xml", "isbd", "sv">> >>
FinnishTwice == << <<"xml", "isbd", "fi">>, <<"xml", "isbd", "sv">>,
                   <<"isbd", "rda", "fi">>, <<"isbd", "rda", "fi">> >>

\* The four calls of usemarcon_converter.sh: from, to, and language.
Passes == << <<"xml", "isbd", "fi">>, <<"xml", "isbd", "sv">>,
             <<"isbd", "rda", "fi">>, <<"isbd", "rda", "sv">> >>
Input(r) == Passes[pass[r]][1]
Output(r) == Passes[pass[r]][2]
PassLanguage(r) == Passes[pass[r]][3]

Init ==
    /\ edit = [b \in Biblios |-> 0] /\ converted = [b \in Biblios |-> FALSE]
    /\ cursor = 0 /\ exports = 0 /\ processed = {}
    /\ dir = [s \in Stage |-> [n \in Name |-> {}]] /\ names = [s \in Stage |-> {}]
    /\ pc = [r \in Runs |-> "idle"]
    /\ pass = [r \in Runs |-> 1] /\ todo = [r \in Runs |-> {}] /\ file = [r \in Runs |-> None]
    /\ page = [r \in Runs |-> {}] /\ unread = [r \in Runs |-> {}] /\ last = [r \in Runs |-> 0]
    /\ edits = [b \in Biblios |-> 0] /\ quiet = [b \in Biblios |-> 0] /\ gone = {}
    /\ crashes = 0 /\ failures = 0 /\ days = 0

Goto(r, label) == pc' = [pc EXCEPT ![r] = label]

Exit(r) ==
    /\ Goto(r, "idle")
    /\ pass' = [pass EXCEPT ![r] = 1] /\ todo' = [todo EXCEPT ![r] = {}]
    /\ file' = [file EXCEPT ![r] = None] /\ page' = [page EXCEPT ![r] = {}]
    /\ unread' = [unread EXCEPT ![r] = {}] /\ last' = [last EXCEPT ![r] = 0]

Numbers(S) == {x[1] : x \in S}
Earliest(S) == {n \in S : \A m \in S : n[1] <= m[1]}

-----------------------------------------------------------------------------
(* convert_all_rda.sh *)

Start(r) ==
    /\ pc[r] = "idle"
    /\ Goto(r, "print")
    /\ UNCHANGED <<koha, disk, local, history, counters>>

-----------------------------------------------------------------------------
(* print_marcs.pl *)

\* Variant for mutation: the page begins one record too late.
PageAfterNext == {b \in Biblios : b > cursor + 1 /\ b <= cursor + PageSize}

\* The page after the start file.
Page == {b \in Biblios : b > cursor /\ b <= cursor + PageSize}

\* The page is fetched, and the second it is named by.
Fetch(r) ==
    /\ pc[r] = "print"
    /\ \/ /\ Page = {}
          /\ Goto(r, "pass")
          /\ UNCHANGED <<exports, file, page, last>>
       \/ /\ Page # {} /\ exports < MaxExports
          /\ exports' = exports + 1
          /\ file' = [file EXCEPT ![r] = <<exports + 1, "fi">>]
          /\ page' = [page EXCEPT ![r] = {<<b, edit[b]>> : b \in Page}]
          /\ \E b \in Page : (\A c \in Page : c <= b) /\ last' = [last EXCEPT ![r] = b]
          /\ Goto(r, "open")
    /\ UNCHANGED <<koha, cursor, dir, names, processed, pass, todo, unread, history, counters>>

In(S, l) == {x \in S : Language[x[1]] = l}

\* Finnish records first, then Swedish ones; a language without records has no file.
OpenFile(r) ==
    /\ pc[r] = "open"
    /\ \E l \in Lang :
        LET n == <<file[r][1], l>>
        IN /\ In(page[r], l) # {}
           /\ l = "sv" => In(page[r], "fi") = {}
           /\ dir' = [dir EXCEPT !["xml"][n] = {}]
           /\ names' = [names EXCEPT !["xml"] = @ \union {n}]
           /\ file' = [file EXCEPT ![r] = n]
           /\ unread' = [unread EXCEPT ![r] = In(page[r], l)]
           /\ page' = [page EXCEPT ![r] = @ \ In(@, l)]
    /\ Goto(r, "printing")
    /\ UNCHANGED <<koha, cursor, exports, processed, pass, todo, last, history, counters>>

\* What is printed to a file that another script has renamed is in no directory.
PrintRecord(r) ==
    /\ pc[r] = "printing"
    /\ \E x \in unread[r] :
        /\ \A y \in unread[r] : x[1] <= y[1]
        /\ unread' = [unread EXCEPT ![r] = @ \ {x}]
        /\ dir' = [dir EXCEPT !["xml"][file[r]] = IF file[r] \in names["xml"] THEN @ \union {x} ELSE @]
    /\ UNCHANGED <<koha, cursor, exports, names, processed, pc, pass, todo, file, page, last, history, counters>>

CloseFile(r) ==
    /\ pc[r] = "printing"
    /\ unread[r] = {}
    /\ \/ page[r] # {} /\ Goto(r, "open") /\ UNCHANGED file
       \/ page[r] = {} /\ Goto(r, "truncate") /\ file' = [file EXCEPT ![r] = None]
    /\ UNCHANGED <<koha, disk, pass, todo, page, unread, last, history, counters>>

\* The start file is opened, which empties it, and written.
TruncateCursor(r) ==
    /\ pc[r] = "truncate"
    /\ cursor' = 0
    /\ Goto(r, "cursor")
    /\ UNCHANGED <<koha, exports, dir, names, processed, local, history, counters>>

\* A longer number that another script has written in between keeps its last
\* digits: the start file passes records that neither script has printed.
WriteCursor(r) ==
    /\ pc[r] = "cursor"
    /\ \/ cursor' = last[r] /\ UNCHANGED gone
       \/ /\ cursor > last[r]
          /\ \E c \in Biblios :
                /\ c > last[r]
                /\ cursor' = c
                /\ gone' = gone \union (last[r] + 1 .. c)
    /\ Goto(r, "pass")
    /\ UNCHANGED <<koha, exports, dir, names, processed, local, edits, quiet, counters>>

\* Variant for mutation: the passes go on after the fourth.
EndPassUnchecked(r) ==
    /\ pass' = [pass EXCEPT ![r] = @ + 1]
    /\ Goto(r, "pass")

EndPass(r) ==
    \/ /\ pass[r] < 4
       /\ pass' = [pass EXCEPT ![r] = @ + 1]
       /\ Goto(r, "pass")
    \/ /\ pass[r] = 4
       /\ Goto(r, "list")
       /\ UNCHANGED pass

-----------------------------------------------------------------------------
(* usemarcon_converter.sh *)

\* The files of the language, listed once; without one the pass ends.
ListPass(r) ==
    /\ pc[r] = "pass"
    /\ LET found == {n \in names[Input(r)] : n[2] = PassLanguage(r)}
       IN \/ found = {} /\ EndPass(r) /\ UNCHANGED todo
          \/ /\ found # {}
             /\ todo' = [todo EXCEPT ![r] = found]
             /\ Goto(r, "file")
             /\ UNCHANGED pass
    /\ UNCHANGED <<koha, disk, file, page, unread, last, history, counters>>

\* The loop is over, or its next file is no longer there: either ends the pass.
LeavePass(r) ==
    /\ pc[r] = "file"
    /\ \/ todo[r] = {}
       \/ \E n \in Earliest(todo[r]) : n \notin names[Input(r)]
    /\ todo' = [todo EXCEPT ![r] = {}]
    /\ EndPass(r)
    /\ UNCHANGED <<koha, disk, file, page, unread, last, history, counters>>

\* Runs that have file n of directory s open.
Writers(s, n) ==
    {q \in Runs : pc[q] = "convert" /\ file[q] = n /\ Output(q) = s}
        \union {q \in Runs : pc[q] = "printing" /\ file[q] = n /\ s = "xml"}
Readers(s, n) == {q \in Runs : pc[q] \in {"convert", "move"} /\ file[q] = n /\ Input(q) = s}

\* USEMARCON opens its input and empties its output. A file another run is at
\* work on may be incomplete, or be taken from under it.
Convert(r) ==
    /\ pc[r] = "file"
    /\ \E n \in Earliest(todo[r]) :
        LET in == Input(r)
            out == Output(r)
            others == Writers(in, n) \union Readers(in, n) \union Writers(out, n) \union Readers(out, n)
        IN /\ n \in names[in]
           /\ file' = [file EXCEPT ![r] = n]
           /\ todo' = [todo EXCEPT ![r] = @ \ {n}]
           /\ unread' = [unread EXCEPT ![r] = dir[in][n]]
           /\ dir' = [dir EXCEPT ![out][n] = {}]
           /\ names' = [names EXCEPT ![out] = @ \union {n}]
           /\ gone' = IF others = {} THEN gone
                      ELSE gone \union Numbers(dir["xml"][n] \union dir["isbd"][n] \union dir["rda"][n])
                                \union UNION {Numbers(unread[q]) : q \in others}
    /\ Goto(r, "convert")
    /\ UNCHANGED <<koha, cursor, exports, processed, pass, page, last, edits, quiet, counters>>

ConvertRecord(r) ==
    /\ pc[r] = "convert"
    /\ \E x \in unread[r] :
        /\ \A y \in unread[r] : x[1] <= y[1]
        /\ unread' = [unread EXCEPT ![r] = @ \ {x}]
        /\ dir' = [dir EXCEPT ![Output(r)][file[r]] =
                      IF file[r] \in names[Output(r)] THEN @ \union {x} ELSE @]
    /\ UNCHANGED <<koha, cursor, exports, names, processed, pc, pass, todo, file, page, last, history, counters>>

\* Variant for mutation: the script does not wait for USEMARCON.
ConvertedInBackground(r) ==
    /\ pc[r] = "convert"
    /\ unread' = [unread EXCEPT ![r] = {}]
    /\ Goto(r, "move")
    /\ UNCHANGED <<koha, disk, pass, todo, file, page, last, history, counters>>

Converted(r) ==
    /\ pc[r] = "convert"
    /\ unread[r] = {}
    /\ Goto(r, "move")
    /\ UNCHANGED <<koha, disk, local, history, counters>>

\* USEMARCON breaks off; its status is not looked at.
BreakOff(r) ==
    /\ pc[r] = "convert" /\ unread[r] # {}
    /\ failures < MaxFailures
    /\ failures' = failures + 1
    /\ gone' = gone \union Numbers(unread[r])
    /\ unread' = [unread EXCEPT ![r] = {}]
    /\ Goto(r, "move")
    /\ UNCHANGED <<koha, disk, pass, todo, file, page, last, edits, quiet, crashes, days>>

\* The input is renamed to .processed; if it is gone, mv only complains.
MoveInput(r) ==
    /\ pc[r] = "move"
    /\ dir' = [dir EXCEPT ![Input(r)][file[r]] = {}]
    /\ names' = [names EXCEPT ![Input(r)] = @ \ {file[r]}]
    /\ file' = [file EXCEPT ![r] = None]
    /\ Goto(r, "file")
    /\ UNCHANGED <<koha, cursor, exports, processed, pass, todo, page, unread, last, history, counters>>

-----------------------------------------------------------------------------
(* import_records.pl with --commit *)

ListImport(r) ==
    /\ pc[r] = "list"
    /\ todo' = [todo EXCEPT ![r] = names["rda"]]
    /\ Goto(r, "import")
    /\ UNCHANGED <<koha, disk, pass, file, page, unread, last, history, counters>>

Without(n) ==
    /\ dir' = [dir EXCEPT !["rda"][n] = {}]
    /\ names' = [names EXCEPT !["rda"] = @ \ {n}]

\* A file that is not in processed/ replaces Koha's records and goes there; an
\* empty one is deleted.
ImportFile(r) ==
    /\ pc[r] = "import"
    /\ \E n \in Earliest(todo[r]) :
        /\ todo' = [todo EXCEPT ![r] = @ \ {n}]
        /\ \/ /\ n \in processed
              /\ UNCHANGED <<koha, dir, names, processed, gone>>
           \/ /\ n \in names["rda"] \ processed
              /\ edit' = [b \in Biblios |->
                     IF \E e \in 0 .. MaxEdits : <<b, e>> \in dir["rda"][n]
                     THEN CHOOSE e \in 0 .. MaxEdits : <<b, e>> \in dir["rda"][n] ELSE edit[b]]
              /\ converted' = [b \in Biblios |-> converted[b] \/ b \in Numbers(dir["rda"][n])]
              /\ processed' = IF dir["rda"][n] = {} THEN processed ELSE processed \union {n}
              /\ gone' = gone \union UNION {Numbers(unread[q]) : q \in Writers("rda", n)}
              /\ Without(n)
    /\ UNCHANGED <<cursor, exports, pc, pass, file, page, unread, last, edits, quiet, counters>>

\* All files are done, or one has been taken by another run: the script ends.
Finish(r) ==
    /\ pc[r] = "import"
    /\ \/ todo[r] = {}
       \/ \E n \in Earliest(todo[r]) : n \notin names["rda"] \union processed
    /\ Exit(r)
    /\ UNCHANGED <<koha, disk, history, counters>>

-----------------------------------------------------------------------------
(* Around the script *)

Edit(b) ==
    /\ edits[b] < MaxEdits
    /\ edits' = [edits EXCEPT ![b] = @ + 1]
    /\ edit' = [edit EXCEPT ![b] = edits[b] + 1]
    /\ quiet' = IF \A r \in Runs : pc[r] = "idle" THEN [quiet EXCEPT ![b] = edits[b] + 1] ELSE quiet
    /\ UNCHANGED <<converted, disk, pc, local, gone, counters>>

Crash(r) ==
    /\ pc[r] # "idle"
    /\ crashes < MaxCrashes
    /\ crashes' = crashes + 1
    /\ Exit(r)
    /\ UNCHANGED <<koha, disk, history, failures, days>>

InFiles == UNION {Numbers(dir[s][n]) : s \in Stage, n \in Name}

\* At midnight the script is not running; no later run looks into the old tree.
NewDay ==
    /\ days < MaxDays
    /\ \A r \in Runs : pc[r] = "idle"
    /\ days' = days + 1
    /\ gone' = gone \union InFiles
    /\ dir' = [s \in Stage |-> [n \in Name |-> {}]] /\ names' = [s \in Stage |-> {}]
    /\ processed' = {}
    /\ UNCHANGED <<koha, cursor, exports, pc, local, edits, quiet, crashes, failures>>

Advance(r) ==
    \/ Fetch(r) \/ OpenFile(r) \/ PrintRecord(r) \/ CloseFile(r) \/ TruncateCursor(r) \/ WriteCursor(r)
    \/ ListPass(r) \/ LeavePass(r)
    \/ Convert(r) \/ ConvertRecord(r) \/ Converted(r) \/ MoveInput(r)
    \/ ListImport(r) \/ ImportFile(r) \/ Finish(r)

Next ==
    \/ \E r \in Runs : Start(r) \/ Advance(r) \/ BreakOff(r) \/ Crash(r)
    \/ \E b \in Biblios : Edit(b)
    \/ NewDay

Spec == Init /\ [][Next]_vars

\* A started script runs on, and cron starts the next one.
FairSpec == Spec /\ \A r \in Runs : WF_vars(Advance(r)) /\ WF_vars(Start(r))

-----------------------------------------------------------------------------
TypeOK ==
    /\ edit \in [Biblios -> 0 .. MaxEdits] /\ converted \in [Biblios -> BOOLEAN]
    /\ cursor \in 0 .. MaxBiblio /\ exports \in 0 .. MaxExports
    /\ dir \in [Stage -> [Name -> SUBSET Record]] /\ names \in [Stage -> SUBSET Name]
    /\ processed \subseteq Name
    /\ pc \in [Runs -> Label] /\ pass \in [Runs -> 1 .. 4]
    /\ todo \in [Runs -> SUBSET Name] /\ file \in [Runs -> Name \union {None}]
    /\ page \in [Runs -> SUBSET Record] /\ unread \in [Runs -> SUBSET Record] /\ last \in [Runs -> 0 .. MaxBiblio]
    /\ edits \in [Biblios -> 0 .. MaxEdits] /\ quiet \in [Biblios -> 0 .. MaxEdits]
    /\ gone \subseteq Biblios
    /\ crashes \in 0 .. MaxCrashes /\ failures \in 0 .. MaxFailures /\ days \in 0 .. MaxDays

\* A record the start file has passed is converted or is in a file of today's
\* directories, wherever the script was killed: the start file is written when
\* the page is printed, the input of a conversion goes only when its output is
\* complete, and the passes come in the order of the stages. Otherwise the
\* conversion broke off unnoticed, a kill left the file behind at midnight, two
\* scripts had the file in hand, one of them perhaps still printing it, or both
\* wrote the start file at once.
Accounted == \A b \in 1 .. cursor : converted[b] \/ b \in InFiles \/ b \in gone

\* Of one script: an edit made while it was not going is in Koha, because it
\* imports only what it exported itself and overwrites only edits made meanwhile.
\* A killed script's files are imported by the next one, and so are those that one
\* of two scripts leaves behind when the other has taken a file it had listed.
QuietEditsKept == crashes = 0 => \A b \in Biblios : quiet[b] <= edit[b]

\* Every record is converted in the end, unless a fault has hit it.
EveryRecordConverted == \A b \in Biblios : <>(converted[b] \/ b \in gone)

\* What the script promises of each record, see Conversion. A record is underway
\* in a file or in the hands of a script that converts it; one that is still to
\* be printed waits, and is printed anew if the script is killed.
InHands == UNION {Numbers(unread[r]) : r \in {q \in Runs : pc[q] = "convert"}}

Status(b) ==
    IF converted[b] THEN "converted"
    ELSE IF b \in InFiles \union InHands THEN "underway"
    ELSE IF b > cursor THEN "waiting" ELSE "lost"

Promise == INSTANCE Conversion WITH status <- [b \in Biblios |-> Status(b)]
KeepsPromise == Promise!Spec
=============================================================================
