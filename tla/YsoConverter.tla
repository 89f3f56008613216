---------------------------- MODULE YsoConverter ----------------------------
(***************************************************************************)
(* convert_all_yso.sh and the processes of yso_converter.py it starts, one *)
(* for each exported file (src/Converter/scripts, src/yso-marcbib).        *)
(*                                                                         *)
(* Each process first needs the vocabularies. The first of the day         *)
(* downloads them, parses them and keeps them in vocabularies.pkl, the     *)
(* dump, for the processes after it. The script does not look at a         *)
(* converter's status: the input is renamed to .processed all the same, be *)
(* it that a record was malformed or could not be written.                 *)
(* Nothing keeps two scripts from running at once, with one dump.          *)
(*                                                                         *)
(* A converter that asks a question gets an answer from an operator, or    *)
(* dies of it under cron, where nobody answers. A truncated dump may be    *)
(* read to its end or not (EOFError, UnpicklingError): only the first is   *)
(* caught. Each day has a directory tree of its own. The import, and the   *)
(* vocabularies a truncated download may pass for, are left out.           *)
(***************************************************************************)
EXTENDS YsoFields, FiniteSets

CONSTANTS
    Runs,           \* invocations of the script that may overlap
    Files,          \* names of exported files
    Contents,       \* what may be in them: functions from Files to sequences of records
    MaxCrashes,     \* bound: kills of a script
    MaxFailures,    \* bound: downloads, records and converters that fail
    MaxDays,        \* bound: midnights
    None            \* "no file"

ASSUME BoundsAssumption == MaxCrashes \in Nat /\ MaxFailures \in Nat /\ MaxDays \in Nat
ASSUME NoneAssumption == None \notin Files
ASSUME ContentsAssumption == Contents \subseteq [Files -> Seq(Records)]

VARIABLES
    content,    \* content[f]: the records of file f
    exported,   \* files exported so far
    xml,        \* files in today's xml/
    out,        \* out[f]: the file in today's yso/, and which records of f are in it
    dump,       \* vocabularies.pkl: its state, and the day it was written
    turtle,     \* the downloaded vocabulary files
    day,
    pc,         \* pc[r]: where script r is
    todo,       \* todo[r]: files its loop has not come to
    file,       \* file[r]: the file in hand
    at,         \* at[r]: the next record of it
    converted,  \* history: files converted whole
    gone,       \* history: files renamed unconverted, or left behind at midnight
    losses,     \* history: files renamed unconverted, each with the day
    spoilt,     \* history: files of which a record failed
    faultyDays, \* history: days with a kill, vocabularies that failed, or two scripts at once
    crashes, failures

disk == <<exported, xml, out, dump, turtle>>
local == <<todo, file, at>>
history == <<converted, gone, losses, spoilt, faultyDays>>
counters == <<crashes, failures>>
vars == <<content, disk, day, pc, local, history, counters>>

Label == {"idle", "next", "check", "load", "download", "fetch", "parse", "dump", "dumping",
          "dumped", "open", "record", "rename"}
NoOutput == [exists |-> FALSE, closed |-> FALSE, recs |-> {}]

Init ==
    /\ content \in Contents
    /\ exported = {} /\ xml = {} /\ out = [f \in Files |-> NoOutput]
    /\ dump = [state |-> "none", day |-> 0] /\ turtle = "none"
    /\ day = 0
    /\ pc = [r \in Runs |-> "idle"]
    /\ todo = [r \in Runs |-> {}] /\ file = [r \in Runs |-> None] /\ at = [r \in Runs |-> 1]
    /\ converted = {} /\ gone = {} /\ losses = {} /\ spoilt = {} /\ faultyDays = {}
    /\ crashes = 0 /\ failures = 0

Goto(r, label) == pc' = [pc EXCEPT ![r] = label]
Step(r, from, to) == pc[r] = from /\ Goto(r, to)
Others(r, labels) == {q \in Runs \ {r} : pc[q] \in labels}

\* Variant for mutation: the file in hand is not forgotten.
ExitWithFile(r) ==
    /\ Goto(r, "idle")
    /\ todo' = [todo EXCEPT ![r] = {}]
    /\ UNCHANGED <<file, at>>

Exit(r) ==
    /\ Goto(r, "idle")
    /\ todo' = [todo EXCEPT ![r] = {}] /\ file' = [file EXCEPT ![r] = None]
    /\ at' = [at EXCEPT ![r] = 1]

-----------------------------------------------------------------------------
(* convert_all_yso.sh *)

\* The next page is exported, and the files of xml/ are listed.
Start(r) ==
    /\ pc[r] = "idle"
    /\ \/ /\ exported = Files
          /\ UNCHANGED <<exported, xml>>
       \/ \E f \in Files \ exported :
             exported' = exported \union {f} /\ xml' = xml \union {f}
    /\ todo' = [todo EXCEPT ![r] = xml']
    /\ faultyDays' = faultyDays \union IF \A q \in Runs : pc[q] = "idle" THEN {} ELSE {day}
    /\ Goto(r, "next")
    /\ UNCHANGED <<content, out, dump, turtle, day, file, at, converted, gone, losses, spoilt, counters>>

\* A file that another script has renamed ends the loop.
Take(r) ==
    /\ pc[r] = "next"
    /\ \E f \in todo[r] :
        \/ /\ f \in xml
           /\ todo' = [todo EXCEPT ![r] = @ \ {f}] /\ file' = [file EXCEPT ![r] = f]
           /\ Goto(r, "check")
           /\ UNCHANGED at
        \/ /\ f \notin xml
           /\ Exit(r)
    /\ UNCHANGED <<content, disk, day, history, counters>>

Finish(r) ==
    /\ pc[r] = "next"
    /\ todo[r] = {}
    /\ Exit(r)
    /\ UNCHANGED <<content, disk, day, history, counters>>

\* Every record of the file that can be converted is in an output that was closed.
Whole(f) ==
    /\ out[f].closed
    /\ out[f].recs = {i \in DOMAIN content[f] : ConvertibleRecord(content[f][i])}

\* Variant for mutation: the input goes only if it was converted.
RenameIfWhole(r) ==
    /\ Step(r, "rename", "next")
    /\ LET f == file[r]
       IN IF Whole(f)
          THEN xml' = xml \ {f} /\ converted' = converted \union {f}
          ELSE UNCHANGED <<xml, converted>>
    /\ file' = [file EXCEPT ![r] = None] /\ at' = [at EXCEPT ![r] = 1]
    /\ UNCHANGED <<content, exported, out, dump, turtle, day, todo, gone, losses, spoilt, faultyDays, counters>>

\* The input goes, whatever has become of the converter.
Rename(r) ==
    /\ Step(r, "rename", "next")
    /\ LET f == file[r]
       IN /\ xml' = xml \ {f}
          /\ \/ /\ Whole(f)
                /\ converted' = converted \union {f}
                /\ UNCHANGED <<gone, losses>>
             \/ /\ ~ Whole(f)
                /\ gone' = gone \union {f}
                /\ losses' = losses \union {<<f, day>>}
                /\ UNCHANGED converted
    /\ file' = [file EXCEPT ![r] = None] /\ at' = [at EXCEPT ![r] = 1]
    /\ UNCHANGED <<content, exported, out, dump, turtle, day, todo, spoilt, faultyDays, counters>>

-----------------------------------------------------------------------------
(* yso_converter.py: the vocabularies *)

\* The input has to be there; an output that is there is asked about.
CheckFiles(r) ==
    /\ pc[r] = "check"
    /\ \/ file[r] \in xml /\ Goto(r, "load")
       \/ (file[r] \notin xml \/ out[file[r]].exists) /\ Goto(r, "rename")
    /\ UNCHANGED <<content, disk, day, local, history, counters>>

\* Variant for mutation: the date of the dump is not looked at.
LoadAnyDump(r) ==
    /\ pc[r] = "load"
    /\ \/ dump.state \in {"whole", "mixed"} /\ Goto(r, "open")
       \/ dump.state # "whole" /\ Goto(r, "download")
       \/ dump.state \in {"cut", "mixed"} /\ Goto(r, "rename")
    /\ UNCHANGED <<content, disk, day, local, history, counters>>

\* Today's dump is taken if it can be read; the process dies of one that is
\* neither whole nor at its end.
LoadDump(r) ==
    /\ pc[r] = "load"
    /\ LET state == IF dump.day = day THEN dump.state ELSE "none"
       IN \/ state \in {"whole", "mixed"} /\ Goto(r, "open")
          \/ state # "whole" /\ Goto(r, "download")
          \/ state \in {"cut", "mixed"} /\ Goto(r, "rename")
    /\ UNCHANGED <<content, disk, day, local, history, counters>>

BeginDownload(r) ==
    /\ Step(r, "download", "fetch")
    /\ turtle' = "cut"
    /\ UNCHANGED <<content, exported, xml, out, dump, day, local, history, counters>>

EndDownload(r) ==
    /\ Step(r, "fetch", "parse")
    /\ turtle' = IF Others(r, {"fetch"}) = {} THEN "whole" ELSE "cut"
    /\ UNCHANGED <<content, exported, xml, out, dump, day, local, history, counters>>

\* The files of an earlier day are used, or the process ends here.
DownloadFails(r) ==
    /\ pc[r] = "download"
    /\ failures < MaxFailures
    /\ failures' = failures + 1
    /\ faultyDays' = faultyDays \union {day}
    /\ Goto(r, "parse") \/ Goto(r, "rename")
    /\ UNCHANGED <<content, disk, day, local, converted, gone, losses, spoilt, crashes>>

\* An exception that nothing catches, such as that of a full disk, ends the
\* process among the vocabularies.
ConverterDies(r) ==
    /\ pc[r] \in {"fetch", "parse", "dump", "dumping", "dumped", "open"}
    /\ failures < MaxFailures
    /\ failures' = failures + 1
    /\ faultyDays' = faultyDays \union {day}
    /\ Goto(r, "rename")
    /\ UNCHANGED <<content, disk, day, local, converted, gone, losses, spoilt, crashes>>

Parse(r) ==
    /\ pc[r] = "parse"
    /\ Goto(r, IF turtle = "whole" THEN "dump" ELSE "rename")
    /\ UNCHANGED <<content, disk, day, local, history, counters>>

\* Two processes that write the dump at once spoil it.
OpenDump(r) ==
    /\ Step(r, "dump", "dumping")
    /\ dump' = [state |-> IF Others(r, {"dumping", "dumped"}) = {} THEN "empty" ELSE "mixed", day |-> day]
    /\ UNCHANGED <<content, exported, xml, out, turtle, day, local, history, counters>>

WriteDump(r) ==
    /\ Step(r, "dumping", "dumped")
    /\ dump' = [dump EXCEPT !.state = IF @ = "mixed" THEN "mixed" ELSE "cut"]
    /\ UNCHANGED <<content, exported, xml, out, turtle, day, local, history, counters>>

CloseDump(r) ==
    /\ Step(r, "dumped", "open")
    /\ dump' = [dump EXCEPT !.state = IF @ = "mixed" THEN "mixed" ELSE "whole"]
    /\ UNCHANGED <<content, exported, xml, out, turtle, day, local, history, counters>>

-----------------------------------------------------------------------------
(* yso_converter.py: the records *)

\* The output is emptied, before the input turns out to be gone.
OpenOutput(r) ==
    /\ pc[r] = "open"
    /\ out' = [out EXCEPT ![file[r]] = [exists |-> TRUE, closed |-> FALSE, recs |-> {}]]
    /\ Goto(r, IF file[r] \in xml THEN "record" ELSE "rename")
    /\ UNCHANGED <<content, exported, xml, dump, turtle, day, local, history, counters>>

\* A record with nothing to convert is not written (--write_all is not given).
\* Two converters write one file each from its own position, so that a record
\* the second has cut off is missing, and one both have written is there once.
read_and_write_record(r) ==
    /\ pc[r] = "record"
    /\ at[r] <= Len(content[file[r]])
    /\ out' = IF ConvertibleRecord(content[file[r]][at[r]])
              THEN [out EXCEPT ![file[r]].recs = @ \union {at[r]}] ELSE out
    /\ at' = [at EXCEPT ![r] = @ + 1]
    /\ UNCHANGED <<content, exported, xml, dump, turtle, day, pc, todo, file, history, counters>>

\* What is written of a file: process_record's results, beside their originals.
Written(f) ==
    LET Entered(rec, result) == [old |-> rec, new |-> result.rec, rows |-> result.rows]
    IN {Entered(content[f][i], process_record(content[f][i])) : i \in out[f].recs}

CloseOutput(r) ==
    /\ Step(r, "record", "rename")
    /\ at[r] > Len(content[file[r]])
    /\ out' = [out EXCEPT ![file[r]].closed = TRUE]
    /\ UNCHANGED <<content, exported, xml, dump, turtle, day, local, history, counters>>

\* Reading ends at what is not MARCXML; the output is closed without the rest.
ReadingBreaksOff(r) ==
    /\ out' = [out EXCEPT ![file[r]].closed = TRUE]
    /\ Goto(r, "rename")
    /\ UNCHANGED at

\* An exception that is not caught ends the process, its output left open.
RecordKills(r) ==
    /\ Goto(r, "rename")
    /\ UNCHANGED <<out, at>>

\* A new record that cannot be written is left out.
RecordNotWritten(r) ==
    /\ at[r] <= Len(content[file[r]])
    /\ at' = [at EXCEPT ![r] = @ + 1]
    /\ UNCHANGED <<out, pc>>

RecordFails(r) ==
    /\ pc[r] = "record"
    /\ failures < MaxFailures
    /\ failures' = failures + 1
    /\ spoilt' = spoilt \union {file[r]}
    /\ ReadingBreaksOff(r) \/ RecordKills(r) \/ RecordNotWritten(r)
    /\ UNCHANGED <<content, exported, xml, dump, turtle, day, todo, file, converted, gone, losses,
                   faultyDays, crashes>>

-----------------------------------------------------------------------------
(* Around the script *)

\* The script and its converter are killed.
Crash(r) ==
    /\ pc[r] # "idle"
    /\ crashes < MaxCrashes
    /\ crashes' = crashes + 1
    /\ faultyDays' = faultyDays \union {day}
    /\ Exit(r)
    /\ UNCHANGED <<content, disk, day, converted, gone, losses, spoilt, failures>>

NewDay ==
    /\ day < MaxDays
    /\ \A r \in Runs : pc[r] = "idle"
    /\ day' = day + 1
    /\ gone' = gone \union xml
    /\ xml' = {} /\ out' = [f \in Files |-> NoOutput]
    /\ UNCHANGED <<content, exported, dump, turtle, pc, local, converted, losses, spoilt, faultyDays, counters>>

Advance(r) ==
    \/ Take(r) \/ Finish(r) \/ Rename(r)
    \/ CheckFiles(r) \/ LoadDump(r) \/ BeginDownload(r) \/ EndDownload(r) \/ Parse(r)
    \/ OpenDump(r) \/ WriteDump(r) \/ CloseDump(r)
    \/ OpenOutput(r) \/ read_and_write_record(r) \/ CloseOutput(r)

Next ==
    \/ \E r \in Runs : Start(r) \/ Advance(r) \/ Crash(r)
    \/ \E r \in Runs : DownloadFails(r) \/ ConverterDies(r) \/ RecordFails(r)
    \/ NewDay

Spec == Init /\ [][Next]_vars

-----------------------------------------------------------------------------
(* Properties *)

\* The vocabularies, the files and the scripts keep to their states.
TypeOK ==
    /\ exported \subseteq Files /\ xml \subseteq exported
    /\ \A f \in Files : DOMAIN out[f] = DOMAIN NoOutput /\ out[f].recs \subseteq DOMAIN content[f]
    /\ dump.state \in {"none", "empty", "cut", "mixed", "whole"} /\ dump.day \in 0..day
    /\ turtle \in {"none", "cut", "whole"}
    /\ day \in 0..MaxDays
    /\ \A r \in Runs :
          /\ pc[r] \in Label /\ todo[r] \subseteq exported
          /\ (file[r] = None) = (pc[r] \in {"idle", "next"})
          /\ at[r] \in 1..(1 + IF file[r] = None THEN 0 ELSE Len(content[file[r]]))
    /\ converted \union gone \union spoilt \subseteq exported
    /\ losses \subseteq exported \X (0..day) /\ faultyDays \subseteq 0..day
    /\ crashes \in 0..MaxCrashes /\ failures \in 0..MaxFailures

\* The terms of a field that the converter deals with. It drops without a word
\* the other subfields of a 385 or 567, a 567 with a code that is neither YSA's
\* nor Allars's beside one to convert, or with an empty $a, and the first terms of
\* a 648 with periods (process_field).
Promised(f) ==
    LET drops == /\ f.tag = "567" /\ VocabularyCode(f) # ""
                 /\ \E v \in Values(f.subs, "2") : v \notin {"ysa", "allars"}
        codes == CASE f.tag = "385" -> {"a"}
                   [] f.tag = "567" -> IF Has(f.subs, "b") THEN {"b"}
                                        ELSE IF Filled(f.subs, "a") THEN {"a"} ELSE {}
                   [] OTHER -> {s.code : s \in ToSet(Letters(f.subs))}
        told == {s \in ToSet(f.subs) : s.code \in codes}
    IN IF drops THEN {}
       ELSE {s.value : s \in
               {s \in told : f.tag = "648" /\ f.ind[1] = "1" => s.code # "a" \/ s.value \in Numeric}}

\* What may stand for a term: itself, its name in SLM, a chain it is in.
Stands(t) ==
    {t} \union {Chains[c] : c \in {d \in DOMAIN Chains : t \in ToSet(d)}}
        \union IF t = "kokoelmat" THEN {"kokoomateokset"} ELSE {}

AllFields(rec) == UNION {ToSet(rec.fields[tag]) : tag \in DOMAIN rec.fields}
Terms(fields) == {s.value : s \in UNION {ToSet(Letters(f.subs)) : f \in fields}}
AllWritten == UNION {Written(f) : f \in Files}

\* No term is lost: a term of a converted field is in a field of the new record
\* or in the check log, whatever was split, moved, sorted and taken for double.
TermsAccounted ==
    \A w \in AllWritten :
        LET kept == Terms(AllFields(w.new)) \union {row[2] : row \in w.rows}
        IN \A f \in {g \in AllFields(w.old) : Processed(g)} :
             \A t \in Promised(f) : Stands(t) \intersect kept # {}

\* A field without a code to convert outlives the conversion, or a field that is
\* the same but for indicators, $0, $8 and $9 does: a tag whose fields are put in
\* order anew gets its own fields back (process_record: original_fields).
UncodedFieldsKept ==
    LET Bare(f) == Without(f.subs, {"0", "8", "9"})
    IN \A w \in AllWritten :
         \A f \in AllFields(w.old) : ~ Processed(f) =>
            \E g \in ToSet(w.new.fields[f.tag]) : is_equal_field(Bare(f), Bare(g))

\* A file is renamed without having been converted only if a record of its own
\* failed, or on a day with a kill, vocabularies that failed, or two scripts at
\* once. A malformed record costs no other file, and what is wrong with the
\* vocabularies is over at midnight (vocabularies.pkl, convert_all_yso.sh: mv).
LostOnlyOnFaultyDays == \A l \in losses : l[1] \in spoilt \/ l[2] \in faultyDays

\* Every exported file is converted, or given up at some point.
EveryFileDealtWith ==
    \A f \in Files : f \in exported ~> f \in converted \union gone

\* A started script runs on, and cron starts the next one.
FairSpec == Spec /\ \A r \in Runs : WF_vars(Advance(r)) /\ WF_vars(Start(r))
=============================================================================
