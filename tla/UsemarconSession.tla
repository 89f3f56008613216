-------------------------- MODULE UsemarconSession --------------------------
(***************************************************************************)
(* The Usemarcon object of usemarconlib.cpp over TUMApplication and        *)
(* TMarcDoc: a program makes settings and calls Convert() again and again, *)
(* on files or on a record in memory. What Initialize() has loaded is kept *)
(* from one call to the next until a setting asks for it to be loaded anew.*)
(*                                                                         *)
(* A record is its number and, once converted, the configuration it was    *)
(* converted with; what the rules do with it is left open. The system may  *)
(* refuse to read or to write, or to open an output; of what a failed      *)
(* write leaves in a file a reader makes any record.                       *)
(***************************************************************************)
EXTENDS Integers, Sequences

CONSTANTS
    Inis,           \* .ini files
    Loadable,       \* those of them that Initialize() can load
    EditConf,       \* those that name a file of tags without indicators
    Files,          \* file names
    Records,        \* records
    Input,          \* Input[f]: the records in file f before the first call
    Unwritable,     \* files that cannot be opened for writing
    Errors,         \* Errors[x]: the errors reported while x is converted
    Unreadable,     \* records at which Read() fails
    MaxErrors,      \* MaxErrorsToBeEncountered, 0 for no limit
    UpdateOrdinal,  \* UpdateOrdinalNumber
    Calls,          \* the operations the program uses
    MaxCalls,       \* bound: operations called
    MaxFaults,      \* bound: failures to read or write
    None            \* NULL

ASSUME IniAssumption == Loadable \subseteq Inis /\ EditConf \subseteq Inis /\ None \notin Inis
\* A file that is not in DOMAIN Input is not there yet.
ASSUME InputAssumption ==
    /\ DOMAIN Input \subseteq Files /\ Unwritable \subseteq Files /\ None \notin Files
    /\ \A f \in DOMAIN Input : Input[f] \in Seq(Records)
ASSUME ErrorsAssumption == Errors \in [Records -> Nat] /\ Unreadable \subseteq Records
ASSUME SettingsAssumption == MaxErrors \in Nat /\ UpdateOrdinal \in BOOLEAN
                             /\ MaxCalls \in Nat /\ MaxFaults \in Nat

VARIABLES
    settings,    \* the settings made, kept by the Usemarcon object
    initialized, \* m_initialized
    record,      \* m_record: None, <<>> for an empty one, or <<item>>
    result,      \* what the last Convert() returned
    loaded,      \* the settings TUMApplication was initialized with
    appRecord,   \* its m_record
    editConf,    \* the file of tags without indicators is still to be read
    tags,        \* the tags without indicators are known
    errors,      \* itsErrorCount
    ordinal,     \* itsOrdinal
    rest,        \* what Read() has still to read
    item,        \* the record in hand
    open,        \* the output is open
    pc,          \* where Convert() is
    files,       \* files[f]: the records in file f, None if it is not there
    iniOrdinal,  \* OrdinalNumber in the .ini files
    given,       \* history: ordinals given to records
    asked,       \* history: m_record when Convert() was called
    input,       \* history: what the conversion had to read when it opened its input
    failed,      \* history: a read or a write of it has failed
    calls,       \* operations called, and failures met so far
    faults

usemarcon == <<settings, initialized, record, result>>
application == <<loaded, appRecord, editConf, tags, errors, ordinal, rest, item, open>>
disk == <<files, iniOrdinal>>
history == <<given, asked, input, failed>>
vars == <<usemarcon, application, pc, disk, history, calls, faults>>

Settings == [ini : Inis \union {None}, override : Nat, plain : BOOLEAN,
             in : Files \union {None}, out : Files \union {None}]
NoSettings == [ini |-> None, override |-> 0, plain |-> FALSE, in |-> None, out |-> None]

\* How a record was converted: the .ini file and overrides, whether without
\* character conversion, whether the tags without indicators were known.
Way == [ini : Inis \union {None}, override : Nat, plain : BOOLEAN, tags : BOOLEAN]
Item == [rec : Records, by : Way \union {None}]
\* NULL is no record, no way to convert one and no buffer.
ASSUME NoneAssumption == None \notin Records /\ None \notin Way /\ None \notin Seq(Item)
IsBuffer(s) == s = None \/ (s \in Seq(Item) /\ Len(s) <= 1)
Raw(x) == [rec |-> x, by |-> None]

Init ==
    /\ settings = NoSettings /\ initialized = FALSE /\ record = None /\ result = 0
    /\ loaded = NoSettings /\ appRecord = None /\ editConf = FALSE /\ tags = FALSE
    /\ errors = 0 /\ ordinal = 0 /\ rest = <<>> /\ item = None /\ open = FALSE
    /\ pc = "idle"
    /\ files = [f \in Files |-> IF f \in DOMAIN Input THEN [k \in DOMAIN Input[f] |-> Raw(Input[f][k])] ELSE None]
    /\ iniOrdinal = [i \in Inis |-> 1]
    /\ given = {} /\ asked = None /\ input = None /\ failed = FALSE /\ calls = 0 /\ faults = 0

-----------------------------------------------------------------------------
(* Settings *)

Call(name) == pc = "idle" /\ name \in Calls /\ calls < MaxCalls /\ calls' = calls + 1 /\ UNCHANGED faults

\* Variant for mutation: the rules of the old .ini file stay loaded.
SetIniFileNameOnly(i) ==
    /\ Call("SetIniFileName")
    /\ settings' = [settings EXCEPT !.ini = i]
    /\ UNCHANGED <<initialized, record, result, application, pc, disk, history>>

SetIniFileName(i) ==
    /\ Call("SetIniFileName")
    /\ settings' = [settings EXCEPT !.ini = i]
    /\ initialized' = (initialized /\ settings.ini = i)
    /\ UNCHANGED <<record, result, application, pc, disk, history>>

\* AddConfigOverride and ClearConfigOverrides: another set of overrides.
SetConfigOverrides(n) ==
    /\ Call("SetConfigOverrides")
    /\ settings' = [settings EXCEPT !.override = n]
    /\ initialized' = FALSE
    /\ UNCHANGED <<record, result, application, pc, disk, history>>

SetDisableCharacterConversion(value) ==
    /\ Call("SetDisableCharacterConversion")
    /\ settings' = [settings EXCEPT !.plain = value]
    /\ UNCHANGED <<initialized, record, result, application, pc, disk, history>>

SetMarcFileNames(in, out) ==
    /\ Call("SetMarcFileNames")
    /\ settings' = [settings EXCEPT !.in = in, !.out = out]
    /\ UNCHANGED <<initialized, record, result, application, pc, disk, history>>

SetMarcRecord(x) ==
    /\ Call("SetMarcRecord")
    /\ record' = <<Raw(x)>>
    /\ UNCHANGED <<settings, initialized, result, application, pc, disk, history>>

-----------------------------------------------------------------------------
(* Usemarcon::Convert *)

\* An initialized application gets the record, and even without one a buffer.
Convert ==
    /\ Call("Convert")
    /\ asked' = record /\ input' = None /\ failed' = FALSE
    /\ \/ /\ ~initialized
          /\ pc' = "initialize"
          /\ UNCHANGED appRecord
       \/ /\ initialized
          /\ appRecord' = IF record = None THEN <<>> ELSE record
          /\ pc' = "open_in"
    /\ UNCHANGED <<usemarcon, loaded, editConf, tags, errors, ordinal, rest, item, open, disk, given>>

Return(res) == result' = res /\ pc' = "idle"

\* The .ini file, its rules and tables are read, the document made anew. A record
\* in memory needs no files.
Initialize ==
    /\ pc = "initialize"
    /\ \/ /\ settings.ini = None
          /\ Return(-1)
          /\ UNCHANGED <<initialized, application>>
       \/ /\ settings.ini # None
          /\ appRecord' = IF record \in {None, <<>>} THEN None ELSE record
          /\ loaded' = settings
          /\ IF settings.ini \in Loadable
                /\ (appRecord' = None => settings.in # None /\ settings.out # None)
             THEN /\ editConf' = (settings.ini \in EditConf)
                  /\ errors' = 0
                  /\ ordinal' = iniOrdinal[settings.ini]
                  /\ initialized' = TRUE
                  /\ pc' = "open_in"
                  /\ UNCHANGED result
             ELSE /\ errors' = 1
                  /\ Return(-1)
                  /\ UNCHANGED <<initialized, editConf, ordinal>>
          /\ UNCHANGED <<tags, rest, item, open>>
    /\ UNCHANGED <<settings, record, disk, history, calls, faults>>

\* TMarcDoc::Reset and Open(INPUT). The name of the file of tags without
\* indicators is used up by the first Open.
OpenInput ==
    /\ pc = "open_in"
    /\ \/ /\ appRecord = None => files[loaded.in] # None
          /\ rest' = IF appRecord # None THEN appRecord ELSE files[loaded.in]
          /\ input' = rest'
          /\ tags' = editConf
          /\ editConf' = FALSE
          /\ pc' = "open_out"
          /\ UNCHANGED <<result, errors>>
       \/ /\ appRecord = None /\ files[loaded.in] = None
          /\ tags' = FALSE
          /\ errors' = errors + 2
          /\ result' = -1
          /\ pc' = "finish"
          /\ UNCHANGED <<rest, editConf, input>>
    /\ UNCHANGED <<settings, initialized, record, loaded, appRecord, ordinal, item, open, disk,
                   given, asked, failed, calls, faults>>

Fault == faults < MaxFaults /\ faults' = faults + 1 /\ failed' = TRUE

\* Open(OUTPUT): a file is emptied, before anything is read from the input, which
\* may be the same file. It cannot be opened, or its header not be written.
OpenOutput ==
    /\ pc = "open_out"
    /\ files' = IF appRecord # None \/ loaded.out \in Unwritable THEN files
                ELSE [files EXCEPT ![loaded.out] = <<>>]
    /\ rest' = IF appRecord = None /\ loaded.in = loaded.out /\ loaded.out \notin Unwritable THEN <<>> ELSE rest
    /\ \/ /\ appRecord # None \/ loaded.out \notin Unwritable
          /\ open' = TRUE
          /\ pc' = "read"
          /\ UNCHANGED <<result, errors, failed, faults>>
       \/ /\ appRecord = None
          /\ \/ loaded.out \in Unwritable /\ errors' = errors + 2 /\ UNCHANGED <<failed, faults>>
             \/ loaded.out \notin Unwritable /\ errors' = errors + 1 /\ Fault
          /\ result' = -1
          /\ pc' = "finish"
          /\ UNCHANGED open
    /\ UNCHANGED <<settings, initialized, record, loaded, appRecord, editConf, tags, ordinal, item,
                   iniOrdinal, given, asked, input, calls>>

WayNow == [ini |-> loaded.ini, override |-> loaded.override, plain |-> loaded.plain, tags |-> tags]

\* Read, Transcode, Convert and ProcessDuplicateFields of the next record. The
\* counters start anew with each record.
ReadAndConvert ==
    /\ pc = "read"
    /\ \/ /\ rest = <<>>
          /\ pc' = "end"
          /\ UNCHANGED <<errors, ordinal, rest, item, given, failed, faults>>
       \/ /\ \/ rest # <<>> /\ Head(rest).rec \in Unreadable /\ UNCHANGED <<failed, faults>>
             \/ appRecord = None /\ Fault
          /\ errors' = errors + 1
          /\ pc' = "end"
          /\ UNCHANGED <<ordinal, rest, item, given>>
       \/ /\ rest # <<>> /\ Head(rest).rec \notin Unreadable
          /\ item' = [rec |-> Head(rest).rec, by |-> WayNow]
          /\ rest' = Tail(rest)
          /\ errors' = Errors[Head(rest).rec]
          /\ given' = given \union {<<loaded.ini, ordinal>>}
          /\ ordinal' = ordinal + 1
          /\ pc' = "write"
          /\ UNCHANGED <<failed, faults>>
    /\ UNCHANGED <<usemarcon, loaded, appRecord, editConf, tags, open, disk, asked, input, calls>>

SaveOrdinal == iniOrdinal' = IF UpdateOrdinal THEN [iniOrdinal EXCEPT ![loaded.ini] = ordinal] ELSE iniOrdinal

\* Variant for mutation: a record with errors is not written.
WrittenIfClean ==
    IF appRecord # None THEN appRecord' = <<item>> /\ UNCHANGED files
    ELSE /\ UNCHANGED appRecord
         /\ files' = IF errors = 0 THEN [files EXCEPT ![loaded.out] = Append(@, item)] ELSE files

\* The record replaces the buffer or goes to the file, errors or not.
Written ==
    IF appRecord # None THEN appRecord' = <<item>> /\ UNCHANGED files
    ELSE UNCHANGED appRecord /\ files' = [files EXCEPT ![loaded.out] = Append(@, item)]

\* A file of which not all was written: it may end in a piece.
Broken(s) == {s} \union {Append(s, Raw(x)) : x \in Records}

TooMany(e) == MaxErrors > 0 /\ e > MaxErrors

\* Variant for mutation: a run that is broken off leaves the ordinal as it was.
GoOnUnsaved(e) ==
    IF TooMany(e)
    THEN errors' = e + 1 /\ result' = -1 /\ pc' = "finish" /\ UNCHANGED iniOrdinal
    ELSE errors' = e /\ pc' = (IF appRecord # None THEN "end" ELSE "read") /\ UNCHANGED <<result, iniOrdinal>>

\* With e errors: the limit is looked at after the record has been written.
GoOn(e) ==
    IF TooMany(e)
    THEN errors' = e + 1 /\ result' = -1 /\ SaveOrdinal /\ pc' = "finish"
    ELSE errors' = e /\ pc' = (IF appRecord # None THEN "end" ELSE "read") /\ UNCHANGED <<result, iniOrdinal>>

\* A failed write is an error of the record, and no more.
Write ==
    /\ pc = "write"
    /\ \/ Written /\ GoOn(errors) /\ UNCHANGED <<failed, faults>>
       \/ /\ appRecord = None /\ Fault
          /\ \E s \in Broken(files[loaded.out]) : files' = [files EXCEPT ![loaded.out] = s]
          /\ GoOn(errors + 1)
          /\ UNCHANGED appRecord
    /\ item' = None
    /\ UNCHANGED <<settings, initialized, record, loaded, editConf, tags, ordinal, rest, open,
                   given, asked, input, calls>>

EndOfInput ==
    /\ pc = "end"
    /\ SaveOrdinal
    /\ result' = 0
    /\ pc' = "finish"
    /\ UNCHANGED <<settings, initialized, record, application, files, history, calls, faults>>

\* Variant for mutation: the record comes back behind the one that was given.
RecordAppended == record' = IF record \in {None, <<>>} THEN record ELSE record \o appRecord

RecordBack == record' = IF record \in {None, <<>>} THEN record ELSE appRecord

\* The record comes back if there was one, and the documents are closed. The last
\* block is written only now; nobody asks whether it was.
Finish ==
    /\ pc = "finish"
    /\ RecordBack
    /\ \/ UNCHANGED <<files, failed, faults>>
       \/ /\ open /\ appRecord = None /\ Fault
          /\ \E k \in 0 .. Len(files[loaded.out]) : \E s \in Broken(SubSeq(files[loaded.out], 1, k)) :
                files' = [files EXCEPT ![loaded.out] = s]
    /\ rest' = <<>> /\ open' = FALSE
    /\ pc' = "idle"
    /\ UNCHANGED <<settings, initialized, result, loaded, appRecord, editConf, tags, errors, ordinal,
                   item, iniOrdinal, given, asked, input, calls>>

Next ==
    \/ \E i \in Inis : SetIniFileName(i)
    \/ \E n \in 0 .. 1 : SetConfigOverrides(n)
    \/ \E value \in BOOLEAN : SetDisableCharacterConversion(value)
    \/ \E in, out \in Files : SetMarcFileNames(in, out)
    \/ \E x \in Records : SetMarcRecord(x)
    \/ Convert \/ Initialize \/ OpenInput \/ OpenOutput \/ ReadAndConvert
    \/ Write \/ EndOfInput \/ Finish

Spec == Init /\ [][Next]_vars

-----------------------------------------------------------------------------
TypeOK ==
    /\ settings \in Settings /\ loaded \in Settings
    /\ initialized \in BOOLEAN /\ editConf \in BOOLEAN /\ tags \in BOOLEAN
    /\ IsBuffer(record) /\ IsBuffer(appRecord) /\ IsBuffer(asked)
    /\ result \in {0, -1} /\ errors \in Nat /\ ordinal \in Nat /\ calls \in 0 .. MaxCalls
    /\ rest \in Seq(Item) /\ item \in Item \union {None}
    /\ pc \in {"idle", "initialize", "open_in", "open_out", "read", "write", "end", "finish"}
    /\ files \in [Files -> Seq(Item) \union {None}] /\ iniOrdinal \in [Inis -> Nat]
    /\ open \in BOOLEAN /\ failed \in BOOLEAN /\ faults \in 0 .. MaxFaults
    /\ given \subseteq Inis \X Nat /\ input \in Seq(Item) \union {None}

\* No record is given an ordinal that another one of the same .ini file was
\* given, over all conversions, broken off or not, and however often the
\* configuration is loaded again.
OrdinalsUnique ==
    UpdateOrdinal /\ pc = "read" => <<loaded.ini, ordinal>> \notin given

\* A record is never converted with rules or overrides that were replaced
\* before Convert() was called.
RulesAreCurrent ==
    pc = "write" => item.by.ini = settings.ini /\ item.by.override = settings.override

\* When Convert() has returned 0, a readable record in memory has been replaced
\* by its conversion, and the output file holds every record of the input file
\* in front of the first unreadable one, those with errors included, unless the
\* system failed to read or write: that Convert() does not tell. Of an input that
\* is the output itself nothing is read, and nothing is left.
Readable(s) == {k \in DOMAIN s : \A j \in 1 .. k : s[j].rec \notin Unreadable}
FileReturned ==
    LET in == IF loaded.in = loaded.out THEN <<>> ELSE input
        out == files[loaded.out]
    IN DOMAIN out = Readable(in) /\ \A k \in Readable(in) : out[k].rec = in[k].rec
ReturnsAll ==
    pc = "idle" /\ result = 0 /\ input # None =>
        IF appRecord = None THEN failed \/ FileReturned
        ELSE asked \notin {None, <<>>} /\ asked[1].rec \notin Unreadable =>
                appRecord[1].rec = asked[1].rec /\ appRecord[1].by # None

\* The example of the interface: "Load and convert a marc record twice - the
\* first conversion will be slower than others because .ini file details are
\* loaded". But for that, an object used again converts as a new one would.
ReusedLikeNew ==
    pc = "write" =>
        item.by = [ini |-> settings.ini, override |-> settings.override,
                   plain |-> settings.plain, tags |-> settings.ini \in EditConf]

=============================================================================
