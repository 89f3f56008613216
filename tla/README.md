# Verification of the KohaSuomi MARC conversion tool

The repository converts the bibliographic records of a Koha library system:
records are exported from Koha's database, converted to ISBD punctuation and to
RDA by the C++ program USEMARCON (or to YSO subject headings by a Python
program), and imported back over the records they came from. This directory
holds TLA+ models of that code, the TLC runs that check them on small
instances, and TLAPS proofs about them.

How to run: `tlc -config MCExport_one.cfg MCExport` checks one run (every `.cfg`
is named after its MC module and its run), `tlapm ExportProofs.tla` checks the
proofs of one module. `PROJECT.json` lists the runs, what each property would
catch (a mutant of the code for each), the source lines every definition
stands for, the hazards, the findings and the theorems.

## The system

| component | code | state it keeps | operations | interacts with |
|---|---|---|---|---|
| Export | `Converter/scripts/print_marcs.pl`, `Modules/Chunker.pm` | `start_biblionumber.txt` (the cursor), xml files, the Chunker's position | read cursor, fetch a chunk, split fi/sv, write files, write cursor | Koha's database, the conversion stages through files |
| Conversion stage | `Converter/scripts/usemarcon_converter.sh` | input, output and `.processed` files | one pass over `*_LANG.xml` | runs USEMARCON on each file |
| Pipelines | `Converter/scripts/convert_all_rda.sh`, `convert_all_yso.sh` | the day's directory tree | export, four conversion passes (or the YSO loop), import | all of the above, other cron jobs |
| Koha import | `Converter/scripts/import_records.pl`, `Modules/KohaImporter.pm` | import directory, `processed/`, Koha's import batches and catalog, broadcast log | find batch, stage, match, commit, revert, log, move, delete | Koha's batch API |
| USEMARCON session | `usemarcon/library/usemarconlib.cpp`, `tmpplctn.cpp`, `program/usemarcon.cpp` | the API object, its application object, open documents, counters, ordinal | set files or record, Initialize, Convert, End | everything below |
| Record files | `marcfile.cpp`, `tfile.cpp`, `tmarcdoc.cpp`, `chckfile.cpp`, `trnsfile.cpp` | block buffers, positions, XML state | Open, Read, Write, Close, tables | file system |
| Records | `tmarcrec.cpp`, `mrcfield.cpp`, `umrecord.cpp`, `tcd.cpp`, `tcdlib.cpp`, `codedata.cpp` | fields, the texts and scripts of linked fields, the list of CDs | parse, print, ToCD, InsertCDLib, sort, merge and separate linked fields, remove duplicates | rules |
| Rules | `rulefile.cpp`, `trule.cpp`, `truledoc.cpp`, `lien_not.cpp`, `analyse.y/.l`, `semi.cpp`, `regexp.cpp`, `stringtable.cpp` | rule list, condition groups, table caches | load, convert in rule or in field order, evaluate | records |
| Errors | `statemanager.cpp`, `error.h`, `typedef.cpp` | error code, counters, messages | SetErrorCode, ResetCounters | every USEMARCON component |
| YSO conversion | `convert_all_yso.sh`, `yso-marcbib/*.py` | downloaded vocabularies, their dump of the day, the output file, the check log | download, parse, dump, load, convert each record's subject fields | Finto, files, a second copy of itself |

A converted record has passed through all of them: cron starts
`convert_all_rda.sh`, which calls `print_marcs.pl` (Export), the conversion
stage four times (ISBD and RDA, each for Finnish and Swedish), each pass
starting USEMARCON once per file, and `import_records.pl` (Koha import). The
scripts know of each other only through files, their names and the directory
they lie in; USEMARCON's classes call each other directly.

### What is hard about it

- *Crashes.* Every script may be killed at every statement, and the next run
  finds the files, the start file and the `staged` batches it left.
- *Overlap.* `convert_all_rda.sh` waits for other jobs, not for a second copy of
  itself; two importers, or two exporters, then work on the same files.
- *Order.* The start file, the four passes and the renaming to `.processed` are
  each right only in one order; a rule table's result hangs on the order in
  which the CDs are walked, and on what a rule inserts under the walk.
- *Stale state.* The import overwrites what was edited since the export; an
  object that converts twice keeps what the first conversion loaded, and loses
  what it used up; the walk over the CDs uses pointers to CDs a rule may delete.
- *Partial failure.* USEMARCON may break off, at the error limit or at an
  unreadable record, and the YSO converter may die of a vocabulary it cannot
  read; nobody looks at their status, the input is renamed all the same.
- *Lists that change under a loop.* Merging linked fields deletes the field the
  next step begins with; the loops over duplicates remove what they stand on.
- *Boundaries.* Blocks of ISO 2709 files, pages of the export, seconds in file
  names, midnight.

### What makes each component correct

| component | correct if | stated as |
|---|---|---|
| Export | the start file never passes a record that is in no file; a record is printed once, and once more per crash; each is printed in the end | `PassedIsPrinted`, `PrintedOncePerCrash`, `EveryRecordPrinted` |
| Pipelines | a record the start file has passed is converted, on its way, or was hit by a fault that can be named; only edits made while the script ran are lost | `Accounted`, `KeepsPromise`, `QuietEditsKept`, `EveryRecordConverted` |
| Koha import | each file is imported once, and once more per crash; it only replaces; what is in `processed/` was written; what is deleted was empty, or was committed or reverted in vain | `ImportedOnce`, `OnlyReplaces`, `ProcessedIsComplete`, `DeletedWithoutEffect` |
| USEMARCON session | a 0 means that every readable record was converted, with the rules that are set, unless the system failed or the output is the input; no ordinal is given twice | `ReturnsAll`, `RulesAreCurrent`, `OrdinalsUnique` |
| Record files | what is read is what was written, in order, to the end, or an error; the control words lead through the blocks | `IsRecordFile`, `FailsOnlyAtBlockEnd`, `BlocksFollowScws` |
| Rule engine | every text is offered to the rules, no CD twice; fields come out whole and once; what no rule speaks of comes out as it was; a CD in use is deleted only by tables of one kind | `UnseenOnlyBehind`, `NeverBack`, `FieldsRebuilt`, `OthersAsIs`, `FreedOnlyByRewriting` |
| Rule loading | a table with `#include` and `#if` gives the rules and groups its text says | planned |
| Linked and duplicate fields | a linked field comes back as it was, except where it can be said why not; of fields or subfields that count as equal one stays | `LinksComeBack`, `OneOfEachStays` |
| YSO conversion | each term is in the new record or in the check log; a field that was not to be converted stays; a file is lost only with a record of its own that failed, or on a day on which something went wrong; each file is dealt with | `TermsAccounted`, `UncodedFieldsKept`, `LostOnlyOnFaultyDays`, `EveryFileDealtWith` |

## Plan

The order follows what a fault costs the library: lost or doubled records
first, then wrong conversions, then wrong data.

| # | modules | models | composes / refines | state |
|---|---|---|---|---|
| 1 | `KohaImport`, `KohaImportProofs` | importer, Koha's batches | | done, proved |
| 2 | `Export`, `ExportProofs` | exporter, start file | | done, proved |
| 3 | `Pipeline`, `Conversion`, `PipelineProofs` | script, passes, directories | takes Export and KohaImport for what they show; implements `Conversion` | done, proved |
| 4 | `UsemarconSession`, `UsemarconSessionProofs` | the API object and its conversions | | done, proved |
| 5 | `SegmentedFile`, `RecordFile`, `SegmentedFileProofs` | ISO 2709 files in blocks | implements `RecordFile` | done, proved |
| 6 | `RuleEngine`, `RuleEngineProofs` | one record in field order | | done, proved but for `InRecordOrder` |
| 7 | `YsoFields`, `YsoConverter`, `YsoConverterProofs` | a record's subject fields; the script, its converters and the dump of the day | `YsoConverter` takes a file's records through `YsoFields` | done, proved |
| 8 | `RecordPasses`, `RecordPassesProofs` | merging and separating 880 fields, `ProcessDuplicateFields` | what `TMarcDoc::Convert` does around `RuleEngine` | done, proved but for `LinksComeBack` |
| 9 | `RuleFileLoad` | `OpenRuleFile`, `#include`, `#if`, `TRule::FromString` | gives `RuleEngine` its tables and groups | next |
| 10 | rule order in `RuleEngine` | `ConvertInRuleOrder`, the loop of `Evaluate_Rule`, the occurrences `n`, `no`, `nto`, `nso`, `newest`, sort instructions | agrees with field order where the manual says so | next |

Theorems still worth proving: that joined texts are in the record's order
(`InRecordOrder`), from an account of what a rule for a whole field has written
ahead of the walk; that linked fields come back (`LinksComeBack`).

Abstract specifications: `Conversion` (what the pipeline promises of a record)
and `RecordFile` (what a file promises its reader). The rule engine has none: the
manual describes it by its algorithm.

## The modules

### KohaImport: `import_records.pl`, `Modules/KohaImporter.pm`

Each element of `Runs` is an importer process, started again whenever it has
ended. `pc[r]` is the statement it is at; one action is one statement that
reads or changes what others see: listing the directory (`Start`), taking the
earliest file not in `processed/` (`NextFile`), looking for a `staged` batch of
that file name (`findImportedBatchByFileName`), staging, matching, the two
actions that are set on the batch one after the other (`SetOverlayAction`,
`SetNoMatchAction`), the commit record by record (`BeginCommit`, `CommitRecord`,
`EndCommit`), `revertRecords`, the broadcast log, and `move_file`, `Unlink` or
`Die` when another run has taken the file. `Crash` loses all a process holds and
nothing else. Koha's batch API is not in the repository: `Batch`, `Status`,
`Action`, `ActionOf` and `CommitRecord` are external, modelled from the calls
the importer makes and the values it passes.

Run `koha_import` checks all the safety properties and that every listed file
is dealt with. `MCKohaImport` starts one importer or both (`active`):

- One importer, three files (fi, sv, one without records), three times a file
  is written, one crash; the command lines of the script (`--commit`, with a
  limit of one record, with `--revert`) in any order.
- Two importers with the script's command line on two files, no crash. Records
  are added only when one of them finds the batch the other is still matching.

`overlapped` remembers that two importers were at work at once. `ImportedOnce`,
`OnlyReplaces` and `DeletedWithoutEffect` speak of what happens without that: an
overlapping importer imports a file again, and may delete a file whose records
the other one has just committed. With two crashes and a revert between them a
file goes although its first commit, which a crash cut short, is in the catalog:
hence `DeletedWithoutEffect` counts the imports of a deleted file against the
crashes.

Bounds: a file can interfere with its sibling of the same export, with its own
earlier import and with an empty file: that is three files and three
arrivals. One crash reaches every statement; the theorems have no bound on any
of these.

### Export: `print_marcs.pl`, `Modules/Chunker.pm`

`Runs` are exporters, `cursor` the start file (0 when empty or missing), `files`
what was printed under a name of a second and a language. A run reads the start
file, fetches a page, prints the Finnish and the Swedish file record by record,
empties the start file (`TruncateCursor`, the opening for writing) and writes it
(`WriteCursor`, the close). `AddBiblio` and `StoreMarc` give out a biblionumber
and store its record; between them another record with a higher number may be
stored, whose export then passes the first (`late`). `Kind` says what the code
makes of a record: Finnish, Swedish, RDA, dropped by the Chunker or dying in
printing.

- `export_one`: four records, one of each interesting kind, pages of two, seven
  seconds, one crash. Safety and that every record is printed.
- `export_stuck` (violation): a page of which nothing can be printed leaves the
  start file where it is, and no later record is ever printed.

Taken for granted, because the scripts do: a started Perl process takes more
than a second, so each run's files have a second of their own when only one
exporter runs; the SELECT, which has no ORDER BY, returns rows by biblionumber;
records are not deleted. `CHECK_DEADLOCK FALSE`: the clock is bounded.

### Pipeline and Conversion: `convert_all_rda.sh`, `usemarcon_converter.sh`

`dir[s][n]` holds the records of file `n` in today's directory `s` (`xml`, `isbd`,
`rda`), with the edit each was exported with. A run is: the export (`Fetch`, for each
language `OpenFile`, `PrintRecord`, `CloseFile`, then `TruncateCursor`, `WriteCursor`),
four passes (`ListPass`, then for every listed file `Convert`, `ConvertRecord`,
`Converted` or `BreakOff`, `MoveInput`), `ListImport`, `ImportFile`. Cataloguers `Edit`, the
script may `Crash`, `NewDay` starts a new directory tree.

A file is in `xml/` from `OpenFile` on, empty, and its records come one by one: another
script's pass may list it, convert what is in it by then, and rename it, after which
what is still printed to it is in no directory. The start file is empty between
`TruncateCursor` and `WriteCursor`, where another script may read it or write a number
of its own; of a longer number the last digits stay behind a shorter one.

`gone` remembers the records hit by a fault that can be named: a conversion that broke
off, a kill before midnight, two runs with one file in hand (one of them may still be
printing it), a start file two runs have written at once. A conversion has of its input what was in
it when it was opened. Exports begin in different seconds, so that each has files of its
own; two in one second, which write one file, are in `Export` only, whose properties
except them. Import is one step, because `ProcessedIsComplete` shows that what is moved
away was imported. The script does not run across midnight in the model.

Run `pipeline` checks two schedules (`alone` and `active` of `MCPipeline`): one script,
three records, pages of two, four exports, one edit of the first and of the third
record, one crash, one conversion that breaks off, one midnight; or two scripts
overlapping at every statement, undisturbed, one of which is started once. The second
record shares its page with the first and is in the same files; with it two records of a file,
one edited and one not, are told apart.

`KeepsPromise` says that every step is a step of `Conversion`, or stutters, for
each record: it waits, is underway, is converted, and only a fault takes it
back or loses it. (A record that a fault has hit may be lost and wait again more
than once: of two overlapping scripts the slower one sets the start file back.)
`Accounted` and `KeepsPromise` hold for any number of scripts, see Proofs. `CHECK_DEADLOCK FALSE`: exports and edits are bounded.
`convert_all_yso.sh`, whose one stage is a program with states of its own, is in
`YsoConverter`.

### UsemarconSession: `usemarconlib.cpp`, `tmpplctn.cpp`, `tmarcdoc.cpp`

The program makes settings (`SetIniFileName`, `SetConfigOverrides`,
`SetDisableCharacterConversion`, `SetMarcFileNames`, `SetMarcRecord`) and calls
`Convert` in any order. `initialized` and `loaded` tell what the last `Initialize`
loaded; `editConf` that the file of tags without indicators is still to be read
and `tags` that it was. A record is its number and the way it was converted
(`Way`): the .ini file, the overrides, with or without character conversion,
tags known or not. `ReadAndConvert`, `Write`, `EndOfInput` and `Finish` are the loop
with its early returns; `ordinal` and `iniOrdinal` are the number in memory and
in the .ini file.

`files` is the file system, with what was in it before the first call and what the
conversions have written: an output may be the input of a later conversion, or of the same one.
`OpenOutput` empties it before anything is read. An output that cannot be opened
(`Unwritable`) ends the call with -1. A `Fault` is a read or a write that the system
refuses: reading stops as at an unreadable record, a record is not written or written in
part (`Broken`), or the blocks still in memory are lost in `Finish`, and the header of a file
cannot be written in `OpenOutput`. Only the last of these makes `Convert()` return an
error; a failed write counts as an error of the record. `failed` remembers that there was one.

`ReturnsAll` therefore promises the records of a call that returned 0 only if nothing
`failed`; and of a call whose output is its input that nothing is left, which is what such
a call makes of the file.

- `session_calls`: any six calls, over two configurations and one that cannot be
  loaded, two input files (one with an unreadable record, one that cannot be written),
  a third file, records with none, one and two errors at a limit of one, one fault.
- `session_reuse` (violation): the calls of the example in `program/usemarcon.cpp`;
  the second conversion does not know the tags without indicators.

Six calls are enough for two conversions with every setting changed between
them. `CHECK_DEADLOCK FALSE`: calls are bounded.

### SegmentedFile and RecordFile: `marcfile.cpp`

The file is written record by record and piece by piece, closed, and read with
the same attributes; `PosCour`, `NumBloc` and `block_end` are the code's own. A
byte is told apart by the record and place it comes from, or by the SCW it
belongs to, so that a wrong length, a lost SCW or a record taken from the wrong
place shows. After an unsigned subtraction has wrapped round (`overrun`) the
model stops.

- `segmented_roundtrip`: up to three records, lengths that put a beginning or an
  end at every place near a block's end of 18 bytes, segments and padding on and
  off, `MarcMinDataFree` 5, 6 and 7. What is read is what was written
  (`IsRecordFile`, the refinement of `RecordFile`); reading fails exactly at
  the places `FailsOnlyAtBlockEnd` names; reading stops.
- `segmented_default` (violation): with the default of 5, a record whose length
  field ends with the block makes the reader run over the block's end.

A block of 18 bytes has room for an SCW, a length and a few bytes more, so that
a record can begin, end and be cut at each of them; nothing in the code depends
on the block's size otherwise. `CHECK_DEADLOCK FALSE`: the file is read to its end.

### RuleEngine: `rulefile.cpp`, `lien_not.cpp`, `umrecord.cpp`, `tcdlib.cpp`

A record is turned into a list of CDs, one for each indicator and subfield
(`ToCD`); `ConvertInFieldOrder` walks the list and offers every CD to every rule;
the rule that takes it writes the output list, or the input list itself, which
thus grows, is sorted behind its original end and loses CDs under the walk;
`FromCD` makes fields again. `cur` and `rule` are the code's `CDLIn` and `rule`,
`canTag` and `canSub` its two flags. `SkipRule`, `SkipGroup`, `ApplyToOutput` and
`ApplyToInput` are the ways an offer ends, `NextField` is the next CD, `Finish`
the end of `TMarcDoc::Convert`. `offered` remembers which text was offered, `id`
and `by` of a CD where it comes from. When a rule deletes the CD in process or
the original last one, the code goes on with a deleted object; the model stops
(`freed`).

A rule reads and writes a whole field, or one subfield; its expression is `S` or
`+ S`, its condition a set of tags, the occurrence it writes `nt` (the default),
a number or `new`: the forms the repository's tables are mostly made of, and those on
which it depends what moves where. Texts hold no subfield marks, data fields
have both indicators.

The constants are the records, the tables, the codes of subfields and
`SortRecord`. `RecordsAssumption` and `TablesAssumption` say which records and
rules the model has, of any number: tags 1 to 999 behind the leader's 0, rules as
above. `CodesAssumption` keeps codes apart from what else a CD can be about.

Four properties have exceptions which larger tables than those of the run, and the
proofs, showed to be needed. A text no rule saw stands behind its writer only while the writer
is there (`UnseenOnlyBehind`): a rule can delete it and leave what it wrote. Texts
joined stand in the record's order only if a rule that joins does not read one
subfield and write another (`InRecordOrder`), since a rule for the whole field may
have written ahead of it. And a CD is deleted under the walk also by a rule that
writes the field of the original last CD, which need not be one it reads
(`FreedOnlyByRewriting`). Lastly a rule for `???` of a table's own speaks of every tag
(`OthersAsIs`): one that appends a subfield to that of the same tag doubles the text, which the
copying rules have written before. The run has one such table.

- `rules_field`: tables of up to two of seventeen rules, with the copying rules
  that end `ma2maisbd0.rul` and with or without rules for indicators, and one table
  with a rule for every tag before these, on records of up to three fields.
- `rules_moves` (violation): the manual's example of moving field 508 to 501, on
  a record that has a 501: the record's own 501 is lost.

Two rules are enough for one that prepares a temporary field and one that uses
it, and for two that compete for a CD; three fields for two of one tag with a
third before, behind or between them. The conversion ends, hence
`CHECK_DEADLOCK FALSE`. There is no fairness and no liveness property: a rule that
writes a new field which it concerns itself never ends, as in the code, and
`NeverBack` says that nothing else keeps the walk from its end.

### RecordPasses: `tmarcdoc.cpp`, `umrecord.cpp`, `tmarcrec.cpp`

What the conversion of a record does besides the rules. `phase` is the pass of
`TMarcDoc::Convert`: `MergeLinkedField` puts the texts of the next 880 into the
field its `$6` names (`lib2`, `script` of a field) and deletes it; `StartConversion`
and `Convert` take the fields through the list of CDs, without a rule file;
`SeparateLinkedField` makes an 880 of the next field with such texts and numbers
it anew (`num`, `last880`). `CompareSubfields`, `NextSubfield` and `EndSubfields`
remove duplicate subfields, `CompareFields`, `NextField` and `EndFields` duplicate
fields, in the four modes of `DuplicateSubfields` and `DuplicateFields`; `cur`, `p`
and `q` are the places the loops stand at. `before` remembers the fields the
loops began with.

A text is a word and the number of its capital letters, which is all the loops
look at; an empty text and one that is not UTF-8 have words of their own. Linked
texts have eight bytes, so that the ten bytes the code takes for a missing script
hold one subfield. Records have data fields only: the loop over duplicate fields, which
removes control fields too, is left out for these. The model stops where the code
goes on with a deleted field (`freed`) or copies a text over itself with `strcpy`
(`garbled`). The definitions were compared with the compiled program on some
7,000 random records of the run's kinds.

Run `record_passes`: twelve linked fields, up to three of them in each order,
and four with sorting on; fields of up to four subfields and records of up to four
fields that differ in case, in indicators, are empty or no UTF-8, in all modes.
Four fields are enough for two linked pairs and for two pairs of duplicates around
each other; a loop that passes a subfield needs three. `LinksComeBack` says which
linked fields come back as they were: those whose link has a script, the same as
the links before it, that no other 880 competes with, and whose subfields pair with
those of the field; `OneOfEachStays` that nothing disappears of which no equal stays, and, where
the loops do not pass over one, that one alone stays. No configuration in the
repository turns these passes on. `CHECK_DEADLOCK FALSE`: a conversion ends; no
fairness, since there is nothing to wait for.

### YsoFields and YsoConverter: `yso_converter.py`, `convert_all_yso.sh`

`YsoFields` is what the Python program makes of one record, as operators with the
names of its methods: `process_record` gathers the fields it processes,
`process_field` takes a field apart (`PlainField`, `MusicField`, `MovieField`),
`process_subfield` finds the place of a term by `search`, and `NewFields` sorts
the fields of a tag, removes doubles (`removable_fields`) and merges links
(`Linked`). `Entry` is what the vocabularies answer to a search; the result also
has the lines of the check log. The operators were compared with the Python
program on 9,000 random records.

`YsoConverter` is the script (`Start`, `Take`, `Rename`, `Finish`) and the process it
starts for each file: `CheckFiles`, `LoadDump`, `BeginDownload`, `EndDownload`,
`DownloadFails`, `Parse`, `OpenDump`, `WriteDump`, `CloseDump`, then `OpenOutput`,
`read_and_write_record`, `CloseOutput`. `ConverterDies` is an exception nothing catches
before the first record. `RecordFails` is a record that is not converted: what is not MARCXML
ends the reading, and the output is closed without the rest (`ReadingBreaksOff`); an exception
other than the two that are caught ends the process (`RecordKills`); a record that cannot be
written is left out (`RecordNotWritten`). Whichever it is, the script renames the input. `dump` is `vocabularies.pkl` with the state
a reader would find and its day, `turtle` the downloaded files, `xml` and `out` the
day's directories. `Crash` kills the script and its converter, `NewDay` begins a new
directory tree. `gone` are files renamed unconverted or left behind, `losses` the
former with the day on which it happened, `spoilt` the files of which a record failed,
`faultyDays` the days with a kill, vocabularies that failed (a download, or a converter
that died of them) or two scripts at once. `LostOnlyOnFaultyDays` allows a record to cost its
own file, and nothing else on a day that is not faulty.

Run `yso`: 3,510 records of four kinds (books, fiction, music, films), one at a
time and undisturbed: single and paired terms of every tag and subfield code,
fields with rules of their own, fields beside fields that are alike or like what
they become. And two plain files with one script, a kill, a midnight and one failure, of a
download, a converter or a record; or with two scripts and a kill. One of the files has
two records, so that one of them may be missing. `CHECK_DEADLOCK FALSE`: files, days and
failures are bounded.

## Fairness

`FairSpec` of Export, KohaImport, Pipeline and YsoConverter has weak fairness of `Advance(r)`, a
started process is scheduled until it ends or is killed, and of `Start(r)`: cron
starts the script again every few minutes. Nothing is assumed of what the outside does:
records need not be stored, files need not arrive, crashes need not happen.
SegmentedFile assumes that a program that has opened a file goes on calling
`Read`. The other specifications have no fairness.

## Proofs

All proofs are for every value of the constants that satisfies the named
assumptions of the module: any number of processes, files, records, crashes.

*KohaImportProofs.* `TypeCorrect`, from `Inv == TypeOK /\ HandInv`: a run past the
lookup holds a batch, and the batch is of the file it has in hand; without
`HandInv` the types of `left` and of the logs do not follow.
`AddsOnlyOnInterference` (every run has a matcher): `MatchInv` says that until the
first crash a batch has its actions set or some run is about to set them, so
that a commit of an unmatched batch needs a second run.
`ImportedAtMostOnce` (until two importers overlap): `SoleShape` gives the shape of the single
run's work at each statement, `Counted` bounds the imports of a file by the
crashes, plus one once it is kept; each crash pays for the import it interrupts.
`ReplacesOnly` (until two overlap, a matcher): `AddsNothing`. While importers do
not overlap at most one of any number is started (`AtMostOne`), and each step is
a step of that one (`LoneActs`), so that the argument for a single importer
carries over. `DeletedInVain`, that is `DeletedWithoutEffect`: a lone run about to
delete a file has an empty one, or a batch of it was committed or reverted
(`Deletable`), and `Counted` bounds what is in the catalog of it.
`CommittedIsComplete`, that is `ProcessedIsComplete`, for any number
of importers that overlap and are killed, when all commit and none reverts: a
batch whose unmatched records are ignored has been matched (`MatchedFirst`), and
what a commit has not written it has still before it (`RunComplete`), whatever
others add to the same batch (`BatchesGrow`). With `--revert` it needs importers
that do not overlap: a commit of the same batch that is still going on writes
the rest of it after the revert, and marks it imported.

*ExportProofs.* `TypeCorrect`, and `NothingPassedOver`, that is `PassedIsPrinted`,
for any number of exporters that use start files only without a list of
biblionumbers (`CursorOptions`, as both scripts call it). The invariant says of a
run at each statement which due records up to its last one are in a file
already, in its page or still to be printed (`RunInv`), that positions are those
of stored records (`Stored`), and that files are only written by the run whose
second they carry until two runs share one (`Fresh`). `EachCrashOneCopy`, that is
`PrintedOncePerCrash`, is about one exporter that follows its start file
(`Follower`): it reads its page behind the start file (`InOrder`), so that what it prints anew was
printed behind the start file by a run that was killed (`CopiesInv`).

*YsoConverterProofs.* `TypeCorrect`, and `QuietDaysLoseNothing`, that is
`LostOnlyOnFaultyDays`, for any number of scripts, files, days and faults. The
invariant `Inv` adds to the types that files in hand are exported ones
(`InUse`). `QuietInv` is about a day without a fault so far: one script is at
work (`OneScript`), a dump of that day is whole unless this script is writing it
(`GoodDump`), and the output holds the records up to the one in hand
(`GoodOutput`), unless a record of its file failed (`spoilt`). Each other action that
would break it makes the day a faulty one.

`UncodedKept` and `NoTermLost`, that is `UncodedFieldsKept` and `TermsAccounted`,
are about records of any size, with any fields and vocabularies. All they take
from the state is that what is written comes from records of an exported file
(`WrittenIs`); the rest is what the operators of `YsoFields` compute, shown
through lemmas about lists and folds (`ByPrefixes` turns each `FoldLeft` into a
chain of prefixes, over which `Induct` goes). Two fields are `Alike` if they differ in indicators, `$0`,
`$8` and `$9` at most, an equivalence; `sort_fields` keeps all fields (`Sorting`),
`removable_fields` takes one out only while a field alike stays, though a field
that has gone is not compared any more (`Removing`), and so do the links (`Linking`). For
a field that is not processed this is all. A term is `Told` if it is in a field that
was made or a line of the log: `SubfieldIs` has it for each case of
`process_subfield`, `MovieFieldIs`, `MusicFieldIs`, `PlainFieldIs` and `PeriodFieldsAre`
for the kinds of fields, each an invariant of a fold. A term that was combined with another is `Carried` by
the new one (`ChainedIs`); a field that nothing was made of stays (`ProcessFieldIs`,
`GatheredKeeps`). `ContentsAssumption` and `Records` say what a file has;
`ChainsAssumption`, that no combined term is the one that gets a new name
("kokoelmat") in music; `LiteralsAssumption`, that literals are strings.

*PipelineProofs.* `TypeCorrect`; `NothingForgotten`, that is `Accounted`; and
`PromiseKept`: every step of Pipeline is one of `Conversion`, or stutters. These
three for any number of scripts that overlap, kills, broken off conversions, days
and edits. `Passed` says of each record up to the start file, or up to the last one a
script has printed, that it is `Safe`; that no step takes a record out of the last
file it is in needs `FileInv`. Its parts: `Named` (records are under names that
are there, and a new export's names are unused), `Chain` (an input has the records of
the later files of its name, so that emptying an output loses none),
`Converting` (a record of an input is in the output or in hand), `Moving` (an
input about to go is in a later file), and `Conflicts`: two scripts with one
file in hand, one of which may be printing it (`Writers`), have been taken for a fault,
except where one only moves the input that the other has passed already (`Apart`). While
a script prints, the records of its page beyond the start file are in its file or still in
its hands (`page`, `unread`). `HandsInv`, `OnlyOnward` and
`OnlyExported` are what `PromiseKept` needs beyond that: nothing comes back into
a file but by an export from beyond the start file. `QuietDaysAreKept`, that is
`QuietEditsKept`, for one script until it is killed: what it has taken in hand is
gone when it ends (`Emptied`, `Listed`), so that no file is left over which a later
run would import after a newer one, and no record on its way is older than the
last edit made while the script was not going (`Recent`, `Unused`). Of two scripts
that overlap it is false: the slower one imports its older copy last.

*UsemarconSessionProofs.* `TypeCorrect`, `NoStaleRules` and `NoOrdinalTwice`, from
`Inv == TypeOK /\ LoadedInv /\ OrdinalInv /\ OpenInv`: an initialized application was
initialized with the settings as they are; every ordinal given is below the one
in memory and, but for the conversion that is running, below the one in the .ini
file; a file that is open is there. `AllReturned`, that is `ReturnsAll`, follows the loop
record by record: what was read, what is still unread and the input (or nothing, if the
output has emptied it) make up each other, and what was written is what was read, while
no error limit was met and nothing failed (`FromFile`); a record in memory is the one
asked for until it is converted (`InMemory`).

*SegmentedFileProofs.* `TypeCorrect`; `FailsAtBlockEnds`, that is
`FailsOnlyAtBlockEnd`; `RecordsComeBack`: every step of reading is one of
`RecordFile`, or stutters; and `ScwsLead`, that is `BlocksFollowScws`. For records of any
number and length and blocks of any size. A statement about the whole file would
need to count its records. `Layout` says instead of each byte what stands at it
and behind it: it is padding, of a control word, or a known byte of a record
(`Known`); a record goes on in its block (`Whole`) and behind the next control
word (`GoesOn`); where it ends the next begins (`Follows`) or nothing does
(`LastOfAll`), and it begins once (`Once`). `WriterInv` adds that the position kept is
the end of the file, with room for a control word when a record begins;
`ReaderInv` that the reader stands at a place of which `Layout` says what follows, and that its
`block_end` is that of its position unless the length of a record ended the block: there it
fails, or reads on by luck, as `FailsOnlyAtBlockEnd` lists. `Controls` says what
control words tell of the piece behind them.

*RecordPassesProofs.* `TypeCorrect`, and `OneStays`, that is `OneOfEachStays`, for
records of any length in every configuration. Types need the invariant
`Unseparated` only; but they need to know where searches like "the first field
with this tag" end and what `Paired`, `ByTag` and `CapsOf` make of a list: both come
from `Least`, that a set of numbers has a least one, and `FoldExists`, that a
function defined over `0..n` by its predecessor exists. While duplicate subfields
are removed (`SubfieldsLeft`), what a field has is left of what it had, in its order
(`LeftOf`), for each text that went an equal one stands (`Stands`, which is transitive), and up
to the pair in process no pair is alike (`Passed`). While duplicate fields are
removed (`FieldsLeft`), each field that was there is `Kept` by one that is, and those
before the one in process have no twin behind them (`NoTwins`), the first one
excepted.

*RuleEngineProofs.* `TypeCorrect`; `UnseenTextsBehind`, that is `UnseenOnlyBehind`;
`WalkNeverBack`, that is `NeverBack`; `FreedByRewriting`, that is
`FreedOnlyByRewriting`; `FieldsTogether`, that is `FieldsRebuilt`; and
`OthersUntouched`, that is `OthersAsIs`. For records,
tables and lists of any length. None is inductive: that the walk does
not come back needs that a sort moves nothing from behind the walk to before it,
and nothing that was there to behind it; that needs the order of the list, and the
search for a CD by its id, on which all of it rests, needs that ids are made
once, which in turn holds because the walk offers no CD to a rule twice. `Inv` is
proved of all at once (`InvAlways`): an id names the CD and the rule that made it, and was made by
an earlier rule or for an earlier CD (`IdsInv`); the walk has visited nothing
behind the CD it is at, what it has not seen before that was `Seen` to be written
there, and the list is in order behind the original last CD (`WalkInv`), which
belongs to a field of the record (`OriginInv`). What a rule does to a list is told by where each CD of
the new list was in the old one: `Grown` for `InsertCDLib`, step by step through
the parts it writes, `Sorts` for `PartialSort`, `Moved` for both together
(`MovedOn`, `WalkOn`). A rule writes a list that is no longer in order at its end; what was
on it before still is (`InOrderBehind`), so that the sort moves new CDs only.
For `FieldsTogether` a sorted list has the CDs of a field side by side
(`Together`), so that a field begins once (`FirstIsOne`) and its contents are all
that was written of it (`PartFound`).

`OthersUntouched` has an invariant of its own for each tag, `Others`, proved on top of
`Inv` (`OthersAlways`). Of a tag a copying table's own rules neither read nor write,
the input list keeps the CDs, in one piece before its original end
(`InputKept`); of each of them, and of each field at its first CD, the output has what the rule that
copies it has had its turn with (`OutputKept`, `Past`); and all that the output has
of the tag comes from there (`FromSource`). `Of(l, A)`, the elements of a list that
are in a set, tells that a step leaves a tag alone: writing elsewhere and sorting do not
change it (`OfElsewhere`, `OfSorted`). `Rows` says what `ToCD` makes of a
record's fields of one tag, by induction over the record, and `Arrives` that the same
rows are on the sorted output at the end, from which `FromCD` makes `InputFields`
again (`RowsFrom`): two lists of rising numbers with the same members are equal
(`RisingBelow`).

Only model-checked:

- All liveness: fairness and `ENABLED` are outside the prover's reach.
- `InRecordOrder` of RuleEngine. It needs an account of the texts that a rule for a
  whole field has written ahead of the walk, by the occurrences `ns` of subfields.
- `LinksComeBack` of RecordPasses, which follows a linked field through all passes
  and ends in such a selection.

## What the checks found

- The start file stays where it is after a page of which nothing could be
  printed (`export_stuck`).
- An object used again forgets the tags without indicators (`session_reuse`).
- With one file for input and output `Convert()` empties it and returns 0
  (`tfile.cpp:89`); and it returns 0 when the system has refused to write
  (`marcfile.cpp:500`, `:530`, `:576`, `:638`, `:663` report it, `tmpplctn.cpp:652` and `:668` do
  not ask). `ReturnsAll` has both as exceptions.
- Of two copies of `convert_all_rda.sh` one may take a file of `xml/` the other is still
  printing (`print_marcs.pl:146`): the records that follow are in no file, while the start
  file passes them. `gone` has them.
- With the default `MarcMinDataFree` of 5 the reader of segmented files runs over
  a block's end (`segmented_default`).
- The manual's example of moving one field to another loses a field of that
  tag (`rules_moves`).
- A run with `--revert` after a committing run reverts nothing, and deletes the
  file of a commit that was cut short; hazard at `KohaImporter.pm:223`.

In RecordPasses, of modes no configuration of the repository turns on; each is
an exception `LinksComeBack` or `OneOfEachStays` names, or a phase the model stops in:

- An 880 whose link has no script comes back with text doubled: `RegExp::match`
  takes an empty match for "the whole rest" (`regexp.cpp:127-133`), so that ten bytes
  of the text are kept as script (`umrecord.cpp:840`); they may cut a character.
  `USEMARCON.rtf:1747` has it that `$6` "is automatically retained and updated".
- The one CDLib `ToCD` uses keeps the first script of the record, and later fields
  get it too (`umrecord.cpp:365`, `:420`).
- With an 880 as the record's first field the conversion begins at a deleted field
  (`umrecord.cpp:364`). The first 880 put back goes behind the first field with tag
  880 or above, even a 900; it takes the indicators of its field; a second 880 of one
  field overwrites the first; new numbers may be those of links that lead nowhere.
- The loops over duplicate subfields pass every second one (`tmarcrec.cpp:1006`), that
  over fields passes the one that takes the place of a removed first field (`:1060`);
  `USEMARCON.rtf:1691` promises that duplicates are removed. A text that is empty or
  not UTF-8 counts as equal to every other (`tools.cpp:458`). The smart mode copies
  overlapping texts with `strcpy` (`tmarcrec.cpp:988`), which garbles long fields.

In the YSO converter:

- The check log, which `yso-marcbib/README.md:154` describes as the list of what was
  not converted, misses a 567 with a code of another vocabulary beside YSA's or
  Allars's or with an empty `$a`, the other subfields of a 385, and the first terms of
  a 648 with periods; `Promised` names them.
- A field copied with error 8 keeps a second `$2`; merging fields that differ in `$8`
  only does not look at their indicators.
- A half-written output makes the next converter ask whether to overwrite it, and
  die of the question under cron; the input is renamed all the same.
- A record that pymarc cannot take apart or write costs itself, the rest of its file or
  all of it (`yso_converter.py:446-456`, `:533-549`); its file is renamed like any other.
- Two processes writing one dump leave a file that later converters of the day may
  die of, or take for good.
- With `--marcxml` and an output directory the output is opened anew for each record,
  so that only the last one stays (`yso_converter.py:538-561`); this way of calling
  it, which `yso-marcbib/README.md:138` describes, is not modelled.

Seen on the way, in parts that are not modelled: `Chunker.pm` cuts a list of
biblionumbers that is longer than a page, and a limit that is no multiple of the
page size is rounded up; the checks for errors are counted per record, while the
manual gives one limit for the whole conversion; `SetDisableCharacterConversion`
has no effect once the object has converted; with rule debugging on,
`lien_not.cpp:951` reads a null pointer after an appending rule;
`rulefile.cpp:557-586` keeps a string table that failed to load.

## What is not modelled

Taking ISO 2709 and MARCXML records apart and putting them together
(`tmarcrec.cpp`, `mrcfield.cpp`), MARCXML files and files with line ends; the rule
language beyond `S` and `+ S`; loading of rule tables; rule order; rules together
with linked fields; character conversion and checking; error texts; of the YSO
converter `--all_languages`, `--field_links`, the numbers of instruments, errors 3 and
4, directories as input and output, the parsing of vocabularies (a truncated file
that still parses is left out) and the import after it; the maintenance scripts;
vendored (PCRE, utf8proc) and generated (flex, bison, autoconf) code, which is most
of the repository's lines; packaging for Windows. `PROJECT.json` gives the reason
for each.
