----------------------------- MODULE RuleEngine -----------------------------
(***************************************************************************)
(* The conversion of one record by a rule table, in field order:           *)
(* TMarcDoc::Convert with TUMRecord::ToCD, TRuleFile::ConvertInFieldOrder, *)
(* TEvaluateRule::Evaluate_Rule, TUMRecord::InsertCDLib and FromCD         *)
(* (src/usemarcon/library).                                                *)
(*                                                                         *)
(* A record is a list of CDs, one for each indicator and subfield.  The    *)
(* conversion walks the input list; every CD is offered to every rule.  A  *)
(* rule writes the output list or, with "<", the input list itself, so the *)
(* list grows, is sorted behind its original end, and loses CDs, while it  *)
(* is walked.                                                              *)
(*                                                                         *)
(* Tags are numbers in strcmp order, tags with letters (F45) above 999.  A *)
(* text is the sequence of the input texts it is put together from, each   *)
(* named by its field and its place there.  The expression of a rule is S  *)
(* or + S, its condition a set of tags.  Positions within a text, sort     *)
(* instructions, linked fields and the occurrences n, no, nto, nso and     *)
(* newest are left out; a control field is not joined to a data field.     *)
(***************************************************************************)
EXTENDS Integers, SequencesExt

CONSTANTS
    Records,      \* the records to convert: sequences of fields
    Tables,       \* the rule tables: sequences of rules
    Codes,        \* the codes of subfields
    SortRecord    \* SortRecord of the configuration

AnyTag == -1      \* ???
AnySub == "$?"
CD_NT  == -2      \* in an output CD: the tag occurrence of the input
CD_NEW == -20     \* in an output CD: a new field

Indicators == {"I1", "I2"}

ASSUME SortRecordAssumption == SortRecord \in BOOLEAN

\* What a CD or a rule is about: an indicator, a subfield or, "", the field.
Subs == Codes \cup Indicators \cup {"", AnySub}

ASSUME CodesAssumption == Codes \cap (Indicators \cup {"", AnySub}) = {}

\* A control field has one part without a subfield code and no indicators.
Fields == [tag : 1..999, subs : {<<"">>} \cup (Seq(Codes) \ {<<>>})]

ASSUME RecordsAssumption == \A r \in Records : r \in Seq(Fields)

\* A rule reads and writes a whole field, or reads and writes one subfield;
\* ??? is written only by a rule that reads ???.
Rules == [tag : Nat \cup {AnyTag}, sub : Subs,
          toTag : Nat \cup {AnyTag}, toNt : (Nat \ {0}) \cup {CD_NT, CD_NEW},
          toSub : Subs, toIn : BOOLEAN, append : BOOLEAN,
          group : Nat, passes : SUBSET Nat]

ASSUME TablesAssumption ==
    \A t \in Tables :
        /\ t \in Seq(Rules)
        /\ \A i \in DOMAIN t :
             /\ (t[i].sub = "") = (t[i].toSub = "")
             /\ t[i].toTag = AnyTag => t[i].tag = AnyTag
             /\ t[i].toSub = AnySub => t[i].sub = AnySub

VARIABLES
    record,     \* the fields of the input record
    rules,      \* the rule table
    in, out,    \* the CD lists of the input and of the output record
    cur,        \* CDLIn: id of the CD in process
    rule,       \* the rule it is offered to next
    canTag,     \* can_match_tag_wildcard
    canSub,     \* can_match_subfield_wildcard
    offered,    \* history: the CDs that were offered, as they were then
    fields,     \* the output record
    phase       \* "convert", "done", or "freed": a CD in use was deleted

vars == <<record, rules, in, out, cur, rule, canTag, canSub, offered,
          fields, phase>>

-----------------------------------------------------------------------------
(* The CD list                                                             *)

\* The elements of s that stand at the places of I.
Picked(s, I) ==
    LET picked[k \in 0..Len(s)] ==
            IF k = 0 THEN <<>>
            ELSE IF k \in I THEN Append(picked[k - 1], s[k]) ELSE picked[k - 1]
    IN  picked[Len(s)]

SameField(c, d) == c.tag = d.tag /\ c.nt = d.nt

\* TCDLib::IsEqual: key names a CD or a set of CDs.
IsEqual(c, key) ==
    /\ key.tag \in {AnyTag, c.tag}
    /\ key.sub # "" =>
         /\ \/ key.sub = c.sub
            \/ key.sub = AnySub /\ c.sub \notin Indicators \cup {""}
         /\ key.ns > 0 => key.ns = c.ns
    /\ key.n > 0 => key.n = c.n
    /\ key.nt > 0 => key.nt = c.nt

\* Variant for mutation: fields of one tag are not told apart.
IsLessByTag(c, d) == c.tag < d.tag

IsLess(c, d) == c.tag < d.tag \/ (c.tag = d.tag /\ c.nt < d.nt)

\* The selection sort of PartialSort keeps the order of CDs of one field:
\* each goes before the first, of those from the i-th on, that it is less than.
InsertSorted(cds, i, c) ==
    LET k == SelectInSubSeq(cds, i, Len(cds), LAMBDA d : IsLess(c, d))
    IN  InsertAt(cds, IF k = 0 THEN Len(cds) + 1 ELSE k, c)

PartialSort(cds, i) ==
    LET sorted[k \in 0..Len(cds)] ==
            IF k = 0 THEN <<>>
            ELSE IF k < i THEN Append(sorted[k - 1], cds[k])
            ELSE InsertSorted(sorted[k - 1], i, cds[k])
    IN  sorted[Len(cds)]

FirstOfField(cds, i) == i > 1 => ~SameField(cds[i - 1], cds[i])

\* TCDLib::GetContent without a subfield: the parts of the field from the
\* i-th CD to where the field ends, indicators left out.
WholeField(cds, i) ==
    LET end == SelectInSubSeq(cds, i, Len(cds), LAMBDA c : ~SameField(c, cds[i]))
    IN  Picked(cds, {j \in i..(IF end = 0 THEN Len(cds) ELSE end - 1) :
                        cds[j].sub \notin Indicators})

FieldStart(cds, i) ==
    SelectLastInSubSeq([j \in DOMAIN cds |-> j], 1, i, LAMBDA j : FirstOfField(cds, j))

\* GetOccurrenceNumbersForNew
Numbered(cds, c) ==
    LET i == SelectLastInSeq(cds, LAMBDA d : d.tag = c.tag /\ d.sub = c.sub)
    IN  [c EXCEPT
           !.n = IF i = 0 THEN 1 ELSE cds[i].n + 1,
           !.ns = IF c.sub = "" THEN 0
                  ELSE IF i # 0 /\ cds[i].nt = c.nt THEN cds[i].ns + 1 ELSE 1]

\* InsertCDLib of a CD without subfields in its text: the CD it names gets
\* the text, or it becomes a new CD at the end.
InsertPart(cds, c) ==
    LET i == IF c.sub = "" \/ c.ns # 0
             THEN SelectInSeq(cds, LAMBDA d : /\ IsEqual(d, c)
                                              /\ c.sub = "" => d.sub = "")
             ELSE 0
    IN  IF i # 0 THEN [cds EXCEPT ![i].text = c.text, ![i].by = c.by]
        ELSE Append(cds, Numbered(cds, c))

\* Variant for mutation: the tag is not compared.
ReplacesOccurrence(c, d) == c.nt = d.nt /\ d.sub \notin Indicators

\* A field that is written takes the place of all the field had, its
\* indicators excepted.
Replaces(c, d) == SameField(c, d) /\ d.sub \notin Indicators

\* InsertCDLib: parts are written as the field or the subfield c.
InsertCDLib(cds, c, parts) ==
    LET prev == SelectLastInSeq(cds, LAMBDA d : d.tag = c.tag)
        nt   == IF c.nt > 0 THEN c.nt
                ELSE IF prev = 0 THEN 1 ELSE cds[prev].nt + 1
        kept == IF c.sub = ""
                THEN Picked(cds, {i \in DOMAIN cds : ~Replaces(c, cds[i])})
                ELSE cds
        Part(k) == [c EXCEPT !.id = Append(@, k),
                             !.nt = nt,
                             !.sub = parts[k].sub,
                             !.ns = IF c.sub = "" THEN 0 ELSE @,
                             !.text = parts[k].text]
        put[k \in 0..Len(parts)] ==
            IF k = 0 THEN kept ELSE InsertPart(put[k - 1], Part(k))
    IN  put[Len(parts)]

\* ToCD: the leader, then every field, each a new occurrence of its tag.
NewCD(id, tag, nt, sub) ==
    [id |-> id, by |-> <<>>, tag |-> tag, nt |-> nt, sub |-> sub,
     ns |-> 0, n |-> 0, text |-> <<>>]

InputText(f, k) == << <<f, k>> >>

AddField(cds, r, f) ==
    LET Part(sub, k) == [sub |-> sub, text |-> InputText(f, k)]
        subs  == r[f].subs
        parts == [k \in DOMAIN subs |-> Part(subs[k], k + 1)]
        first == InsertCDLib(cds, NewCD(<<f, 0>>, r[f].tag, 0, "I1"), <<Part("I1", 0)>>)
        nt    == Last(first).nt
        both  == InsertCDLib(first, NewCD(<<f, 1>>, r[f].tag, nt, "I2"), <<Part("I2", 1)>>)
    IN  IF subs = <<"">> THEN InsertCDLib(cds, NewCD(<<f, 2>>, r[f].tag, 0, ""), parts)
        ELSE InsertCDLib(both, NewCD(<<f, 2>>, r[f].tag, nt, ""), parts)

ToCD(r) ==
    LET leader == InsertCDLib(<<>>, NewCD(<<0, 0>>, 0, 1, ""),
                              <<[sub |-> "", text |-> InputText(0, 0)]>>)
        cds[f \in 0..Len(r)] ==
            IF f = 0 THEN leader ELSE AddField(cds[f - 1], r, f)
    IN  cds[Len(r)]

\* FromCD: a field for every run of CDs of one field that has a text.
Ind(cds, i, sub) ==
    LET j == SelectInSubSeq(cds, i, Len(cds),
                            LAMBDA c : SameField(c, cds[i]) /\ c.sub = sub)
    IN  IF j = 0 THEN <<>> ELSE cds[j].text

FieldAt(cds, i) ==
    [tag |-> cds[i].tag, nt |-> cds[i].nt,
     i1 |-> Ind(cds, i, "I1"), i2 |-> Ind(cds, i, "I2"),
     parts |-> [k \in DOMAIN WholeField(cds, i) |->
                   [sub |-> WholeField(cds, i)[k].sub,
                    text |-> WholeField(cds, i)[k].text]]]

FromCD(cds) ==
    LET list == IF SortRecord THEN PartialSort(cds, 1) ELSE cds
        HasText(f) == \E k \in DOMAIN f.parts :
                         f.parts[k].sub # "" \/ f.parts[k].text # <<>>
    IN  Picked([i \in DOMAIN list |-> FieldAt(list, i)],
               {i \in DOMAIN list : /\ list[i].tag # 0
                                    /\ FirstOfField(list, i)
                                    /\ HasText(FieldAt(list, i))})

-----------------------------------------------------------------------------
(* The evaluation of a rule for the i-th CD of the input list              *)

\* aCDOut: wildcards and the occurrences nt and ns replaced.
OutputCD(r, c) ==
    LET sub == IF r.toSub = AnySub THEN c.sub ELSE r.toSub
    IN  [NewCD(c.id, IF r.toTag = AnyTag THEN c.tag ELSE r.toTag,
               IF r.toNt = CD_NT THEN c.nt ELSE r.toNt, sub)
           EXCEPT !.by = c.id,
                  !.ns = IF sub = "" THEN 0
                         ELSE IF r.toNt = CD_NT /\ sub \notin Indicators THEN c.ns ELSE 1]

\* Variant for mutation: the new text comes first.
JoinedBefore(D, S) == S \o D

Joined(D, S) == D \o S

\* The texts of two control fields make one text.
BothControl(D, S) == \A parts \in {D, S} : Len(parts) = 1 /\ parts[1].sub = ""

\* Evaluate_Rule with the expression S, or D followed by S for "+".  D is
\* what the last CD has that the output CD names.
Evaluate_Rule(target, i, k) ==
    LET r     == rules[k]
        c     == in[i]
        S     == IF r.sub = "" THEN WholeField(in, i) ELSE <<c>>
        o     == OutputCD(r, c)
        found == IF o.nt = CD_NEW THEN 0
                 ELSE SelectLastInSeq(target, LAMBDA d : IsEqual(d, o))
        D     == IF o.sub = "" THEN WholeField(target, FieldStart(target, found))
                 ELSE <<target[found]>>
        value == IF ~r.append \/ found = 0 THEN S
                 ELSE IF o.sub = "" /\ ~BothControl(D, S) THEN Joined(D, S)
                 ELSE <<[S[1] EXCEPT !.text = Joined(D[1].text, @)]>>
        named == [o EXCEPT !.id = Append(@, k),
                           !.n = IF found = 0 \/ o.sub = "" THEN 0 ELSE target[found].n]
        parts == IF value = <<>> THEN <<[sub |-> "", text |-> <<>>]>>
                 ELSE [j \in DOMAIN value |->
                          [sub |-> IF o.sub = "" THEN value[j].sub ELSE o.sub,
                           text |-> value[j].text]]
    IN  InsertCDLib(target, named, parts)

Position(cds, id) == SelectInSeq(cds, LAMBDA c : c.id = id)
At == Position(in, cur)
LastOf(r) == Last(ToCD(r)).id

-----------------------------------------------------------------------------
(* ConvertInFieldOrder                                                     *)

Init ==
    /\ record \in Records
    /\ rules \in Tables
    /\ in = ToCD(record)
    /\ out = <<>>
    /\ cur = in[1].id
    /\ rule = 1
    /\ canTag = TRUE /\ canSub = TRUE
    /\ offered = {[id |-> in[1].id, text |-> in[1].text]}
    /\ fields = <<>>
    /\ phase = "convert"

RuleCD(r) == [tag |-> r.tag, nt |-> 0, sub |-> r.sub, ns |-> 0, n |-> 0]

\* Variant for mutation: a rule for a whole field is for every CD of it.
ConcernsEveryPart(r) == IsEqual(in[At], RuleCD(r))

\* A rule for a whole field is for the first CD of the field.
Concerns(r) ==
    /\ IsEqual(in[At], RuleCD(r))
    /\ r.sub = "" => FirstOfField(in, At)

\* A rule with a wildcard is for CDs no rule without one has matched.
TagAllowed(r) == r.tag = AnyTag => canTag
Accepted(r) == Concerns(r) /\ TagAllowed(r) /\ (r.sub = AnySub => canSub)

MarkMatched(r) ==
    /\ canTag' = (canTag /\ ~(Concerns(r) /\ r.tag # AnyTag))
    /\ canSub' = (canSub /\ ~(Concerns(r) /\ TagAllowed(r) /\ r.sub # AnySub))

Passes(r) == r.group # 0 => in[At].tag \in r.passes

SkipRule ==
    /\ phase = "convert" /\ rule \in DOMAIN rules
    /\ ~Accepted(rules[rule])
    /\ MarkMatched(rules[rule])
    /\ rule' = rule + 1
    /\ UNCHANGED <<record, rules, in, out, cur, offered, fields, phase>>

\* Variant for mutation: the loop over the group runs beyond the last rule.
SkipGroupBeyond ==
    /\ phase = "convert" /\ rule \in DOMAIN rules
    /\ Accepted(rules[rule]) /\ ~Passes(rules[rule])
    /\ MarkMatched(rules[rule])
    /\ LET end == SelectInSubSeq(rules, rule, Len(rules),
                                 LAMBDA r : r.group # rules[rule].group)
       IN  rule' = IF end = 0 THEN Len(rules) + 2 ELSE end
    /\ UNCHANGED <<record, rules, in, out, cur, offered, fields, phase>>

\* A condition that does not hold skips the rest of its group.
SkipGroup ==
    /\ phase = "convert" /\ rule \in DOMAIN rules
    /\ Accepted(rules[rule]) /\ ~Passes(rules[rule])
    /\ MarkMatched(rules[rule])
    /\ LET end == SelectInSubSeq(rules, rule, Len(rules),
                                 LAMBDA r : r.group # rules[rule].group)
       IN  rule' = IF end = 0 THEN Len(rules) + 1 ELSE end
    /\ UNCHANGED <<record, rules, in, out, cur, offered, fields, phase>>

ApplyToOutput ==
    /\ phase = "convert" /\ rule \in DOMAIN rules
    /\ Accepted(rules[rule]) /\ Passes(rules[rule]) /\ ~rules[rule].toIn
    /\ MarkMatched(rules[rule])
    /\ out' = Evaluate_Rule(out, At, rule)
    /\ rule' = rule + 1
    /\ UNCHANGED <<record, rules, in, cur, offered, fields, phase>>

\* Variant for mutation: the whole list is sorted, as in rule order.
ApplyToInputSortingAll ==
    /\ phase = "convert" /\ rule \in DOMAIN rules
    /\ Accepted(rules[rule]) /\ Passes(rules[rule]) /\ rules[rule].toIn
    /\ MarkMatched(rules[rule])
    /\ LET new == Evaluate_Rule(in, At, rule)
       IN  IF Position(new, LastOf(record)) # 0 /\ Position(new, cur) # 0
           THEN in' = PartialSort(new, 1) /\ UNCHANGED phase
           ELSE in' = new /\ phase' = "freed"
    /\ rule' = rule + 1
    /\ UNCHANGED <<record, rules, out, cur, offered, fields>>

\* Only what follows the input's original last CD is sorted, which that CD
\* must still be there for.
ApplyToInput ==
    /\ phase = "convert" /\ rule \in DOMAIN rules
    /\ Accepted(rules[rule]) /\ Passes(rules[rule]) /\ rules[rule].toIn
    /\ MarkMatched(rules[rule])
    /\ LET new  == Evaluate_Rule(in, At, rule)
           last == Position(new, LastOf(record))
       IN  IF last # 0 /\ Position(new, cur) # 0
           THEN in' = PartialSort(new, last + 1) /\ UNCHANGED phase
           ELSE in' = new /\ phase' = "freed"
    /\ rule' = rule + 1
    /\ UNCHANGED <<record, rules, out, cur, offered, fields>>

NextField ==
    /\ phase = "convert" /\ rule \notin DOMAIN rules
    /\ At < Len(in)
    /\ cur' = in[At + 1].id
    /\ offered' = offered \cup {[id |-> in[At + 1].id, text |-> in[At + 1].text]}
    /\ rule' = 1
    /\ canTag' = TRUE /\ canSub' = TRUE
    /\ UNCHANGED <<record, rules, in, out, fields, phase>>

Finish ==
    /\ phase = "convert" /\ rule \notin DOMAIN rules
    /\ At = Len(in)
    /\ fields' = FromCD(out)
    /\ phase' = "done"
    /\ UNCHANGED <<record, rules, in, out, cur, rule, canTag, canSub, offered>>

Next ==
    \/ SkipRule \/ SkipGroup \/ ApplyToOutput \/ ApplyToInput
    \/ NextField \/ Finish

Spec == Init /\ [][Next]_vars

-----------------------------------------------------------------------------
(* Properties                                                              *)

CDs == [id : Seq(Nat), by : Seq(Nat), tag : Nat, nt : Nat \ {0}, sub : Subs,
        ns : Nat, n : Nat, text : Seq(Nat \X Nat)]

\* Both lists hold CDs that are told apart by their ids, and the CD in
\* process is one of the input's until the conversion is over.
TypeOK ==
    /\ in \in Seq(CDs) /\ out \in Seq(CDs)
    /\ \A l \in {in, out} : \A i, j \in DOMAIN l : l[i].id = l[j].id => i = j
    /\ rule \in 1..(Len(rules) + 1)
    /\ canTag \in BOOLEAN /\ canSub \in BOOLEAN
    /\ phase \in {"convert", "done", "freed"}
    /\ phase # "freed" => At # 0

Done == phase = "done"

Offered(c) == [id |-> c.id, text |-> c.text] \in offered

Visited(id) == \E o \in offered : o.id = id

\* Every text on the input list has been offered to the rules, whatever the
\* rules put into the list: a text no rule saw stands where the walk had
\* already been, at or before the CD whose rule wrote it, if that is still
\* there.
UnseenOnlyBehind ==
    Done => \A i \in DOMAIN in :
        \/ Offered(in[i])
        \/ /\ Visited(in[i].by)
           /\ Position(in, in[i].by) # 0 => i <= Position(in, in[i].by)

\* The output record has one field for every field the rules wrote to: the
\* CDs of a field are found together, in whatever order they were written.
FieldsRebuilt ==
    Done /\ SortRecord =>
        /\ \A i, j \in DOMAIN fields : SameField(fields[i], fields[j]) => i = j
        /\ \A c \in ToSet(out) : c.tag # 0 /\ c.sub \notin Indicators /\ c.text # <<>> =>
             \E f \in ToSet(fields) :
                SameField(f, c) /\ [sub |-> c.sub, text |-> c.text] \in ToSet(f.parts)

\* A copying table ends with the rules of ma2maisbd0.rul for everything else.
Copying ==
    LET Copies(k, sub) == /\ rules[k].tag = AnyTag /\ rules[k].toTag = AnyTag
                          /\ rules[k].sub = sub /\ rules[k].toSub = sub
                          /\ rules[k].toNt = CD_NT /\ ~rules[k].toIn
                          /\ ~rules[k].append /\ rules[k].group = 0
        n == Len(rules)
    IN  n >= 3 /\ Copies(n - 2, "I1") /\ Copies(n - 1, "I2") /\ Copies(n, "")

Own == 1..(Len(rules) - 3)     \* the rules of a copying table before those

InputFields(tag) ==
    LET numbers == Picked([f \in DOMAIN record |-> f],
                          {f \in DOMAIN record : record[f].tag = tag})
        Control(f) == record[f].subs = <<"">>
    IN  [k \in DOMAIN numbers |->
           LET f == numbers[k]
           IN  [tag |-> tag, nt |-> k,
                i1 |-> IF Control(f) THEN <<>> ELSE InputText(f, 0),
                i2 |-> IF Control(f) THEN <<>> ELSE InputText(f, 1),
                parts |-> [j \in DOMAIN record[f].subs |->
                             [sub |-> record[f].subs[j], text |-> InputText(f, j + 1)]]]]

\* A copying table leaves the fields alone that its other rules do not
\* speak of, by their tag or by ???: every one comes out whole, once, and in
\* its place among those of its tag.
OthersAsIs ==
    Done /\ SortRecord /\ Copying =>
        \A tag \in {f.tag : f \in ToSet(record)} :
            (\A k \in Own : rules[k].tag \notin {AnyTag, tag} /\ rules[k].toTag # tag) =>
                Picked(fields, {i \in DOMAIN fields : fields[i].tag = tag})
                    = InputFields(tag)

\* The documentation's example of a table that moves one field and removes
\* another "leaves everything else as is" (USEMARCON.rtf:2669).
OnlyMoves ==
    Done => \A tag \in {f.tag : f \in ToSet(record)} :
        (\A k \in DOMAIN rules : rules[k].tag # tag) =>
            \A f \in ToSet(InputFields(tag)) : f \in ToSet(fields)

Precedes(s, t) == s[1] < t[1] \/ (s[1] = t[1] /\ s[2] < t[2])

\* Texts that rules put together to one text stand in the order of the
\* record, which is what converting in field order is for; but a rule that
\* joins a subfield to another subfield finds there what a rule for the
\* whole field may have written ahead.
InRecordOrder ==
    (\A k \in DOMAIN rules : /\ ~rules[k].toIn
                             /\ rules[k].append => rules[k].toSub = rules[k].sub) =>
        \A c \in ToSet(out) : \A i, j \in DOMAIN c.text :
            i < j => ~Precedes(c.text[j], c.text[i])

\* A CD that is still needed, the one in process or the original last one,
\* is deleted only if the table rewrites whole input fields that it also
\* reads from, or that the record has (tag 0 is its leader).
FreedOnlyByRewriting ==
    phase = "freed" => \E k \in DOMAIN rules :
        /\ rules[k].toIn /\ rules[k].toSub = ""
        /\ \/ rules[k].tag \in {AnyTag, rules[k].toTag}
           \/ rules[k].toTag = 0
           \/ \E f \in DOMAIN record : record[f].tag = rules[k].toTag

\* The walk never comes back to a CD it was at, however the list is sorted
\* under it: a conversion whose rules stop making new CDs ends.
NeverBack ==
    [][cur' # cur => \A o \in offered : o.id # cur']_vars
=============================================================================
