---------------------------- MODULE RecordPasses ----------------------------
(***************************************************************************)
(* What the conversion of a record does to its fields besides the rules:   *)
(* linked fields (880) are merged into the fields they belong to and       *)
(* separated again, duplicate subfields and fields are removed.            *)
(* TMarcDoc::Convert and ProcessDuplicateFields, with                      *)
(* TUMRecord::MergeLinkedFields, ToCD, FromCD, SeparateLinkedFields and    *)
(* TMarcRecord::ProcessDuplicateFields (src/usemarcon/library).            *)
(*                                                                         *)
(* The conversion in between is the one without a rule file, which copies  *)
(* the record; RuleEngine has the rules.  A text is a word and the number  *)
(* of its capital letters: two texts with one word differ only in case.    *)
(* The word of a link ($6 880-01/(3) is <<880, 1>>, its script a part of   *)
(* its own.  The texts of linked fields have eight bytes, so that the ten  *)
(* bytes kept for a script hold one subfield.  Records have data fields    *)
(* only: the removal of duplicate fields, which takes control fields too,  *)
(* is left out for these.                                                  *)
(***************************************************************************)
EXTENDS Integers, SequencesExt

CONSTANT Conversions   \* records to convert, each with a configuration

Modes == {"leave", "delete", "ignore_case", "smart"}  \* DUPLICATE_PROCESSING_MODE

\* STRING; a proof has to be told that it has these two.
Name   == STRING \cup {"", "6"}
Sub    == [code : Name, word : Seq(Nat), caps : Nat, script : Name]
Script == [name : Name, spill : Seq(Sub)]
Field  == [tag : 0..999, ind : Name, subs : Seq(Sub), lib2 : Seq(Sub), script : Script]

Empty   == <<>>        \* the word of an empty text
NotUtf8 == <<0>>       \* the word of a text that is not UTF-8

\* What "$6(\d+)-(\d+)([^$]*)" matches.
IsLink(s) == s.code = "6" /\ Len(s.word) = 2

\* At most one link, and a text in each subfield.
OneLink(f) ==
    /\ \A j, k \in DOMAIN f.subs : IsLink(f.subs[j]) /\ IsLink(f.subs[k]) => j = k
    /\ \A k \in DOMAIN f.subs : f.subs[k].word # Empty

ASSUME ConversionsAssumption ==
    \A c \in Conversions :
        /\ c.linked \in BOOLEAN /\ c.sort \in BOOLEAN
        /\ c.subfields \in Modes /\ c.fields \in Modes
        /\ c.record # <<>>
        /\ c.record \in Seq([tag : 0..999, ind : Name, subs : Seq(Sub) \ {<<>>}])
        /\ c.linked => \A i \in DOMAIN c.record : OneLink(c.record[i])

VARIABLES
    conversion,   \* the record as it was read, and the configuration
    fields,       \* its fields, as far as the passes have come
    phase,        \* the pass; "freed" and "garbled": undefined behaviour
    num,          \* field_num: linked fields separated
    last880,      \* prev_field880: place of the last one put back, 0 for none
    cur,          \* place of the field in process
    p,            \* place of the subfield the others are compared with
    q,            \* place of the subfield or field compared with it
    before        \* history: the fields before duplicates were removed

vars == <<conversion, fields, phase, num, last880, cur, p, q, before>>

-----------------------------------------------------------------------------
(* Linked fields                                                           *)

HasLink(f) == \E k \in DOMAIN f.subs : IsLink(f.subs[k])
LinkAt(f)  == SelectInSeq(f.subs, IsLink)
LinkOf(f)  == f.subs[LinkAt(f)]

\* The field an 880 field belongs to: the first with the tag and the number
\* of its link; 0 if there is none.
TargetOf(fs, f880) ==
    IF HasLink(f880)
      THEN SelectInSeq(fs, LAMBDA g : /\ g.tag = LinkOf(f880).word[1]
                                      /\ HasLink(g)
                                      /\ LinkOf(g).word[2] = LinkOf(f880).word[2])
      ELSE 0

NoScript == [name |-> "", spill |-> <<>>]

\* RegExp::match takes an empty match, of length 0, for the rest of the field:
\* a link without a script gets the first ten bytes behind it, a subfield.
ScriptOf(f880) ==
    [name  |-> LinkOf(f880).script,
     spill |-> IF LinkOf(f880).script # "" \/ LinkAt(f880) = Len(f880.subs) THEN <<>>
               ELSE <<f880.subs[LinkAt(f880) + 1]>>]

\* typestr2::set_script: the first script stays.
FirstScript(old, new) == IF old = NoScript THEN new ELSE old

\* Variant for mutation: the first 880 of a field stays.
MergedFirst(fs, f880) ==
    LET t == TargetOf(fs, f880)
    IN  IF t = 0 \/ fs[t].lib2 # <<>> THEN fs
        ELSE [fs EXCEPT ![t].lib2 = f880.subs,
                        ![t].script = FirstScript(@, ScriptOf(f880))]

\* SetLib2 and SetScript on the field found.
Merged(fs, f880) ==
    LET t == TargetOf(fs, f880)
    IN  IF t = 0 THEN fs
        ELSE [fs EXCEPT ![t].lib2 = f880.subs,
                        ![t].script = FirstScript(@, ScriptOf(f880))]

\* "$6.*?$" is replaced by the link: the first $6, if it is not the last
\* subfield.  If there is none, the link goes in front.
WithLink(subs, link) ==
    LET k == SelectInSeq(Front(subs), LAMBDA s : s.code = "6")
    IN  IF k = 0 THEN link \o subs
        ELSE SubSeq(subs, 1, k - 1) \o link \o SubSeq(subs, k + 1, Len(subs))

\* link_normal and link_880: the link, and what came along as its script.
Link(tag, n, script) ==
    <<[code |-> "6", word |-> <<tag, n>>, caps |-> 0, script |-> script.name]>>
      \o script.spill

\* The 880 field separated from f, and what f becomes.
Field880(f) ==
    [tag |-> 880, ind |-> f.ind, lib2 |-> <<>>, script |-> NoScript,
     subs |-> WithLink(f.lib2, Link(f.tag, num + 1, f.script))]
OwnField(f) ==
    [f EXCEPT !.subs = WithLink(@, Link(880, num + 1, NoScript)), !.lib2 = <<>>]

\* Where an 880 field is put: behind the one before it, the first one behind
\* the first field with this or a higher tag, or at the end.
PlaceOf880 ==
    IF last880 # 0 THEN last880 + 1
    ELSE LET k == SelectInSeq(fields, LAMBDA g : g.tag >= 880)
         IN  IF k = 0 THEN Len(fields) + 1 ELSE k + 1

-----------------------------------------------------------------------------
(* To the list of CDs and back                                             *)

\* The subfields of an 880 field travel with those of the field at the same
\* place: they take its codes, and what has no subfield to go with, or no
\* text, is gone.
Paired(f) ==
    LET n == IF Len(f.lib2) < Len(f.subs) THEN Len(f.lib2) ELSE Len(f.subs)
        Pair(k) == IF f.lib2[k].word = Empty THEN <<>>
                   ELSE <<[f.lib2[k] EXCEPT !.code = f.subs[k].code]>>
        pairs[k \in 0..n] == IF k = 0 THEN <<>> ELSE pairs[k - 1] \o Pair(k)
    IN  pairs[n]

\* The one CDLib that carries the fields keeps the first script it is given.
ScriptUpTo(fs, i) ==
    LET k == SelectInSubSeq(fs, 1, i, LAMBDA f : f.script # NoScript)
    IN  IF k = 0 THEN NoScript ELSE fs[k].script

Carried(fs) == [i \in DOMAIN fs |-> [fs[i] EXCEPT !.lib2 = Paired(fs[i]),
                                                   !.script = ScriptUpTo(fs, i)]]

\* PartialSort of fields with different occurrence numbers.
Placed(sorted, f) ==
    LET k == SelectInSeq(sorted, LAMBDA g : g.tag > f.tag)
    IN  InsertAt(sorted, IF k = 0 THEN Len(sorted) + 1 ELSE k, f)

ByTag(fs) ==
    LET sorted[k \in 0..Len(fs)] ==
            IF k = 0 THEN <<>> ELSE Placed(sorted[k - 1], fs[k])
    IN  sorted[Len(fs)]

-----------------------------------------------------------------------------
(* Duplicates                                                              *)

Folds(mode) == mode \in {"ignore_case", "smart"}

\* utf8_stricmp takes a text it cannot fold for equal to every other.
SameText(mode, s, t) ==
    IF Folds(mode) THEN \/ s.word = t.word /\ s.script = t.script
                        \/ {s.word, t.word} \cap {Empty, NotUtf8} # {}
                   ELSE s = t

AlikeSubfields(mode, s, t) == s.code = t.code /\ SameText(mode, s, t)

CapsOf(f) ==
    LET sum[k \in 0..Len(f.subs)] == IF k = 0 THEN 0 ELSE sum[k - 1] + f.subs[k].caps
    IN  sum[Len(f.subs)]

Folded(f) == [k \in DOMAIN f.subs |-> [f.subs[k] EXCEPT !.caps = 0]]

Unfoldable(f) == \E k \in DOMAIN f.subs : f.subs[k].word = NotUtf8

AlikeFields(mode, f, g) ==
    /\ f.tag = g.tag /\ f.ind = g.ind
    /\ IF Folds(mode) THEN Folded(f) = Folded(g) \/ Unfoldable(f) \/ Unfoldable(g)
                      ELSE f.subs = g.subs

\* Variant for mutation: the text with more capitals stays.
PrefersSecondMore(mode, caps1, caps2) == mode = "smart" /\ caps1 < caps2

\* caps_count: the second of two stays if it has fewer capitals.
PrefersSecond(mode, caps1, caps2) == mode = "smart" /\ caps1 > caps2

-----------------------------------------------------------------------------
(* The passes                                                              *)

DuplicatesPhase ==
    IF conversion.subfields # "leave" THEN "subfields"
    ELSE IF conversion.fields # "leave" THEN "fields" ELSE "done"

\* The pass that begins after the fields fs were put together.
ToDuplicates(fs) ==
    /\ phase' = DuplicatesPhase
    /\ before' = fs
    /\ cur' = 1 /\ p' = 1 /\ q' = 2

Init ==
    /\ conversion \in Conversions
    /\ fields = [i \in DOMAIN conversion.record |->
                   [tag |-> conversion.record[i].tag, ind |-> conversion.record[i].ind,
                    subs |-> conversion.record[i].subs, lib2 |-> <<>>, script |-> NoScript]]
    /\ phase = IF conversion.linked THEN "merge" ELSE "convert"
    /\ num = 0 /\ last880 = 0
    /\ cur = 1 /\ p = 1 /\ q = 2
    /\ before = <<>>

\* MergeLinkedFields: the next 880 field goes into its field, or nowhere.
MergeLinkedField ==
    /\ phase = "merge"
    /\ \E i \in DOMAIN fields :
        /\ fields[i].tag = 880
        /\ \A j \in 1..(i - 1) : fields[j].tag # 880
        /\ fields' = RemoveAt(Merged(fields, fields[i]), i)
    /\ UNCHANGED <<conversion, phase, num, last880, cur, p, q, before>>

\* ToCD goes on with the field that was the first before the merge.
StartConversion ==
    /\ phase = "merge"
    /\ \A i \in DOMAIN fields : fields[i].tag # 880
    /\ phase' = IF conversion.record[1].tag = 880 THEN "freed" ELSE "convert"
    /\ UNCHANGED <<conversion, fields, num, last880, cur, p, q, before>>

\* ToCD and FromCD.
Convert ==
    /\ phase = "convert"
    /\ fields' = IF conversion.sort THEN ByTag(Carried(fields)) ELSE Carried(fields)
    /\ IF conversion.linked
         THEN phase' = "separate" /\ UNCHANGED <<cur, p, q, before>>
         ELSE ToDuplicates(fields')
    /\ UNCHANGED <<conversion, num, last880>>

\* SeparateLinkedFields: the next field with linked text gets its 880 back.
SeparateLinkedField ==
    /\ phase = "separate"
    /\ \E i \in DOMAIN fields :
        /\ fields[i].lib2 # <<>>
        /\ \A j \in 1..(i - 1) : fields[j].lib2 = <<>>
        /\ fields' = InsertAt(ReplaceAt(fields, i, OwnField(fields[i])),
                              PlaceOf880, Field880(fields[i]))
    /\ num' = num + 1
    /\ last880' = PlaceOf880
    /\ UNCHANGED <<conversion, phase, cur, p, q, before>>

EndSeparation ==
    /\ phase = "separate"
    /\ \A i \in DOMAIN fields : fields[i].lib2 = <<>>
    /\ ToDuplicates(fields)
    /\ UNCHANGED <<conversion, fields, num, last880>>

Subs == fields[cur].subs

\* The subfields at p and q are compared.  The loop then looks for the next
\* delimiter behind the one it stands on, and passes a subfield.  A first
\* subfield that goes is overwritten by strcpy of the overlapping rest, which
\* may do what it was meant to do or garble the field.
CompareSubfields ==
    /\ phase = "subfields"
    /\ cur <= Len(fields) /\ q <= Len(Subs)
    /\ IF ~AlikeSubfields(conversion.subfields, Subs[p], Subs[q])
         THEN q' = q + 2 /\ UNCHANGED <<fields, phase>>
       ELSE IF ~PrefersSecond(conversion.subfields, Subs[p].caps, Subs[q].caps)
         THEN /\ fields' = [fields EXCEPT ![cur].subs = RemoveAt(@, q)]
              /\ UNCHANGED <<q, phase>>
       ELSE /\ fields' = [fields EXCEPT ![cur].subs = RemoveAt(@, p)]
            /\ q' = p + 1
            /\ phase' \in {phase, "garbled"}
    /\ UNCHANGED <<conversion, num, last880, cur, p, before>>

\* The subfield at p has been compared; the one behind it is passed.
NextSubfield ==
    /\ phase = "subfields"
    /\ cur <= Len(fields)
    /\ q > Len(Subs)
    /\ IF p + 2 <= Len(Subs) THEN p' = p + 2 /\ q' = p + 3 /\ UNCHANGED cur
                             ELSE p' = 1 /\ q' = 2 /\ cur' = cur + 1
    /\ UNCHANGED <<conversion, fields, phase, num, last880, before>>

\* Variant for mutation: the fields are gone through from where the subfields
\* ended.
EndSubfieldsInPlace ==
    /\ phase = "subfields"
    /\ cur > Len(fields)
    /\ phase' = IF conversion.fields = "leave" THEN "done" ELSE "fields"
    /\ q' = 2
    /\ UNCHANGED <<conversion, fields, num, last880, cur, p, before>>

EndSubfields ==
    /\ phase = "subfields"
    /\ cur > Len(fields)
    /\ phase' = IF conversion.fields = "leave" THEN "done" ELSE "fields"
    /\ cur' = 1 /\ q' = 2
    /\ UNCHANGED <<conversion, fields, num, last880, p, before>>

\* The fields at cur and q are compared.  If the first field of the record
\* goes, the one that takes its place is passed.
CompareFields ==
    /\ phase = "fields"
    /\ q <= Len(fields) /\ fields[q].tag = fields[cur].tag
    /\ IF ~AlikeFields(conversion.fields, fields[cur], fields[q])
         THEN q' = q + 1 /\ UNCHANGED <<fields, cur>>
       ELSE IF ~PrefersSecond(conversion.fields, CapsOf(fields[cur]), CapsOf(fields[q]))
         THEN fields' = RemoveAt(fields, q) /\ UNCHANGED <<cur, q>>
       ELSE /\ fields' = RemoveAt(fields, cur)
            /\ cur' = IF cur = 1 THEN 2 ELSE cur
            /\ q' = cur' + 1
    /\ UNCHANGED <<conversion, phase, num, last880, p, before>>

\* The field at cur has been compared with those of its tag behind it.
NextField ==
    /\ phase = "fields"
    /\ cur <= Len(fields)
    /\ q <= Len(fields) => fields[q].tag # fields[cur].tag
    /\ cur' = cur + 1 /\ q' = cur + 2
    /\ UNCHANGED <<conversion, fields, phase, num, last880, p, before>>

EndFields ==
    /\ phase = "fields"
    /\ cur > Len(fields)
    /\ phase' = "done"
    /\ UNCHANGED <<conversion, fields, num, last880, cur, p, q, before>>

Next ==
    \/ MergeLinkedField \/ StartConversion \/ Convert
    \/ SeparateLinkedField \/ EndSeparation
    \/ CompareSubfields \/ NextSubfield \/ EndSubfields
    \/ CompareFields \/ NextField \/ EndFields

Spec == Init /\ [][Next]_vars

-----------------------------------------------------------------------------
(* Properties                                                              *)

Phases == {"merge", "convert", "separate", "subfields", "fields", "done", "freed", "garbled"}

\* No field without subfields; the cursors point at different subfields or
\* fields, at most one place behind the last; 880 fields are numbered as they
\* are put back.
TypeOK ==
    /\ conversion \in Conversions
    /\ fields \in Seq(Field) /\ before \in Seq(Field)
    /\ phase \in Phases
    /\ num \in Nat /\ last880 \in Nat
    /\ phase = "separate" => num <= Len(fields) /\ last880 <= Len(fields)
    /\ last880 # 0 /\ phase = "separate" =>
         fields[last880].tag = 880 /\ LinkOf(fields[last880]).word[2] = num
    /\ cur \in Nat \ {0} /\ p \in Nat \ {0} /\ q \in Nat
    /\ phase \in {"subfields", "fields"} => cur <= Len(fields) + 1
    /\ phase = "subfields" => p < q /\ p % 2 = 1
    /\ phase = "fields" => cur < q
    /\ \A i \in DOMAIN fields : fields[i].subs # <<>>

Is880(i)     == conversion.record[i].tag = 880
OwnerOf(i)   == TargetOf(conversion.record, conversion.record[i])
Codes(f)     == [k \in DOMAIN f.subs |-> f.subs[k].code]
Numbered(f, n, script) ==
    [k \in DOMAIN f.subs |->
        IF IsLink(f.subs[k]) THEN Link(f.subs[k].word[1], n, script)[1] ELSE f.subs[k]]

\* The 880 fields the merge and the way through the CDs are able to carry: no
\* later one for the same field, the same subfields as in the field, the $6
\* not the last, and a script that no field up to it contradicts.
Carriable(i) ==
    LET r == conversion.record
    IN  /\ \A j \in DOMAIN r : j > i /\ Is880(j) => OwnerOf(j) # OwnerOf(i)
        /\ Codes(r[i]) = Codes(r[OwnerOf(i)])
        /\ LinkAt(r[i]) < Len(r[i].subs)
        /\ \A k \in DOMAIN r[i].subs : r[i].subs[k].code = "6" => IsLink(r[i].subs[k])
        /\ \A j \in DOMAIN r : Is880(j) /\ OwnerOf(j) \in 1..OwnerOf(i) =>
               ScriptOf(r[j]) = [name |-> LinkOf(r[i]).script, spill |-> <<>>]

\* A field with a number that no 880 field answers to.
Dangling == \E k \in DOMAIN conversion.record :
    /\ ~Is880(k) /\ HasLink(conversion.record[k])
    /\ \A i \in DOMAIN conversion.record : Is880(i) => OwnerOf(i) # k

\* The linked text and its field are in the record again, with a number they
\* share and that, as long as every number is answered to, no field before
\* them with this tag has.
ComesBack(i) ==
    LET own == conversion.record[OwnerOf(i)]
    IN  \E g, h \in DOMAIN fields :
            LET n == LinkOf(fields[g]).word[2]
            IN  /\ fields[g].tag = 880 /\ fields[g].ind = own.ind
                /\ fields[g].subs = Numbered(conversion.record[i], n,
                                        [NoScript EXCEPT !.name = LinkOf(conversion.record[i]).script])
                /\ fields[h].tag = own.tag /\ fields[h].ind = own.ind
                /\ fields[h].subs = Numbered(own, n, NoScript)
                /\ ~Dangling => TargetOf(fields, fields[g]) = h

\* An 880 field the passes can carry comes back with its script, linked to
\* the field it was linked to; the 880 fields are numbered in their order;
\* and only a record that begins with an 880 field leads ToCD to a deleted
\* field.  This is about MergeLinkedFields, the sticky script and the pairing
\* by position, which no record of the repository's samples exercises.
LinksComeBack ==
    conversion.linked /\ conversion.subfields = "leave" /\ conversion.fields = "leave" =>
        /\ phase = "freed" => Is880(1)
        /\ phase = "done" =>
            /\ \A i \in DOMAIN conversion.record :
                   Is880(i) /\ OwnerOf(i) # 0 /\ LinkOf(conversion.record[i]).word[1] # 880
                     /\ Carriable(i) => ComesBack(i)
            /\ LET back == SelectSeq(fields, LAMBDA f : f.tag = 880)
               IN  \A k \in DOMAIN back : LinkOf(back[k]).word[2] = k

Folding == Folds(conversion.subfields) \/ Folds(conversion.fields)

Foldable == \A i \in DOMAIN before : \A k \in DOMAIN before[i].subs :
                before[i].subs[k].word \notin {Empty, NotUtf8}

\* What is left of f, or of a field like it.
Keeps(g, f) ==
    /\ g.tag = f.tag /\ g.ind = f.ind
    /\ \A k \in DOMAIN f.subs : \E l \in DOMAIN g.subs :
        /\ g.subs[l].code = f.subs[k].code
        /\ IF Folding THEN /\ g.subs[l].word = f.subs[k].word
                           /\ g.subs[l].script = f.subs[k].script
                      ELSE g.subs[l] = f.subs[k]
        /\ conversion.subfields = "smart" /\ conversion.fields = "leave" =>
               g.subs[l].caps <= f.subs[k].caps
    /\ conversion.fields = "smart" /\ conversion.subfields = "leave" => CapsOf(g) <= CapsOf(f)

SameRun(i, j) == \A k \in i..j : fields[k].tag = fields[i].tag

\* Of every subfield and field that was there one stays, with delete_smart one
\* with no more capitals; texts that are empty or not UTF-8 excepted, which
\* utf8_stricmp takes for equal to any.  What stays besides: no two subfields
\* of which the first is at an odd place and the second follows it, and no two
\* fields of a tag in a row except, with delete_smart, the first of the record
\* and another.  A field is garbled only by delete_smart, when the first of two
\* subfields has more capitals.
OneOfEachStays ==
    /\ phase = "done" =>
        /\ ~Folding \/ Foldable =>
             \A i \in DOMAIN before : \E j \in DOMAIN fields : Keeps(fields[j], before[i])
        /\ conversion.subfields # "leave" =>
             \A i \in DOMAIN fields : \A k \in DOMAIN fields[i].subs \ {Len(fields[i].subs)} :
                 k % 2 = 1 => ~AlikeSubfields(conversion.subfields,
                                              fields[i].subs[k], fields[i].subs[k + 1])
        /\ conversion.fields # "leave" =>
             \A i, j \in DOMAIN fields :
                 i < j /\ SameRun(i, j) /\ AlikeFields(conversion.fields, fields[i], fields[j])
                   => conversion.fields = "smart" /\ i = 1
    /\ phase = "garbled" =>
        /\ conversion.subfields = "smart"
        /\ \E i \in DOMAIN before : \E j, k \in DOMAIN before[i].subs :
             /\ j < k /\ before[i].subs[j].caps > before[i].subs[k].caps
             /\ AlikeSubfields("smart", before[i].subs[j], before[i].subs[k])
=============================================================================
