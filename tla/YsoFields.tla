----------------------------- MODULE YsoFields ------------------------------
(***************************************************************************)
(* What yso_converter.py makes of one record (src/yso-marcbib):            *)
(* YsoConverter.process_record with process_field, process_subfield and    *)
(* sort_fields, and Vocabularies.search.                                   *)
(*                                                                         *)
(* A subject term is a name; a concept is named by its label, and so is    *)
(* its URI. A record holds, for each tag, its fields in order. A line of   *)
(* the check log is its code and the term. The leader and fields 006-008   *)
(* and 084 are taken for what process_record reads from them: the type of  *)
(* the record and whether it is fiction. Left out are --all_languages,     *)
(* --field_links, the numbers of instruments, errors 3 and 4, which are    *)
(* treated as error 2 is, and the order of a field's subfields, by code.   *)
(***************************************************************************)
EXTENDS Integers, SequencesExt

CONSTANTS
    Entry,          \* Entry[v][t]: what vocabulary v says of term t
    Numeric,        \* the terms that are periods of time
    Chains          \* Chains[<<place, part>>]: the term for a part of a place, which
                    \* is written "place -- part"

Vocabulary == {"ysa", "allars", "musa", "cilla", "slm", "seko"}
\* unmapped: the concept, or the place, has no counterpart in the target vocabulary.
Answer == {"none", "concept", "place", "unmapped", "unmapped_place", "several"}

ASSUME EntryAssumption ==
    /\ DOMAIN Entry = Vocabulary
    /\ \A v \in Vocabulary : \A t \in DOMAIN Entry[v] : Entry[v][t] \in Answer
ASSUME ChainsAssumption == \A c \in DOMAIN Chains : Chains[c] \in STRING \ {"kokoelmat"}
\* Literals are strings, which the provers are not able to tell.
ASSUME LiteralsAssumption ==
    {"", " ", "0", "1", "2", "4", "5", "6", "7", "8", "9", "a", "b", "g", "kokoomateokset",
     "seko", "slm/fin", "slm/swe", "yso/fin", "yso/swe"} \subseteq STRING

Coded == {"ysa", "allars", "musa", "cilla"}
Digits == {"0", "1", "2", "3", "4", "5", "6", "7", "8", "9"}
TagsToConvert == <<"385", "567", "648", "650", "651", "655">>

\* Variant for mutation: fields 653 are not collected.
TagsWithout653 == <<"257", "370", "382", "385", "386", "388", "567", "648",
                    "650", "651", "655">>

TagsToProcess == <<"257", "370", "382", "385", "386", "388", "567", "648",
                   "650", "651", "653", "655">>

\* A record has fields of these tags, and may have none of some.
Tags == {"257", "370", "382", "385", "386", "388", "567", "648", "650", "651", "653", "655"}
Subs == [code : STRING, value : STRING]
Fields == [tag : Tags, ind : STRING \X STRING, subs : Seq(Subs)]
Records ==
    {rec \in [type : {"text", "music", "movie"}, fiction : BOOLEAN, deleted : BOOLEAN,
              fields : [Tags -> Seq(Fields)]] :
        \A tag \in Tags : \A i \in DOMAIN rec.fields[tag] : rec.fields[tag][i].tag = tag}

Sub(c, v) == [code |-> c, value |-> v]
Field(tag, ind2, subs) == [tag |-> tag, ind |-> <<" ", ind2>>, subs |-> subs]

\* The elements of s that are in S, in their order.
Among(s, S) ==
    LET among[k \in 0..Len(s)] ==
          IF k = 0 THEN <<>>
          ELSE IF s[k] \in S THEN Append(among[k - 1], s[k]) ELSE among[k - 1]
    IN among[Len(s)]

Select(subs, codes) == Among(subs, {s \in ToSet(subs) : s.code \in codes})
Without(subs, codes) == Among(subs, {s \in ToSet(subs) : s.code \notin codes})
Has(subs, c) == \E i \in DOMAIN subs : subs[i].code = c
Values(subs, c) == {subs[i].value : i \in {j \in DOMAIN subs : subs[j].code = c}}
Letters(subs) == Without(subs, Digits)

\* The first subfield of the code is there and is not empty.
Filled(subs, c) ==
    LET i == SelectInSeq(subs, LAMBDA s : s.code = c) IN i # 0 /\ subs[i].value # ""

\* The first code of a vocabulary that is converted, "" if there is none.
VocabularyCode(f) ==
    LET i == SelectInSeq(f.subs, LAMBDA s : s.code = "2" /\ s.value \in Coded)
    IN IF i = 0 THEN "" ELSE f.subs[i].value

\* New fields and lines of the check log.
Made(fields, rows) == [fields |-> fields, rows |-> rows]
Nothing == Made(<<>>, {})
Logged(code, value) == Made(<<>>, {<<code, value>>})

-----------------------------------------------------------------------------
(* Vocabularies.search *)

\* The field's own language first; in each SLM, then Musa or Cilla, then YSA or
\* Allars. A 567 without a code is searched as if it were Swedish.
set_vocabulary_order(voc, yso, slm, music) ==
    LET Of(l, m, y) == (IF slm THEN << <<"slm", l>> >> ELSE <<>>)
                         \o (IF music THEN << <<m, l>> >> ELSE <<>>)
                         \o (IF yso THEN << <<y, l>> >> ELSE <<>>)
        fi == Of("fi", "musa", "ysa")
        sv == Of("sv", "cilla", "allars")
    IN IF voc \in {"ysa", "musa"} THEN fi \o sv ELSE sv \o fi

Language(voc) == IF voc \in {"ysa", "musa"} THEN "fi" ELSE "sv"
YsoCode(l) == IF l = "fi" THEN "yso/fin" ELSE "yso/swe"
SlmCode(l) == IF l = "fi" THEN "slm/fin" ELSE "slm/swe"

\* The first vocabulary of the order that knows the term, the i-th. That an
\* earlier one knew it as a place whose counterpart is missing is not forgotten.
Found(t, order, geo, i) ==
    LET Place(j) == order[j][1] # "numeric" /\ Entry[order[j][1]][t] \in {"place", "unmapped_place"}
    IN IF i = 0 THEN [error |-> "1"]
       ELSE IF order[i][1] # "numeric" /\ Entry[order[i][1]][t] = "several" THEN [error |-> "2"]
       ELSE [error |-> "", label |-> t, numeric |-> order[i][1] = "numeric",
             place |-> geo /\ \E j \in 1..i : Place(j),
             code |-> IF order[i][1] = "slm" THEN SlmCode(order[i][2]) ELSE YsoCode(order[i][2])]

search(t, order, geo) ==
    LET Knows(vc) == IF vc[1] = "numeric" THEN t \in Numeric
                     ELSE Entry[vc[1]][t] \in {"concept", "several"} \union IF geo THEN {"place"} ELSE {}
    IN Found(t, order, geo, SelectInSeq(order, Knows))

-----------------------------------------------------------------------------
(* process_subfield *)

field_with_voc_code(tag, r) ==
    LET home == IF tag \in {"257", "370"} /\ ~ r.place THEN "650" ELSE tag
        topical == home \in {"648", "650", "651", "655"}
        letter == IF home = "370" THEN "g" ELSE IF home = "567" THEN "b" ELSE "a"
    IN IF r.numeric
       THEN Field(IF tag = "388" THEN "388" ELSE "648", IF tag = "388" THEN " " ELSE "7",
                  <<Sub("a", r.label), Sub("2", r.code)>>)
       ELSE Field(IF r.code \in {"slm/fin", "slm/swe"} THEN "655"
                  ELSE IF ~ topical THEN home
                  ELSE IF r.place THEN "651" ELSE "650",
                  IF topical THEN "7" ELSE " ",
                  <<Sub(letter, r.label), Sub("2", r.code), Sub("0", r.label)>>)

field_without_voc_code(tag, ind2, t) ==
    Field(tag, ind2, <<Sub(IF tag = "567" THEN "b" ELSE IF tag = "370" THEN "g" ELSE "a", t)>>)

ValidCodes == [tag \in ToSet(TagsToConvert) |->
    CASE tag = "385" -> {"a", "b", "m", "n"}
      [] tag = "567" -> {"a", "b"}
      [] tag = "648" -> {"a", "v", "x", "y", "z"}
      [] tag = "650" -> {"a", "b", "c", "d", "v", "x", "y", "z"}
      [] tag = "651" -> {"a", "d", "v", "x", "y", "z"}
      [] tag = "655" -> {"a", "v", "x", "z"}]

\* Which vocabularies a subfield is searched in, and in which order. cx: the
\* field's vocabulary, the record's type ("" where it is not asked for), whether
\* it is fiction, whether what has come so far makes the terms topics.
SearchOrder(tag, code, cx) ==
    LET only_slm == tag = "655" /\ code # "z"
        slm == \/ tag = "655" /\ code \in {"a", "v", "x"}
               \/ tag \in {"648", "650", "651"} /\ code = "v"
               \/ tag = "650" /\ code = "a" /\ cx.fiction
               \/ cx.type = "music" /\ tag = "650" /\ code = "a"
               \/ cx.type = "music" /\ tag \in {"650", "655"} /\ code \in {"x", "y", "z"} /\ ~ cx.topics
        order == set_vocabulary_order(cx.voc, ~ only_slm, slm, cx.voc \in {"musa", "cilla"} /\ ~ only_slm)
        period == << <<"numeric", Language(cx.voc)>> >>
    IN CASE \/ tag \in {"648", "650", "651"} /\ code = "y"
            \/ tag = "648" /\ code \in {"a", "x", "z"}
            \/ tag = "650" /\ code = "d"                         -> period \o order
         [] \/ tag = "650" /\ code \in {"a", "b", "c", "x", "z"}
            \/ tag = "651" /\ code \in {"a", "x", "z"}           -> order \o period
         [] OTHER                                                -> order

\* The field a term that was found goes to.
TargetTag(tag, code, r, cx) ==
    LET made == IF cx.type = "movie" THEN "257" ELSE "370"
        created == tag = "650" /\ cx.type \in {"music", "movie"} /\ ~ cx.topics
    IN CASE tag = "655" /\ code = "z"       -> made
         [] created /\ code \in {"c", "z"}  -> made
         [] created /\ code \in {"d", "y"}  -> IF r.place THEN made ELSE "388"
         [] OTHER                           -> tag

\* The field a term that no vocabulary knows goes to.
Unknown(tag, s) ==
    IF tag \in {"385", "567"} THEN field_without_voc_code(tag, " ", s.value)
    ELSE IF tag = "655" /\ s.code = "z" THEN field_without_voc_code("370", " ", s.value)
    ELSE field_without_voc_code("653",
             CASE tag = "655" \/ s.code = "v" -> "6"
               [] tag # "655" /\ s.code \in {"c", "z"} -> "5"
               [] OTHER -> "0",
             s.value)

\* Found, unknown, or one of several: then it stays where it is, without a code.
Answered(tag, s, cx, r) ==
    LET home == IF tag \in {"650", "651"} /\ s.code = "v" THEN "655" ELSE tag
    IN CASE r.error = ""  -> Made(<<field_with_voc_code(TargetTag(tag, s.code, r, cx), r)>>, {})
         [] r.error = "1" -> Made(<<Unknown(tag, s)>>, {<<"1", s.value>>})
         [] r.error = "2" -> Made(<<field_without_voc_code(home, "4", s.value)>>, {<<"2", s.value>>})

Searched(tag, s, cx) ==
    LET geo == tag \notin {"385", "567"} /\ (tag = "655" => s.code = "z")
    IN Answered(tag, s, cx, search(s.value, SearchOrder(tag, s.code, cx), geo))

\* The subfields without the first one of each number; a second $2 stays.
WithoutFirstDigits(subs) ==
    LET Stays(i) == subs[i].code \in Digits => \E j \in 1..(i - 1) : subs[j].code = subs[i].code
        left == Among([i \in DOMAIN subs |-> i], {i \in DOMAIN subs : Stays(i)})
    IN [k \in DOMAIN left |-> subs[left[k]]]

process_subfield(f, s, cx) ==
    LET topical == f.tag \in {"650", "651"}
    IN IF \/ s.value = ""
          \/ topical /\ s.code = "v" /\ s.value = "fiktio"
          \/ topical /\ s.code = "e"
       THEN Logged("6", s.value)
       ELSE IF f.tag = "655" /\ s.code = "y"
       THEN Made(<<Field("388", " ", <<Sub("a", s.value), Sub("2", YsoCode(Language(cx.voc)))>>)>>, {})
       ELSE IF topical /\ s.code = "g"
       THEN Made(<<field_without_voc_code("653", " ", s.value)>>, {<<"7", s.value>>})
       ELSE IF s.code \notin ValidCodes[f.tag]
       THEN Made(<<[f EXCEPT !.ind[2] = "4", !.subs = WithoutFirstDigits(@)]>>,
                 {<<"8", s.value>>})
       ELSE Searched(f.tag, s, cx)

-----------------------------------------------------------------------------
(* process_field *)

Join(made, more) == Made(made.fields \o more.fields, made.rows \union more.rows)
JoinAll(seq) == FoldLeft(Join, Nothing, seq)

\* The subfields that go into each new field; of a 567 with $b also its $a.
Control(f) ==
    LET codes == (Digits \ {"0", "2"}) \union IF f.tag = "567" /\ Filled(f.subs, "b") THEN {"a"} ELSE {}
        dropped == Len(Letters(f.subs)) > 1
    IN Among(Select(f.subs, codes), ToSet(f.subs) \ IF dropped THEN {Sub("9", "<DROP>")} ELSE {})

add_control_subfields(made, control) ==
    LET Controlled(f) == [f EXCEPT !.subs = @ \o control]
    IN [made EXCEPT !.fields = [i \in DOMAIN @ |-> Controlled(@[i])]]

strip_vocabulary_codes(f) == [f EXCEPT !.subs = Without(@, {"0", "2"})]
Stripped(f, ind, code) ==
    Made(<<[strip_vocabulary_codes(f) EXCEPT !.ind = ind]>>, {<<code, "">>})

\* A place and its part are one term, where YSA or Allars has it; that term is not
\* the place of another part.
Chained(subs) ==
    LET Step(st, s) ==
          IF /\ st.open /\ s.code = "z"
             /\ Last(st.done).code \in {"a", "b", "c", "d", "v", "x", "y", "z"}
             /\ <<Last(st.done).value, s.value>> \in DOMAIN Chains
          THEN [open |-> FALSE,
                done |-> Append(Front(st.done), Sub(Last(st.done).code, Chains[<<Last(st.done).value, s.value>>]))]
          ELSE [open |-> TRUE, done |-> Append(st.done, s)]
    IN FoldLeft(Step, [open |-> FALSE, done |-> <<>>], subs).done

\* The subfields process_field works on: $a of a 567 without $b counts as $b.
Subfields(f) ==
    CASE f.tag = "567" /\ ~ Has(f.subs, "b") /\ Filled(f.subs, "a") ->
            [i \in DOMAIN f.subs |-> IF f.subs[i].code = "a" THEN [f.subs[i] EXCEPT !.code = "b"] ELSE f.subs[i]]
      [] f.tag \in {"650", "651"} -> Chained(f.subs)
      [] OTHER -> f.subs

Context(voc, rec) == [voc |-> voc, type |-> rec.type, fiction |-> rec.fiction, topics |-> FALSE]

\* A film: what follows a term of film genre is not a topic, what follows
\* "aiheet" is one again.
MovieField(f, subs, voc, rec) ==
    LET Step(st, s) ==
          LET main == s.code \in {"a", "x"}
              topics == st.topics /\ ~ (s.code = "a" /\ s.value = "elokuvat")
              subjects == main /\ f.tag = "650" /\ s.value = "aiheet"
          IN [topics |-> topics \/ subjects,
              made |-> Join(st.made, IF subjects THEN Logged("6", s.value)
                                     ELSE process_subfield(f, s, [Context(voc, rec) EXCEPT !.topics = topics]))]
    IN add_control_subfields(
           FoldLeft(Step, [topics |-> TRUE, made |-> Nothing], Letters(subs)).made, Control(f))

\* Music: instruments go into a field 382, a new one after each "sovitukset";
\* whether the rest are topics depends on what has been found before.
Judged(st, main, made) ==
    LET codes == IF main /\ made.fields # <<>> THEN Values(made.fields[1].subs, "2") ELSE {}
        genre == st.genre \/ (~ st.topics /\ codes \intersect {"slm/fin", "slm/swe"} # {})
    IN [st EXCEPT !.made = Join(@, made), !.genre = genre,
                  !.topics = @ \/ (~ genre /\ codes \intersect {"yso/fin", "yso/swe"} # {})]

Instrument(st, s) ==
    [st EXCEPT !.open = TRUE,
               !.lists = IF st.open THEN Append(Front(@), Append(Last(@), Sub("a", s.value)))
                         ELSE Append(@, <<Sub("a", s.value)>>)]

MusicTerm(f, voc, rec, st, s) ==
    LET main == s.code \in {"a", "x"}
    IN IF main /\ s.value = "aiheet" /\ f.tag = "650"
       THEN [st EXCEPT !.topics = TRUE, !.subjects = TRUE, !.made = Join(@, Logged("6", s.value))]
       ELSE IF main /\ s.value = "musiikki" THEN [st EXCEPT !.made = Join(@, Logged("6", s.value))]
       ELSE IF main /\ ~ st.subjects /\ s.value # "" /\ Entry["seko"][s.value] = "concept"
       THEN Instrument(st, s)
       ELSE Judged(st, main /\ f.tag = "650",
                   process_subfield(f, s, [Context(voc, rec) EXCEPT !.topics = st.topics]))

WithInstruments(made, lists, voc) ==
    LET source == IF voc \in {"allars", "cilla"} THEN <<>> ELSE <<Sub("2", "seko")>>
    IN [made EXCEPT !.fields = @ \o
          [i \in DOMAIN lists |-> [tag |-> "382", ind |-> <<"1", "1">>, subs |-> lists[i] \o source]]]

MusicField(f, subs, voc, rec) ==
    LET Is(s, t) == s.code \in {"a", "x"} /\ s.value = t
        Renamed(s) == IF Is(s, "kokoelmat") THEN [s EXCEPT !.value = "kokoomateokset"] ELSE s
        Step(st, s) == MusicTerm(f, voc, rec, [st EXCEPT !.open = @ /\ ~ Is(s, "sovitukset")], Renamed(s))
        Ended(st) == add_control_subfields(WithInstruments(st.made, st.lists, voc), Control(f))
    IN Ended(FoldLeft(Step, [topics |-> FALSE, genre |-> FALSE, subjects |-> FALSE, open |-> FALSE,
                             lists |-> <<>>, made |-> Nothing], Letters(subs)))

\* Periods in a 648 with first indicator 1. Each takes the first $a from the
\* field, whichever $a it is.
Periods(f) == Among(f.subs, {s \in ToSet(f.subs) : s.code = "a" /\ s.value \in Numeric})

PeriodFields(f, voc) ==
    [i \in DOMAIN Periods(f) |->
        [tag |-> "388", ind |-> <<"1", " ">>,
         subs |-> Append(Select(f.subs, Digits \ {"0", "2"}), Periods(f)[i])
                    \o <<Sub("2", YsoCode(Language(voc)))>>]]

AfterPeriods(f) ==
    LET FirstA(i) == {j \in 1..i : f.subs[j].code = "a"}
        Stays(i) == f.subs[i].code = "a" => Cardinality(FirstA(i)) > Len(Periods(f))
        left == Among([i \in DOMAIN f.subs |-> i], {i \in DOMAIN f.subs : Stays(i)})
    IN [k \in DOMAIN left |-> f.subs[left[k]]]

\* Every term by itself; of a 385 only $a, of a 567 only $b.
PlainField(f, subs, voc, rec) ==
    LET codes == CASE f.tag = "385" -> {"a"} [] f.tag = "567" -> {"b"} [] OTHER -> {}
        terms == IF codes = {} THEN Letters(subs) ELSE Select(subs, codes)
        cx == [Context(voc, rec) EXCEPT !.type = ""]
    IN JoinAll([i \in DOMAIN terms |-> process_subfield(f, terms[i], cx)])

\* The terms of a 567 without a code have to be in YSA or Allars.
Unknown567(f, subs) ==
    \E t \in Values(subs, "b") :
        search(t, << <<"ysa", "fi">>, <<"allars", "sv">> >>, FALSE).error # ""

process_field(f, voc, rec) ==
    LET subs == Subfields(f)
        special == f.tag \in {"650", "655"}
        periods == IF f.tag = "648" /\ f.ind[1] = "1" THEN PeriodFields(f, voc) ELSE <<>>
    IN IF Has(f.subs, "6") THEN Stripped(f, <<f.ind[1], "4">>, "9")
       ELSE IF f.tag = "567" /\ \E v \in Values(f.subs, "2") : v \notin {"ysa", "allars"} THEN Nothing
       ELSE IF Letters(subs) = <<>> THEN Stripped(f, <<f.ind[1], "4">>, "8")
       ELSE IF special /\ rec.type = "movie" THEN MovieField(f, subs, voc, rec)
       ELSE IF special /\ rec.type = "music" THEN MusicField(f, subs, voc, rec)
       ELSE IF \/ f.tag = "385" /\ ~ Has(subs, "a")
               \/ f.tag = "567" /\ Select(subs, {"a", "b"}) = <<>>
       THEN Stripped(f, <<" ", " ">>, "8")
       ELSE IF f.tag = "567" /\ voc = "" /\ Unknown567(f, subs) THEN Nothing
       ELSE Join(Made(periods, {}),
                 add_control_subfields(
                     PlainField([f EXCEPT !.subs = IF periods = <<>> THEN @ ELSE AfterPeriods(f)],
                                IF periods = <<>> THEN subs ELSE AfterPeriods(f), voc, rec),
                     Control(f)))

-----------------------------------------------------------------------------
(* process_record *)

\* A stable sort: the second indicator first; among YSO and SLM concepts the
\* preferred vocabulary, Finnish before Swedish; else the code in alphabetic order.
Alphabet == <<"", "allars", "cilla", "musa", "seko", "slm", "slm/fin", "slm/swe",
              "ysa", "yso", "yso/fin", "yso/swe">>
Indicators2 == <<" ", "0", "1", "2", "4", "5", "6", "7">>
Preferred(tag) == CASE tag \in {"650", "651"} -> <<"yso", "yso/fin", "yso/swe">>
                    [] tag = "655" -> <<"slm", "slm/fin", "slm/swe">>
                    [] OTHER -> <<>>

SourceOf(f) ==
    LET i == SelectInSeq(f.subs, LAMBDA s : s.code = "2") IN IF i = 0 THEN "" ELSE f.subs[i].value

Rank(tag, f) ==
    LET Position(seq, x) == SelectInSeq(seq, LAMBDA y : y = x)
        preferred == IF f.ind[2] = "7" THEN Position(Preferred(tag), SourceOf(f)) ELSE 0
    IN 100 * Position(Indicators2, f.ind[2])
         + CASE tag \notin {"650", "651", "655"} -> 0
             [] preferred # 0 -> preferred
             [] OTHER -> 10 + Position(Alphabet, SourceOf(f))

sort_fields(tag, original, new) ==
    LET Before(sorted, f) == {j \in DOMAIN sorted : Rank(tag, sorted[j]) <= Rank(tag, f)}
        Insert(sorted, f) == InsertAt(sorted, 1 + Cardinality(Before(sorted, f)), f)
    IN FoldLeft(Insert, <<>>, original \o new)

\* The same subfields, in whatever order of their codes.
is_equal_field(s, t) ==
    \A c \in {s[i].code : i \in DOMAIN s} \union {t[i].code : i \in DOMAIN t} :
        Select(s, {c}) = Select(t, {c})

\* Which of the fields m and n is to go.
Redundant(fields, m, n) ==
    LET f == fields[m]
        g == fields[n]
        Coded02(h) == Has(h.subs, "2") /\ Has(h.subs, "0")
    IN IF is_equal_field(f.subs, g.subs)
       THEN (IF f.ind = g.ind THEN {n} ELSE {})
              \union (IF f.ind[2] = " " /\ g.ind[2] # " " THEN {m} ELSE {})
              \union (IF g.ind[2] = " " /\ f.ind[2] # " " THEN {n} ELSE {})
       ELSE IF is_equal_field(Without(f.subs, {"0"}), Without(g.subs, {"0"}))
       THEN IF Coded02(f) THEN {n} ELSE IF Coded02(g) THEN {m} ELSE {}
       ELSE IF is_equal_field(Without(f.subs, {"9"}), Without(g.subs, {"9"}))
       THEN (IF Has(f.subs, "9") /\ ~ Has(g.subs, "9") THEN {n} ELSE {})
              \union (IF Has(g.subs, "9") /\ ~ Has(f.subs, "9") THEN {m} ELSE {})
       ELSE {}

\* Every pair of fields, in the order of the two loops; a field that is to go is
\* not compared any more.
removable_fields(fields) ==
    LET pairs == FlattenSeq([m \in DOMAIN fields |-> [k \in 1..(Len(fields) - m) |-> <<m, m + k>>]])
        Step(gone, p) == IF p[1] \in gone \/ p[2] \in gone THEN gone
                         ELSE gone \union Redundant(fields, p[1], p[2])
    IN FoldLeft(Step, {}, pairs)

Linkable == {"yso/fin", "yso/swe", "slm/fin", "slm/swe", "seko"}

\* Fields of a target vocabulary that differ in $8 only become one.
Linked(fields, removable) ==
    LET Step(st, m) ==
          LET Twin(n) == /\ n > m /\ n \notin st.gone
                         /\ Without(fields[n].subs, {"8"}) = Without(fields[m].subs, {"8"})
              twins == IF m \notin st.gone /\ SourceOf(fields[m]) \in Linkable
                       THEN Among([i \in DOMAIN fields |-> i], {n \in DOMAIN fields : Twin(n)}) ELSE <<>>
              Eights(n) == Select(fields[n].subs, {"8"})
              links == IF twins = <<>> THEN Eights(m)
                       ELSE FoldLeft(LAMBDA ls, n : ls \o Among(Eights(n), ToSet(Eights(n)) \ ToSet(ls)),
                                     <<>>, <<m>> \o twins)
          IN [gone |-> st.gone \union ToSet(twins),
              fields |-> Append(st.fields, [fields[m] EXCEPT !.subs = links \o Without(@, {"8"})])]
        end == FoldLeftDomain(Step, [gone |-> removable, fields |-> <<>>], fields)
        left == Among([i \in DOMAIN fields |-> i], DOMAIN fields \ end.gone)
    IN [k \in DOMAIN left |-> end.fields[left[k]]]

\* What replaces the fields of a tag.
NewFields(tag, original, new) ==
    LET sorted == sort_fields(tag, original, new) IN Linked(sorted, removable_fields(sorted))

\* Whether process_record gives a field to process_field.
Processed(f) == f.tag \in ToSet(TagsToConvert) /\ (VocabularyCode(f) # "" \/ f.tag = "567")

ConvertibleRecord(rec) ==
    /\ ~ rec.deleted
    /\ \/ rec.fields["567"] # <<>>
       \/ \E tag \in ToSet(TagsToConvert) : \E i \in DOMAIN rec.fields[tag] :
            VocabularyCode(rec.fields[tag][i]) # ""

TagsOf(fields) == {fields[i].tag : i \in DOMAIN fields}

\* Variant for mutation: only the tags that fields were taken from.
AlteredByRemoval(new, done) == TagsOf(done)

\* The tags whose fields are put in order anew: those of the new fields and those
\* of the fields that were processed.
altered_fields(new, done) == TagsOf(new) \union TagsOf(done)

\* The record with what was made of its fields put in; one of them may be empty.
Rebuilt(rec, all, kept, new, rows) ==
    LET altered == altered_fields(new, Among(all, {f \in ToSet(all) : Processed(f)}))
        Of(fields, tag) == Among(fields, {f \in ToSet(fields) : f.tag = tag})
    IN [rec |-> [rec EXCEPT !.fields = [tag \in DOMAIN @ |->
                    IF tag \in altered THEN NewFields(tag, Of(kept, tag), Of(new, tag)) ELSE @[tag]]],
        rows |-> rows]

Gathered(rec, all, done) ==
    LET Stays(i) == \/ all[i].tag \notin ToSet(TagsToConvert)
                    \/ VocabularyCode(all[i]) = "" /\ done[i].fields = <<>>
        stay == Among([i \in DOMAIN all |-> i], {i \in DOMAIN all : Stays(i)})
        Filling(made) ==
          Rebuilt(rec, all, [k \in DOMAIN stay |-> all[stay[k]]],
                  Among(made.fields, {f \in ToSet(made.fields) : f.subs # <<>>}),
                  made.rows \union {<<"8", "">> : f \in {g \in ToSet(made.fields) : g.subs = <<>>}})
    IN Filling(JoinAll(done))

process_record(rec) ==
    LET all == FlattenSeq([i \in DOMAIN TagsToProcess |-> rec.fields[TagsToProcess[i]]])
    IN Gathered(rec, all, [i \in DOMAIN all |-> IF Processed(all[i])
                                                THEN process_field(all[i], VocabularyCode(all[i]), rec)
                                                ELSE Nothing])
=============================================================================
