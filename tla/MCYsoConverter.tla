--------------------------- MODULE MCYsoConverter ---------------------------
(***************************************************************************)
(* An instance of YsoConverter: one undisturbed script with many records,  *)
(* and two plain ones with one script among faults, or two scripts.        *)
(***************************************************************************)
EXTENDS YsoConverter, TLC

CONSTANTS r1, f1, f2    \* the script that runs alone, and the files

VARIABLE active         \* the scripts that are started

mcvars == <<vars, active>>

Words == {"", "kissat", "helsinki", "1900-luku", "piano", "romaanit", "zzz", "kuu", "helsinki/kallio",
          "fiktio", "aiheet", "musiikki", "kokoelmat", "kokoomateokset", "sovitukset", "elokuvat"}

Known == [ysa |-> [kissat |-> "concept", helsinki |-> "place", kuu |-> "several", musiikki |-> "concept",
                   kokoelmat |-> "unmapped", elokuvat |-> "concept"]
                  @@ ("helsinki/kallio" :> "unmapped_place"),
          allars |-> [kissat |-> "concept"] @@ ("helsinki/kallio" :> "place"),
          musa |-> [piano |-> "concept", sovitukset |-> "concept", kuu |-> "concept"],
          cilla |-> [piano |-> "concept"],
          slm |-> [romaanit |-> "concept", kokoomateokset |-> "concept", elokuvat |-> "concept",
                   kissat |-> "several"],
          seko |-> [piano |-> "concept"]]

MCEntry == [v \in Vocabulary |->
              [t \in Words |-> IF t \in DOMAIN Known[v] THEN Known[v][t] ELSE "none"]]
MCNumeric == {"1900-luku"}
MCChains == <<"helsinki", "kallio">> :> "helsinki/kallio"

-----------------------------------------------------------------------------
(* Records *)

Type(type, fiction) == [type |-> type, fiction |-> fiction, deleted |-> FALSE]
Books == {Type("text", FALSE), Type("text", TRUE)}
Kinds == Books \union {Type("music", TRUE), Type("movie", TRUE)}

Record(kind, fields) ==
    kind @@ [fields |-> [tag \in Tags |-> SelectSeq(fields, LAMBDA f : f.tag = tag)]]

Code(v) == IF v = "" THEN <<>> ELSE <<Sub("2", v)>>
Tagged(tag, subs) == Field(tag, " ", subs)

Spoken == Words \ {"helsinki/kallio"}

\* A subfield $a with each term, or a second subfield with each code and term.
Singles == {Record(k, <<Tagged(tag, <<Sub("a", t)>> \o Code(v))>>) :
              k \in Kinds, tag \in ToSet(TagsToConvert), t \in Spoken, v \in {"ysa", "cilla"}}
           \union
           {Record(k, <<Tagged(tag, <<Sub("a", "kissat"), Sub(c, t)>> \o Code("ysa"))>>) :
              k \in {Type("text", TRUE)}, tag \in {"648", "651", "655"},
              c \in {"d", "e", "g", "v", "x", "y", "z"}, t \in Spoken \ {""}}

\* Two subfields, in music and films, where what comes first matters.
Pairs == {Record(k, <<Tagged(tag, <<Sub("a", t), Sub(c, u)>> \o Code("musa"))>>) :
            k \in Kinds \ Books, tag \in {"650", "655"}, c \in {"a", "x", "z", "y"},
            t \in Spoken \ {""}, u \in {"kissat", "helsinki", "1900-luku", "piano", "aiheet", "elokuvat"}}

\* Fields with subfields of their own rules.
Special == {Record(k, <<f>>) : k \in Kinds, f \in
    {Tagged("650", <<Sub("6", "880-01"), Sub("a", "kissat"), Sub("2", "ysa")>>),
     Tagged("651", <<Sub("a", "helsinki"), Sub("z", "kallio"), Sub("2", "ysa")>>),
     Tagged("650", <<Sub("a", "helsinki"), Sub("x", "zzz"), Sub("9", "<DROP>"), Sub("2", "ysa")>>),
     Tagged("650", <<Sub("2", "ysa")>>),
     Tagged("385", <<Sub("b", "kissat"), Sub("2", "ysa")>>),
     Tagged("567", <<Sub("a", "kissat"), Sub("b", "zzz"), Sub("2", "ysa")>>),
     Tagged("567", <<Sub("a", "kissat")>>), Tagged("567", <<Sub("a", "zzz")>>),
     Tagged("650", <<Sub("a", "kissat"), Sub("n", "zzz"), Sub("2", "ysa"), Sub("2", "musa")>>),
     Tagged("567", <<Sub("a", "kissat"), Sub("2", "musa")>>), Tagged("567", <<Sub("0", "x")>>)}
    \union {[Tagged("648", <<Sub("a", t), Sub("a", u), Sub("2", v)>>) EXCEPT !.ind[1] = "1"] :
              t \in {"1900-luku", "kissat"}, u \in {"1900-luku", "zzz"}, v \in {"ysa", "allars"}}}

\* A field to convert beside fields that are alike, or like what it becomes.
Neighbours(t) ==
    {Tagged("650", <<Sub("a", t)>>), Field("650", "4", <<Sub("a", t)>>),
     Tagged("650", <<Sub("a", t), Sub("2", "cilla")>>),
     Field("650", "7", <<Sub("a", t), Sub("2", "yso/fin")>>),
     Field("650", "7", <<Sub("a", t), Sub("2", "yso/fin"), Sub("0", t)>>),
     Field("650", "7", <<Sub("8", "1"), Sub("a", t), Sub("2", "yso/fin"), Sub("0", t)>>),
     Field("650", "7", <<Sub("a", t), Sub("2", "yso/fin"), Sub("0", t), Sub("9", "x")>>),
     Tagged("653", <<Sub("a", t)>>), Field("653", "0", <<Sub("a", t)>>),
     Field("653", "0", <<Sub("a", "muu")>>), Field("655", "7", <<Sub("a", t), Sub("2", "slm/fin")>>)}
Crowds == UNION {
    {Record(k, <<Tagged("650", pre \o <<Sub("a", t), Sub("2", "ysa")>>), n, o>>) :
       k \in {Type("text", FALSE), Type("music", TRUE)}, pre \in {<<>>, <<Sub("8", "2")>>, <<Sub("9", "x")>>},
       n \in Neighbours(t), o \in Neighbours(t)} : t \in {"kissat", "zzz"}}

Plain == Record(Type("text", FALSE), <<Tagged("650", <<Sub("a", "kissat"), Sub("2", "ysa")>>)>>)
Uncoded == Record(Type("text", FALSE), <<Tagged("650", <<Sub("a", "kissat")>>)>>)
Deleted == [Plain EXCEPT !.deleted = TRUE]

One(rec) == [f \in Files |-> IF f = f1 THEN <<rec>> ELSE <<>>]
Many == {One(rec) : rec \in {Uncoded} \union Singles \union Pairs \union Special \union Crowds}
Holding(recs) == (f1 :> recs) @@ (f2 :> <<Deleted>>)
Few == {Holding(<<Plain>>), Holding(<<Plain, Plain>>)}
MCContents == Many \union Few

-----------------------------------------------------------------------------
MCInit == Init /\ active \in {{r1}, Runs} /\ (active = Runs => content = Holding(<<Plain>>))

\* With many records a script runs once and nothing goes wrong; of two scripts
\* one may be killed, but no download, converter or record fails.
MCNext ==
    /\ Next
    /\ \A r \in Runs \ active : pc'[r] = "idle"
    /\ content \in Few \/ (<<day, counters>>' = <<day, counters>> /\ f2 \notin exported')
    /\ active = Runs => failures' = 0
    /\ UNCHANGED active

MCSpec ==
    /\ MCInit /\ [][MCNext]_mcvars
    /\ \A r \in Runs : WF_vars(Advance(r)) /\ WF_vars(r \in active /\ Start(r))
=============================================================================
