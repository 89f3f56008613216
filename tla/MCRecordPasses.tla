--------------------------- MODULE MCRecordPasses ---------------------------
(* Small records and all the configurations for RecordPasses.              *)
EXTENDS RecordPasses

Text(code, word, caps) == [code |-> code, word |-> word, caps |-> caps, script |-> ""]
LinkTo(tag, n, script) == Link(tag, n, [NoScript EXCEPT !.name = script])[1]
Data(tag, ind, subs)   == [tag |-> tag, ind |-> ind, subs |-> subs]

UpTo(n, S) == UNION {[1..k -> S] : k \in 1..n}

\* Linked fields: fields with and without a link, with two subfields, with the
\* $6 last, and behind 880; 880 fields with two scripts or none, to a field of
\* their own, that they share or that is not there.
Own    == Data(500, "00", <<LinkTo(880, 1, ""), Text("a", <<1>>, 0)>>)
OwnTwo == Data(500, "00", <<LinkTo(880, 2, ""), Text("a", <<1>>, 0)>>)
LinkedFields ==
    {Own, OwnTwo,
     Data(600, "10", <<LinkTo(880, 1, ""), Text("a", <<1>>, 0), Text("b", <<2>>, 0)>>),
     Data(500, "00", <<Text("a", <<2>>, 0)>>),
     Data(900, "00", <<Text("a", <<2>>, 0), LinkTo(880, 3, "")>>),
     Data(880, "00", <<LinkTo(500, 1, "(3"), Text("a", <<3>>, 0)>>),
     Data(880, "01", <<LinkTo(500, 2, "(3"), Text("a", <<4>>, 0)>>),
     Data(880, "00", <<LinkTo(500, 1, "(3"), Text("a", <<5>>, 0)>>),
     Data(880, "00", <<LinkTo(500, 1, ""), Text("a", <<6>>, 0)>>),
     Data(880, "10", <<LinkTo(600, 1, "(3"), Text("b", <<7>>, 0), Text("a", <<8>>, 0)>>),
     Data(880, "10", <<LinkTo(600, 1, "(3"), Text("a", <<7>>, 0), Text("b", <<8>>, 0)>>),
     Data(880, "00", <<LinkTo(900, 3, "/r"), Text("a", <<9>>, 0)>>)}

\* Duplicates: texts that differ in case only, an empty one, one that is not
\* UTF-8.
Subfields == {Text("a", <<1>>, 0), Text("a", <<1>>, 1), Text("a", <<2>>, 0),
              Text("b", <<1>>, 1), Text("a", Empty, 0), Text("a", NotUtf8, 0)}
Fields == {Data(500, "00", <<Text("a", <<1>>, 0)>>), Data(500, "00", <<Text("a", <<1>>, 1)>>),
           Data(500, "01", <<Text("a", <<1>>, 0)>>), Data(600, "00", <<Text("a", <<1>>, 1)>>),
           Data(500, "00", <<Text("a", NotUtf8, 0)>>),
           Data(500, "00", <<Text("a", <<1>>, 1), Text("a", <<1>>, 0)>>)}

Converting(records, linked, sort, subfields, fieldModes) ==
    [record : records, linked : linked, sort : sort, subfields : subfields, fields : fieldModes]

MCConversions ==
    Converting(UpTo(3, LinkedFields), {TRUE}, {TRUE, FALSE}, {"leave"}, {"leave"})
      \cup Converting([1..4 -> LinkedFields], {TRUE}, {TRUE}, {"leave"}, {"leave"})
      \cup Converting(UpTo(2, LinkedFields), {TRUE}, {TRUE}, {"smart"}, {"delete"})
      \cup Converting({<<Data(500, "00", s)>> : s \in UpTo(4, Subfields)},
                   {FALSE}, {TRUE}, Modes, {"leave"})
      \cup Converting(UpTo(4, Fields), {FALSE}, {TRUE}, {"leave"}, Modes)
      \cup Converting(UpTo(3, Fields), {FALSE}, {FALSE}, Modes, Modes)
=============================================================================
