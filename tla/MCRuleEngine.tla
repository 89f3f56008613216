---------------------------- MODULE MCRuleEngine ----------------------------
(* Small records and tables for RuleEngine.                                *)
EXTENDS RuleEngine

F == 1245          \* temporary tags of the input record: F45, and G46, E44
G == 1246          \* behind and before it
E == 1244

Control  == [tag |-> 8, subs |-> <<"">>]
Note(t)  == [tag |-> t, subs |-> <<"$a">>]
Notes(t) == [tag |-> t, subs |-> <<"$a", "$b">>]

MCRecords ==
    UNION {[1..n -> {Control, Note(500), Notes(500), Notes(501)}] : n \in 0..2}
      \cup {<<Notes(500), Note(500), Notes(501)>>, <<Note(500), Notes(501), Notes(500)>>}

Rule(tag, sub, toTag, toNt) ==
    [tag |-> tag, sub |-> sub, toTag |-> toTag, toNt |-> toNt, toSub |-> sub,
     toIn |-> FALSE, append |-> FALSE, group |-> 0, passes |-> {}]
ToIn(r)       == [r EXCEPT !.toIn = TRUE]
Plus(r)       == [r EXCEPT !.append = TRUE]
If(r, tags)   == [r EXCEPT !.group = 1, !.passes = tags]

OutputRules == {Rule(500, "$a", 501, CD_NT), Rule(500, "", 501, CD_NT),
                Rule(500, "", 501, CD_NEW), Plus(Rule(500, "$a", 500, 1)),
                Plus(Rule(500, "$b", 500, 1)), Plus(Rule(F, "", 500, 1)), Plus(Rule(8, "", 9, 1)),
                Rule(F, "", 500, CD_NT), If(Rule(500, "", 500, CD_NT), {8}),
                If(Rule(500, "$a", 501, CD_NT), {500})}
InputRules == {ToIn(Rule(500, "$a", F, CD_NT)), ToIn(Rule(500, "$b", F, CD_NT)),
               ToIn(Rule(500, "", F, CD_NT)), ToIn(Rule(F, "$a", G, CD_NT)),
               ToIn(Rule(F, "$a", E, CD_NT)), ToIn(Rule(F, "", 501, 1)),
               ToIn(Plus(Rule(F, "", F, CD_NT)))}

Copy == <<Rule(AnyTag, "I1", AnyTag, CD_NT), Rule(AnyTag, "I2", AnyTag, CD_NT),
          Rule(AnyTag, "", AnyTag, CD_NT)>>
IfCopy(tags) == [k \in 1..3 |-> If(Copy[k], tags)]
Inds500 == <<Rule(500, "I1", 500, CD_NT), Rule(500, "I2", 500, CD_NT)>>

\* Up to two rules, with rules for the indicators of 500 or without, and the
\* copying rules; one rule and copying rules for the original tags only; or
\* a rule for every tag before the copying rules.
MCTables ==
    LET OwnRules(max) == UNION {[1..n -> OutputRules \cup InputRules] : n \in 0..max}
    IN  {ind \o own \o Copy : ind \in {<<>>, Inds500}, own \in OwnRules(2)}
          \cup {own \o IfCopy({0, 8, 500, 501}) : own \in OwnRules(1)}
          \cup {<<Plus(Rule(AnyTag, "$a", AnyTag, CD_NT))>> \o Copy}

\* The example of USEMARCON.rtf:2672-2680: 508 moves to 501, 509 goes, the
\* rest stays.  F is its DEL.
DocTables == {<<Rule(508, "", 501, CD_NT), ToIn(Rule(509, "", F, CD_NT))>>
                \o IfCopy(0..999)}

DocRecords == UNION {[1..n -> {Control, Note(501), Note(508), Note(509)}] : n \in 0..2}
=============================================================================
