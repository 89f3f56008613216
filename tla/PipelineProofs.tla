--------------------------- MODULE PipelineProofs ---------------------------
(***************************************************************************)
(* Proofs about Pipeline, for any number of scripts at once: the type      *)
(* invariant, that a record the start file has passed is accounted for,    *)
(* and that each record goes the way Conversion promises.                  *)
(***************************************************************************)
EXTENDS Pipeline, TLAPS

USE BoundsAssumption, LanguageAssumption

\* A script that prints or converts a file has one in hand.
InHand == \A r \in Runs : pc[r] \in {"open", "printing", "convert", "move"} => file[r] \in Name

Typed == TypeOK /\ InHand

-----------------------------------------------------------------------------
(* Types *)

LEMMA Stages ==
    ASSUME NEW i \in 1 .. 4
    PROVE  \/ Passes[i][1] = "xml" /\ Passes[i][2] = "isbd"
           \/ Passes[i][1] = "isbd" /\ Passes[i][2] = "rda"
  BY DEF Passes

LEMMA InitTyped == Init => Typed
  BY DEF Init, Typed, TypeOK, InHand, Stage, Label, None

\* What is to be read of some files is of records.
LEMMA PendingTyped ==
    ASSUME NEW Q, NEW u, \A q \in Q : u[q] \subseteq Record
    PROVE  UNION {Numbers(u[q]) : q \in Q} \subseteq Biblios
<1>1. \A q \in Q : Numbers(u[q]) \subseteq Biblios
  BY DEF Numbers, Record
<1> QED BY <1>1, Zenon

\* Leaving the loop over a pass's files.
LEMMA PassTypes ==
    ASSUME Typed, NEW r \in Runs, EndPass(r)
    PROVE  /\ pass' \in [Runs -> 1 .. 4] /\ pc' \in [Runs -> Label]
           /\ \A t \in Runs : pc'[t] \in {"open", "printing", "convert", "move"} => pc'[t] = pc[t]
<1> USE DEF Typed, TypeOK, Goto, Label
<1>1. CASE pass[r] < 4 /\ pass' = [pass EXCEPT ![r] = @ + 1] /\ Goto(r, "pass")
  BY <1>1
<1>2. CASE Goto(r, "list") /\ UNCHANGED pass
  BY <1>2
<1> QED BY <1>1, <1>2 DEF EndPass

LEMMA NextTyped == Typed /\ [Next]_vars => Typed'
<1> SUFFICES ASSUME Typed, [Next]_vars PROVE Typed'
  OBVIOUS
<1> USE DEF Typed, TypeOK, InHand, Label, koha, disk, local, history, counters, Goto
<1>1. ASSUME NEW r \in Runs, Start(r) PROVE Typed'
  BY <1>1 DEF Start
<1>2. ASSUME NEW r \in Runs, Fetch(r) PROVE Typed'
  <2> USE <1>2 DEF Fetch
  <2>1. CASE Page = {} /\ Goto(r, "pass") /\ UNCHANGED <<exports, file, page, last>>
    BY <2>1
  <2>2. CASE ~(Page = {} /\ Goto(r, "pass") /\ UNCHANGED <<exports, file, page, last>>)
    <3>1. /\ exports < MaxExports /\ exports' = exports + 1
          /\ file' = [file EXCEPT ![r] = <<exports + 1, "fi">>]
          /\ page' = [page EXCEPT ![r] = {<<b, edit[b]>> : b \in Page}]
          /\ pc' = [pc EXCEPT ![r] = "open"]
      BY <2>2
    <3>2. <<exports + 1, "fi">> \in Name
      BY <3>1 DEF Name, Lang
    <3>3. {<<b, edit[b]>> : b \in Page} \in SUBSET Record
      BY DEF Record, Page
    <3>4. last' \in [Runs -> 0 .. MaxBiblio]
      <4>1. PICK b \in Page : last' = [last EXCEPT ![r] = b]
        BY <2>2
      <4> QED BY <4>1 DEF Page, Biblios
    <3>5. exports' \in 0 .. MaxExports
      BY <3>1
    <3> QED BY <3>1, <3>2, <3>3, <3>4, <3>5
  <2> QED BY <2>1, <2>2
<1>o. ASSUME NEW r \in Runs, OpenFile(r) PROVE Typed'
  <2>1. PICK l \in Lang :
            /\ dir' = [dir EXCEPT !["xml"][<<file[r][1], l>>] = {}]
            /\ names' = [names EXCEPT !["xml"] = @ \union {<<file[r][1], l>>}]
            /\ file' = [file EXCEPT ![r] = <<file[r][1], l>>]
            /\ unread' = [unread EXCEPT ![r] = In(page[r], l)]
            /\ page' = [page EXCEPT ![r] = @ \ In(@, l)]
    BY <1>o DEF OpenFile
  <2>2. <<file[r][1], l>> \in Name
    BY <1>o DEF OpenFile, Name
  <2>3. In(page[r], l) \in SUBSET Record
    BY DEF In
  <2>4. pc' = [pc EXCEPT ![r] = "printing"]
    BY <1>o DEF OpenFile
  <2>5. dir' \in [Stage -> [Name -> SUBSET Record]] /\ names' \in [Stage -> SUBSET Name]
    BY <2>1, <2>2 DEF Stage
  <2>6. /\ file' \in [Runs -> Name \union {None}] /\ unread' \in [Runs -> SUBSET Record]
        /\ page' \in [Runs -> SUBSET Record] /\ pc' \in [Runs -> Label]
    BY <2>1, <2>2, <2>3, <2>4
  <2>7. InHand'
    BY <2>1, <2>2, <2>4
  <2> QED BY <1>o, <2>5, <2>6, <2>7 DEF OpenFile
<1>p. ASSUME NEW r \in Runs, PrintRecord(r) PROVE Typed'
  <2>1. PICK x \in unread[r] :
            /\ unread' = [unread EXCEPT ![r] = @ \ {x}]
            /\ dir' = [dir EXCEPT !["xml"][file[r]] = IF file[r] \in names["xml"] THEN @ \union {x} ELSE @]
    BY <1>p DEF PrintRecord
  <2>2. file[r] \in Name
    BY <1>p DEF PrintRecord
  <2>3. dir' \in [Stage -> [Name -> SUBSET Record]] /\ unread' \in [Runs -> SUBSET Record]
    BY <2>1, <2>2 DEF Stage
  <2> QED BY <1>p, <2>3 DEF PrintRecord
<1>c. ASSUME NEW r \in Runs, CloseFile(r) PROVE Typed'
  BY <1>c DEF CloseFile
<1>u. ASSUME NEW r \in Runs, TruncateCursor(r) PROVE Typed'
  BY <1>u DEF TruncateCursor
<1>3. ASSUME NEW r \in Runs, WriteCursor(r) PROVE Typed'
  <2>1. cursor' \in 0 .. MaxBiblio /\ gone' \subseteq Biblios
    <3>1. CASE cursor' = last[r] /\ UNCHANGED gone
      BY <3>1
    <3>2. CASE \E c \in Biblios : cursor' = c /\ gone' = gone \union (last[r] + 1 .. c)
      <4>1. PICK c \in Biblios : cursor' = c /\ gone' = gone \union (last[r] + 1 .. c)
        BY <3>2
      <4>2. last[r] \in 0 .. MaxBiblio /\ gone \subseteq Biblios
        OBVIOUS
      <4>3. (last[r] + 1 .. c) \subseteq Biblios
        BY <4>1, <4>2, BoundsAssumption DEF Biblios
      <4>4. cursor' \in 0 .. MaxBiblio
        BY <4>1, BoundsAssumption DEF Biblios
      <4>5. gone' \subseteq Biblios
        BY <4>1, <4>2, <4>3
      <4> QED BY <4>4, <4>5
    <3> QED BY <1>3, <3>1, <3>2 DEF WriteCursor
  <2> QED BY <1>3, <2>1 DEF WriteCursor
<1>4. ASSUME NEW r \in Runs, ListPass(r) PROVE Typed'
  <2> USE <1>4 DEF ListPass
  <2> DEFINE found == {n \in names[Input(r)] : n[2] = PassLanguage(r)}
  <2>1. CASE found = {} /\ EndPass(r) /\ UNCHANGED todo
    BY <2>1, PassTypes
  <2>2. CASE todo' = [todo EXCEPT ![r] = found] /\ Goto(r, "file") /\ UNCHANGED pass
    <3>1. found \in SUBSET Name
      BY Stages DEF Input, Stage
    <3> HIDE DEF found
    <3> QED BY <2>2, <3>1
  <2> QED BY <2>1, <2>2
<1>5. ASSUME NEW r \in Runs, LeavePass(r) PROVE Typed'
  <2>1. EndPass(r)
    BY <1>5 DEF LeavePass
  <2> QED BY <1>5, <2>1, PassTypes DEF LeavePass
<1>6. ASSUME NEW r \in Runs, Convert(r) PROVE Typed'
  <2> USE <1>6 DEF Convert
  <2>1. Input(r) \in Stage /\ Output(r) \in Stage
    BY Stages DEF Input, Output, Stage
  <2>2. PICK n \in Earliest(todo[r]) :
            /\ file' = [file EXCEPT ![r] = n]
            /\ todo' = [todo EXCEPT ![r] = @ \ {n}]
            /\ unread' = [unread EXCEPT ![r] = dir[Input(r)][n]]
            /\ dir' = [dir EXCEPT ![Output(r)][n] = {}]
            /\ names' = [names EXCEPT ![Output(r)] = @ \union {n}]
            /\ \/ gone' = gone
               \/ \E others \in SUBSET Runs :
                    gone' = gone \union Numbers(dir["xml"][n] \union dir["isbd"][n] \union dir["rda"][n])
                                 \union UNION {Numbers(unread[q]) : q \in others}
    <3>1. \A s, n : Writers(s, n) \subseteq Runs /\ Readers(s, n) \subseteq Runs
      BY DEF Writers, Readers
    <3> QED BY <3>1
  <2>3. n \in Name
    BY DEF Earliest
  <2>4. gone' \subseteq Biblios
    <3>1. \A S \in SUBSET Record : Numbers(S) \subseteq Biblios
      BY DEF Numbers, Record
    <3>2. \A q \in Runs : Numbers(unread[q]) \subseteq Biblios
      BY <3>1
    <3>3. Numbers(dir["xml"][n] \union dir["isbd"][n] \union dir["rda"][n]) \subseteq Biblios
      BY <2>3, <3>1 DEF Stage
    <3>4. CASE gone' = gone
      BY <3>4
    <3>5. CASE gone' # gone
      <4>1. PICK others \in SUBSET Runs :
              gone' = gone \union Numbers(dir["xml"][n] \union dir["isbd"][n] \union dir["rda"][n])
                           \union UNION {Numbers(unread[q]) : q \in others}
        BY <2>2, <3>5
      <4>2. UNION {Numbers(unread[q]) : q \in others} \subseteq Biblios
        BY SMTT(30), PendingTyped
      <4> HIDE DEF TypeOK
      <4> QED BY <3>3, <4>1, <4>2 DEF TypeOK
    <3> QED BY <3>4, <3>5
  <2>5. dir' \in [Stage -> [Name -> SUBSET Record]] /\ names' \in [Stage -> SUBSET Name]
    BY <2>1, <2>2, <2>3
  <2>6. /\ file' \in [Runs -> Name \union {None}] /\ todo' \in [Runs -> SUBSET Name]
        /\ unread' \in [Runs -> SUBSET Record]
    BY <2>1, <2>2, <2>3
  <2>7. InHand'
    BY <2>2, <2>3
  <2> QED BY <2>4, <2>5, <2>6, <2>7
<1>7. ASSUME NEW r \in Runs, ConvertRecord(r) PROVE Typed'
  <2> USE <1>7 DEF ConvertRecord
  <2>1. Output(r) \in Stage /\ file[r] \in Name
    BY Stages DEF Output, Stage
  <2>2. PICK x \in unread[r] :
            /\ unread' = [unread EXCEPT ![r] = @ \ {x}]
            /\ dir' = [dir EXCEPT ![Output(r)][file[r]] =
                          IF file[r] \in names[Output(r)] THEN @ \union {x} ELSE @]
    OBVIOUS
  <2> QED BY <2>1, <2>2
<1>8. ASSUME NEW r \in Runs, Converted(r) PROVE Typed'
  BY <1>8 DEF Converted
<1>9. ASSUME NEW r \in Runs, BreakOff(r) PROVE Typed'
  <2>1. Numbers(unread[r]) \subseteq Biblios
    BY DEF Numbers, Record
  <2> QED BY <1>9, <2>1 DEF BreakOff
<1>10. ASSUME NEW r \in Runs, MoveInput(r) PROVE Typed'
  <2>1. Input(r) \in Stage
    BY Stages DEF Input, Stage
  <2> QED BY <1>10, <2>1 DEF MoveInput
<1>11. ASSUME NEW r \in Runs, ListImport(r) PROVE Typed'
  BY <1>11 DEF ListImport, Stage
<1>12. ASSUME NEW r \in Runs, ImportFile(r) PROVE Typed'
  <2> USE <1>12 DEF ImportFile
  <2>1. PICK n \in Earliest(todo[r]) :
        /\ todo' = [todo EXCEPT ![r] = @ \ {n}]
        /\ \/ UNCHANGED <<koha, dir, names, processed, gone>>
           \/ /\ edit' = [b \in Biblios |->
                     IF \E e \in 0 .. MaxEdits : <<b, e>> \in dir["rda"][n]
                     THEN CHOOSE e \in 0 .. MaxEdits : <<b, e>> \in dir["rda"][n] ELSE edit[b]]
              /\ converted' = [b \in Biblios |-> converted[b] \/ b \in Numbers(dir["rda"][n])]
              /\ processed' \in {processed, processed \union {n}}
              /\ gone' = gone \union UNION {Numbers(unread[q]) : q \in Writers("rda", n)}
              /\ Without(n)
    OBVIOUS
  <2>2. n \in Name
    BY DEF Earliest
  <2>3. CASE UNCHANGED <<koha, dir, names, processed, gone>>
    BY <2>1, <2>3
  <2>4. CASE ~ UNCHANGED <<koha, dir, names, processed, gone>>
    <3>1. edit' \in [Biblios -> 0 .. MaxEdits]
      <4> DEFINE Has(b, e) == <<b, e>> \in dir["rda"][n]
                 New(b) == IF \E e \in 0 .. MaxEdits : Has(b, e)
                           THEN CHOOSE e \in 0 .. MaxEdits : Has(b, e) ELSE edit[b]
      <4>1. edit' = [b \in Biblios |-> New(b)]
        BY <2>1, <2>4
      <4>2. \A b \in Biblios : New(b) \in 0 .. MaxEdits
        <5> HIDE DEF Has
        <5> QED OBVIOUS
      <4> HIDE DEF New
      <4> QED BY <4>1, <4>2
    <3>2. converted' \in [Biblios -> BOOLEAN]
      <4>1. \A b \in Biblios : (converted[b] \/ b \in Numbers(dir["rda"][n])) \in BOOLEAN
        OBVIOUS
      <4> QED BY <2>1, <2>4, <4>1
    <3>3. gone' \subseteq Biblios
      <4>1. UNION {Numbers(unread[q]) : q \in Writers("rda", n)} \subseteq Biblios
        BY PendingTyped DEF Writers
      <4> QED BY <2>1, <2>4, <4>1
    <3>4. dir' \in [Stage -> [Name -> SUBSET Record]] /\ names' \in [Stage -> SUBSET Name]
      <4>1. Without(n) /\ "rda" \in Stage
        BY <2>1, <2>4 DEF Stage
      <4> QED BY <2>2, <4>1 DEF Without
    <3>5. processed' \subseteq Name
      BY <2>1, <2>2, <2>4
    <3> QED BY <2>1, <3>1, <3>2, <3>3, <3>4, <3>5
  <2> QED BY <2>3, <2>4
<1>13. ASSUME NEW r \in Runs, Finish(r) PROVE Typed'
  BY <1>13 DEF Finish, Exit
<1>14. ASSUME NEW b \in Biblios, Edit(b) PROVE Typed'
  BY <1>14 DEF Edit
<1>15. ASSUME NEW r \in Runs, Crash(r) PROVE Typed'
  BY <1>15 DEF Crash, Exit
<1>16. ASSUME NewDay PROVE Typed'
  <2>1. InFiles \subseteq Biblios
    BY DEF InFiles, Numbers, Record
  <2> QED BY <1>16, <2>1 DEF NewDay
<1>17. CASE UNCHANGED vars
  BY <1>17 DEF vars
<1> QED
  BY <1>1, <1>2, <1>o, <1>p, <1>c, <1>u, <1>3, <1>4, <1>5, <1>6, <1>7, <1>8, <1>9, <1>10, <1>11, <1>12,
     <1>13, <1>14, <1>15, <1>16, <1>17 DEF Next, Advance

\* Pipeline's files, scripts and counters keep to their types, for every page
\* size, number of scripts and number of faults.
THEOREM TypeCorrect == Spec => []TypeOK
<1>1. Init => Typed
  BY InitTyped
<1>2. Typed /\ [Next]_vars => Typed'
  BY NextTyped
<1>3. Typed => TypeOK
  BY DEF Typed
<1> QED BY <1>1, <1>2, <1>3, PTL DEF Spec
-----------------------------------------------------------------------------
(* Where the records of a file are *)

Here(s, n) == Numbers(dir[s][n])
Pending(r) == Numbers(unread[r])
\* Records nothing more is owed to.
Done == gone \union {b \in Biblios : converted[b]}

Source == {"xml", "isbd"}
Target(s) == IF s = "xml" THEN "isbd" ELSE "rda"
Busy(r, label, s, n) == pc[r] = label /\ Input(r) = s /\ file[r] = n

\* Files are where their names are, and come from an export.
Named ==
    /\ \A s \in Stage, n \in Name : n \notin names[s] => Here(s, n) = {}
    /\ \A s \in Stage : \A n \in names[s] : n[1] <= exports
    /\ \A r \in Runs : file[r][1] <= exports

\* Of file n nothing is owed any more, wherever its records are.
Settled(n) ==
    /\ \A s \in Stage : Here(s, n) \subseteq Done
    /\ \A r \in Runs, s \in Source : Busy(r, "convert", s, n) => Pending(r) \subseteq Done

\* Two scripts with one file in hand have been taken for a fault, but for one
\* that converts to RDA what the other has only to move away.
Apart(q, r, n) == Busy(q, "move", "xml", n) /\ Busy(r, "convert", "isbd", n)
Conflicts ==
    \A q, r \in Runs, s, t \in Source, n \in Name :
        /\ q # r
        /\ Busy(r, "convert", s, n) /\ (Busy(q, "convert", t, n) \/ Busy(q, "move", t, n))
        /\ ~ Apart(q, r, n)
        => Settled(n)

\* Until a file is moved away it has all the records that its later stages have.
Chain ==
    \A n \in Name :
        /\ n \in names["xml"] =>
             Here("isbd", n) \union Here("rda", n) \subseteq Here("xml", n) \union Done
        /\ n \notin names["xml"] /\ n \in names["isbd"] =>
             Here("rda", n) \subseteq Here("isbd", n) \union Done

\* A record of the input is to be read or in the output, which is there.
Converting ==
    \A r \in Runs, s \in Source, n \in Name : Busy(r, "convert", s, n) =>
        /\ Pending(r) \subseteq Here(s, n) \union Done
        /\ \/ /\ n \in names[Target(s)]
              /\ Here(s, n) \subseteq Here(Target(s), n) \union Pending(r) \union Done
           \/ Here(s, n) \union Pending(r) \subseteq Done

\* An input that was converted is in the output, or, if that has been moved away
\* already, a stage further.
Moving ==
    \A r \in Runs, s \in Source, n \in Name : Busy(r, "move", s, n) =>
        Here(s, n) \subseteq Done \union
            IF s = "xml" /\ n \in names["isbd"] THEN Here("isbd", n) ELSE Here("rda", n)

\* A file that is being printed is for nobody else yet, or its records are owed
\* nothing more.
Untouched(n) ==
    /\ n \notin names["isbd"] /\ n \notin names["rda"]
    /\ \A q \in Runs, s \in Source : ~ Busy(q, "convert", s, n) /\ ~ Busy(q, "move", s, n)
Printing ==
    \A r \in Runs, n \in Name : pc[r] = "printing" /\ file[r] = n =>
        \/ Pending(r) \subseteq Done
        \/ n \in names["xml"] /\ Untouched(n)

\* The files an export has still to open are new, and its own.
Exporting(r) == pc[r] \in {"open", "printing"}
Unopened(r, n) == Exporting(r) /\ n[1] = file[r][1] /\ In(page[r], n[2]) # {}
Fresh ==
    /\ \A r \in Runs, n \in Name : Unopened(r, n) => n \notin names["xml"] /\ Untouched(n)
    /\ \A q, r \in Runs : q # r /\ Exporting(q) /\ Exporting(r) => file[q][1] # file[r][1]

FileInv == Named /\ Conflicts /\ Chain /\ Converting /\ Moving /\ Printing /\ Fresh

\* What the start file has passed, or is about to pass.
Safe(b) == b \in Done \/ \E s \in Stage, n \in Name : b \in Here(s, n)
Unprinted(r) ==
    (IF Exporting(r) THEN Numbers(page[r]) ELSE {}) \union (IF pc[r] = "printing" THEN Pending(r) ELSE {})
Passed ==
    /\ \A b \in 1 .. cursor : Safe(b)
    /\ \A r \in Runs : Exporting(r) \/ pc[r] \in {"truncate", "cursor"} =>
           \A b \in 1 .. last[r] : Safe(b) \/ b \in Unprinted(r)

LEMMA NumbersFacts ==
    /\ Numbers({}) = {}
    /\ \A S, T : Numbers(S \union T) = Numbers(S) \union Numbers(T)
    /\ \A S, x : x \in S => x[1] \in Numbers(S)
    /\ \A x : Numbers({x}) = {x[1]}
  BY DEF Numbers

LEMMA InFilesFact ==
    /\ \A s \in Stage, n \in Name : Here(s, n) \subseteq InFiles
    /\ \A b \in InFiles : \E s \in Stage, n \in Name : b \in Here(s, n)
<1>1. \A b : b \in InFiles <=> \E s \in Stage, n \in Name : b \in Here(s, n)
  BY DEF InFiles, Here
<1> QED BY <1>1

LEMMA Outputs ==
    ASSUME Typed, NEW r \in Runs
    PROVE  Input(r) \in Source /\ Output(r) = Target(Input(r)) /\ Output(r) \in Stage
  BY Stages DEF Typed, TypeOK, Input, Output, Source, Target, Stage

\* A step that leaves the files alone, and the scripts that convert or move one.
LEMMA FilesKept ==
    ASSUME Typed, Typed', FileInv,
           UNCHANGED <<dir, names, converted>>, gone \subseteq gone', exports <= exports',
           \A t \in Runs : pc'[t] \in {"convert", "move"} =>
               /\ pc'[t] = pc[t] /\ Input(t)' = Input(t)
               /\ file'[t] = file[t] /\ unread'[t] = unread[t],
           \A t \in Runs : file'[t] = file[t] \/ file'[t][1] <= exports'
    PROVE  /\ Named' /\ Conflicts' /\ Chain' /\ Converting' /\ Moving'
           /\ Done \subseteq Done'
           /\ \A n \in Name : Untouched(n) => Untouched(n)'
           /\ \A b : Safe(b) => Safe(b)'
<1>1. \A s, n : Here(s, n)' = Here(s, n)
  BY DEF Here
<1>2. Done \subseteq Done'
  BY DEF Done
<1>3. \A t \in Runs, l \in {"convert", "move"} : \A s, n : Busy(t, l, s, n)' =>
          Busy(t, l, s, n) /\ Pending(t)' = Pending(t)
  BY DEF Busy, Pending
<1>4. Named'
  <2>1. exports \in Nat /\ exports' \in Nat
    BY DEF Typed, TypeOK
  <2>2. \A s \in Stage, n \in Name : n \notin names'[s] => Here(s, n)' = {}
    BY <1>1 DEF FileInv, Named
  <2>3. \A s \in Stage : \A n \in names'[s] : n[1] <= exports'
    <3> SUFFICES ASSUME NEW s \in Stage, NEW n \in names[s] PROVE n[1] <= exports'
      OBVIOUS
    <3>1. n \in Name /\ n[1] \in Nat /\ n[1] <= exports
      BY DEF FileInv, Named, Typed, TypeOK, Name
    <3> QED BY <2>1, <3>1
  <2>4. \A t \in Runs : file'[t][1] <= exports'
    <3> SUFFICES ASSUME NEW t \in Runs, file'[t] = file[t] PROVE file[t][1] <= exports'
      OBVIOUS
    <3>1. file[t][1] \in Nat /\ file[t][1] <= exports
      BY DEF FileInv, Named, Typed, TypeOK, Name, None
    <3> QED BY <2>1, <3>1
  <2> QED BY <2>2, <2>3, <2>4 DEF Named
<1>5. \A n : Settled(n) => Settled(n)'
  BY <1>1, <1>2, <1>3 DEF Settled
<1>6. Conflicts'
  <2>2. SUFFICES ASSUME NEW q \in Runs, NEW r \in Runs, NEW s \in Source, NEW t \in Source, NEW n \in Name,
                        q # r, Busy(r, "convert", s, n)', (Busy(q, "convert", t, n) \/ Busy(q, "move", t, n))',
                        ~ Apart(q, r, n)'
                 PROVE  Settled(n)'
    BY DEF Conflicts
  <2>3. Busy(r, "convert", s, n) /\ (Busy(q, "convert", t, n) \/ Busy(q, "move", t, n))
    BY <1>3, <2>2
  <2>4. ~ Apart(q, r, n)
    BY <2>2 DEF Apart, Busy
  <2> QED BY <1>5, <2>2, <2>3, <2>4 DEF FileInv, Conflicts
<1>7. Chain'
  BY <1>1, <1>2 DEF FileInv, Chain
<1>8. Converting'
  BY <1>1, <1>2, <1>3 DEF FileInv, Converting
<1>9. Moving'
  BY <1>1, <1>2, <1>3 DEF FileInv, Moving
<1>10. \A b : Safe(b) => Safe(b)'
  BY <1>1, <1>2 DEF Safe
<1>11. \A n \in Name : Untouched(n) => Untouched(n)'
  BY <1>3 DEF Untouched
<1> QED BY <1>2, <1>4, <1>6, <1>7, <1>8, <1>9, <1>10, <1>11

\* A step that leaves the scripts alone that export.
LEMMA PrintersKept ==
    ASSUME Printing, Fresh, Done \subseteq Done',
           \A t \in Runs : Exporting(t)' =>
               /\ Exporting(t) /\ file'[t] = file[t] /\ page'[t] = page[t]
               /\ pc'[t] = "printing" => pc[t] = "printing" /\ unread'[t] = unread[t],
           \A n \in Name : n \notin names["xml"] /\ Untouched(n) => n \notin names'["xml"] /\ Untouched(n)',
           \A r \in Runs, n \in Name :
               pc[r] = "printing" /\ file[r] = n /\ n \in names["xml"] /\ Untouched(n) =>
                   Pending(r) \subseteq Done' \/ (n \in names'["xml"] /\ Untouched(n)')
    PROVE  Printing' /\ Fresh'
<1>1. Printing'
  <2> SUFFICES ASSUME NEW r \in Runs, NEW n \in Name, pc'[r] = "printing", file'[r] = n
               PROVE  Pending(r)' \subseteq Done' \/ (n \in names'["xml"] /\ Untouched(n)')
    BY DEF Printing
  <2>1. pc[r] = "printing" /\ file[r] = n /\ Pending(r)' = Pending(r)
    BY DEF Exporting, Pending
  <2>2. CASE Pending(r) \subseteq Done
    BY <2>1, <2>2
  <2>3. CASE n \in names["xml"] /\ Untouched(n)
    BY <2>1, <2>3
  <2> QED BY <2>1, <2>2, <2>3 DEF Printing
<1>2. \A r \in Runs, n \in Name : Unopened(r, n)' => n \notin names'["xml"] /\ Untouched(n)'
  <2> SUFFICES ASSUME NEW r \in Runs, NEW n \in Name, Unopened(r, n)'
               PROVE  n \notin names'["xml"] /\ Untouched(n)'
    OBVIOUS
  <2>1. Unopened(r, n)
    BY DEF Unopened, In
  <2> QED BY <2>1 DEF Fresh
<1>3. \A q, r \in Runs : q # r /\ Exporting(q)' /\ Exporting(r)' => file'[q][1] # file'[r][1]
  BY DEF Fresh
<1> QED BY <1>1, <1>2, <1>3 DEF Fresh

LEMMA StillKept ==
    ASSUME Typed, Typed', FileInv,
           UNCHANGED <<dir, names, converted, exports>>, gone \subseteq gone',
           \A t \in Runs : pc'[t] \in {"convert", "move"} =>
               /\ pc'[t] = pc[t] /\ Input(t)' = Input(t)
               /\ file'[t] = file[t] /\ unread'[t] = unread[t],
           \A t \in Runs : Exporting(t)' =>
               /\ Exporting(t) /\ file'[t] = file[t] /\ page'[t] = page[t]
               /\ pc'[t] = "printing" => pc[t] = "printing" /\ unread'[t] = unread[t],
           \A t \in Runs : file'[t] = file[t] \/ file'[t] = None
    PROVE  FileInv' /\ \A b : Safe(b) => Safe(b)'
<1>1. exports \in Nat /\ 0 <= exports /\ exports <= exports'
  BY DEF Typed, TypeOK
<1>2. \A t \in Runs : file'[t] = file[t] \/ file'[t][1] <= exports'
  BY <1>1 DEF None
<1>3. /\ Named' /\ Conflicts' /\ Chain' /\ Converting' /\ Moving' /\ Done \subseteq Done'
      /\ \A n \in Name : Untouched(n) => Untouched(n)'
      /\ \A b : Safe(b) => Safe(b)'
  BY <1>1, <1>2, FilesKept
<1>4. Printing' /\ Fresh'
  BY <1>3, PrintersKept DEF FileInv
<1> QED BY <1>3, <1>4 DEF FileInv

\* A file is opened: what another script has of it is given up.
LEMMA ConvertKeeps ==
    ASSUME Typed, Typed', FileInv, NEW r \in Runs, Convert(r)
    PROVE  FileInv' /\ \A b : Safe(b) => Safe(b)'
<1> DEFINE in == Input(r)
           out == Output(r)
           Others(n) == Writers(in, n) \union Readers(in, n) \union Writers(out, n) \union Readers(out, n)
<1>0. in \in Source /\ out = Target(in) /\ in \in Stage /\ out \in Stage
  BY Outputs DEF Source, Stage
<1>1. PICK n \in Name :
        /\ n \in names[in]
        /\ file' = [file EXCEPT ![r] = n]
        /\ unread' = [unread EXCEPT ![r] = dir[in][n]]
        /\ dir' = [dir EXCEPT ![out][n] = {}]
        /\ names' = [names EXCEPT ![out] = @ \union {n}]
        /\ gone' = IF Others(n) = {} THEN gone
                   ELSE gone \union Numbers(dir["xml"][n] \union dir["isbd"][n] \union dir["rda"][n])
                             \union UNION {Numbers(unread[q]) : q \in Others(n)}
        /\ pc' = [pc EXCEPT ![r] = "convert"]
        /\ pass' = pass /\ exports' = exports /\ converted' = converted
  <2> HIDE DEF Others
  <2>1. todo[r] \subseteq Name
    BY DEF Typed, TypeOK
  <2> QED BY <2>1 DEF Convert, Goto, Earliest, koha, Others
<1>2. /\ \A s \in Stage, m \in Name : Here(s, m)' = IF s = out /\ m = n THEN {} ELSE Here(s, m)
      /\ \A s \in Stage : names'[s] = IF s = out THEN names[s] \union {n} ELSE names[s]
  BY ZenonT(60), <1>0, <1>1, NumbersFacts DEF Here, Typed, TypeOK
<1>3. \A t \in Runs \ {r} : \A l, s, m :
          /\ Busy(t, l, s, m)' <=> Busy(t, l, s, m)
          /\ Pending(t)' = Pending(t)
  BY <1>1 DEF Busy, Pending, Input, Typed, TypeOK
<1>4. /\ \A l, s, m : Busy(r, l, s, m)' <=> l = "convert" /\ s = in /\ m = n
      /\ Pending(r)' = Here(in, n)
  BY <1>1 DEF Busy, Pending, Input, Here, Typed, TypeOK
<1>5. Done \subseteq Done'
  BY <1>1 DEF Done
<1>6. Others(n) = {} \/ /\ \A s \in Stage : Here(s, n) \subseteq Done'
                        /\ \A q \in Others(n) : Pending(q) \subseteq Done'
  <2> HIDE DEF Others
  <2>1. CASE Others(n) # {}
    <3>1. gone' = gone \union Numbers(dir["xml"][n] \union dir["isbd"][n] \union dir["rda"][n])
                       \union UNION {Numbers(unread[q]) : q \in Others(n)}
      BY <1>1, <2>1
    <3>2. \A s \in Stage : Here(s, n) \subseteq gone'
      BY <3>1, NumbersFacts DEF Here, Stage
    <3>3. \A q \in Others(n) : Pending(q) \subseteq gone'
      BY <3>1, Zenon DEF Pending
    <3> QED BY <3>2, <3>3 DEF Done
  <2> QED BY <2>1
<1>7. /\ \A t \in Runs, s \in Source : Busy(t, "convert", s, n) => t \in Others(n)
      /\ \A t \in Runs, s \in Source : Busy(t, "move", s, n) /\ ~(s = "xml" /\ in = "isbd") => t \in Others(n)
  <2> SUFFICES ASSUME NEW t \in Runs, NEW s \in Source, Busy(t, "convert", s, n) \/ Busy(t, "move", s, n)
               PROVE  /\ Busy(t, "convert", s, n) => t \in Others(n)
                      /\ Busy(t, "move", s, n) /\ ~(s = "xml" /\ in = "isbd") => t \in Others(n)
    OBVIOUS
  <2>1. Output(t) = Target(s)
    BY Outputs DEF Busy
  <2> QED BY <1>0, <2>1 DEF Busy, Writers, Readers, Source, Target
<1> HIDE DEF in, out, Others
<1>8. Named'
  <2>1. n[1] <= exports
    BY <1>0, <1>1 DEF FileInv, Named
  <2>2. \A t \in Runs : file'[t][1] <= exports'
    BY <1>1, <2>1 DEF FileInv, Named, Typed, TypeOK
  <2>3. \A s \in Stage : \A m \in names'[s] : m[1] <= exports'
    BY <1>1, <1>2, <2>1 DEF FileInv, Named
  <2>4. \A s \in Stage, m \in Name : m \notin names'[s] => Here(s, m)' = {}
    BY ZenonT(60), <1>2 DEF FileInv, Named
  <2> QED BY <2>2, <2>3, <2>4 DEF Named
<1>9. \A m \in Name : Settled(m) => Settled(m)'
  <2> SUFFICES ASSUME NEW m \in Name, Settled(m) PROVE Settled(m)'
    OBVIOUS
  <2>1. \A s \in Stage : Here(s, m)' \subseteq Done'
    BY <1>2, <1>5 DEF Settled
  <2>2. \A t \in Runs, s \in Source : Busy(t, "convert", s, m)' => Pending(t)' \subseteq Done'
    BY <1>0, <1>3, <1>4, <1>5 DEF Settled
  <2> QED BY <2>1, <2>2 DEF Settled
<1>10. Others(n) # {} => Settled(n)'
  <2> SUFFICES ASSUME Others(n) # {} PROVE Settled(n)'
    OBVIOUS
  <2>1. \A s \in Stage : Here(s, n)' \subseteq Done'
    BY <1>2, <1>6
  <2>2. \A t \in Runs, s \in Source : Busy(t, "convert", s, n)' => Pending(t)' \subseteq Done'
    BY <1>0, <1>3, <1>4, <1>6, <1>7
  <2> QED BY <2>1, <2>2 DEF Settled
<1>11. Conflicts'
  <2> SUFFICES ASSUME NEW q \in Runs, NEW p \in Runs, NEW s \in Source, NEW t \in Source, NEW m \in Name,
                      q # p, Busy(p, "convert", s, m)', (Busy(q, "convert", t, m) \/ Busy(q, "move", t, m))',
                      ~ Apart(q, p, m)'
               PROVE  Settled(m)'
    BY DEF Conflicts
  <2>1. CASE p # r /\ q # r
    <3>1. Busy(p, "convert", s, m) /\ (Busy(q, "convert", t, m) \/ Busy(q, "move", t, m)) /\ ~ Apart(q, p, m)
      BY <1>3, <2>1 DEF Apart
    <3> QED BY <1>9, <3>1 DEF FileInv, Conflicts
  <2>2. CASE p = r
    <3>1. m = n /\ s = in /\ (Busy(q, "convert", t, n) \/ Busy(q, "move", t, n)) /\ ~ (Busy(q, "move", "xml", n) /\ in = "isbd")
      BY <1>3, <1>4, <2>2 DEF Apart
    <3>2. q \in Others(n)
      BY <1>7, <3>1 DEF Busy
    <3> QED BY <1>10, <3>1, <3>2
  <2>3. CASE q = r
    <3>1. m = n /\ p \in Others(n)
      BY <1>3, <1>4, <1>7, <2>3
    <3> QED BY <1>10, <3>1
  <2> QED BY <2>1, <2>2, <2>3
<1>12. Chain'
  <2> SUFFICES ASSUME NEW m \in Name
               PROVE  /\ m \in names'["xml"] =>
                           Here("isbd", m)' \union Here("rda", m)' \subseteq Here("xml", m)' \union Done'
                      /\ m \notin names'["xml"] /\ m \in names'["isbd"] =>
                           Here("rda", m)' \subseteq Here("isbd", m)' \union Done'
    BY DEF Chain
  <2>1. CASE m # n
    BY <1>2, <1>5, <2>1 DEF FileInv, Chain, Stage
  <2>2. CASE m = n /\ in = "xml"
    BY <1>0, <1>1, <1>2, <1>5, <2>2 DEF FileInv, Chain, Stage, Target
  <2>3. CASE m = n /\ in = "isbd"
    BY <1>0, <1>1, <1>2, <1>5, <2>3 DEF FileInv, Chain, Stage, Target
  <2> QED BY <1>0, <2>1, <2>2, <2>3 DEF Source
<1>13. Converting'
  <2> SUFFICES ASSUME NEW t \in Runs, NEW s \in Source, NEW m \in Name, Busy(t, "convert", s, m)'
               PROVE  /\ Pending(t)' \subseteq Here(s, m)' \union Done'
                      /\ \/ /\ m \in names'[Target(s)]
                            /\ Here(s, m)' \subseteq Here(Target(s), m)' \union Pending(t)' \union Done'
                         \/ Here(s, m)' \union Pending(t)' \subseteq Done'
    BY DEF Converting
  <2>0. s \in Stage /\ Target(s) \in Stage
    BY DEF Source, Target, Stage
  <2>1. CASE t = r
    <3>1. s = in /\ m = n /\ Pending(t)' = Here(in, n) /\ in # out
      BY <1>0, <1>4, <2>1 DEF Source, Target
    <3> QED BY <1>0, <1>2, <2>0, <3>1
  <2>2. CASE t # r /\ m # n
    <3>1. Busy(t, "convert", s, m)
      BY <1>3, <2>2
    <3>2. /\ Pending(t) \subseteq Here(s, m) \union Done
          /\ \/ /\ m \in names[Target(s)]
                /\ Here(s, m) \subseteq Here(Target(s), m) \union Pending(t) \union Done
             \/ Here(s, m) \union Pending(t) \subseteq Done
      BY <3>1 DEF FileInv, Converting
    <3>3. /\ Here(s, m)' = Here(s, m) /\ Here(Target(s), m)' = Here(Target(s), m)
          /\ m \in names[Target(s)] => m \in names'[Target(s)]
          /\ Pending(t)' = Pending(t)
      BY <1>2, <1>3, <2>0, <2>2
    <3> HIDE DEF Pending, Target
    <3> QED BY <1>5, <3>2, <3>3
  <2>3. CASE t # r /\ m = n
    <3>1. Busy(t, "convert", s, n) /\ t \in Others(n)
      BY <1>3, <1>7, <2>3
    <3>2. Pending(t)' \subseteq Done' /\ Here(s, n)' \subseteq Done'
      BY <1>2, <1>3, <1>6, <2>0, <2>3, <3>1
    <3> QED BY <2>3, <3>2
  <2> QED BY <2>1, <2>2, <2>3
<1>14. Moving'
  <2> SUFFICES ASSUME NEW t \in Runs, NEW s \in Source, NEW m \in Name, Busy(t, "move", s, m)'
               PROVE  Here(s, m)' \subseteq Done' \union
                          IF s = "xml" /\ m \in names'["isbd"] THEN Here("isbd", m)' ELSE Here("rda", m)'
    BY DEF Moving
  <2>1. t # r /\ Busy(t, "move", s, m) /\ s \in Stage
    BY <1>3, <1>4 DEF Source, Stage
  <2>2. Here(s, m) \subseteq Done \union
            IF s = "xml" /\ m \in names["isbd"] THEN Here("isbd", m) ELSE Here("rda", m)
    BY <2>1 DEF FileInv, Moving
  <2>3. CASE m # n
    BY <1>2, <1>5, <2>1, <2>2, <2>3 DEF Stage
  <2>4. CASE m = n /\ t \in Others(n)
    BY <1>2, <1>6, <2>1, <2>4
  <2>5. CASE m = n /\ t \notin Others(n)
    <3>1. s = "xml" /\ in = "isbd" /\ out = "rda"
      BY <1>0, <1>7, <2>1, <2>5 DEF Target
    <3> QED BY <1>1, <1>2, <1>5, <2>2, <2>5, <3>1 DEF Stage
  <2> QED BY <2>3, <2>4, <2>5
<1>15. ASSUME NEW b, Safe(b) PROVE Safe(b)'
  <2>1. CASE b \in Done
    BY <1>5, <2>1 DEF Safe
  <2>2. CASE \E s \in Stage, m \in Name : b \in Here(s, m)
    <3>1. PICK s \in Stage, m \in Name : b \in Here(s, m)
      BY <2>2
    <3>2. CASE ~(s = out /\ m = n)
      BY <1>2, <3>1, <3>2 DEF Safe
    <3>3. CASE s = out /\ m = n
      <4>1. b \in Here("xml", n) \/ (b \in Here("isbd", n) /\ out # "isbd") \/ b \in Done
        <5>1. CASE in = "xml"
          <6>1. n \in names["xml"] /\ b \in Here("isbd", n)
            BY <1>0, <1>1, <3>1, <3>3, <5>1 DEF Target
          <6>2. Here("isbd", n) \subseteq Here("xml", n) \union Done
            BY <6>1 DEF FileInv, Chain
          <6> QED BY <6>1, <6>2
        <5>2. CASE in = "isbd"
          BY <1>0, <1>1, <3>1, <3>3, <5>2 DEF FileInv, Chain, Target
        <5> QED BY <1>0, <5>1, <5>2 DEF Source
      <4>2. "xml" \in Stage /\ "isbd" \in Stage /\ out # "xml"
        BY <1>0 DEF Stage, Target
      <4> QED BY <1>2, <1>5, <4>1, <4>2 DEF Safe
    <3> QED BY <3>2, <3>3
  <2> QED BY <1>15, <2>1, <2>2 DEF Safe
<1>16. Printing' /\ Fresh'
  <2>1. pc[r] = "file" /\ UNCHANGED page
    BY DEF Convert
  <2>2. \A t \in Runs : Exporting(t)' =>
            /\ Exporting(t) /\ file'[t] = file[t] /\ page'[t] = page[t]
            /\ pc'[t] = "printing" => pc[t] = "printing" /\ unread'[t] = unread[t]
    BY <1>1, <2>1 DEF Exporting, Typed, TypeOK
  <2>3. \A m \in Name : m # n /\ Untouched(m) => Untouched(m)' /\ (m \in names'["xml"] <=> m \in names["xml"])
    BY <1>0, <1>2, <1>3, <1>4 DEF Untouched, Stage, Target
  <2>4. \A m \in Name : m \notin names["xml"] /\ Untouched(m) => m # n
    BY <1>0, <1>1 DEF Untouched, Source
  <2>5. \A t \in Runs : pc[t] = "printing" /\ file[t] = n /\ Untouched(n) => Pending(t) \subseteq Done'
    <3> SUFFICES ASSUME NEW t \in Runs, pc[t] = "printing", file[t] = n, Untouched(n) PROVE Pending(t) \subseteq Done'
      OBVIOUS
    <3>1. in = "xml"
      BY <1>0, <1>1 DEF Untouched, Source
    <3>2. t \in Others(n)
      BY <3>1 DEF Others, Writers
    <3> QED BY <1>6, <3>2
  <2> QED BY <1>5, <2>2, <2>3, <2>4, <2>5, PrintersKept DEF FileInv
<1> QED BY <1>8, <1>11, <1>12, <1>13, <1>14, <1>15, <1>16 DEF FileInv

\* A script that has a file open is alone with it, but for one that has only to
\* move an earlier stage of it away, unless nothing is owed of it.
LEMMA Alone ==
    ASSUME FileInv, NEW r \in Runs, NEW s \in Source, NEW n \in Name, Busy(r, "convert", s, n), ~ Settled(n)
    PROVE  /\ \A t \in Runs \ {r} : \A x \in Source : ~ Busy(t, "convert", x, n)
           /\ \A t \in Runs \ {r} : \A x \in Source : Busy(t, "move", x, n) => x = "xml" /\ s = "isbd"
  BY DEF FileInv, Conflicts, Apart, Busy

\* A record goes from the input to the output.
LEMMA RecordKeeps ==
    ASSUME Typed, Typed', FileInv, NEW r \in Runs, ConvertRecord(r)
    PROVE  FileInv' /\ \A b : Safe(b) => Safe(b)'
<1>a. PICK n \in Name, in \in Source, out \in Stage :
          /\ n = file[r] /\ in = Input(r) /\ out = Output(r) /\ out = Target(in)
  BY Outputs DEF Typed, InHand, ConvertRecord
<1>0. in \in Stage /\ in # out /\ Busy(r, "convert", in, n)
  BY <1>a DEF Source, Stage, Target, ConvertRecord, Busy
<1>1. PICK x \in unread[r] :
        /\ unread' = [unread EXCEPT ![r] = @ \ {x}]
        /\ dir' = [dir EXCEPT ![out][n] = IF n \in names[out] THEN @ \union {x} ELSE @]
  BY <1>a DEF ConvertRecord
<1>2. /\ UNCHANGED <<names, pc, pass, file, exports, gone, converted>>
      /\ Done' = Done
  BY DEF ConvertRecord, koha, history, Done
<1>3. /\ x[1] \in Pending(r)
      /\ Pending(r)' \subseteq Pending(r) /\ Pending(r) \subseteq Pending(r)' \union {x[1]}
  BY <1>1, NumbersFacts DEF Pending, Numbers, Typed, TypeOK
<1>4. \A t \in Runs \ {r} : Pending(t)' = Pending(t)
  BY <1>1 DEF Pending, Typed, TypeOK
<1>5. \A s \in Stage, m \in Name :
          Here(s, m)' = IF s = out /\ m = n /\ n \in names[out] THEN Here(s, m) \union {x[1]} ELSE Here(s, m)
  <2>1. Numbers(dir[out][n] \union {x}) = Numbers(dir[out][n]) \union {x[1]}
    <3>1. Numbers({x}) = {x[1]}
      BY NumbersFacts
    <3>2. Numbers(dir[out][n] \union {x}) = Numbers(dir[out][n]) \union Numbers({x})
      BY NumbersFacts
    <3> QED BY <3>1, <3>2
  <2>2. \A s \in Stage, m \in Name :
            dir'[s][m] = IF s = out /\ m = n /\ n \in names[out] THEN dir[s][m] \union {x} ELSE dir[s][m]
    BY <1>1 DEF Typed, TypeOK
  <2> QED BY <2>1, <2>2 DEF Here
<1>6. \A t, l, s, m : Busy(t, l, s, m)' <=> Busy(t, l, s, m)
  BY <1>2 DEF Busy, Input
<1>7. /\ Pending(r) \subseteq Here(in, n) \union Done
      /\ \/ /\ n \in names[out]
            /\ Here(in, n) \subseteq Here(out, n) \union Pending(r) \union Done
         \/ Here(in, n) \union Pending(r) \subseteq Done
  BY <1>a, <1>0 DEF FileInv, Converting
<1>8. Named'
  BY <1>a, <1>0, <1>2, <1>5 DEF FileInv, Named
<1>9. \A m \in Name : Settled(m) => Settled(m)'
  <2> SUFFICES ASSUME NEW m \in Name, Settled(m) PROVE Settled(m)'
    OBVIOUS
  <2>1. \A s \in Stage : Here(s, m)' \subseteq Done'
    BY <1>a, <1>0, <1>2, <1>3, <1>5 DEF Settled
  <2>2. \A t \in Runs, s \in Source : Busy(t, "convert", s, m)' => Pending(t)' \subseteq Done'
    BY <1>2, <1>3, <1>4, <1>6 DEF Settled
  <2> QED BY <2>1, <2>2 DEF Settled
<1>10. Conflicts'
  BY <1>6, <1>9 DEF FileInv, Conflicts, Apart
<1>11. Chain'
  <2> SUFFICES ASSUME NEW m \in Name
               PROVE  /\ m \in names'["xml"] =>
                           Here("isbd", m)' \union Here("rda", m)' \subseteq Here("xml", m)' \union Done'
                      /\ m \notin names'["xml"] /\ m \in names'["isbd"] =>
                           Here("rda", m)' \subseteq Here("isbd", m)' \union Done'
    BY DEF Chain
  <2>0. /\ m \in names["xml"] =>
             Here("isbd", m) \union Here("rda", m) \subseteq Here("xml", m) \union Done
        /\ m \notin names["xml"] /\ m \in names["isbd"] =>
             Here("rda", m) \subseteq Here("isbd", m) \union Done
    BY DEF FileInv, Chain
  <2>1. CASE m # n
    BY <1>2, <1>5, <2>0, <2>1 DEF Stage
  <2>2. CASE m = n /\ in = "xml"
    <3>1. out = "isbd" /\ x[1] \in Here("xml", n) \union Done
      BY <1>a, <1>0, <1>3, <1>7, <2>2 DEF Target
    <3> QED BY <1>2, <1>5, <2>0, <2>2, <3>1 DEF Stage
  <2>3. CASE m = n /\ in = "isbd"
    <3>1. out = "rda" /\ x[1] \in Here("isbd", n) \union Done
      BY <1>a, <1>0, <1>3, <1>7, <2>3 DEF Target
    <3> QED BY <1>2, <1>5, <2>0, <2>3, <3>1 DEF Stage
  <2> QED BY <1>a, <1>0, <2>1, <2>2, <2>3 DEF Source
<1>12. Converting'
  <2> SUFFICES ASSUME NEW t \in Runs, NEW s \in Source, NEW m \in Name, Busy(t, "convert", s, m)'
               PROVE  /\ Pending(t)' \subseteq Here(s, m)' \union Done'
                      /\ \/ /\ m \in names'[Target(s)]
                            /\ Here(s, m)' \subseteq Here(Target(s), m)' \union Pending(t)' \union Done'
                         \/ Here(s, m)' \union Pending(t)' \subseteq Done'
    BY DEF Converting
  <2>0. s \in Stage /\ Target(s) \in Stage /\ Busy(t, "convert", s, m)
    BY <1>6 DEF Source, Target, Stage
  <2>1. CASE t = r
    <3>1. s = in /\ m = n
      BY <1>a, <1>0, <2>0, <2>1 DEF Busy
    <3>2. Here(in, n)' = Here(in, n) /\ Here(out, n) \subseteq Here(out, n)'
          /\ (n \in names[out] => x[1] \in Here(out, n)')
      BY <1>a, <1>0, <1>5
    <3> QED BY <1>a, <1>0, <1>2, <1>3, <1>7, <2>1, <3>1, <3>2
  <2>2. CASE t # r /\ m # n
    <3>1. /\ Pending(t) \subseteq Here(s, m) \union Done
          /\ \/ /\ m \in names[Target(s)]
                /\ Here(s, m) \subseteq Here(Target(s), m) \union Pending(t) \union Done
             \/ Here(s, m) \union Pending(t) \subseteq Done
      BY <2>0 DEF FileInv, Converting
    <3>2. /\ Here(s, m)' = Here(s, m) /\ Here(Target(s), m)' = Here(Target(s), m)
          /\ Pending(t)' = Pending(t)
      BY <1>4, <1>5, <2>0, <2>2
    <3> QED BY <1>2, <3>1, <3>2
  <2>3. CASE t # r /\ m = n
    <3>1. Settled(n)'
      BY <1>a, <1>0, <1>9, <2>0, <2>3, Alone
    <3> QED BY <2>0, <2>3, <3>1 DEF Settled
  <2> QED BY <2>1, <2>2, <2>3
<1>13. Moving'
  <2> SUFFICES ASSUME NEW t \in Runs, NEW s \in Source, NEW m \in Name, Busy(t, "move", s, m)'
               PROVE  Here(s, m)' \subseteq Done' \union
                          IF s = "xml" /\ m \in names'["isbd"] THEN Here("isbd", m)' ELSE Here("rda", m)'
    BY DEF Moving
  <2>0. t # r /\ Busy(t, "move", s, m) /\ s \in Stage
    BY ZenonT(60), <1>a, <1>0, <1>6 DEF Source, Stage, Busy
  <2>1. Here(s, m) \subseteq Done \union
            IF s = "xml" /\ m \in names["isbd"] THEN Here("isbd", m) ELSE Here("rda", m)
    BY <2>0 DEF FileInv, Moving
  <2>2. CASE m # n
    BY <1>2, <1>5, <2>0, <2>1, <2>2 DEF Stage
  <2>3. CASE m = n /\ Settled(n)
    BY <1>a, <1>0, <1>9, <2>0, <2>3 DEF Settled
  <2>4. CASE m = n /\ ~ Settled(n)
    <3>1. s = "xml" /\ out = "rda"
      BY <1>a, <1>0, <2>0, <2>4, Alone DEF Target
    <3> QED BY <1>2, <1>5, <2>1, <2>4, <3>1 DEF Stage
  <2> QED BY <2>2, <2>3, <2>4
<1>14. ASSUME NEW b, Safe(b) PROVE Safe(b)'
  BY <1>2, <1>5, <1>14 DEF Safe
<1>15. Printing' /\ Fresh'
  <2>1. pc[r] = "convert" /\ UNCHANGED page
    BY DEF ConvertRecord
  <2>2. \A t \in Runs : Exporting(t)' =>
            /\ Exporting(t) /\ file'[t] = file[t] /\ page'[t] = page[t]
            /\ pc'[t] = "printing" => pc[t] = "printing" /\ unread'[t] = unread[t]
    BY <1>1, <1>2, <2>1 DEF Exporting, Typed, TypeOK
  <2>3. \A m \in Name : Untouched(m) => Untouched(m)'
    BY <1>2, <1>6 DEF Untouched
  <2> QED BY <1>2, <2>2, <2>3, PrintersKept DEF FileInv
<1> QED BY <1>8, <1>10, <1>11, <1>12, <1>13, <1>14, <1>15 DEF FileInv

\* The conversion is over, at the end of the file or before it.
LEMMA ConvertedKeeps ==
    ASSUME Typed, Typed', FileInv, NEW r \in Runs, Converted(r) \/ BreakOff(r)
    PROVE  FileInv' /\ \A b : Safe(b) => Safe(b)'
<1>a. PICK n \in Name, in \in Source, out \in Stage :
          /\ n = file[r] /\ in = Input(r) /\ out = Output(r) /\ out = Target(in)
  BY Outputs DEF Typed, InHand, Converted, BreakOff
<1>0. in \in Stage /\ Busy(r, "convert", in, n)
  BY <1>a DEF Source, Stage, Converted, BreakOff, Busy
<1>1. /\ UNCHANGED <<dir, names, pass, file, exports, converted>>
      /\ pc' = [pc EXCEPT ![r] = "move"] /\ unread' = [unread EXCEPT ![r] = {}]
      /\ gone' = gone \union Numbers(unread[r])
  <2>1. CASE Converted(r)
    <3>1. unread[r] = {} /\ unread' = unread /\ gone' = gone
      BY <2>1 DEF Converted, local, history
    <3> QED BY <2>1, <3>1, NumbersFacts DEF Converted, koha, disk, local, Goto, Typed, TypeOK
  <2>2. CASE BreakOff(r)
    BY <2>2 DEF BreakOff, koha, disk, Goto
  <2> QED BY <2>1, <2>2
<1>2. Done' = Done \union Pending(r)
  BY <1>1 DEF Done, Pending
<1>3. /\ \A s, m : Here(s, m)' = Here(s, m)
      /\ \A t \in Runs : \A s, m : Busy(t, "convert", s, m)' =>
             t # r /\ Busy(t, "convert", s, m) /\ Pending(t)' = Pending(t)
      /\ \A t \in Runs : \A s, m : Busy(t, "move", s, m)' =>
             Busy(t, "move", s, m) \/ (t = r /\ s = in /\ m = n)
  <2>1. \A s, m : Here(s, m)' = Here(s, m)
    BY <1>1 DEF Here
  <2>2. \A t \in Runs \ {r} : pc'[t] = pc[t] /\ Input(t)' = Input(t) /\ file'[t] = file[t] /\ Pending(t)' = Pending(t)
    BY <1>1 DEF Input, Pending, Typed, TypeOK
  <2>3. pc'[r] = "move" /\ Input(r)' = in /\ file'[r] = n
    BY <1>a, <1>1 DEF Input, Typed, TypeOK
  <2> QED BY <2>1, <2>2, <2>3 DEF Busy
<1>4. Named'
  BY <1>1, <1>3 DEF FileInv, Named
<1>5. \A m \in Name : Settled(m) => Settled(m)'
  BY <1>2, <1>3 DEF Settled
<1>6. Conflicts'
  <2> SUFFICES ASSUME NEW q \in Runs, NEW p \in Runs, NEW s \in Source, NEW t \in Source, NEW m \in Name,
                      q # p, Busy(p, "convert", s, m)', (Busy(q, "convert", t, m) \/ Busy(q, "move", t, m))',
                      ~ Apart(q, p, m)'
               PROVE  Settled(m)'
    BY DEF Conflicts
  <2>1. p # r /\ Busy(p, "convert", s, m)
    BY <1>3
  <2>2. CASE q # r
    <3>1. (Busy(q, "convert", t, m) \/ Busy(q, "move", t, m)) /\ ~ Apart(q, p, m)
      BY <1>1, <1>3, <2>2 DEF Apart, Busy, Input, Typed, TypeOK
    <3> QED BY <1>5, <2>1, <3>1 DEF FileInv, Conflicts
  <2>3. CASE q = r
    <3>1. m = n
      BY <1>0, <1>3, <2>3 DEF Busy
    <3> QED BY <1>a, <1>0, <1>5, <2>1, <2>3, <3>1, Alone
  <2> QED BY <2>2, <2>3
<1>7. Chain'
  BY <1>1, <1>2, <1>3 DEF FileInv, Chain
<1>8. Converting'
  <2> SUFFICES ASSUME NEW t \in Runs, NEW s \in Source, NEW m \in Name, Busy(t, "convert", s, m)'
               PROVE  /\ Pending(t)' \subseteq Here(s, m)' \union Done'
                      /\ \/ /\ m \in names'[Target(s)]
                            /\ Here(s, m)' \subseteq Here(Target(s), m)' \union Pending(t)' \union Done'
                         \/ Here(s, m)' \union Pending(t)' \subseteq Done'
    BY DEF Converting
  <2>1. /\ Pending(t) \subseteq Here(s, m) \union Done
        /\ \/ /\ m \in names[Target(s)]
              /\ Here(s, m) \subseteq Here(Target(s), m) \union Pending(t) \union Done
           \/ Here(s, m) \union Pending(t) \subseteq Done
    BY <1>3 DEF FileInv, Converting
  <2>2. /\ Here(s, m)' = Here(s, m) /\ Here(Target(s), m)' = Here(Target(s), m)
        /\ Pending(t)' = Pending(t) /\ names'[Target(s)] = names[Target(s)]
    BY <1>1, <1>3
  <2> QED BY <1>2, <2>1, <2>2
<1>9. Moving'
  <2> SUFFICES ASSUME NEW t \in Runs, NEW s \in Source, NEW m \in Name, Busy(t, "move", s, m)'
               PROVE  Here(s, m)' \subseteq Done' \union
                          IF s = "xml" /\ m \in names'["isbd"] THEN Here("isbd", m)' ELSE Here("rda", m)'
    BY DEF Moving
  <2>1. CASE Busy(t, "move", s, m)
    <3>1. Here(s, m) \subseteq Done \union
              IF s = "xml" /\ m \in names["isbd"] THEN Here("isbd", m) ELSE Here("rda", m)
      BY <2>1 DEF FileInv, Moving
    <3> QED BY <1>1, <1>2, <1>3, <3>1
  <2>2. CASE t = r /\ s = in /\ m = n
    <3>1. \/ n \in names[out] /\ Here(in, n) \subseteq Here(out, n) \union Pending(r) \union Done
          \/ Here(in, n) \union Pending(r) \subseteq Done
      BY <1>a, <1>0 DEF FileInv, Converting
    <3>2. (in = "xml" /\ out = "isbd") \/ (in = "isbd" /\ out = "rda")
      BY <1>a, <1>0 DEF Source, Target
    <3> QED BY <1>1, <1>2, <1>3, <2>2, <3>1, <3>2
  <2> QED BY <1>3, <2>1, <2>2
<1>10. ASSUME NEW b, Safe(b) PROVE Safe(b)'
  BY <1>2, <1>3, <1>10 DEF Safe
<1>11. Printing' /\ Fresh'
  <2>1. pc[r] = "convert" /\ UNCHANGED page
    BY DEF Converted, BreakOff, local
  <2>2. \A t \in Runs : Exporting(t)' =>
            /\ Exporting(t) /\ file'[t] = file[t] /\ page'[t] = page[t]
            /\ pc'[t] = "printing" => pc[t] = "printing" /\ unread'[t] = unread[t]
    BY <1>1, <2>1 DEF Exporting, Typed, TypeOK
  <2>3. \A m \in Name : Untouched(m) => Untouched(m)'
    BY <1>a, <1>0, <1>1, <1>3 DEF Untouched
  <2> QED BY <1>1, <1>2, <2>2, <2>3, PrintersKept DEF FileInv
<1> QED BY <1>4, <1>6, <1>7, <1>8, <1>9, <1>10, <1>11 DEF FileInv

\* The input is moved away: what it had is in a later stage.
LEMMA MoveKeeps ==
    ASSUME Typed, Typed', FileInv, NEW r \in Runs, MoveInput(r)
    PROVE  FileInv' /\ \A b : Safe(b) => Safe(b)'
<1>a. PICK n \in Name, in \in Source : n = file[r] /\ in = Input(r)
  BY Outputs DEF Typed, InHand, MoveInput
<1>0. in \in Stage /\ Busy(r, "move", in, n)
  BY <1>a DEF Source, Stage, MoveInput, Busy
<1>1. /\ UNCHANGED <<pass, unread, exports, converted, gone>>
      /\ dir' = [dir EXCEPT ![in][n] = {}] /\ names' = [names EXCEPT ![in] = @ \ {n}]
      /\ pc' = [pc EXCEPT ![r] = "file"] /\ file' = [file EXCEPT ![r] = None]
      /\ Done' = Done
  BY <1>a DEF MoveInput, koha, history, Goto, Done
<1>2. /\ \A s \in Stage, m \in Name : Here(s, m)' = IF s = in /\ m = n THEN {} ELSE Here(s, m)
      /\ \A s \in Stage : names'[s] = IF s = in THEN names[s] \ {n} ELSE names[s]
  BY ZenonT(60), <1>1, NumbersFacts DEF Here, Typed, TypeOK
<1>3. \A t \in Runs, l \in {"convert", "move"} : \A s, m : Busy(t, l, s, m)' =>
          t # r /\ Busy(t, l, s, m) /\ Pending(t)' = Pending(t)
  BY <1>1 DEF Busy, Input, Pending, Typed, TypeOK
<1>4. Here(in, n) \subseteq Done \union
          IF in = "xml" /\ n \in names["isbd"] THEN Here("isbd", n) ELSE Here("rda", n)
  BY <1>0 DEF FileInv, Moving
<1>5. Named'
  <2>1. \A t \in Runs : file'[t][1] <= exports'
    BY <1>1 DEF FileInv, Named, Typed, TypeOK, None
  <2> QED BY <1>1, <1>2, <2>1 DEF FileInv, Named
<1>6. \A m \in Name : Settled(m) => Settled(m)'
  BY <1>1, <1>2, <1>3 DEF Settled
<1>7. Conflicts'
  <2> SUFFICES ASSUME NEW q \in Runs, NEW p \in Runs, NEW s \in Source, NEW t \in Source, NEW m \in Name,
                      q # p, Busy(p, "convert", s, m)', (Busy(q, "convert", t, m) \/ Busy(q, "move", t, m))',
                      ~ Apart(q, p, m)'
               PROVE  Settled(m)'
    BY DEF Conflicts
  <2>1. Busy(p, "convert", s, m) /\ (Busy(q, "convert", t, m) \/ Busy(q, "move", t, m))
    BY <1>3
  <2>2. ~ Apart(q, p, m)
    <3> SUFFICES ASSUME Apart(q, p, m) PROVE FALSE
      OBVIOUS
    <3>1. t = "xml" /\ s = "isbd" /\ ~ Busy(q, "convert", t, m)
      BY <2>1 DEF Apart, Busy
    <3>2. ~ Busy(q, "convert", t, m)'
      BY <1>3, <3>1
    <3> QED BY <3>1, <3>2 DEF Apart
  <2> QED BY <1>6, <2>1, <2>2 DEF FileInv, Conflicts
<1>8. Chain'
  <2> SUFFICES ASSUME NEW m \in Name
               PROVE  /\ m \in names'["xml"] =>
                           Here("isbd", m)' \union Here("rda", m)' \subseteq Here("xml", m)' \union Done'
                      /\ m \notin names'["xml"] /\ m \in names'["isbd"] =>
                           Here("rda", m)' \subseteq Here("isbd", m)' \union Done'
    BY DEF Chain
  <2>0. /\ m \in names["xml"] =>
             Here("isbd", m) \union Here("rda", m) \subseteq Here("xml", m) \union Done
        /\ m \notin names["xml"] /\ m \in names["isbd"] =>
             Here("rda", m) \subseteq Here("isbd", m) \union Done
    BY DEF FileInv, Chain
  <2>1. CASE m # n
    BY <1>1, <1>2, <2>0, <2>1 DEF Stage
  <2>2. CASE m = n /\ in = "xml"
    BY <1>1, <1>2, <1>4, <2>0, <2>2 DEF Stage
  <2>3. CASE m = n /\ in = "isbd"
    BY <1>1, <1>2, <2>0, <2>3 DEF Stage
  <2> QED BY <1>a, <2>1, <2>2, <2>3 DEF Source
<1>9. Converting'
  <2> SUFFICES ASSUME NEW t \in Runs, NEW s \in Source, NEW m \in Name, Busy(t, "convert", s, m)'
               PROVE  /\ Pending(t)' \subseteq Here(s, m)' \union Done'
                      /\ \/ /\ m \in names'[Target(s)]
                            /\ Here(s, m)' \subseteq Here(Target(s), m)' \union Pending(t)' \union Done'
                         \/ Here(s, m)' \union Pending(t)' \subseteq Done'
    BY DEF Converting
  <2>0. s \in Stage /\ Target(s) \in Stage /\ t # r /\ Busy(t, "convert", s, m) /\ Pending(t)' = Pending(t)
    BY <1>3 DEF Source, Target, Stage
  <2>1. /\ Pending(t) \subseteq Here(s, m) \union Done
        /\ \/ /\ m \in names[Target(s)]
              /\ Here(s, m) \subseteq Here(Target(s), m) \union Pending(t) \union Done
           \/ Here(s, m) \union Pending(t) \subseteq Done
    BY <2>0 DEF FileInv, Converting
  <2>2. CASE m # n
    BY <1>1, <1>2, <2>0, <2>1, <2>2
  <2>3. CASE m = n /\ ~ Settled(n)
    <3>1. in = "xml" /\ s = "isbd" /\ Target(s) = "rda"
      BY <1>a, <1>0, <2>0, <2>3, Alone DEF Target
    <3> QED BY <1>1, <1>2, <2>0, <2>1, <2>3, <3>1
  <2>4. CASE m = n /\ Settled(n)
    <3>1. Settled(n)'
      BY <1>6, <2>4
    <3> QED BY <2>0, <2>4, <3>1 DEF Settled
  <2> QED BY <2>2, <2>3, <2>4
<1>10. Moving'
  <2> SUFFICES ASSUME NEW t \in Runs, NEW s \in Source, NEW m \in Name, Busy(t, "move", s, m)'
               PROVE  Here(s, m)' \subseteq Done' \union
                          IF s = "xml" /\ m \in names'["isbd"] THEN Here("isbd", m)' ELSE Here("rda", m)'
    BY DEF Moving
  <2>0. s \in Stage /\ Busy(t, "move", s, m)
    BY <1>3 DEF Source, Stage
  <2>1. Here(s, m) \subseteq Done \union
            IF s = "xml" /\ m \in names["isbd"] THEN Here("isbd", m) ELSE Here("rda", m)
    BY <2>0 DEF FileInv, Moving
  <2>2. CASE m # n \/ (in = "xml" /\ s = "isbd")
    BY <1>1, <1>2, <2>0, <2>1, <2>2 DEF Stage
  <2>3. CASE m = n /\ s = in
    BY <1>2, <2>0, <2>3
  <2>4. CASE m = n /\ in = "isbd" /\ s = "xml"
    BY <1>1, <1>2, <1>4, <2>1, <2>4 DEF Stage
  <2> QED BY <1>a, <2>2, <2>3, <2>4 DEF Source
<1>11. ASSUME NEW b, Safe(b) PROVE Safe(b)'
  <2>1. CASE b \in Done
    BY <1>1, <2>1 DEF Safe
  <2>2. CASE \E s \in Stage, m \in Name : b \in Here(s, m)
    <3>1. PICK s \in Stage, m \in Name : b \in Here(s, m)
      BY <2>2
    <3>2. CASE ~(s = in /\ m = n)
      BY <1>2, <3>1, <3>2 DEF Safe
    <3>3. CASE s = in /\ m = n
      <4>1. b \in Done \/ (b \in Here("isbd", n) /\ in # "isbd") \/ b \in Here("rda", n)
        BY <1>4, <3>1, <3>3
      <4>2. "isbd" \in Stage /\ "rda" \in Stage /\ in # "rda"
        BY <1>a DEF Stage, Source
      <4> QED BY <1>1, <1>2, <4>1, <4>2 DEF Safe
    <3> QED BY <3>2, <3>3
  <2> QED BY <1>11, <2>1, <2>2 DEF Safe
<1>12. Printing' /\ Fresh'
  <2>1. pc[r] = "move" /\ UNCHANGED page
    BY DEF MoveInput
  <2>2. \A t \in Runs : Exporting(t)' =>
            /\ Exporting(t) /\ file'[t] = file[t] /\ page'[t] = page[t]
            /\ pc'[t] = "printing" => pc[t] = "printing" /\ unread'[t] = unread[t]
    BY <1>1, <2>1 DEF Exporting, Typed, TypeOK
  <2>3. \A m \in Name : Untouched(m) => Untouched(m)' /\ (m \in names'["xml"] <=> m \in names["xml"])
    BY <1>a, <1>0, <1>2, <1>3 DEF Untouched, Stage
  <2> QED BY <1>1, <2>2, <2>3, PrintersKept DEF FileInv
<1> QED BY <1>5, <1>7, <1>8, <1>9, <1>10, <1>11, <1>12 DEF FileInv

\* A file that is imported owes nothing more, nor does a script still writing it.
LEMMA ImportKeeps ==
    ASSUME Typed, Typed', FileInv, NEW r \in Runs, ImportFile(r)
    PROVE  FileInv' /\ \A b : Safe(b) => Safe(b)'
<1>1. UNCHANGED <<exports, pc, pass, file, unread>>
  BY DEF ImportFile
<1>p. UNCHANGED page
  BY DEF ImportFile
<1>2. CASE UNCHANGED <<koha, dir, names, processed, gone>>
  BY <1>1, <1>2, <1>p, StillKept DEF koha, Input, Exporting
<1>3. CASE ~ UNCHANGED <<koha, dir, names, processed, gone>>
  <2>1. PICK n \in Name :
          /\ dir' = [dir EXCEPT !["rda"][n] = {}] /\ names' = [names EXCEPT !["rda"] = @ \ {n}]
          /\ converted' = [b \in Biblios |-> converted[b] \/ b \in Numbers(dir["rda"][n])]
          /\ gone' = gone \union UNION {Numbers(unread[q]) : q \in Writers("rda", n)}
    <3>1. todo[r] \subseteq Name
      BY DEF Typed, TypeOK
    <3> QED BY <1>3, <3>1 DEF ImportFile, Earliest, Without
  <2>2. \A q \in Writers("rda", n) : Pending(q) \subseteq gone'
    BY <2>1, Zenon DEF Pending
  <2>3. Done \subseteq Done' /\ Here("rda", n) \subseteq Done'
    <3>1. Here("rda", n) \subseteq Biblios
      BY DEF Here, Numbers, Typed, TypeOK, Stage, Record
    <3> QED BY <2>1, <3>1 DEF Done, Here
  <2>4. /\ \A s \in Stage, m \in Name : Here(s, m)' = IF s = "rda" /\ m = n THEN {} ELSE Here(s, m)
        /\ \A s \in Stage : names'[s] = IF s = "rda" THEN names[s] \ {n} ELSE names[s]
    <3>1. \A s \in Stage, m \in Name : dir'[s][m] = IF s = "rda" /\ m = n THEN {} ELSE dir[s][m]
      BY <2>1 DEF Typed, TypeOK
    <3>2. \A s \in Stage : names'[s] = IF s = "rda" THEN names[s] \ {n} ELSE names[s]
      BY <2>1 DEF Typed, TypeOK
    <3> QED BY <3>1, <3>2, NumbersFacts DEF Here
  <2>5. \A t, l, s, m : (Busy(t, l, s, m)' <=> Busy(t, l, s, m)) /\ Pending(t)' = Pending(t)
    BY <1>1 DEF Busy, Input, Pending
  <2>6. Named'
    BY ZenonT(60), <1>1, <2>4 DEF FileInv, Named
  <2>7. \A m \in Name : Settled(m) => Settled(m)'
    BY <2>3, <2>4, <2>5 DEF Settled
  <2>8. Conflicts'
    BY <2>5, <2>7 DEF FileInv, Conflicts, Apart
  <2>9. Chain'
    BY <2>3, <2>4 DEF FileInv, Chain, Stage
  <2>10. Converting'
    <3> SUFFICES ASSUME NEW t \in Runs, NEW s \in Source, NEW m \in Name, Busy(t, "convert", s, m)'
                 PROVE  /\ Pending(t)' \subseteq Here(s, m)' \union Done'
                        /\ \/ /\ m \in names'[Target(s)]
                              /\ Here(s, m)' \subseteq Here(Target(s), m)' \union Pending(t)' \union Done'
                           \/ Here(s, m)' \union Pending(t)' \subseteq Done'
      BY DEF Converting
    <3>0. s \in Stage /\ s # "rda" /\ Target(s) \in Stage /\ Busy(t, "convert", s, m) /\ Pending(t)' = Pending(t)
      BY <2>5 DEF Source, Target, Stage
    <3>1. /\ Pending(t) \subseteq Here(s, m) \union Done
          /\ \/ /\ m \in names[Target(s)]
                /\ Here(s, m) \subseteq Here(Target(s), m) \union Pending(t) \union Done
             \/ Here(s, m) \union Pending(t) \subseteq Done
      BY <3>0 DEF FileInv, Converting
    <3>2. CASE m # n \/ Target(s) # "rda"
      BY <2>3, <2>4, <3>0, <3>1, <3>2
    <3>3. CASE m = n /\ Target(s) = "rda"
      <4>1. t \in Writers("rda", n)
        BY <3>0, <3>3, Outputs DEF Writers, Busy
      <4>2. Pending(t) \subseteq Done'
        BY <2>2, <4>1 DEF Done
      <4> QED BY <2>3, <2>4, <3>0, <3>1, <3>3, <4>2
    <3> QED BY <3>2, <3>3
  <2>11. Moving'
    BY <2>3, <2>4, <2>5 DEF FileInv, Moving, Stage, Source
  <2>12. \A b : Safe(b) => Safe(b)'
    BY <2>3, <2>4 DEF Safe
  <2>13. Printing' /\ Fresh'
    <3>1. \A m \in Name : Untouched(m) => Untouched(m)'
      BY <2>4, <2>5 DEF Untouched, Stage
    <3>2. \A m : m \in names'["xml"] <=> m \in names["xml"]
      BY <2>4 DEF Stage
    <3> QED BY <1>1, <1>p, <2>3, <3>1, <3>2, PrintersKept DEF FileInv, Exporting
  <2> QED BY <2>6, <2>8, <2>9, <2>10, <2>11, <2>12, <2>13 DEF FileInv
<1> QED BY <1>2, <1>3

\* At midnight no script has a file in hand.
LEMMA DayKeeps ==
    ASSUME Typed, Typed', FileInv, NewDay
    PROVE  FileInv' /\ \A b : Safe(b) => Safe(b)'
<1>1. /\ \A t \in Runs : pc[t] = "idle"
      /\ UNCHANGED <<pc, pass, file, unread, exports, converted>>
      /\ gone' = gone \union InFiles
      /\ dir' = [s \in Stage |-> [n \in Name |-> {}]] /\ names' = [s \in Stage |-> {}]
  BY DEF NewDay, koha, local
<1>2. \A s \in Stage, m \in Name : Here(s, m)' = {}
  BY <1>1, NumbersFacts DEF Here
<1>3. \A t \in Runs, l \in {"convert", "move"} : \A s, m : ~ Busy(t, l, s, m)'
  BY <1>1 DEF Busy
<1>4. Named'
  BY <1>1, <1>2 DEF FileInv, Named
<1>5. Conflicts' /\ Converting' /\ Moving'
  BY <1>3 DEF Conflicts, Converting, Moving
<1>6. Chain'
  BY <1>1 DEF Chain, Stage
<1>7. ASSUME NEW b, Safe(b) PROVE Safe(b)'
  <2>1. Done \subseteq Done' /\ InFiles \subseteq Done'
    BY <1>1 DEF Done
  <2>2. \A s \in Stage, n \in Name : Here(s, n) \subseteq InFiles
    BY InFilesFact
  <2> QED BY <1>7, <2>1, <2>2 DEF Safe
<1>8. Printing' /\ Fresh'
  BY <1>1 DEF Printing, Fresh, Exporting, Unopened
<1> QED BY <1>4, <1>5, <1>6, <1>7, <1>8 DEF FileInv

\* An export takes a number that no file has.
LEMMA FetchKeeps ==
    ASSUME Typed, Typed', FileInv, NEW r \in Runs, Fetch(r)
    PROVE  FileInv' /\ \A b : Safe(b) => Safe(b)'
<1>0. /\ pc[r] = "print"
      /\ UNCHANGED <<dir, names, converted, gone, pass, unread>>
  BY DEF Fetch, koha, history
<1>1. CASE Page = {} /\ Goto(r, "pass") /\ UNCHANGED <<exports, file, page, last>>
  <2>1. \A t \in Runs : pc'[t] \in {"open", "printing", "convert", "move"} => t # r /\ pc'[t] = pc[t]
    BY <1>1 DEF Goto, Typed, TypeOK
  <2> QED BY <1>0, <1>1, <2>1, StillKept DEF Input, Exporting
<1>2. CASE ~(Page = {} /\ Goto(r, "pass") /\ UNCHANGED <<exports, file, page, last>>)
  <2>1. /\ exports' = exports + 1
        /\ file' = [file EXCEPT ![r] = <<exports + 1, "fi">>]
        /\ page' = [page EXCEPT ![r] = {<<b, edit[b]>> : b \in Page}]
        /\ pc' = [pc EXCEPT ![r] = "open"]
    BY <1>2 DEF Fetch, Goto
  <2>2. exports \in Nat /\ exports <= exports'
    BY <2>1 DEF Typed, TypeOK
  <2>3. \A t \in Runs : file'[t] = file[t] \/ file'[t][1] <= exports'
    BY <2>1, <2>2 DEF Typed, TypeOK
  <2>4. \A t \in Runs : pc'[t] \in {"convert", "move"} =>
            /\ pc'[t] = pc[t] /\ Input(t)' = Input(t)
            /\ file'[t] = file[t] /\ unread'[t] = unread[t]
    BY <1>0, <2>1 DEF Input, Typed, TypeOK
  <2>5. /\ Named' /\ Conflicts' /\ Chain' /\ Converting' /\ Moving' /\ Done \subseteq Done'
        /\ \A n \in Name : Untouched(n) => Untouched(n)'
        /\ \A b : Safe(b) => Safe(b)'
    BY <1>0, <2>2, <2>3, <2>4, FilesKept
  <2>6. /\ \A n \in Name : n[1] \in Nat
        /\ \A s \in Stage : \A n \in names[s] : n[1] <= exports
        /\ \A t \in Runs : file[t][1] \in Nat /\ file[t][1] <= exports
    BY DEF FileInv, Named, Typed, TypeOK, Name, None
  <2>7. \A t \in Runs : IF t = r THEN pc'[t] = "open" /\ file'[t][1] = exports + 1
                        ELSE pc'[t] = pc[t] /\ file'[t] = file[t] /\ page'[t] = page[t] /\ unread'[t] = unread[t]
    BY <1>0, <2>1 DEF Typed, TypeOK
  <2>8. Printing'
    <3> SUFFICES ASSUME NEW t \in Runs, NEW n \in Name, pc'[t] = "printing", file'[t] = n
                 PROVE  Pending(t)' \subseteq Done' \/ (n \in names'["xml"] /\ Untouched(n)')
      BY DEF Printing
    <3>1. pc[t] = "printing" /\ file[t] = n /\ Pending(t)' = Pending(t)
      BY <2>7 DEF Pending
    <3> QED BY <1>0, <2>5, <3>1 DEF FileInv, Printing
  <2>9. \A t \in Runs, n \in Name : Unopened(t, n)' => n \notin names'["xml"] /\ Untouched(n)'
    <3> SUFFICES ASSUME NEW t \in Runs, NEW n \in Name, Unopened(t, n)' PROVE n \notin names["xml"] /\ Untouched(n)'
      BY <1>0
    <3>1. CASE t = r
      <4>1. n[1] = exports + 1
        BY <2>7, <3>1 DEF Unopened
      <4>2. \A s \in Stage : n \notin names[s]
        BY <2>2, <2>6, <4>1
      <4>3. \A q \in Runs : file[q] # n
        BY <2>2, <2>6, <4>1
      <4>4. Untouched(n)
        BY <4>2, <4>3 DEF Untouched, Busy, Stage
      <4> QED BY <2>5, <4>2, <4>4 DEF Stage
    <3>2. CASE t # r
      <4>1. Unopened(t, n)
        BY <2>7, <3>2 DEF Unopened, Exporting, In
      <4> QED BY <2>5, <4>1 DEF FileInv, Fresh
    <3> QED BY <3>1, <3>2
  <2>10. \A q, t \in Runs : q # t /\ Exporting(q)' /\ Exporting(t)' => file'[q][1] # file'[t][1]
    <3>1. \A t \in Runs \ {r} : file'[t][1] # file'[r][1]
      BY <2>2, <2>6, <2>7
    <3>2. \A q, t \in Runs \ {r} : q # t /\ Exporting(q)' /\ Exporting(t)' => file'[q][1] # file'[t][1]
      BY <2>7 DEF FileInv, Fresh, Exporting
    <3> QED BY <3>1, <3>2
  <2> QED BY <2>5, <2>8, <2>9, <2>10 DEF FileInv, Fresh
<1> QED BY <1>1, <1>2

\* The file an export opens is nobody's yet.
LEMMA OpenKeeps ==
    ASSUME Typed, Typed', FileInv, NEW r \in Runs, OpenFile(r)
    PROVE  FileInv' /\ \A b : Safe(b) => Safe(b)'
<1>1. PICK l \in Lang :
          /\ In(page[r], l) # {}
          /\ dir' = [dir EXCEPT !["xml"][<<file[r][1], l>>] = {}]
          /\ names' = [names EXCEPT !["xml"] = @ \union {<<file[r][1], l>>}]
          /\ file' = [file EXCEPT ![r] = <<file[r][1], l>>]
          /\ unread' = [unread EXCEPT ![r] = In(page[r], l)]
          /\ page' = [page EXCEPT ![r] = @ \ In(@, l)]
  BY DEF OpenFile
<1>2. /\ pc[r] = "open" /\ pc' = [pc EXCEPT ![r] = "printing"]
      /\ UNCHANGED <<converted, gone, pass, exports>> /\ Done' = Done
  BY DEF OpenFile, Goto, koha, history, Done
<1>3. PICK n \in Name : n = <<file[r][1], l>>
  BY <1>2 DEF Typed, InHand, Name
<1>4. n \notin names["xml"] /\ Untouched(n)
  BY <1>1, <1>2, <1>3 DEF FileInv, Fresh, Unopened, Exporting
<1>5. \A s \in Stage : n \notin names[s] /\ Here(s, n) = {}
  BY <1>4 DEF FileInv, Named, Untouched, Stage
<1>6. \A s \in Stage, m \in Name : m \in names'[s] <=> m \in names[s] \/ (s = "xml" /\ m = n)
  BY <1>1, <1>3 DEF Typed, TypeOK, Stage
<1>7. \A s \in Stage, m \in Name : Here(s, m)' = Here(s, m)
  <2>1. \A s \in Stage, m \in Name : dir'[s][m] = IF s = "xml" /\ m = n THEN {} ELSE dir[s][m]
    BY <1>1, <1>3 DEF Typed, TypeOK, Stage
  <2> QED BY <1>5, <2>1, NumbersFacts DEF Here
<1>8. \A t \in Runs : IF t = r THEN pc'[t] = "printing" /\ file'[t] = n
                      ELSE pc'[t] = pc[t] /\ file'[t] = file[t] /\ page'[t] = page[t] /\ unread'[t] = unread[t]
  BY <1>1, <1>2, <1>3 DEF Typed, TypeOK
<1>9. \A t \in Runs, k \in {"convert", "move"} : \A s, m : Busy(t, k, s, m)' =>
          Busy(t, k, s, m) /\ Pending(t)' = Pending(t)
  BY <1>2, <1>8 DEF Busy, Input, Pending
<1>10. \A t \in Runs, k \in {"convert", "move"}, s \in Source, m \in Name : Busy(t, k, s, m)' => m # n
  BY <1>4, <1>9 DEF Untouched
<1>11. Named'
  <2>1. n[1] <= exports
    BY <1>3 DEF FileInv, Named
  <2>2. \A s \in Stage : \A m \in names'[s] : m[1] <= exports'
    <3> SUFFICES ASSUME NEW s \in Stage, NEW m \in names'[s] PROVE m[1] <= exports
      BY <1>2
    <3>1. m \in Name
      BY DEF Typed, TypeOK
    <3> QED BY <1>6, <2>1, <3>1 DEF FileInv, Named
  <2>3. \A t \in Runs : file'[t][1] <= exports'
    BY <1>2, <1>8, <2>1 DEF FileInv, Named
  <2>4. \A s \in Stage, m \in Name : m \notin names'[s] => Here(s, m)' = {}
    BY <1>6, <1>7 DEF FileInv, Named
  <2> QED BY <2>2, <2>3, <2>4 DEF Named
<1>12. \A m \in Name : Settled(m) => Settled(m)'
  BY <1>2, <1>7, <1>9 DEF Settled
<1>13. Conflicts'
  <2> SUFFICES ASSUME NEW q \in Runs, NEW p \in Runs, NEW s \in Source, NEW t \in Source, NEW m \in Name,
                      q # p, Busy(p, "convert", s, m)', (Busy(q, "convert", t, m) \/ Busy(q, "move", t, m))',
                      ~ Apart(q, p, m)'
               PROVE  Settled(m)'
    BY DEF Conflicts
  <2>1. Busy(p, "convert", s, m) /\ (Busy(q, "convert", t, m) \/ Busy(q, "move", t, m))
    BY <1>9
  <2>2. ~ Apart(q, p, m)
    <3> SUFFICES ASSUME Apart(q, p, m) PROVE FALSE
      OBVIOUS
    <3>1. t = "xml" /\ s = "isbd" /\ ~ Busy(q, "convert", t, m)
      BY <2>1 DEF Apart, Busy
    <3>2. ~ Busy(q, "convert", t, m)'
      BY <1>9, <3>1
    <3> QED BY <3>1, <3>2 DEF Apart
  <2> QED BY <1>12, <2>1, <2>2 DEF FileInv, Conflicts
<1>14. Chain'
  <2> SUFFICES ASSUME NEW m \in Name
               PROVE  /\ m \in names'["xml"] =>
                           Here("isbd", m)' \union Here("rda", m)' \subseteq Here("xml", m)' \union Done'
                      /\ m \notin names'["xml"] /\ m \in names'["isbd"] =>
                           Here("rda", m)' \subseteq Here("isbd", m)' \union Done'
    BY DEF Chain
  <2>1. CASE m = n
    BY <1>5, <1>6, <1>7, <2>1 DEF Stage
  <2>2. CASE m # n
    BY <1>2, <1>6, <1>7, <2>2 DEF FileInv, Chain, Stage
  <2> QED BY <2>1, <2>2
<1>15. Converting'
  <2> SUFFICES ASSUME NEW t \in Runs, NEW s \in Source, NEW m \in Name, Busy(t, "convert", s, m)'
               PROVE  /\ Pending(t)' \subseteq Here(s, m)' \union Done'
                      /\ \/ /\ m \in names'[Target(s)]
                            /\ Here(s, m)' \subseteq Here(Target(s), m)' \union Pending(t)' \union Done'
                         \/ Here(s, m)' \union Pending(t)' \subseteq Done'
    BY DEF Converting
  <2>1. s \in Stage /\ Target(s) \in Stage /\ Busy(t, "convert", s, m) /\ Pending(t)' = Pending(t)
    BY <1>9 DEF Source, Target, Stage
  <2>2. /\ Pending(t) \subseteq Here(s, m) \union Done
        /\ \/ /\ m \in names[Target(s)]
              /\ Here(s, m) \subseteq Here(Target(s), m) \union Pending(t) \union Done
           \/ Here(s, m) \union Pending(t) \subseteq Done
    BY <2>1 DEF FileInv, Converting
  <2> QED BY <1>2, <1>6, <1>7, <2>1, <2>2
<1>16. Moving'
  <2> SUFFICES ASSUME NEW t \in Runs, NEW s \in Source, NEW m \in Name, Busy(t, "move", s, m)'
               PROVE  Here(s, m)' \subseteq Done' \union
                          IF s = "xml" /\ m \in names'["isbd"] THEN Here("isbd", m)' ELSE Here("rda", m)'
    BY DEF Moving
  <2>1. s \in Stage /\ Busy(t, "move", s, m)
    BY <1>9 DEF Source, Stage
  <2>2. Here(s, m) \subseteq Done \union
            IF s = "xml" /\ m \in names["isbd"] THEN Here("isbd", m) ELSE Here("rda", m)
    BY <2>1 DEF FileInv, Moving
  <2> QED BY <1>2, <1>6, <1>7, <2>1, <2>2 DEF Stage
<1>17. \A m \in Name : Untouched(m) => Untouched(m)'
  BY <1>6, <1>9 DEF Untouched, Stage
<1>18. Printing'
  <2> SUFFICES ASSUME NEW t \in Runs, NEW m \in Name, pc'[t] = "printing", file'[t] = m
               PROVE  Pending(t)' \subseteq Done' \/ (m \in names'["xml"] /\ Untouched(m)')
    BY DEF Printing
  <2>1. CASE t = r
    BY <1>4, <1>6, <1>8, <1>17, <2>1 DEF Stage
  <2>2. CASE t # r
    <3>1. pc[t] = "printing" /\ file[t] = m /\ Pending(t)' = Pending(t)
      BY <1>8, <2>2 DEF Pending
    <3> QED BY <1>2, <1>6, <1>17, <3>1 DEF FileInv, Printing, Stage
  <2> QED BY <2>1, <2>2
<1>19. \A t \in Runs, m \in Name : Unopened(t, m)' => m \notin names'["xml"] /\ Untouched(m)'
  <2> SUFFICES ASSUME NEW t \in Runs, NEW m \in Name, Unopened(t, m)'
               PROVE  m \notin names'["xml"] /\ Untouched(m)'
    OBVIOUS
  <2>1. CASE t = r
    <3>1. m[1] = file[r][1] /\ In(page[r] \ In(page[r], l), m[2]) # {}
      BY <1>1, <1>3, <1>8, <2>1 DEF Unopened, Typed, TypeOK
    <3>2. m[2] # l /\ In(page[r], m[2]) # {}
      BY <3>1 DEF In
    <3>3. Unopened(r, m) /\ m # n
      BY <1>2, <1>3, <3>1, <3>2 DEF Unopened, Exporting
    <3> QED BY <1>6, <1>17, <3>3 DEF FileInv, Fresh, Stage
  <2>2. CASE t # r
    <3>1. Unopened(t, m)
      BY <1>8, <2>2 DEF Unopened, Exporting, In
    <3>2. m[1] # n[1]
      BY <1>2, <1>3, <2>2, <3>1 DEF FileInv, Fresh, Unopened, Exporting
    <3> QED BY <1>6, <1>17, <3>1, <3>2 DEF FileInv, Fresh, Stage
  <2> QED BY <2>1, <2>2
<1>20. \A q, t \in Runs : q # t /\ Exporting(q)' /\ Exporting(t)' => file'[q][1] # file'[t][1]
  <2>1. \A t \in Runs : (Exporting(t)' => Exporting(t)) /\ file'[t][1] = file[t][1]
    BY <1>2, <1>3, <1>8 DEF Exporting
  <2> QED BY <2>1 DEF FileInv, Fresh
<1>21. \A b : Safe(b) => Safe(b)'
  BY <1>2, <1>7 DEF Safe
<1> QED BY <1>11, <1>13, <1>14, <1>15, <1>16, <1>18, <1>19, <1>20, <1>21 DEF FileInv, Fresh

\* What is printed to a file that another script has in hand is owed nothing more.
LEMMA PrintKeeps ==
    ASSUME Typed, Typed', FileInv, NEW r \in Runs, PrintRecord(r)
    PROVE  /\ FileInv' /\ \A b : Safe(b) => Safe(b)'
           /\ \A b \in Pending(r) : b \in Pending(r)' \/ Safe(b)'
<1>a. PICK n \in Name : n = file[r]
  BY DEF Typed, InHand, PrintRecord
<1>1. PICK x \in unread[r] :
        /\ unread' = [unread EXCEPT ![r] = @ \ {x}]
        /\ dir' = [dir EXCEPT !["xml"][n] = IF n \in names["xml"] THEN @ \union {x} ELSE @]
  BY <1>a DEF PrintRecord
<1>2. /\ UNCHANGED <<names, pc, pass, file, page, exports, gone, converted>>
      /\ Done' = Done /\ pc[r] = "printing"
  BY DEF PrintRecord, koha, history, Done
<1>3. /\ x[1] \in Pending(r)
      /\ Pending(r)' \subseteq Pending(r) /\ Pending(r) \subseteq Pending(r)' \union {x[1]}
  BY <1>1, NumbersFacts DEF Pending, Numbers, Typed, TypeOK
<1>4. \A t \in Runs \ {r} : Pending(t)' = Pending(t)
  BY <1>1 DEF Pending, Typed, TypeOK
<1>5. \A s \in Stage, m \in Name :
          Here(s, m)' = IF s = "xml" /\ m = n /\ n \in names["xml"] THEN Here(s, m) \union {x[1]} ELSE Here(s, m)
  <2>1. Numbers(dir["xml"][n] \union {x}) = Numbers(dir["xml"][n]) \union {x[1]}
    <3>1. Numbers({x}) = {x[1]}
      BY NumbersFacts
    <3>2. Numbers(dir["xml"][n] \union {x}) = Numbers(dir["xml"][n]) \union Numbers({x})
      BY NumbersFacts
    <3> QED BY <3>1, <3>2
  <2>2. \A s \in Stage, m \in Name :
            dir'[s][m] = IF s = "xml" /\ m = n /\ n \in names["xml"] THEN dir[s][m] \union {x} ELSE dir[s][m]
    BY <1>1 DEF Typed, TypeOK
  <2> QED BY <2>1, <2>2 DEF Here
<1>6. \A t, l, s, m : Busy(t, l, s, m)' <=> Busy(t, l, s, m)
  BY <1>2 DEF Busy, Input
<1>7. Pending(r) \subseteq Done \/ (n \in names["xml"] /\ Untouched(n))
  BY <1>a, <1>2 DEF FileInv, Printing
<1>8. \A t \in Runs, s \in Source : Busy(t, "convert", s, n) \/ Busy(t, "move", s, n) => x[1] \in Done
  BY <1>3, <1>7 DEF Untouched
<1>9. Named'
  BY <1>2, <1>5 DEF FileInv, Named
<1>10. Conflicts'
  <2> SUFFICES ASSUME NEW q \in Runs, NEW p \in Runs, NEW s \in Source, NEW t \in Source, NEW m \in Name,
                      q # p, Busy(p, "convert", s, m)', (Busy(q, "convert", t, m) \/ Busy(q, "move", t, m))',
                      ~ Apart(q, p, m)'
               PROVE  Settled(m)'
    BY DEF Conflicts
  <2>1. /\ Busy(p, "convert", s, m)
        /\ Settled(m)
    BY <1>6 DEF FileInv, Conflicts, Apart
  <2>2. \A i \in Stage : Here(i, m)' \subseteq Done'
    BY <1>2, <1>5, <1>8, <2>1 DEF Settled
  <2>3. \A i \in Runs, j \in Source : Busy(i, "convert", j, m)' => Pending(i)' \subseteq Done'
    BY <1>2, <1>3, <1>4, <1>6, <2>1 DEF Settled
  <2> QED BY <2>2, <2>3 DEF Settled
<1>11. Chain'
  BY <1>2, <1>5 DEF FileInv, Chain, Stage
<1>12. Converting'
  <2> SUFFICES ASSUME NEW t \in Runs, NEW s \in Source, NEW m \in Name, Busy(t, "convert", s, m)'
               PROVE  /\ Pending(t)' \subseteq Here(s, m)' \union Done'
                      /\ \/ /\ m \in names'[Target(s)]
                            /\ Here(s, m)' \subseteq Here(Target(s), m)' \union Pending(t)' \union Done'
                         \/ Here(s, m)' \union Pending(t)' \subseteq Done'
    BY DEF Converting
  <2>1. /\ s \in Stage /\ Target(s) \in Stage /\ Target(s) # "xml" /\ Busy(t, "convert", s, m)
        /\ Pending(t)' = Pending(t)
    BY <1>2, <1>4, <1>6 DEF Source, Target, Stage, Busy
  <2>2. /\ Pending(t) \subseteq Here(s, m) \union Done
        /\ \/ /\ m \in names[Target(s)]
              /\ Here(s, m) \subseteq Here(Target(s), m) \union Pending(t) \union Done
           \/ Here(s, m) \union Pending(t) \subseteq Done
    BY <2>1 DEF FileInv, Converting
  <2>3. /\ Here(s, m) \subseteq Here(s, m)' /\ Here(s, m)' \subseteq Here(s, m) \union Done
        /\ Here(Target(s), m)' = Here(Target(s), m)
    BY <1>5, <1>8, <2>1
  <2> QED BY <1>2, <2>1, <2>2, <2>3
<1>13. Moving'
  <2> SUFFICES ASSUME NEW t \in Runs, NEW s \in Source, NEW m \in Name, Busy(t, "move", s, m)'
               PROVE  Here(s, m)' \subseteq Done' \union
                          IF s = "xml" /\ m \in names'["isbd"] THEN Here("isbd", m)' ELSE Here("rda", m)'
    BY DEF Moving
  <2>1. s \in Stage /\ Busy(t, "move", s, m)
    BY <1>6 DEF Source, Stage
  <2>2. Here(s, m) \subseteq Done \union
            IF s = "xml" /\ m \in names["isbd"] THEN Here("isbd", m) ELSE Here("rda", m)
    BY <2>1 DEF FileInv, Moving
  <2>3. /\ Here(s, m)' \subseteq Here(s, m) \union Done
        /\ Here("isbd", m)' = Here("isbd", m) /\ Here("rda", m)' = Here("rda", m)
    BY <1>5, <1>8, <2>1 DEF Stage
  <2> QED BY <1>2, <2>2, <2>3
<1>14. \A m \in Name : Untouched(m) => Untouched(m)'
  BY <1>2, <1>6 DEF Untouched
<1>15. Printing'
  <2> SUFFICES ASSUME NEW t \in Runs, NEW m \in Name, pc'[t] = "printing", file'[t] = m
               PROVE  Pending(t)' \subseteq Done' \/ (m \in names'["xml"] /\ Untouched(m)')
    BY DEF Printing
  <2>1. Pending(t)' \subseteq Pending(t)
    BY <1>3, <1>4
  <2> QED BY <1>2, <1>14, <2>1 DEF FileInv, Printing
<1>16. Fresh'
  BY <1>2, <1>14 DEF FileInv, Fresh, Unopened, Exporting
<1>17. \A b : Safe(b) => Safe(b)'
  BY <1>2, <1>5 DEF Safe
<1>18. Safe(x[1])'
  <2>1. CASE Pending(r) \subseteq Done
    BY <1>2, <1>3, <2>1 DEF Safe
  <2>2. CASE n \in names["xml"]
    BY <1>5, <2>2 DEF Safe, Stage
  <2> QED BY <1>7, <2>1, <2>2
<1> QED BY <1>3, <1>9, <1>10, <1>11, <1>12, <1>13, <1>15, <1>16, <1>17, <1>18 DEF FileInv

-----------------------------------------------------------------------------
(* The theorem *)

\* Whatever a step does, files stay as they should be, and no record is lost.
LEMMA StepKeeps ==
    ASSUME Typed, Typed', FileInv, [Next]_vars
    PROVE  FileInv' /\ \A b : Safe(b) => Safe(b)'
<1> USE DEF koha, disk, local, history, counters, Goto
<1>1. ASSUME NEW r \in Runs, Start(r) \/ CloseFile(r) \/ TruncateCursor(r) \/ WriteCursor(r) \/ ListImport(r)
      PROVE  FileInv' /\ \A b : Safe(b) => Safe(b)'
  <2>1. /\ UNCHANGED <<dir, names, converted, exports, pass, page, unread>> /\ gone \subseteq gone'
        /\ \A t \in Runs : file'[t] = file[t] \/ (file'[t] = None /\ t = r /\ pc'[t] = "truncate")
    BY <1>1 DEF Start, CloseFile, TruncateCursor, WriteCursor, ListImport, Typed, TypeOK
  <2>2. \A t \in Runs : /\ pc'[t] \in {"convert", "move"} => pc'[t] = pc[t]
                        /\ Exporting(t)' => Exporting(t)
                        /\ pc'[t] = "printing" => pc[t] = "printing"
    BY <1>1 DEF Start, CloseFile, TruncateCursor, WriteCursor, ListImport, Typed, TypeOK, Exporting
  <2>3. \A t \in Runs : Exporting(t)' \/ pc'[t] \in {"convert", "move"} => file'[t] = file[t]
    BY <2>1 DEF Exporting
  <2> QED BY <2>1, <2>2, <2>3, StillKept DEF Input
<1>2. ASSUME NEW r \in Runs, ListPass(r) \/ LeavePass(r) PROVE FileInv' /\ \A b : Safe(b) => Safe(b)'
  <2>1. \A t \in Runs : pc'[t] \in {"open", "printing", "convert", "move"} => pc'[t] = pc[t] /\ pass'[t] = pass[t]
    BY <1>2 DEF ListPass, LeavePass, EndPass, Typed, TypeOK
  <2>2. \A t \in Runs : Exporting(t)' => Exporting(t) /\ (pc'[t] = "printing" => pc[t] = "printing")
    BY <2>1 DEF Exporting
  <2>3. UNCHANGED <<dir, names, converted, exports, gone, file, page, unread>>
    BY <1>2 DEF ListPass, LeavePass
  <2> QED BY <2>1, <2>2, <2>3, StillKept DEF Input
<1>3. ASSUME NEW r \in Runs, Finish(r) \/ Crash(r) PROVE FileInv' /\ \A b : Safe(b) => Safe(b)'
  <2>1. Exit(r) /\ UNCHANGED <<dir, names, converted, gone, exports>>
    BY <1>3 DEF Finish, Crash
  <2>2. \A t \in Runs : IF t = r THEN pc'[t] = "idle" /\ file'[t] = None
                        ELSE /\ pc'[t] = pc[t] /\ pass'[t] = pass[t] /\ page'[t] = page[t]
                             /\ file'[t] = file[t] /\ unread'[t] = unread[t]
    BY <2>1 DEF Exit, Typed, TypeOK
  <2> QED BY <2>1, <2>2, StillKept DEF Input, Exporting
<1>4. ASSUME NEW b \in Biblios, Edit(b) PROVE FileInv' /\ \A c : Safe(c) => Safe(c)'
  BY <1>4, StillKept DEF Edit, Input, Exporting
<1>5. CASE UNCHANGED vars
  BY <1>5, StillKept DEF vars, Input, Exporting
<1> QED
  BY <1>1, <1>2, <1>3, <1>4, <1>5, FetchKeeps, OpenKeeps, PrintKeeps, ConvertKeeps, RecordKeeps,
     ConvertedKeeps, MoveKeeps, ImportKeeps, DayKeeps DEF Next, Advance

LEMMA InitFiles == Init => FileInv /\ Passed
<1> SUFFICES ASSUME Init PROVE FileInv /\ Passed
  OBVIOUS
<1>1. \A s \in Stage, n \in Name : Here(s, n) = {}
  BY NumbersFacts DEF Init, Here
<1>2. \A t \in Runs : \A s, n : ~ Busy(t, "convert", s, n) /\ ~ Busy(t, "move", s, n)
  BY DEF Init, Busy
<1>3. Named
  BY <1>1 DEF Init, Named, None
<1>4. Conflicts /\ Converting /\ Moving
  BY <1>2 DEF Conflicts, Converting, Moving
<1>5. Chain
  BY DEF Init, Chain, Stage
<1>6. Passed
  BY DEF Init, Passed, Exporting
<1>7. Printing /\ Fresh
  BY DEF Init, Printing, Fresh, Unopened, Exporting
<1> QED BY <1>3, <1>4, <1>5, <1>6, <1>7 DEF FileInv

Printed(r) == Exporting(r) \/ pc[r] \in {"truncate", "cursor"}

LEMMA PassedKept ==
    ASSUME Typed, Typed', FileInv, Passed, [Next]_vars
    PROVE  Passed'
<1>1. \A b : Safe(b) => Safe(b)'
  BY StepKeeps
<1>p. /\ \A b \in 1 .. cursor : Safe(b)
      /\ \A t \in Runs : Printed(t) => \A b \in 1 .. last[t] : Safe(b) \/ b \in Unprinted(t)
  BY DEF Passed, Printed
\* A step of run r that leaves the start file alone, and what r knows of it.
<1>2. ASSUME NEW r \in Runs, cursor' = cursor,
             \A t \in Runs \ {r} : /\ pc'[t] = pc[t] /\ last'[t] = last[t]
                                   /\ page'[t] = page[t] /\ unread'[t] = unread[t],
             Printed(r)' => \A b \in 1 .. last'[r] : Safe(b)' \/ b \in Unprinted(r)'
      PROVE  Passed'
  <2>1. \A t \in Runs \ {r} : (Printed(t)' <=> Printed(t)) /\ Unprinted(t)' = Unprinted(t)
    BY <1>2 DEF Printed, Exporting, Unprinted, Pending
  <2>2. ASSUME NEW t \in Runs, Printed(t)', NEW b \in 1 .. last'[t] PROVE Safe(b)' \/ b \in Unprinted(t)'
    BY <1>1, <1>p, <1>2, <2>1, <2>2
  <2>3. \A b \in 1 .. cursor' : Safe(b)'
    BY <1>1, <1>p, <1>2
  <2> QED BY <2>2, <2>3 DEF Passed, Printed
<1> USE DEF koha, disk, local, history, counters, Goto
<1>f. ASSUME NEW r \in Runs, Fetch(r) PROVE Passed'
  <2>1. cursor' = cursor
        /\ \A t \in Runs \ {r} : /\ pc'[t] = pc[t] /\ last'[t] = last[t]
                                 /\ page'[t] = page[t] /\ unread'[t] = unread[t]
    BY <1>f DEF Fetch, Typed, TypeOK
  <2>2. CASE pc' = [pc EXCEPT ![r] = "pass"]
    <3>1. ~ Printed(r)'
      BY <2>2 DEF Printed, Exporting, Typed, TypeOK
    <3> QED BY <1>2, <2>1, <3>1
  <2>3. CASE /\ page' = [page EXCEPT ![r] = {<<b, edit[b]>> : b \in Page}]
             /\ pc' = [pc EXCEPT ![r] = "open"]
             /\ \E b \in Page : (\A c \in Page : c <= b) /\ last' = [last EXCEPT ![r] = b]
    <3>1. PICK l \in Page : last'[r] = l
      BY <2>3 DEF Typed, TypeOK
    <3>2. \A b \in 1 .. l : b <= cursor \/ b \in Page
      BY DEF Page, Biblios, Typed, TypeOK
    <3>3. \A b \in Page : b \in Unprinted(r)'
      <4>1. Exporting(r)' /\ page'[r] = {<<b, edit[b]>> : b \in Page}
        BY <2>3 DEF Exporting, Typed, TypeOK
      <4>2. ASSUME NEW b \in Page PROVE b \in Numbers(page'[r])
        <5>1. <<b, edit[b]>> \in page'[r] /\ <<b, edit[b]>>[1] = b
          BY <4>1
        <5> QED BY <5>1 DEF Numbers
      <4> QED BY <4>1, <4>2 DEF Unprinted
    <3>4. \A b \in 1 .. l : b <= cursor => Safe(b)'
      BY <1>1, <1>p DEF Typed, TypeOK
    <3> QED BY <1>2, <2>1, <3>1, <3>2, <3>3, <3>4
  <2> QED BY <1>f, <2>2, <2>3 DEF Fetch
<1>o. ASSUME NEW r \in Runs, OpenFile(r) PROVE Passed'
  <2>1. PICK l \in Lang : /\ unread' = [unread EXCEPT ![r] = In(page[r], l)]
                          /\ page' = [page EXCEPT ![r] = @ \ In(@, l)]
    BY <1>o DEF OpenFile
  <2>2. cursor' = cursor /\ last' = last /\ pc[r] = "open" /\ pc' = [pc EXCEPT ![r] = "printing"]
    BY <1>o DEF OpenFile
  <2>3. \A t \in Runs \ {r} : /\ pc'[t] = pc[t] /\ last'[t] = last[t]
                              /\ page'[t] = page[t] /\ unread'[t] = unread[t]
    BY <2>1, <2>2 DEF Typed, TypeOK
  <2>4. Unprinted(r) \subseteq Unprinted(r)'
    <3>1. Unprinted(r) = Numbers(page[r])
      BY <2>2 DEF Unprinted, Exporting
    <3>2. Unprinted(r)' = Numbers(page'[r]) \union Numbers(unread'[r])
      BY <2>2 DEF Unprinted, Exporting, Pending, Typed, TypeOK
    <3>3. page[r] \subseteq page'[r] \union unread'[r]
      BY <2>1 DEF Typed, TypeOK
    <3> QED BY <3>1, <3>2, <3>3 DEF Numbers
  <2>5. Printed(r)
    BY <2>2 DEF Printed, Exporting
  <2> QED BY <1>1, <1>p, <1>2, <2>2, <2>3, <2>4, <2>5
<1>q. ASSUME NEW r \in Runs, PrintRecord(r) PROVE Passed'
  <2>1. /\ cursor' = cursor /\ last' = last /\ page' = page /\ pc' = pc /\ pc[r] = "printing"
        /\ \A t \in Runs \ {r} : unread'[t] = unread[t]
    BY <1>q DEF PrintRecord, Typed, TypeOK
  <2>2. \A b \in Pending(r) : b \in Pending(r)' \/ Safe(b)'
    BY <1>q, PrintKeeps
  <2>3. \A b \in Unprinted(r) : b \in Unprinted(r)' \/ Safe(b)'
    BY <2>1, <2>2 DEF Unprinted, Exporting
  <2>4. Printed(r)
    BY <2>1 DEF Printed, Exporting
  <2> QED BY <1>1, <1>p, <1>2, <2>1, <2>3, <2>4
<1>c. ASSUME NEW r \in Runs, CloseFile(r) PROVE Passed'
  <2>1. /\ cursor' = cursor /\ last' = last /\ page' = page /\ unread' = unread
        /\ pc[r] = "printing" /\ unread[r] = {}
        /\ \A t \in Runs \ {r} : pc'[t] = pc[t]
        /\ pc'[r] = "open" \/ (pc'[r] = "truncate" /\ page[r] = {})
    BY <1>c DEF CloseFile, Typed, TypeOK
  <2>2. Unprinted(r) \subseteq Unprinted(r)'
    <3>1. Unprinted(r) = Numbers(page[r])
      BY <2>1, NumbersFacts DEF Unprinted, Exporting, Pending
    <3>2. CASE pc'[r] = "open"
      BY <2>1, <3>1, <3>2 DEF Unprinted, Exporting
    <3>3. CASE page[r] = {}
      BY <3>1, <3>3, NumbersFacts
    <3> QED BY <2>1, <3>2, <3>3
  <2>3. Printed(r)
    BY <2>1 DEF Printed, Exporting
  <2> QED BY <1>1, <1>p, <1>2, <2>1, <2>2, <2>3
<1>u. ASSUME NEW r \in Runs, TruncateCursor(r) \/ WriteCursor(r) PROVE Passed'
  <2>1. /\ UNCHANGED <<last, page, unread>> /\ pc[r] \in {"truncate", "cursor"}
        /\ \A t \in Runs : IF t = r THEN pc'[t] \in {"cursor", "pass"} ELSE pc'[t] = pc[t]
    BY <1>u DEF TruncateCursor, WriteCursor, Typed, TypeOK
  <2>2. \A t \in Runs : Unprinted(t)' = Unprinted(t) /\ (Printed(t)' => Printed(t))
    BY <2>1 DEF Unprinted, Exporting, Pending, Printed
  <2>3. ASSUME NEW b \in 1 .. cursor' PROVE Safe(b)'
    <3>1. CASE TruncateCursor(r)
      BY <3>1 DEF TruncateCursor
    <3>2. CASE WriteCursor(r)
      <4>1. \A c \in 1 .. last[r] : Safe(c)
        <5>1. pc[r] = "cursor"
          BY <3>2 DEF WriteCursor
        <5> QED BY <1>p, <5>1 DEF Printed, Unprinted, Exporting
      <4>2. CASE cursor' = last[r]
        BY <1>1, <4>1, <4>2
      <4>3. CASE \E c \in Biblios : cursor' = c /\ gone' = gone \union (last[r] + 1 .. c)
        <5>1. last[r] \in Nat /\ cursor' \in Nat
          BY DEF Typed, TypeOK
        <5>2. b \in 1 .. last[r] \/ b \in last[r] + 1 .. cursor'
          BY <5>1
        <5>3. (last[r] + 1 .. cursor') \subseteq gone'
          BY <4>3
        <5> QED BY <1>1, <4>1, <5>2, <5>3 DEF Safe, Done
      <4> QED BY <3>2, <4>2, <4>3 DEF WriteCursor
    <3> QED BY <1>u, <3>1, <3>2
  <2>4. ASSUME NEW t \in Runs, Printed(t)', NEW b \in 1 .. last'[t] PROVE Safe(b)' \/ b \in Unprinted(t)'
    BY <1>1, <1>p, <2>1, <2>2, <2>4
  <2> QED BY <2>3, <2>4 DEF Passed, Printed
<1>5. ASSUME NEW r \in Runs,
             \/ Start(r) \/ ListPass(r) \/ LeavePass(r) \/ Convert(r) \/ ConvertRecord(r) \/ Converted(r)
             \/ BreakOff(r) \/ MoveInput(r) \/ ListImport(r) \/ ImportFile(r)
      PROVE  Passed'
  <2>1. cursor' = cursor /\ last' = last /\ page' = page /\ \A t \in Runs \ {r} : unread'[t] = unread[t]
    BY <1>5 DEF Start, ListPass, LeavePass, ListImport, Convert, ConvertRecord, Converted, BreakOff, MoveInput,
                ImportFile, Typed, TypeOK
  <2>2. \A t \in Runs \ {r} : pc'[t] = pc[t]
    BY <1>5 DEF Start, ListPass, LeavePass, EndPass, ListImport, Convert, ConvertRecord, Converted, BreakOff,
                MoveInput, ImportFile, Typed, TypeOK
  <2>3. pc'[r] \in {"print", "pass", "list", "file", "convert", "move", "import"}
    BY <1>5 DEF Start, ListPass, LeavePass, EndPass, ListImport, Convert, ConvertRecord, Converted, BreakOff,
                MoveInput, ImportFile, Typed, TypeOK
  <2>4. ~ Printed(r)'
    BY <2>3 DEF Printed, Exporting
  <2> QED BY <1>2, <2>1, <2>2, <2>4
<1>7. ASSUME NEW r \in Runs, Finish(r) \/ Crash(r) PROVE Passed'
  <2>1. Exit(r) /\ cursor' = cursor
    BY <1>7 DEF Finish, Crash
  <2>2. /\ ~ Printed(r)'
        /\ \A t \in Runs \ {r} : /\ pc'[t] = pc[t] /\ last'[t] = last[t]
                                 /\ page'[t] = page[t] /\ unread'[t] = unread[t]
    BY <2>1 DEF Exit, Printed, Exporting, Typed, TypeOK
  <2> QED BY <1>2, <2>1, <2>2
<1>8. ASSUME UNCHANGED <<cursor, pc, last, page, unread>> PROVE Passed'
  <2>1. \A t \in Runs : (Printed(t)' <=> Printed(t)) /\ Unprinted(t)' = Unprinted(t)
    BY <1>8 DEF Printed, Exporting, Unprinted, Pending
  <2>2. ASSUME NEW t \in Runs, Printed(t)', NEW b \in 1 .. last'[t] PROVE Safe(b)' \/ b \in Unprinted(t)'
    BY <1>1, <1>p, <1>8, <2>1, <2>2
  <2>3. \A b \in 1 .. cursor' : Safe(b)'
    BY <1>1, <1>p, <1>8
  <2> QED BY <2>2, <2>3 DEF Passed, Printed
<1>9. ASSUME NEW b \in Biblios, Edit(b) PROVE Passed'
  BY <1>8, <1>9 DEF Edit
<1>10. CASE NewDay
  BY <1>8, <1>10 DEF NewDay
<1>11. CASE UNCHANGED vars
  BY <1>8, <1>11 DEF vars
<1> QED BY <1>f, <1>o, <1>q, <1>c, <1>u, <1>5, <1>7, <1>9, <1>10, <1>11 DEF Next, Advance

\* A record the start file has passed is converted, in a file of the day, or was
\* hit by a fault that can be named, for any number of scripts that overlap, are
\* killed or have conversions break off (convert_all_rda.sh).
THEOREM NothingForgotten == Spec => []Accounted
<1> DEFINE Inv == Typed /\ FileInv /\ Passed
<1>1. Init => Inv
  BY InitTyped, InitFiles
<1>2. Inv /\ [Next]_vars => Inv'
  BY NextTyped, StepKeeps, PassedKept
<1>3. Inv => Accounted
  BY InFilesFact DEF Passed, Safe, Accounted, Done
<1> QED BY <1>1, <1>2, <1>3, PTL DEF Spec

-----------------------------------------------------------------------------
(* The promise of Conversion *)

\* Only a script that prints or converts has records in hand.
HandsInv ==
    \A r \in Runs : /\ pc[r] \notin {"printing", "convert"} => unread[r] = {}
                    /\ ~ Exporting(r) => page[r] = {}

LEMMA HandsKept == Typed /\ HandsInv /\ [Next]_vars => HandsInv'
<1> SUFFICES ASSUME Typed, HandsInv, [Next]_vars PROVE HandsInv'
  OBVIOUS
<1> USE DEF HandsInv, Typed, TypeOK, Goto, local, Exporting
<1>1. ASSUME NEW r \in Runs, Start(r) \/ Fetch(r) \/ TruncateCursor(r) \/ WriteCursor(r) \/ ListImport(r)
      PROVE  HandsInv'
  BY <1>1 DEF Start, Fetch, TruncateCursor, WriteCursor, ListImport
<1>o. ASSUME NEW r \in Runs, OpenFile(r) PROVE HandsInv'
  BY <1>o DEF OpenFile
<1>p. ASSUME NEW r \in Runs, PrintRecord(r) \/ CloseFile(r) PROVE HandsInv'
  BY <1>p DEF PrintRecord, CloseFile
<1>2. ASSUME NEW r \in Runs, ListPass(r) \/ LeavePass(r) PROVE HandsInv'
  BY <1>2 DEF ListPass, LeavePass, EndPass
<1>3. ASSUME NEW r \in Runs, Convert(r) PROVE HandsInv'
  BY <1>3 DEF Convert
<1>4. ASSUME NEW r \in Runs, ConvertRecord(r) PROVE HandsInv'
  BY <1>4 DEF ConvertRecord
<1>5. ASSUME NEW r \in Runs, Converted(r) \/ BreakOff(r) \/ MoveInput(r) \/ ImportFile(r) PROVE HandsInv'
  BY <1>5 DEF Converted, BreakOff, MoveInput, ImportFile
<1>6. ASSUME NEW r \in Runs, Finish(r) \/ Crash(r) PROVE HandsInv'
  BY <1>6 DEF Finish, Crash, Exit
<1>7. ASSUME NEW b \in Biblios, Edit(b) PROVE HandsInv'
  BY <1>7 DEF Edit
<1>8. CASE NewDay
  BY <1>8 DEF NewDay
<1>9. CASE UNCHANGED vars
  BY <1>9 DEF vars
<1> QED BY <1>1, <1>o, <1>p, <1>2, <1>3, <1>4, <1>5, <1>6, <1>7, <1>8, <1>9 DEF Next, Advance

\* A record that is converted was in a file, and stays converted.
LEMMA OnlyOnward ==
    ASSUME Typed, [Next]_vars
    PROVE  /\ gone \subseteq gone'
           /\ \A b \in Biblios : /\ converted[b] => converted'[b]
                                 /\ converted'[b] => converted[b] \/ b \in InFiles
<1> USE DEF koha, history
<1>1. ASSUME NEW r \in Runs, ImportFile(r)
      PROVE  /\ gone \subseteq gone'
             /\ \A b \in Biblios : /\ converted[b] => converted'[b]
                                   /\ converted'[b] => converted[b] \/ b \in InFiles
  <2>1. CASE UNCHANGED <<koha, dir, names, processed, gone>>
    BY <2>1
  <2>2. CASE ~ UNCHANGED <<koha, dir, names, processed, gone>>
    <3>1. PICK n \in Name :
            /\ converted' = [b \in Biblios |-> converted[b] \/ b \in Numbers(dir["rda"][n])]
            /\ gone' = gone \union UNION {Numbers(unread[q]) : q \in Writers("rda", n)}
      <4>1. todo[r] \subseteq Name
        BY DEF Typed, TypeOK
      <4> QED BY <1>1, <2>2, <4>1 DEF ImportFile, Earliest
    <3>2. Numbers(dir["rda"][n]) \subseteq InFiles
      BY InFilesFact DEF Here, Stage
    <3>3. gone \subseteq gone'
      BY <3>1
    <3>4. \A b \in Biblios : converted'[b] = (converted[b] \/ b \in Numbers(dir["rda"][n]))
      BY <3>1
    <3> QED BY <3>2, <3>3, <3>4
  <2> QED BY <2>1, <2>2
<1>2. ASSUME gone \subseteq gone', converted' = converted
      PROVE  /\ gone \subseteq gone'
             /\ \A b \in Biblios : /\ converted[b] => converted'[b]
                                   /\ converted'[b] => converted[b] \/ b \in InFiles
  BY <1>2
<1>3. CASE \E r \in Runs : Convert(r)
  <2>1. PICK r \in Runs : Convert(r)
    BY <1>3
  <2>2. gone \subseteq gone' /\ converted' = converted
    BY <2>1 DEF Convert
  <2> QED BY <1>2, <2>2
<1>4. ASSUME NEW r \in Runs,
             \/ Start(r) \/ Fetch(r) \/ OpenFile(r) \/ PrintRecord(r) \/ CloseFile(r)
             \/ TruncateCursor(r) \/ WriteCursor(r) \/ ListPass(r) \/ LeavePass(r)
             \/ ConvertRecord(r) \/ Converted(r) \/ BreakOff(r) \/ MoveInput(r) \/ ListImport(r)
             \/ Finish(r) \/ Crash(r)
      PROVE  gone \subseteq gone' /\ converted' = converted
  BY <1>4 DEF Start, Fetch, OpenFile, PrintRecord, CloseFile, TruncateCursor, WriteCursor, ListPass, LeavePass, ConvertRecord, Converted, BreakOff,
              MoveInput, ListImport, Finish, Crash
<1>5. ASSUME NEW b \in Biblios, Edit(b) PROVE gone \subseteq gone' /\ converted' = converted
  BY <1>5 DEF Edit
<1>6. CASE NewDay
  BY <1>2, <1>6 DEF NewDay
<1>7. CASE UNCHANGED vars
  BY <1>2, <1>7 DEF vars
<1> QED BY <1>1, <1>2, <1>3, <1>4, <1>5, <1>6, <1>7 DEF Next, Advance

\* A record in hand is in a file, or nothing is owed to it.
LEMMA HandsInFiles ==
    ASSUME Typed, FileInv, NEW b \in InHands
    PROVE  b \in InFiles \/ b \in Done
<1>1. PICK r \in Runs : pc[r] = "convert" /\ b \in Pending(r)
  BY DEF InHands, Pending
<1>2. pc[r] = "convert"
  BY <1>1
<1>3. file[r] \in Name /\ Input(r) \in Source
  BY <1>2, Outputs DEF Typed, InHand
<1>4. Pending(r) \subseteq Here(Input(r), file[r]) \union Done
  BY <1>2, <1>3 DEF FileInv, Converting, Busy
<1> QED BY <1>1, <1>3, <1>4, InFilesFact DEF Source, Stage

Kept == Typed /\ FileInv /\ Passed /\ HandsInv

LEMMA KeptAlways == Spec => []Kept
<1>1. Init => Kept
  BY InitTyped, InitFiles, NumbersFacts DEF Kept, Init, HandsInv, Exporting
<1>2. Kept /\ [Next]_vars => Kept'
  BY NextTyped, StepKeeps, PassedKept, HandsKept DEF Kept
<1> QED BY <1>1, <1>2, PTL DEF Spec

\* A record that no fault has hit and that is not lost does not get lost.
LEMMA NotLost ==
    ASSUME Kept, Kept', [Next]_vars, NEW b \in Biblios, b \notin gone'
    PROVE  /\ b \in InFiles \union InHands => converted'[b] \/ b \in InFiles'
           /\ b <= cursor => converted[b] \/ b \in InFiles
           /\ b <= cursor' => converted'[b] \/ b \in InFiles'
<1>1. b \notin gone
  BY OnlyOnward DEF Kept
<1>2. /\ Safe(b) => converted[b] \/ b \in InFiles
      /\ Safe(b)' => converted'[b] \/ b \in InFiles'
  <2>1. Safe(b) => b \in Done \/ b \in InFiles
    BY InFilesFact DEF Safe
  <2>2. Safe(b)' => b \in Done' \/ b \in InFiles'
    BY DEF Safe, InFiles, Here
  <2> QED BY <1>1, <2>1, <2>2 DEF Done
<1>3. b \in InFiles => Safe(b)
  BY InFilesFact DEF Safe
<1>4. b \in InHands => Safe(b)
  BY <1>3, HandsInFiles DEF Kept, Safe
<1>5. (b <= cursor => Safe(b)) /\ (b <= cursor' => Safe(b)')
  <2>1. (\A c \in 1 .. cursor : Safe(c)) /\ (\A c \in 1 .. cursor' : Safe(c)')
    BY DEF Kept, Passed
  <2>2. cursor \in Int /\ cursor' \in Int /\ b \in Int /\ 1 <= b
    BY DEF Kept, Typed, TypeOK, Biblios
  <2>3. (b <= cursor => b \in 1 .. cursor) /\ (b <= cursor' => b \in 1 .. cursor')
    BY <2>2
  <2> QED BY <2>1, <2>3
<1>6. Safe(b) => Safe(b)'
  BY StepKeeps DEF Kept
<1> QED BY <1>2, <1>3, <1>4, <1>5, <1>6

\* What a step does to the status of a record.
LEMMA StatusMoves ==
    ASSUME Kept, Kept', [Next]_vars, NEW b \in Biblios
    PROVE  \/ Status(b)' = Status(b)
           \/ Status(b) = "waiting" /\ Status(b)' = "underway"
           \/ Status(b) = "underway" /\ Status(b)' = "converted"
           \/ b \in gone' /\ Status(b) # "converted" /\ Status(b)' \in {"lost", "waiting", "underway"}
<1>1. /\ converted[b] => converted'[b]
      /\ converted'[b] => converted[b] \/ b \in InFiles
  BY OnlyOnward DEF Kept
<1>3. CASE b \in gone'
  BY <1>1, <1>3 DEF Status
<1>4. CASE b \notin gone'
  <2>1. /\ b \in InFiles \union InHands => converted'[b] \/ b \in InFiles'
        /\ b <= cursor => converted[b] \/ b \in InFiles
        /\ b <= cursor' => converted'[b] \/ b \in InFiles'
    BY <1>4, NotLost
  <2>2. cursor \in Int /\ cursor' \in Int /\ b \in Int
    BY DEF Kept, Typed, TypeOK, Biblios
  <2>3. CASE converted[b]
    BY <1>1, <2>3 DEF Status
  <2>4. CASE ~ converted[b] /\ b \in InFiles \union InHands
    BY <2>1, <2>4 DEF Status
  <2>5. CASE ~ converted[b] /\ b \notin InFiles \union InHands
    BY <1>1, <2>1, <2>2, <2>5 DEF Status
  <2> QED BY <2>3, <2>4, <2>5
<1> QED BY <1>3, <1>4

\* The script does for each record what Conversion promises, for any number of
\* scripts that overlap, are killed or have conversions break off.
THEOREM PromiseKept == Spec => KeepsPromise
<1>1. Init => Promise!Init
  <2> SUFFICES ASSUME Init PROVE Promise!Init
    OBVIOUS
  <2>1. InFiles = {} /\ InHands = {}
    BY NumbersFacts DEF Init, InFiles, InHands
  <2>2. \A b \in Biblios : Status(b) = "waiting"
    BY <2>1 DEF Init, Status, Biblios
  <2> QED BY <2>2 DEF Init, Promise!Init
<1>2. Kept /\ Kept' /\ [Next]_vars => [Promise!Next]_(Promise!vars)
  <2> SUFFICES ASSUME Kept, Kept', [Next]_vars PROVE Promise!Next
    OBVIOUS
  <2>1. [b \in Biblios |-> Status(b)]' \in [Biblios -> {"waiting", "underway", "converted", "lost"}]
    BY DEF Status
  <2>2. gone \subseteq gone' /\ gone' \subseteq Biblios
    BY OnlyOnward DEF Kept, Typed, TypeOK
  <2>3. \A b \in Biblios : Promise!Move(b)
    BY StatusMoves DEF Promise!Move, Promise!Becomes
  <2> QED BY <2>1, <2>2, <2>3 DEF Promise!Next
<1> QED BY <1>1, <1>2, KeptAlways, PTL DEF Spec, KeepsPromise, Promise!Spec

-----------------------------------------------------------------------------
(* The edits of a quiet time, when there is one script *)

FilesOf(s, l) == {n \in names[s] : n[2] = l}

\* The stages and languages of which files may be there in a pass.
Ahead == << {<<"xml", "fi">>, <<"xml", "sv">>, <<"isbd", "fi">>},
            {<<"xml", "sv">>, <<"isbd", "fi">>, <<"isbd", "sv">>},
            {<<"isbd", "fi">>, <<"isbd", "sv">>, <<"rda", "fi">>},
            {<<"isbd", "sv">>, <<"rda", "fi">>, <<"rda", "sv">>} >>

\* A script that was not killed leaves no file behind.
Emptied(r) ==
    /\ pc[r] \in {"idle", "print"} => \A s \in Stage : names[s] = {}
    /\ pc[r] \in {"open", "printing", "truncate", "cursor"} => names["isbd"] = {} /\ names["rda"] = {}
    /\ pc[r] \in {"pass", "file", "convert", "move"} =>
           \A s \in Stage : \A n \in names[s] : <<s, n[2]>> \in Ahead[pass[r]]
    /\ pc[r] \in {"list", "import"} => names["xml"] = {} /\ names["isbd"] = {}

\* The list of a loop is what there is to do, and an export's number is new.
Listed(r) ==
    /\ pc[r] = "file" => todo[r] = FilesOf(Input(r), PassLanguage(r))
    /\ pc[r] \in {"convert", "move"} =>
           /\ todo[r] = FilesOf(Input(r), PassLanguage(r)) \ {file[r]}
           /\ file[r][2] = PassLanguage(r)
    /\ pc[r] = "import" => todo[r] = names["rda"]
    /\ pc[r] \in {"idle", "print", "open", "printing", "truncate", "cursor"} => pass[r] = 1
    /\ Exporting(r) => \A n \in processed : n[1] # file[r][1]

\* No file has the name of one that was imported.
Unused ==
    /\ \A s \in Stage : names[s] \intersect processed = {}
    /\ \A n \in processed : n[1] <= exports

\* No record on its way is older than the last quiet edit.
Recent ==
    /\ \A b \in Biblios : quiet[b] <= edit[b] /\ quiet[b] <= edits[b]
    /\ \A s \in Stage, n \in Name : \A x \in dir[s][n] : quiet[x[1]] <= x[2]
    /\ \A r \in Runs : \A x \in unread[r] \union page[r] : quiet[x[1]] <= x[2]

Tidy == crashes = 0 => Unused /\ Recent /\ \A r \in Runs : Emptied(r) /\ Listed(r)

\* The passes one by one.
LEMMA PassFacts ==
    ASSUME Typed, NEW r \in Runs
    PROVE  /\ pass[r] \in 1 .. 4
           /\ <<Output(r), PassLanguage(r)>> \in Ahead[pass[r]]
           /\ PassLanguage(r) \in Lang
           /\ Input(r) \in Stage /\ Output(r) \in Stage /\ Input(r) # Output(r)
<1>1. pass[r] \in 1 .. 4
  BY DEF Typed, TypeOK
<1>2. CASE pass[r] = 1
  BY <1>2 DEF Input, Output, PassLanguage, Passes, Ahead, Stage, Lang
<1>3. CASE pass[r] = 2
  BY <1>3 DEF Input, Output, PassLanguage, Passes, Ahead, Stage, Lang
<1>4. CASE pass[r] = 3
  BY <1>4 DEF Input, Output, PassLanguage, Passes, Ahead, Stage, Lang
<1>5. CASE pass[r] = 4
  BY <1>5 DEF Input, Output, PassLanguage, Passes, Ahead, Stage, Lang
<1> QED BY <1>1, <1>2, <1>3, <1>4, <1>5

\* The next pass, or the import, finds only what is ahead of it.
LEMMA PassEnds ==
    ASSUME Typed, NEW r \in Runs, EndPass(r), UNCHANGED names,
           \A s \in Stage : \A n \in names[s] : <<s, n[2]>> \in Ahead[pass[r]],
           FilesOf(Input(r), PassLanguage(r)) = {}
    PROVE  Emptied(r)' /\ pc'[r] \in {"pass", "list"}
<1>1. pass[r] \in 1 .. 4
  BY DEF Typed, TypeOK
<1>2. \A n \in names[Input(r)] : n[2] # PassLanguage(r)
  BY DEF FilesOf
<1>3. names \in [Stage -> SUBSET Name] /\ pc \in [Runs -> Label] /\ pass \in [Runs -> 1 .. 4]
  BY DEF Typed, TypeOK
<1> USE DEF Stage
<1>4. CASE pass[r] = 1
  <2>1. pc' = [pc EXCEPT ![r] = "pass"] /\ pass'[r] = 2
    BY <1>3, <1>4 DEF EndPass, Goto
  <2>2. \A s \in Stage : \A n \in names[s] : <<s, n[2]>> \in Ahead[2]
    BY <1>2, <1>4 DEF Ahead, Input, PassLanguage, Passes
  <2> QED BY <1>3, <2>1, <2>2 DEF Emptied
<1>5. CASE pass[r] = 2
  <2>1. pc' = [pc EXCEPT ![r] = "pass"] /\ pass'[r] = 3
    BY <1>3, <1>5 DEF EndPass, Goto
  <2>2. \A s \in Stage : \A n \in names[s] : <<s, n[2]>> \in Ahead[3]
    BY <1>2, <1>5 DEF Ahead, Input, PassLanguage, Passes
  <2> QED BY <1>3, <2>1, <2>2 DEF Emptied
<1>6. CASE pass[r] = 3
  <2>1. pc' = [pc EXCEPT ![r] = "pass"] /\ pass'[r] = 4
    BY <1>3, <1>6 DEF EndPass, Goto
  <2>2. \A s \in Stage : \A n \in names[s] : <<s, n[2]>> \in Ahead[4]
    BY <1>2, <1>6 DEF Ahead, Input, PassLanguage, Passes
  <2> QED BY <1>3, <2>1, <2>2 DEF Emptied
<1>7. CASE pass[r] = 4
  <2>1. pc' = [pc EXCEPT ![r] = "list"]
    BY <1>3, <1>7 DEF EndPass, Goto
  <2>2. names["xml"] = {} /\ names["isbd"] = {}
    BY <1>2, <1>7 DEF Ahead, Input, PassLanguage, Passes
  <2> QED BY <1>3, <2>1, <2>2 DEF Emptied
<1> QED BY <1>1, <1>4, <1>5, <1>6, <1>7

\* Records that are at least as recent as before, or just exported, stay recent.
LEMMA RecentKept ==
    ASSUME Recent, UNCHANGED <<quiet, edits>>,
           \A b \in Biblios : quiet[b] <= edit'[b],
           \A s \in Stage, n \in Name : \A x \in dir'[s][n] :
               \/ \E t \in Stage, m \in Name : x \in dir[t][m]
               \/ \E r \in Runs : x \in unread[r]
               \/ quiet[x[1]] <= x[2],
           \A r \in Runs : \A x \in unread'[r] \union page'[r] :
               \/ \E t \in Stage, m \in Name : x \in dir[t][m]
               \/ \E q \in Runs : x \in unread[q] \union page[q]
               \/ quiet[x[1]] <= x[2]
    PROVE  Recent'
  BY DEF Recent

LEMMA TidyStep ==
    ASSUME NEW only, Runs = {only},
           Typed, Typed', Named, HandsInv, Tidy, [Next]_vars
    PROVE  Tidy'
<1> SUFFICES ASSUME crashes' = 0
             PROVE  Unused' /\ Recent' /\ \A r \in Runs : Emptied(r)' /\ Listed(r)'
  BY DEF Tidy
<1> USE DEF Goto, koha, disk, local, history, counters
<1>0. crashes = 0
  <2>1. crashes' = crashes \/ crashes' = crashes + 1
    BY SMTT(30) DEF Next, Advance, vars, Start, Fetch, OpenFile, PrintRecord, CloseFile, TruncateCursor, WriteCursor, ListPass,
           LeavePass, Convert, ConvertRecord, Converted, BreakOff, MoveInput, ListImport, ImportFile, Finish, Edit, Crash, NewDay
  <2> QED BY <2>1 DEF Typed, TypeOK
<1>t. /\ names \in [Stage -> SUBSET Name] /\ dir \in [Stage -> [Name -> SUBSET Record]]
      /\ pc \in [Runs -> Label] /\ pass \in [Runs -> 1 .. 4] /\ todo \in [Runs -> SUBSET Name]
      /\ file \in [Runs -> Name \union {None}] /\ unread \in [Runs -> SUBSET Record]
      /\ page \in [Runs -> SUBSET Record]
      /\ exports \in Nat /\ edit \in [Biblios -> Nat] /\ processed \subseteq Name
      /\ edits \in [Biblios -> Nat] /\ quiet \in [Biblios -> Nat]
  BY DEF Typed, TypeOK
<1>i. Unused /\ Recent /\ \A r \in Runs : Emptied(r) /\ Listed(r)
  BY <1>0 DEF Tidy
<1>s. "xml" \in Stage /\ "isbd" \in Stage /\ "rda" \in Stage
  BY DEF Stage
\* A step that leaves the files, and what is to be read, alone.
<1>k. ASSUME UNCHANGED <<names, dir, processed, edit, quiet, edits, unread, page, exports>>
      PROVE  Unused' /\ Recent'
  BY <1>i, <1>k DEF Unused, Recent
<1>1. ASSUME NEW r \in Runs, Start(r) PROVE Unused' /\ Recent' /\ Emptied(r)' /\ Listed(r)'
  BY <1>1, <1>i, <1>k, <1>t DEF Start, Emptied, Listed, Exporting
<1>2. ASSUME NEW r \in Runs, Fetch(r) PROVE Unused' /\ Recent' /\ Emptied(r)' /\ Listed(r)'
  <2>1. /\ pc[r] = "print" /\ UNCHANGED <<pass, processed, names, dir, edit, unread, quiet, edits>>
    BY <1>2 DEF Fetch
  <2>2. \A s \in Stage : names[s] = {}
    BY <1>i, <2>1 DEF Emptied
  <2>3. CASE Page = {} /\ Goto(r, "pass") /\ UNCHANGED <<exports, file, page, last>>
    BY <1>k, <1>t, <2>1, <2>2, <2>3 DEF Emptied, Listed, Exporting
  <2>4. CASE ~ (Page = {} /\ Goto(r, "pass") /\ UNCHANGED <<exports, file, page, last>>)
    <3>1. /\ exports' = exports + 1 /\ file'[r] = <<exports + 1, "fi">> /\ pc'[r] = "open"
          /\ page' = [page EXCEPT ![r] = {<<b, edit[b]>> : b \in Page}]
      BY <1>2, <1>t, <2>4 DEF Fetch
    <3>2. Recent'
      <4>1. \A x \in {<<b, edit[b]>> : b \in Page} : quiet[x[1]] <= x[2]
        BY <1>i DEF Page, Recent
      <4>2. \A q \in Runs : page'[q] = page[q] \/ page'[q] = {<<b, edit[b]>> : b \in Page}
        BY <1>t, <3>1
      <4>3. \A b \in Biblios : quiet[b] <= edit'[b]
        BY <1>i, <2>1 DEF Recent
      <4> QED BY <1>i, <2>1, <4>1, <4>2, <4>3, RecentKept
    <3>3. \A n \in processed : n[1] \in Nat /\ n[1] <= exports
      BY <1>i, <1>t DEF Unused, Name
    <3>4. Unused'
      BY <1>i, <1>t, <2>1, <3>1, <3>3 DEF Unused
    <3>5. Emptied(r)' /\ Listed(r)'
      BY <1>i, <1>s, <1>t, <2>1, <2>2, <3>1, <3>3 DEF Emptied, Listed, Exporting
    <3> QED BY <3>2, <3>4, <3>5
  <2> QED BY <2>3, <2>4
<1>o. ASSUME NEW r \in Runs, OpenFile(r) PROVE Unused' /\ Recent' /\ Emptied(r)' /\ Listed(r)'
  <2>1. PICK l \in Lang :
          /\ dir' = [dir EXCEPT !["xml"][<<file[r][1], l>>] = {}]
          /\ names' = [names EXCEPT !["xml"] = @ \union {<<file[r][1], l>>}]
          /\ file' = [file EXCEPT ![r] = <<file[r][1], l>>]
          /\ unread' = [unread EXCEPT ![r] = In(page[r], l)]
          /\ page' = [page EXCEPT ![r] = @ \ In(@, l)]
    BY <1>o DEF OpenFile
  <2>2. /\ pc[r] = "open" /\ pc' = [pc EXCEPT ![r] = "printing"]
        /\ UNCHANGED <<edit, quiet, edits, exports, processed, pass>>
    BY <1>o DEF OpenFile
  <2>3. /\ names["isbd"] = {} /\ names["rda"] = {} /\ pass[r] = 1
        /\ \A n \in processed : n[1] # file[r][1]
    BY <1>i, <2>2 DEF Emptied, Listed, Exporting
  <2>4. PICK n : n = <<file[r][1], l>>
    OBVIOUS
  <2>5. /\ pc'[r] = "printing" /\ file'[r] = n /\ file'[r][1] = file[r][1]
        /\ names'["isbd"] = {} /\ names'["rda"] = {}
        /\ \A s \in Stage : names'[s] \subseteq names[s] \union {n}
        /\ n \in Name
    BY <1>s, <1>t, <2>1, <2>2, <2>3, <2>4 DEF Typed, InHand, Name
  <2>6. Recent'
    <3>1. \A s \in Stage, m \in Name : dir'[s][m] \subseteq dir[s][m]
      BY <1>t, <2>1, <2>4, <2>5
    <3>2. \A q \in Runs : unread'[q] \union page'[q] \subseteq unread[q] \union page[q]
      BY <1>t, <2>1 DEF In
    <3>3. \A b \in Biblios : quiet[b] <= edit'[b]
      BY <1>i, <2>2 DEF Recent
    <3> QED BY <1>i, <2>2, <3>1, <3>2, <3>3, RecentKept
  <2>7. Unused'
    BY <1>i, <2>2, <2>3, <2>4, <2>5 DEF Unused
  <2>8. Emptied(r)' /\ Listed(r)'
    BY <2>2, <2>3, <2>5 DEF Emptied, Listed, Exporting
  <2> QED BY <2>6, <2>7, <2>8
<1>p. ASSUME NEW r \in Runs, PrintRecord(r) PROVE Unused' /\ Recent' /\ Emptied(r)' /\ Listed(r)'
  <2>1. PICK x \in unread[r] :
          /\ unread' = [unread EXCEPT ![r] = @ \ {x}]
          /\ \A s \in Stage, m \in Name : dir'[s][m] = dir[s][m] \union {x} \/ dir'[s][m] = dir[s][m]
    <3>1. PICK x \in unread[r] :
            /\ unread' = [unread EXCEPT ![r] = @ \ {x}]
            /\ dir' = [dir EXCEPT !["xml"][file[r]] = IF file[r] \in names["xml"] THEN @ \union {x} ELSE @]
      BY <1>p DEF PrintRecord
    <3>2. \A s \in Stage, m \in Name : dir'[s][m] = dir[s][m] \union {x} \/ dir'[s][m] = dir[s][m]
      BY <1>s, <1>t, <3>1
    <3> QED BY <3>1, <3>2
  <2>2. UNCHANGED <<edit, quiet, edits, exports, names, processed, pc, pass, todo, file, page>>
    BY <1>p DEF PrintRecord
  <2>3. Recent'
    <3>1. \A q \in Runs : unread'[q] \subseteq unread[q]
      BY <1>t, <2>1
    <3>2. \A b \in Biblios : quiet[b] <= edit'[b]
      BY <1>i, <2>2 DEF Recent
    <3> QED BY <1>i, <2>1, <2>2, <3>1, <3>2, RecentKept
  <2>4. Unused' /\ Emptied(r)' /\ Listed(r)'
    BY <1>i, <2>2 DEF Unused, Emptied, Listed, FilesOf, Input, PassLanguage, Exporting
  <2> QED BY <2>3, <2>4
<1>c. ASSUME NEW r \in Runs, CloseFile(r) PROVE Unused' /\ Recent' /\ Emptied(r)' /\ Listed(r)'
  <2>1. /\ pc[r] = "printing" /\ ((pc'[r] = "open" /\ file' = file) \/ pc'[r] = "truncate")
        /\ UNCHANGED <<names, dir, processed, edit, quiet, edits, unread, page, exports, pass>>
    BY <1>c, <1>t DEF CloseFile
  <2>2. Emptied(r)' /\ Listed(r)'
    BY <1>i, <2>1 DEF Emptied, Listed, Exporting
  <2> QED BY <1>k, <2>1, <2>2
<1>u. ASSUME NEW r \in Runs, TruncateCursor(r) PROVE Unused' /\ Recent' /\ Emptied(r)' /\ Listed(r)'
  <2>1. /\ pc[r] = "truncate" /\ pc'[r] = "cursor"
        /\ UNCHANGED <<names, dir, processed, edit, quiet, edits, unread, page, exports, pass>>
    BY <1>u, <1>t DEF TruncateCursor
  <2>2. Emptied(r)' /\ Listed(r)'
    BY <1>i, <2>1 DEF Emptied, Listed, Exporting
  <2> QED BY <1>k, <2>1, <2>2
<1>3. ASSUME NEW r \in Runs, WriteCursor(r) PROVE Unused' /\ Recent' /\ Emptied(r)' /\ Listed(r)'
  <2>1. /\ pc[r] = "cursor" /\ pc' = [pc EXCEPT ![r] = "pass"]
        /\ UNCHANGED <<edit, exports, dir, names, processed, pass, todo, file, page, unread, quiet, edits>>
    BY <1>3 DEF WriteCursor
  <2>2. names["isbd"] = {} /\ names["rda"] = {} /\ pass[r] = 1
    BY <1>i, <2>1 DEF Emptied, Listed
  <2>3. \A s \in Stage : \A n \in names[s] : <<s, n[2]>> \in Ahead[1]
    BY <1>t, <2>2 DEF Stage, Ahead, Name, Lang
  <2>4. pc'[r] = "pass"
    BY <1>t, <2>1
  <2>5. Emptied(r)' /\ Listed(r)'
    BY <2>1, <2>2, <2>3, <2>4 DEF Emptied, Listed, Exporting
  <2> QED BY <1>k, <2>1, <2>5
<1>4. ASSUME NEW r \in Runs, ListPass(r) PROVE Unused' /\ Recent' /\ Emptied(r)' /\ Listed(r)'
  <2>1. pc[r] = "pass" /\ UNCHANGED <<edit, disk, file, page, unread, quiet, edits>>
    BY <1>4 DEF ListPass
  <2>2. \A s \in Stage : \A n \in names[s] : <<s, n[2]>> \in Ahead[pass[r]]
    BY <1>i, <2>1 DEF Emptied
  <2>3. CASE FilesOf(Input(r), PassLanguage(r)) = {} /\ EndPass(r) /\ UNCHANGED todo
    BY <1>k, <2>1, <2>2, <2>3, PassEnds DEF Listed, Exporting
  <2>4. CASE /\ todo' = [todo EXCEPT ![r] = FilesOf(Input(r), PassLanguage(r))]
             /\ pc' = [pc EXCEPT ![r] = "file"] /\ pass' = pass
    <3>1. pc'[r] = "file" /\ todo'[r] = FilesOf(Input(r), PassLanguage(r))
      BY <1>t, <2>4
    <3>2. Emptied(r)' /\ Listed(r)'
      BY <2>1, <2>2, <2>4, <3>1 DEF Emptied, Listed, Exporting, FilesOf, Input, PassLanguage
    <3> QED BY <1>k, <2>1, <3>2
  <2> QED BY <1>4, <2>3, <2>4 DEF ListPass, FilesOf
<1>5. ASSUME NEW r \in Runs, LeavePass(r) PROVE Unused' /\ Recent' /\ Emptied(r)' /\ Listed(r)'
  <2>1. pc[r] = "file" /\ EndPass(r) /\ UNCHANGED <<edit, disk, file, page, unread, quiet, edits>>
    BY <1>5 DEF LeavePass
  <2>2. /\ \A s \in Stage : \A n \in names[s] : <<s, n[2]>> \in Ahead[pass[r]]
        /\ todo[r] = FilesOf(Input(r), PassLanguage(r))
    BY <1>i, <2>1 DEF Emptied, Listed, Exporting
  <2>3. todo[r] = {}
    BY <1>5, <2>2 DEF LeavePass, Earliest, FilesOf
  <2> QED BY <1>k, <2>1, <2>2, <2>3, PassEnds DEF Listed, Exporting
<1>6. ASSUME NEW r \in Runs, Convert(r) PROVE Unused' /\ Recent' /\ Emptied(r)' /\ Listed(r)'
  <2>1. PICK n \in Earliest(todo[r]) :
          /\ n \in names[Input(r)]
          /\ file' = [file EXCEPT ![r] = n] /\ todo' = [todo EXCEPT ![r] = @ \ {n}]
          /\ unread' = [unread EXCEPT ![r] = dir[Input(r)][n]]
          /\ dir' = [dir EXCEPT ![Output(r)][n] = {}]
          /\ names' = [names EXCEPT ![Output(r)] = @ \union {n}]
    BY <1>6 DEF Convert
  <2>2. /\ pc[r] = "file" /\ pc' = [pc EXCEPT ![r] = "convert"]
        /\ UNCHANGED <<edit, quiet, edits, exports, processed, pass, page>>
    BY <1>6 DEF Convert
  <2>3. /\ \A s \in Stage : \A m \in names[s] : <<s, m[2]>> \in Ahead[pass[r]]
        /\ todo[r] = FilesOf(Input(r), PassLanguage(r))
    BY <1>i, <2>2 DEF Emptied, Listed, Exporting
  <2>4. /\ n \in Name /\ n[2] = PassLanguage(r) /\ Input(r) \in Stage /\ Output(r) \in Stage
        /\ Input(r) # Output(r) /\ <<Output(r), n[2]>> \in Ahead[pass[r]]
    BY <1>t, <2>1, <2>3, PassFacts DEF FilesOf, Earliest
  <2>5. Unused'
    BY <1>i, <1>t, <2>1, <2>2, <2>4 DEF Unused
  <2>6. Recent'
    <3>1. \A s \in Stage, m \in Name : dir'[s][m] \subseteq dir[s][m]
      BY <1>t, <2>1, <2>4
    <3>2. \A q \in Runs : unread'[q] \subseteq unread[q] \/ unread'[q] = dir[Input(r)][n]
      BY <1>t, <2>1
    <3>3. \A b \in Biblios : quiet[b] <= edit'[b]
      BY <1>i, <2>2 DEF Recent
    <3> QED BY <1>i, <2>2, <2>4, <3>1, <3>2, <3>3, RecentKept
  <2>7. pc'[r] = "convert" /\ file'[r] = n /\ todo'[r] = todo[r] \ {n} /\ pass'[r] = pass[r]
        /\ names'[Input(r)] = names[Input(r)]
    BY <1>t, <2>1, <2>2, <2>4
  <2>8. \A s \in Stage : \A m \in names'[s] : <<s, m[2]>> \in Ahead[pass[r]]
    BY <1>t, <2>1, <2>3, <2>4
  <2>9. Emptied(r)'
    BY <2>2, <2>7, <2>8 DEF Emptied
  <2>10. Listed(r)'
    BY <2>2, <2>3, <2>4, <2>7 DEF Listed, Exporting, FilesOf, Input, PassLanguage
  <2> QED BY <2>5, <2>6, <2>9, <2>10
<1>7. ASSUME NEW r \in Runs, ConvertRecord(r) PROVE Unused' /\ Recent' /\ Emptied(r)' /\ Listed(r)'
  <2>1. PICK x \in unread[r] :
          /\ unread' = [unread EXCEPT ![r] = @ \ {x}]
          /\ \A s \in Stage, m \in Name : dir'[s][m] = dir[s][m] \union {x} \/ dir'[s][m] = dir[s][m]
    <3>1. Output(r) \in Stage
      BY PassFacts
    <3>2. PICK x \in unread[r] :
            /\ unread' = [unread EXCEPT ![r] = @ \ {x}]
            /\ dir' = [dir EXCEPT ![Output(r)][file[r]] =
                          IF file[r] \in names[Output(r)] THEN @ \union {x} ELSE @]
      BY <1>7 DEF ConvertRecord
    <3>3. \A s \in Stage, m \in Name : dir'[s][m] = dir[s][m] \union {x} \/ dir'[s][m] = dir[s][m]
      BY <1>t, <3>1, <3>2
    <3> QED BY <3>2, <3>3
  <2>2. UNCHANGED <<edit, quiet, edits, exports, names, processed, pc, pass, todo, file, page>>
    BY <1>7 DEF ConvertRecord
  <2>3. Recent'
    <3>1. \A q \in Runs : unread'[q] \subseteq unread[q]
      BY <1>t, <2>1
    <3>2. \A b \in Biblios : quiet[b] <= edit'[b]
      BY <1>i, <2>2 DEF Recent
    <3> QED BY <1>i, <2>1, <2>2, <3>1, <3>2, RecentKept
  <2>4. Unused' /\ Emptied(r)' /\ Listed(r)'
    BY <1>i, <2>2 DEF Unused, Emptied, Listed, Exporting, FilesOf, Input, PassLanguage
  <2> QED BY <2>3, <2>4
<1>8. ASSUME NEW r \in Runs, Converted(r) \/ BreakOff(r) PROVE Unused' /\ Recent' /\ Emptied(r)' /\ Listed(r)'
  <2>1. /\ pc[r] = "convert" /\ pc' = [pc EXCEPT ![r] = "move"]
        /\ \A q \in Runs : unread'[q] \subseteq unread[q]
        /\ UNCHANGED <<edit, quiet, edits, disk, pass, todo, file, page>>
    BY <1>8, <1>t DEF Converted, BreakOff
  <2>2. Recent'
    <3>1. \A b \in Biblios : quiet[b] <= edit'[b]
      BY <1>i, <2>1 DEF Recent
    <3> QED BY <1>i, <2>1, <3>1, RecentKept
  <2>3. pc'[r] = "move"
    BY <1>t, <2>1
  <2>4. Unused' /\ Emptied(r)' /\ Listed(r)'
    BY <1>i, <2>1, <2>3 DEF Unused, Emptied, Listed, Exporting, FilesOf, Input, PassLanguage
  <2> QED BY <2>2, <2>4
<1>9. ASSUME NEW r \in Runs, MoveInput(r) PROVE Unused' /\ Recent' /\ Emptied(r)' /\ Listed(r)'
  <2>1. /\ pc[r] = "move" /\ pc' = [pc EXCEPT ![r] = "file"]
        /\ dir' = [dir EXCEPT ![Input(r)][file[r]] = {}]
        /\ names' = [names EXCEPT ![Input(r)] = @ \ {file[r]}]
        /\ UNCHANGED <<edit, quiet, edits, exports, processed, pass, todo, page, unread>>
    BY <1>9 DEF MoveInput
  <2>2. /\ \A s \in Stage : \A m \in names[s] : <<s, m[2]>> \in Ahead[pass[r]]
        /\ todo[r] = FilesOf(Input(r), PassLanguage(r)) \ {file[r]}
    BY <1>i, <2>1 DEF Emptied, Listed, Exporting
  <2>3. Input(r) \in Stage
    BY PassFacts
  <2>4. /\ \A s \in Stage : names'[s] \subseteq names[s]
        /\ names'[Input(r)] = names[Input(r)] \ {file[r]}
        /\ \A s \in Stage, m \in Name : dir'[s][m] \subseteq dir[s][m]
    BY <1>t, <2>1, <2>3
  <2>5. Recent'
    <3>1. \A b \in Biblios : quiet[b] <= edit'[b]
      BY <1>i, <2>1 DEF Recent
    <3> QED BY <1>i, <2>1, <2>4, <3>1, RecentKept
  <2>6. pc'[r] = "file"
    BY <1>t, <2>1
  <2>7. Unused' /\ Emptied(r)'
    BY <1>i, <2>1, <2>2, <2>4, <2>6 DEF Unused, Emptied
  <2>8. Listed(r)'
    BY <2>1, <2>2, <2>4, <2>6 DEF Listed, Exporting, FilesOf, Input, PassLanguage
  <2> QED BY <2>5, <2>7, <2>8
<1>10. ASSUME NEW r \in Runs, ListImport(r) PROVE Unused' /\ Recent' /\ Emptied(r)' /\ Listed(r)'
  <2>1. /\ pc[r] = "list" /\ pc' = [pc EXCEPT ![r] = "import"] /\ todo' = [todo EXCEPT ![r] = names["rda"]]
        /\ UNCHANGED <<edit, quiet, edits, disk, pass, file, page, unread>>
    BY <1>10 DEF ListImport
  <2>2. Emptied(r)' /\ Listed(r)'
    BY <1>i, <1>t, <2>1 DEF Emptied, Listed, Exporting
  <2> QED BY <1>k, <2>1, <2>2
<1>11. ASSUME NEW r \in Runs, ImportFile(r) PROVE Unused' /\ Recent' /\ Emptied(r)' /\ Listed(r)'
  <2>1. pc[r] = "import" /\ todo[r] = names["rda"] /\ names["xml"] = {} /\ names["isbd"] = {}
    BY <1>11, <1>i DEF ImportFile, Emptied, Listed, Exporting
  <2>2. PICK n \in Earliest(todo[r]) :
          /\ todo' = [todo EXCEPT ![r] = @ \ {n}]
          /\ n \in names["rda"] \ processed
          /\ edit' = [b \in Biblios |->
                 IF \E e \in 0 .. MaxEdits : <<b, e>> \in dir["rda"][n]
                 THEN CHOOSE e \in 0 .. MaxEdits : <<b, e>> \in dir["rda"][n] ELSE edit[b]]
          /\ processed' = IF dir["rda"][n] = {} THEN processed ELSE processed \union {n}
          /\ Without(n)
    BY <1>11, <1>i, <1>s, <2>1 DEF ImportFile, Earliest, Unused
  <2>3. UNCHANGED <<exports, pc, pass, file, page, unread, edits, quiet>>
    BY <1>11 DEF ImportFile
  <2>4. n \in Name /\ dir' = [dir EXCEPT !["rda"][n] = {}] /\ names' = [names EXCEPT !["rda"] = @ \ {n}]
    BY <1>t, <2>2 DEF Earliest, Without
  <2>5. \A b \in Biblios : quiet[b] <= edit'[b]
    <3> TAKE b \in Biblios
    <3>1. CASE \E e \in 0 .. MaxEdits : <<b, e>> \in dir["rda"][n]
      <4>1. <<b, edit'[b]>> \in dir["rda"][n]
        BY <2>2, <3>1
      <4> QED BY <1>i, <1>s, <2>4, <4>1 DEF Recent
    <3>2. CASE ~ \E e \in 0 .. MaxEdits : <<b, e>> \in dir["rda"][n]
      <4>1. edit'[b] = edit[b]
        BY <2>2, <3>2
      <4> QED BY <1>i, <4>1 DEF Recent
    <3> QED BY <3>1, <3>2
  <2>6. Recent'
    <3>1. \A s \in Stage, m \in Name : dir'[s][m] \subseteq dir[s][m]
      BY <1>t, <2>4
    <3> QED BY <1>i, <2>3, <2>5, <3>1, RecentKept
  <2>7. Unused'
    <3>1. n[1] <= exports
      BY <1>s, <2>2 DEF Named
    <3>2. \A s \in Stage : n \notin names'[s] /\ names'[s] \subseteq names[s]
      BY <1>t, <2>1, <2>4 DEF Stage
    <3> QED BY <1>i, <2>2, <2>3, <3>1, <3>2 DEF Unused
  <2>8. Emptied(r)' /\ Listed(r)'
    BY <1>s, <1>t, <2>1, <2>2, <2>3, <2>4 DEF Emptied, Listed, Exporting
  <2> QED BY <2>6, <2>7, <2>8
<1>12. ASSUME NEW r \in Runs, Finish(r) PROVE Unused' /\ Recent' /\ Emptied(r)' /\ Listed(r)'
  <2>1. pc[r] = "import" /\ todo[r] = names["rda"] /\ names["xml"] = {} /\ names["isbd"] = {}
    BY <1>12, <1>i DEF Finish, Emptied, Listed, Exporting
  <2>2. names["rda"] = {}
    BY <1>12, <2>1 DEF Finish, Earliest
  <2>3. /\ pc'[r] = "idle" /\ pass'[r] = 1 /\ \A q \in Runs : unread'[q] \subseteq unread[q] /\ page'[q] \subseteq page[q]
        /\ UNCHANGED <<edit, disk, edits, quiet>>
    BY <1>12, <1>t DEF Finish, Exit
  <2>4. Recent'
    <3>1. \A b \in Biblios : quiet[b] <= edit'[b]
      BY <1>i, <2>3 DEF Recent
    <3> QED BY <1>i, <2>3, <3>1, RecentKept
  <2>5. Unused' /\ Emptied(r)' /\ Listed(r)'
    BY <1>i, <2>1, <2>2, <2>3 DEF Unused, Emptied, Listed, Exporting, Stage
  <2> QED BY <2>4, <2>5
<1>13. ASSUME NEW r \in Runs, Crash(r) PROVE FALSE
  BY <1>0, <1>13 DEF Crash
<1>14. ASSUME NEW b \in Biblios, Edit(b)
       PROVE  Unused' /\ Recent' /\ \A r \in Runs : Emptied(r)' /\ Listed(r)'
  <2>1. /\ edits' = [edits EXCEPT ![b] = @ + 1] /\ edit' = [edit EXCEPT ![b] = edits[b] + 1]
        /\ UNCHANGED <<disk, pc, local>>
    BY <1>14 DEF Edit
  <2>2. \A c \in Biblios : quiet[c] <= edit'[c] /\ quiet[c] <= edits'[c]
    BY <1>i, <1>t, <2>1 DEF Recent
  <2>3. Recent'
    <3>1. CASE \A r \in Runs : pc[r] = "idle"
      <4>1. quiet' = [quiet EXCEPT ![b] = edits[b] + 1]
        BY <1>14, <3>1 DEF Edit
      <4>2. \A c \in Biblios : quiet'[c] <= edit'[c] /\ quiet'[c] <= edits'[c]
        BY <1>t, <2>1, <2>2, <4>1
      <4>3. \A s \in Stage, n \in Name : dir[s][n] = {}
        <5>1. \A s \in Stage : names[s] = {}
          BY <1>i, <3>1 DEF Emptied
        <5> QED BY <5>1 DEF Named, Here, Numbers
      <4>4. \A r \in Runs : unread[r] = {} /\ page[r] = {}
        BY <3>1 DEF HandsInv, Exporting
      <4> QED BY <2>1, <4>2, <4>3, <4>4 DEF Recent
    <3>2. CASE ~ \A r \in Runs : pc[r] = "idle"
      <4>1. quiet' = quiet
        BY <1>14, <3>2 DEF Edit
      <4> QED BY <1>i, <2>1, <2>2, <4>1 DEF Recent
    <3> QED BY <3>1, <3>2
  <2>4. Unused' /\ \A r \in Runs : Emptied(r)' /\ Listed(r)'
    BY <1>i, <2>1 DEF Unused, Emptied, Listed, Exporting, FilesOf, Input, PassLanguage
  <2> QED BY <2>3, <2>4
<1>15. CASE NewDay
  <2>1. /\ \A r \in Runs : pc[r] = "idle"
        /\ dir' = [s \in Stage |-> [n \in Name |-> {}]] /\ names' = [s \in Stage |-> {}]
        /\ processed' = {} /\ UNCHANGED <<edit, exports, pc, local, edits, quiet>>
    BY <1>15 DEF NewDay
  <2>2. Unused'
    BY <2>1 DEF Unused
  <2>3. Recent'
    BY <1>i, <2>1 DEF Recent
  <2>4. \A r \in Runs : Emptied(r)' /\ Listed(r)'
    BY <1>i, <2>1 DEF Emptied, Listed, Exporting
  <2> QED BY <2>2, <2>3, <2>4
<1>16. CASE UNCHANGED vars
  BY <1>16, <1>i DEF vars, Unused, Recent, Emptied, Listed, Exporting, FilesOf, Input, PassLanguage
<1>17. ASSUME NEW r \in Runs, Unused' /\ Recent' /\ Emptied(r)' /\ Listed(r)'
       PROVE  Unused' /\ Recent' /\ \A q \in Runs : Emptied(q)' /\ Listed(q)'
  BY <1>17
<1> QED
  BY <1>1, <1>2, <1>o, <1>p, <1>c, <1>u, <1>3, <1>4, <1>5, <1>6, <1>7, <1>8, <1>9, <1>10, <1>11, <1>12, <1>13, <1>14, <1>15, <1>16,
     <1>17 DEF Next, Advance

\* Of one script: as long as it is not killed, an edit made while it was not going
\* is in Koha (convert_all_rda.sh).
THEOREM QuietDaysAreKept ==
    ASSUME NEW only, Runs = {only}
    PROVE  Spec => []QuietEditsKept
<1>1. Init => Tidy
  BY DEF Init, Tidy, Unused, Recent, Emptied, Listed, Exporting
<1>2. Kept /\ Kept' /\ Tidy /\ [Next]_vars => Tidy'
  BY TidyStep DEF Kept, FileInv
<1>3. Tidy => QuietEditsKept
  BY DEF Tidy, Recent, QuietEditsKept
<1> QED BY <1>1, <1>2, <1>3, KeptAlways, PTL DEF Spec
=============================================================================
