-------------------------- MODULE KohaImportProofs --------------------------
(***************************************************************************)
(* Proofs about KohaImport, for any number of importers, files, records,   *)
(* arrivals and crashes.                                                   *)
(***************************************************************************)
EXTENDS KohaImport, TLAPS, FiniteSetTheorems, SequenceTheorems

\* Where a run has a file in hand, and where also the file's batch.
WithBatch == Matching \union {"commit", "record", "revert", "skip_bb", "move"}
InHand == WithBatch \union {"find", "stage", "unlink"}

\* A run at work on a batch works on the batch of the file it has in hand.
HandInv ==
    \A r \in Runs :
        /\ pc[r] \in InHand => file[r] \in Files
        /\ pc[r] \in WithBatch => /\ bid[r] \in DOMAIN batches
                                  /\ batches[bid[r]].file = file[r]

Inv == TypeOK /\ HandInv

\* Replacing one element of a sequence keeps its length and its other elements.
LEMMA UpdateLemma ==
    ASSUME NEW S, NEW s \in Seq(S), NEW i \in DOMAIN s, NEW v \in S,
           NEW t, t = [s EXCEPT ![i] = v]
    PROVE  /\ t \in Seq(S)
           /\ Len(t) = Len(s)
           /\ DOMAIN t = DOMAIN s
           /\ t[i] = v
           /\ \A j \in DOMAIN s : j # i => t[j] = s[j]
<1>1. t \in Seq(S) /\ Len(t) = Len(s)
  BY ExceptSeq
<1>2. DOMAIN t = DOMAIN s /\ t[i] = v /\ \A j \in DOMAIN s : j # i => t[j] = s[j]
  OBVIOUS
<1> QED
  BY <1>1, <1>2

\* The effect on the batches of a step that changes the batch in run r's hand.
LEMMA BatchUpdate ==
    ASSUME TypeOK, HandInv, NEW r \in Runs, pc[r] \in WithBatch,
           NEW v \in Batch, v.file = file[r],
           batches' = [batches EXCEPT ![bid[r]] = v]
    PROVE  /\ batches' \in Seq(Batch)
           /\ DOMAIN batches' = DOMAIN batches
           /\ batches'[bid[r]] = v
           /\ \A i \in DOMAIN batches : i # bid[r] => batches'[i] = batches[i]
           /\ \A i \in DOMAIN batches : batches'[i].file = batches[i].file
<1>1. bid[r] \in DOMAIN batches /\ batches[bid[r]].file = file[r]
  BY DEF HandInv
<1>2. batches \in Seq(Batch)
  BY DEF TypeOK
<1> QED
  BY <1>1, <1>2, UpdateLemma

\* Staging adds a batch after those there are.
LEMMA BatchAppend ==
    ASSUME TypeOK, NEW v \in Batch, batches' = Append(batches, v)
    PROVE  /\ batches' \in Seq(Batch)
           /\ DOMAIN batches' = DOMAIN batches \union {Len(batches) + 1}
           /\ Len(batches) + 1 \in Nat /\ Len(batches) + 1 \notin DOMAIN batches
           /\ batches'[Len(batches) + 1] = v
           /\ \A i \in DOMAIN batches : batches'[i] = batches[i]
<1>1. batches \in Seq(Batch)
  BY DEF TypeOK
<1> QED
  BY <1>1

\* Every step keeps the types, and every run its batch.
LEMMA InvStep == Inv /\ [Next]_vars => Inv'
<1> SUFFICES ASSUME Inv, [Next]_vars PROVE Inv'
  OBVIOUS
<1> USE DEF Inv, Statement, Status, Action, Matching, WithBatch, InHand
<1>1. ASSUME NEW r \in Runs, NEW o \in Options, Start(r, o)
      PROVE  Inv'
  BY <1>1 DEF TypeOK, HandInv, Start, Goto, store, env
<1>2. ASSUME NEW f \in Files, Arrive(f)
      PROVE  Inv'
  BY <1>2, BoundsAssumption DEF TypeOK, HandInv, Arrive, local
<1>3. ASSUME NEW r \in Runs, Exit(r), UNCHANGED store, UNCHANGED <<arrivals, overlapped>>, crashes' \in 0 .. MaxCrashes
      PROVE  Inv'
  BY <1>3 DEF TypeOK, HandInv, Exit, Goto, store
<1>4. ASSUME NEW r \in Runs, Crash(r) \/ Finish(r) \/ Die(r)
      PROVE  Inv'
  <2>1. crashes' \in 0 .. MaxCrashes /\ UNCHANGED <<arrivals, overlapped>>
    BY <1>4, BoundsAssumption DEF TypeOK, Crash, Finish, Die, env
  <2> QED
    BY <1>3, <1>4, <2>1 DEF Crash, Finish, Die
<1>5. ASSUME NEW r \in Runs, NextFile(r)
      PROVE  Inv'
  <2> PICK f \in Earliest(todo[r]) :
          /\ todo' = [todo EXCEPT ![r] = @ \ {f}]
          /\ \/ UNCHANGED <<pc, file>>
             \/ file' = [file EXCEPT ![r] = f] /\ Goto(r, "find")
    BY <1>5 DEF NextFile
  <2>1. f \in Files
    BY DEF Earliest, TypeOK
  <2>2. pc[r] = "scan" /\ UNCHANGED <<store, opts, bid, left, changed, count, env>>
    BY <1>5 DEF NextFile
  <2>3. pc' \in [Runs -> Statement] /\ file' \in [Runs -> Files \union {None}]
        /\ todo' \in [Runs -> SUBSET Files]
    BY <2>1 DEF TypeOK, Goto
  <2>4. TypeOK'
    BY <2>2, <2>3 DEF TypeOK, store, env
  <2>5. HandInv'
    BY <2>1, <2>2 DEF TypeOK, HandInv, Goto, store
  <2> QED
    BY <2>4, <2>5
<1>6. ASSUME NEW r \in Runs, findImportedBatchByFileName(r)
      PROVE  Inv'
  <2>1. DOMAIN batches \subseteq Nat
    BY LenProperties DEF TypeOK
  <2>2. CASE Goto(r, "stage") /\ UNCHANGED bid
    BY <1>6, <2>2 DEF TypeOK, HandInv, findImportedBatchByFileName, Goto, store, env
  <2>3. ASSUME NEW i \in StagedBatches(file[r]),
               bid' = [bid EXCEPT ![r] = i], Goto(r, AfterStaging(r))
        PROVE  Inv'
    <3>1. TypeOK'
      BY <1>6, <2>1, <2>3 DEF TypeOK, findImportedBatchByFileName, StagedBatches, Goto, store, env,
         AfterStaging, AfterCommit, AfterRevert
    <3>2. HandInv'
      BY <1>6, <2>1, <2>3 DEF TypeOK, HandInv, findImportedBatchByFileName, StagedBatches, Goto, store, env,
         AfterStaging, AfterCommit, AfterRevert
    <3> QED
      BY <3>1, <3>2
  <2> QED
    BY <1>6, <2>2, <2>3 DEF findImportedBatchByFileName
<1>7. ASSUME NEW r \in Runs, Stage(r)
      PROVE  Inv'
  <2>1. CASE Content[file[r]] = {}
    BY <1>7, <2>1 DEF TypeOK, HandInv, Stage, Goto, env,
       AfterStaging, AfterCommit, AfterRevert
  <2>2. CASE Content[file[r]] # {}
    <3> DEFINE v == [file |-> file[r], status |-> "staged", dups |-> {},
                     overlay |-> "create_new", nomatch |-> "create_new",
                     imported |-> {}, created |-> {}]
    <3>1. batches' = Append(batches, v) /\ bid' = [bid EXCEPT ![r] = Len(batches) + 1]
      BY <1>7, <2>2 DEF Stage
    <3>2. v \in Batch
      BY <1>7 DEF Batch, Stage, HandInv
    <3>3. /\ batches' \in Seq(Batch)
          /\ DOMAIN batches' = DOMAIN batches \union {Len(batches) + 1}
          /\ Len(batches) + 1 \in Nat
          /\ batches'[Len(batches) + 1].file = file[r]
          /\ \A i \in DOMAIN batches : batches'[i] = batches[i]
      BY <3>1, <3>2, BatchAppend
    <3> HIDE DEF v
    <3>4. TypeOK'
      BY <1>7, <3>1, <3>3 DEF TypeOK, Stage, Goto, env, AfterStaging, AfterCommit, AfterRevert
    <3>5. HandInv'
      BY <1>7, <3>1, <3>3 DEF TypeOK, HandInv, Stage, Goto, env, AfterStaging, AfterCommit, AfterRevert
    <3> QED
      BY <3>4, <3>5
  <2> QED
    BY <2>1, <2>2
<1>8. ASSUME NEW r \in Runs, FindDuplicates(r)
      PROVE  Inv'
  <2>1. bid[r] \in DOMAIN batches /\ batches[bid[r]] \in Batch /\ batches[bid[r]].file = file[r] /\ file[r] \in Files
    BY <1>8, LenProperties, ElementOfSeq DEF TypeOK, HandInv, FindDuplicates
  <2> DEFINE v == [batches[bid[r]] EXCEPT !.dups = {b \in Content[file[r]] : catalog[b] > 0}]
  <2>2. v \in Batch /\ v.file = file[r]
    BY <1>8, <2>1, ContentAssumption DEF Batch, TypeOK
  <2>3. batches' = [batches EXCEPT ![bid[r]] = v]
    BY <1>8 DEF FindDuplicates
  <2> HIDE DEF v
  <2>4. /\ batches' \in Seq(Batch)
        /\ DOMAIN batches' = DOMAIN batches
        /\ \A i \in DOMAIN batches : batches'[i].file = batches[i].file
    BY <1>8, <2>2, <2>3, BatchUpdate DEF FindDuplicates
  <2>5. TypeOK'
    BY <1>8, <2>1, <2>4, ContentAssumption DEF TypeOK, FindDuplicates, Goto, local, env, AfterStaging, AfterCommit, AfterRevert
  <2>6. HandInv'
    BY <1>8, <2>4 DEF TypeOK, HandInv, FindDuplicates, Goto, local, env, AfterStaging, AfterCommit, AfterRevert
  <2> QED
    BY <2>5, <2>6
<1>9. ASSUME NEW r \in Runs, SetOverlayAction(r)
      PROVE  Inv'
  <2>1. bid[r] \in DOMAIN batches /\ batches[bid[r]] \in Batch /\ batches[bid[r]].file = file[r] /\ file[r] \in Files
    BY <1>9, LenProperties, ElementOfSeq DEF TypeOK, HandInv, SetOverlayAction
  <2> DEFINE v == [batches[bid[r]] EXCEPT !.overlay = "replace"]
  <2>2. v \in Batch /\ v.file = file[r]
    BY <1>9, <2>1 DEF Batch, TypeOK
  <2>3. batches' = [batches EXCEPT ![bid[r]] = v]
    BY <1>9 DEF SetOverlayAction
  <2> HIDE DEF v
  <2>4. /\ batches' \in Seq(Batch)
        /\ DOMAIN batches' = DOMAIN batches
        /\ \A i \in DOMAIN batches : batches'[i].file = batches[i].file
    BY <1>9, <2>2, <2>3, BatchUpdate DEF SetOverlayAction
  <2>5. TypeOK'
    BY <1>9, <2>1, <2>4 DEF TypeOK, SetOverlayAction, Goto, local, env, AfterStaging, AfterCommit, AfterRevert
  <2>6. HandInv'
    BY <1>9, <2>4 DEF TypeOK, HandInv, SetOverlayAction, Goto, local, env, AfterStaging, AfterCommit, AfterRevert
  <2> QED
    BY <2>5, <2>6
<1>10. ASSUME NEW r \in Runs, SetNoMatchAction(r)
      PROVE  Inv'
  <2>1. bid[r] \in DOMAIN batches /\ batches[bid[r]] \in Batch /\ batches[bid[r]].file = file[r] /\ file[r] \in Files
    BY <1>10, LenProperties, ElementOfSeq DEF TypeOK, HandInv, SetNoMatchAction
  <2> DEFINE v == [batches[bid[r]] EXCEPT !.nomatch = "ignore"]
  <2>2. v \in Batch /\ v.file = file[r]
    BY <1>10, <2>1 DEF Batch, TypeOK
  <2>3. batches' = [batches EXCEPT ![bid[r]] = v]
    BY <1>10 DEF SetNoMatchAction
  <2> HIDE DEF v
  <2>4. /\ batches' \in Seq(Batch)
        /\ DOMAIN batches' = DOMAIN batches
        /\ \A i \in DOMAIN batches : batches'[i].file = batches[i].file
    BY <1>10, <2>2, <2>3, BatchUpdate DEF SetNoMatchAction
  <2>5. TypeOK'
    BY <1>10, <2>1, <2>4 DEF TypeOK, SetNoMatchAction, Goto, local, env, AfterStaging, AfterCommit, AfterRevert
  <2>6. HandInv'
    BY <1>10, <2>4 DEF TypeOK, HandInv, SetNoMatchAction, Goto, local, env, AfterStaging, AfterCommit, AfterRevert
  <2> QED
    BY <2>5, <2>6
<1>11. ASSUME NEW r \in Runs, EndCommit(r)
      PROVE  Inv'
  <2>1. bid[r] \in DOMAIN batches /\ batches[bid[r]] \in Batch /\ batches[bid[r]].file = file[r] /\ file[r] \in Files
    BY <1>11, LenProperties, ElementOfSeq DEF TypeOK, HandInv, EndCommit
  <2> DEFINE v == [batches[bid[r]] EXCEPT !.status = "imported"]
  <2>2. v \in Batch /\ v.file = file[r]
    BY <1>11, <2>1 DEF Batch, TypeOK
  <2>3. batches' = [batches EXCEPT ![bid[r]] = v]
    BY <1>11 DEF EndCommit
  <2> HIDE DEF v
  <2>4. /\ batches' \in Seq(Batch)
        /\ DOMAIN batches' = DOMAIN batches
        /\ \A i \in DOMAIN batches : batches'[i].file = batches[i].file
    BY <1>11, <2>2, <2>3, BatchUpdate DEF EndCommit
  <2>5. TypeOK'
    BY <1>11, <2>1, <2>4 DEF TypeOK, EndCommit, Goto, local, env, AfterStaging, AfterCommit, AfterRevert
  <2>6. HandInv'
    BY <1>11, <2>4 DEF TypeOK, HandInv, EndCommit, Goto, local, env, AfterStaging, AfterCommit, AfterRevert
  <2> QED
    BY <2>5, <2>6
<1>12. ASSUME NEW r \in Runs, BeginCommit(r)
      PROVE  Inv'
  <2>1. bid[r] \in DOMAIN batches /\ batches[bid[r]] \in Batch /\ batches[bid[r]].file = file[r] /\ file[r] \in Files
    BY <1>12, LenProperties, ElementOfSeq DEF TypeOK, HandInv, BeginCommit
  <2> DEFINE v == [batches[bid[r]] EXCEPT !.status = "importing"]
  <2>2. v \in Batch /\ v.file = file[r]
    BY <1>12, <2>1 DEF Batch, TypeOK
  <2>3. batches' = [batches EXCEPT ![bid[r]] = v]
    BY <1>12 DEF BeginCommit
  <2>7. {<<b, ActionOf(batches[bid[r]], b)>> : b \in Content[file[r]] \ batches[bid[r]].imported}
           \subseteq Biblios \X Action
    BY <2>1, ContentAssumption DEF ActionOf, Batch
  <2> HIDE DEF v
  <2>4. /\ batches' \in Seq(Batch)
        /\ DOMAIN batches' = DOMAIN batches
        /\ \A i \in DOMAIN batches : batches'[i].file = batches[i].file
    BY <1>12, <2>2, <2>3, BatchUpdate DEF BeginCommit
  <2>5. TypeOK'
    BY <1>12, <2>1, <2>4, <2>7 DEF TypeOK, BeginCommit, Goto, env
  <2>6. HandInv'
    BY <1>12, <2>4 DEF TypeOK, HandInv, BeginCommit, Goto, env
  <2> QED
    BY <2>5, <2>6
<1>13. ASSUME NEW r \in Runs, CommitRecord(r)
      PROVE  Inv'
  <2> PICK next \in left[r] :
          /\ left' = [left EXCEPT ![r] = @ \ {next}]
          /\ \/ UNCHANGED <<batches, catalog, changed>>
             \/ /\ batches' = [batches EXCEPT ![bid[r]].imported = @ \union {next[1]}]
                /\ changed' = [changed EXCEPT ![r] = TRUE]
                /\ UNCHANGED catalog
             \/ /\ batches' = [batches EXCEPT ![bid[r]].imported = @ \union {next[1]},
                                              ![bid[r]].created = @ \union {next[1]}]
                /\ catalog' = [catalog EXCEPT ![next[1]] = @ + 1]
                /\ changed' = [changed EXCEPT ![r] = TRUE]
    BY <1>13 DEF CommitRecord
  <2>1. bid[r] \in DOMAIN batches /\ batches[bid[r]] \in Batch /\ batches[bid[r]].file = file[r] /\ file[r] \in Files
    BY <1>13, LenProperties, ElementOfSeq DEF TypeOK, HandInv, CommitRecord
  <2>2. next[1] \in Biblios
    BY DEF TypeOK
  <2>3. /\ batches' \in Seq(Batch)
        /\ DOMAIN batches' = DOMAIN batches
        /\ \A i \in DOMAIN batches : batches'[i].file = batches[i].file
    <3>1. CASE UNCHANGED batches
      BY <3>1 DEF TypeOK
    <3> DEFINE v == [batches[bid[r]] EXCEPT !.imported = @ \union {next[1]}]
               w == [batches[bid[r]] EXCEPT !.imported = @ \union {next[1]},
                                            !.created = @ \union {next[1]}]
    <3>2. v \in Batch /\ v.file = file[r] /\ w \in Batch /\ w.file = file[r]
      BY <2>1, <2>2 DEF Batch
    <3>3. CASE batches' = [batches EXCEPT ![bid[r]] = v]
      BY <1>13, <3>2, <3>3, BatchUpdate DEF CommitRecord
    <3>4. CASE batches' = [batches EXCEPT ![bid[r]] = w]
      BY <1>13, <3>2, <3>4, BatchUpdate DEF CommitRecord
    <3> QED
      BY <3>1, <3>3, <3>4
  <2>6. UNCHANGED <<dir, processed, bbLog, pc, opts, todo, file, bid, count, env>>
    BY <1>13 DEF CommitRecord
  <2>7. left' \in [Runs -> SUBSET (Biblios \X Action)] /\ changed' \in [Runs -> BOOLEAN]
    BY DEF TypeOK
  <2>8. catalog' \in [Biblios -> Int]
    BY <2>2 DEF TypeOK
  <2>4. TypeOK'
    BY <2>3, <2>6, <2>7, <2>8 DEF TypeOK, env
  <2>5. HandInv'
    BY <1>13, <2>3 DEF HandInv, CommitRecord
  <2> QED
    BY <2>4, <2>5
<1>14. ASSUME NEW r \in Runs, revertRecords(r)
      PROVE  Inv'
  <2>1. bid[r] \in DOMAIN batches /\ batches[bid[r]] \in Batch /\ batches[bid[r]].file = file[r] /\ file[r] \in Files
    BY <1>14, LenProperties, ElementOfSeq DEF TypeOK, HandInv, revertRecords
  <2> DEFINE v == [batches[bid[r]] EXCEPT !.status = "reverted", !.imported = {}, !.created = {}]
  <2>2. v \in Batch /\ v.file = file[r]
    BY <1>14, <2>1 DEF Batch, TypeOK
  <2>3. batches' = [batches EXCEPT ![bid[r]] = v]
    BY <1>14 DEF revertRecords
  <2> HIDE DEF v
  <2>4. /\ batches' \in Seq(Batch)
        /\ DOMAIN batches' = DOMAIN batches
        /\ \A i \in DOMAIN batches : batches'[i].file = batches[i].file
    BY <1>14, <2>2, <2>3, BatchUpdate DEF revertRecords
  <2>5. TypeOK'
    BY <1>14, <2>1, <2>4 DEF TypeOK, revertRecords, Goto, local, env, AfterStaging, AfterCommit, AfterRevert
  <2>6. HandInv'
    BY <1>14, <2>4 DEF TypeOK, HandInv, revertRecords, Goto, local, env, AfterStaging, AfterCommit, AfterRevert
  <2> QED
    BY <2>5, <2>6
<1>15. ASSUME NEW r \in Runs, skipRecordsFromBroadcastBiblios(r)
      PROVE  Inv'
  <2>1. bid[r] \in DOMAIN batches /\ batches[bid[r]] \in Batch
    BY <1>15, LenProperties, ElementOfSeq DEF TypeOK, HandInv, skipRecordsFromBroadcastBiblios
  <2> QED
    BY <1>15, <2>1 DEF TypeOK, HandInv, Batch, skipRecordsFromBroadcastBiblios, Goto, local, env
<1>16. ASSUME NEW r \in Runs, move_file(r)
      PROVE  Inv'
  BY <1>16 DEF TypeOK, HandInv, move_file, Goto, env
<1>17. ASSUME NEW r \in Runs, Unlink(r)
      PROVE  Inv'
  BY <1>17 DEF TypeOK, HandInv, Unlink, Goto, env
<1>18. CASE UNCHANGED vars
  BY <1>18 DEF TypeOK, HandInv, vars, store, local, env
<1> QED
  BY <1>1, <1>2, <1>4, <1>5, <1>6, <1>7, <1>8, <1>9, <1>10, <1>11, <1>12, <1>13,
     <1>14, <1>15, <1>16, <1>17, <1>18 DEF Next, Advance, importRecords

LEMMA InvHolds == Spec => []Inv
<1>1. Init => Inv
  <2> SUFFICES ASSUME Init PROVE Inv
    OBVIOUS
  <2>1. batches \in Seq(Batch)
    BY EmptySeq DEF Init
  <2>2. catalog \in [Biblios -> Int]
    BY DEF Init
  <2>3. TypeOK
    <3>1. arrivals \in 0 .. MaxArrivals /\ crashes \in 0 .. MaxCrashes
      BY BoundsAssumption DEF Init
    <3>3. overlapped \in BOOLEAN
      BY Zenon DEF Init
    <3>2. /\ pc \in [Runs -> Statement] /\ opts \in [Runs -> Options \union {NoOption}]
          /\ todo \in [Runs -> SUBSET Files] /\ file \in [Runs -> Files \union {None}]
          /\ bid \in [Runs -> Nat] /\ left \in [Runs -> SUBSET (Biblios \X Action)]
          /\ changed \in [Runs -> BOOLEAN] /\ count \in [Runs -> Nat]
      BY DEF Init, Statement
    <3> QED
      BY <2>1, <2>2, <3>1, <3>2, <3>3 DEF Init, TypeOK
  <2>4. HandInv
    BY DEF Init, HandInv, Matching, WithBatch, InHand
  <2> QED
    BY <2>3, <2>4 DEF Inv
<1> QED
  BY <1>1, InvStep, PTL DEF Spec

\* The variables keep their types: in particular a run at a statement that
\* uses a batch has one, and the catalog is counted in integers.
THEOREM TypeCorrect == Spec => []TypeOK
BY InvHolds, PTL DEF Inv

-----------------------------------------------------------------------------
(* Matching: who may commit a batch that adds records *)

Matched(i) == batches[i].overlay = "replace" /\ batches[i].nomatch = "ignore"

BeingMatched(i) ==
    \E q \in Runs : /\ bid[q] = i /\ pc[q] \in Matching
                    /\ pc[q] = "nomatch" => batches[i].overlay = "replace"

\* Without a crash, a batch is matched or a run is still about to match it.
MatchInv ==
    /\ \A r \in Runs : pc[r] # "idle" => opts[r] \in Options
    /\ crashes = 0 => \A i \in DOMAIN batches : Matched(i) \/ BeingMatched(i)

\* A step of a run that is not matching, and leaves every batch's actions as
\* they are, disturbs neither.
LEMMA MatchKept ==
    ASSUME MatchInv, NEW r \in Runs, pc[r] \notin Matching,
           \A q \in Runs \ {r} : pc'[q] = pc[q] /\ bid'[q] = bid[q] /\ opts'[q] = opts[q],
           opts'[r] \in Options \/ pc'[r] = "idle",
           DOMAIN batches' = DOMAIN batches,
           \A i \in DOMAIN batches : /\ batches'[i].overlay = batches[i].overlay
                                     /\ batches'[i].nomatch = batches[i].nomatch,
           crashes' = crashes
    PROVE  MatchInv'
<1>1. \A q \in Runs : pc'[q] # "idle" => opts'[q] \in Options
  BY DEF MatchInv
<1>2. ASSUME crashes' = 0, NEW i \in DOMAIN batches' PROVE Matched(i)' \/ BeingMatched(i)'
  <2>1. CASE Matched(i)
    BY <1>2, <2>1 DEF Matched
  <2>2. CASE BeingMatched(i)
    BY <1>2, <2>2 DEF BeingMatched
  <2> QED
    BY <1>2, <2>1, <2>2 DEF MatchInv
<1> QED
  BY <1>1, <1>2 DEF MatchInv

\* A step on the batch in run r's hand, in terms of that batch alone.
LEMMA HandUpdate ==
    ASSUME Inv, NEW r \in Runs, pc[r] \in WithBatch, NEW v,
           batches' = [batches EXCEPT ![bid[r]] = v]
    PROVE  /\ bid[r] \in DOMAIN batches
           /\ DOMAIN batches' = DOMAIN batches
           /\ batches'[bid[r]] = v
           /\ \A i \in DOMAIN batches : i # bid[r] => batches'[i] = batches[i]
           /\ batches[bid[r]] \in Batch
           /\ batches[bid[r]].file = file[r]
<1>1. bid[r] \in DOMAIN batches /\ batches[bid[r]].file = file[r]
  BY DEF Inv, HandInv
<1>2. batches \in Seq(Batch)
  BY DEF Inv, TypeOK
<1> QED
  BY <1>1, <1>2, LenProperties, ElementOfSeq

LEMMA MatchStep ==
    ASSUME \A o \in Options : o.matcher
    PROVE  Inv /\ MatchInv /\ [Next]_vars => MatchInv'
<1> SUFFICES ASSUME Inv, MatchInv, [Next]_vars PROVE MatchInv'
  OBVIOUS
<1> USE DEF Matching
<1>t. /\ pc \in [Runs -> Statement] /\ bid \in [Runs -> Nat] /\ crashes \in Nat
      /\ opts \in [Runs -> Options \union {NoOption}]
  BY BoundsAssumption DEF Inv, TypeOK
<1>1. ASSUME NEW r \in Runs, NEW o \in Options, Start(r, o)
      PROVE  MatchInv'
  BY <1>1, <1>t, MatchKept DEF Start, Goto, store, env
<1>2. ASSUME NEW f \in Files, Arrive(f)
      PROVE  MatchInv'
  BY <1>2 DEF Arrive, local, MatchInv, Matched, BeingMatched
<1>3. ASSUME NEW r \in Runs, Crash(r)
      PROVE  MatchInv'
  BY <1>3, <1>t DEF Crash, Exit, Goto, MatchInv
<1>4. ASSUME NEW r \in Runs, Finish(r) \/ Die(r)
      PROVE  MatchInv'
  BY <1>4, <1>t, MatchKept DEF Finish, Die, Exit, Goto, store, env
<1>5. ASSUME NEW r \in Runs, NextFile(r) \/ move_file(r) \/ Unlink(r)
      PROVE  MatchInv'
  <2>1. /\ pc[r] \in {"scan", "move", "unlink"} /\ opts[r] \in Options
        /\ \A q \in Runs \ {r} : pc'[q] = pc[q] /\ bid'[q] = bid[q]
        /\ UNCHANGED <<batches, opts, crashes>>
    BY <1>5, <1>t DEF NextFile, move_file, Unlink, Goto, store, env, MatchInv
  <2> QED
    BY <2>1, MatchKept
<1>6. ASSUME NEW r \in Runs, findImportedBatchByFileName(r)
      PROVE  MatchInv'
  <2>1. /\ pc[r] = "find" /\ opts[r] \in Options
        /\ \A q \in Runs \ {r} : pc'[q] = pc[q] /\ bid'[q] = bid[q]
        /\ UNCHANGED <<batches, opts, crashes>>
    BY <1>6, <1>t DEF findImportedBatchByFileName, Goto, store, env, MatchInv
  <2> QED
    BY <2>1, MatchKept
<1>7. ASSUME NEW r \in Runs, skipRecordsFromBroadcastBiblios(r)
      PROVE  MatchInv'
  BY <1>7, <1>t, MatchKept DEF skipRecordsFromBroadcastBiblios, Goto, local, env, MatchInv
<1>8. ASSUME NEW r \in Runs, Stage(r)
      PROVE  MatchInv'
  <2>1. pc[r] = "stage" /\ opts[r] \in Options /\ opts[r].matcher /\ UNCHANGED <<opts, crashes>>
    BY <1>8 DEF Stage, MatchInv, env
  <2>2. CASE Content[file[r]] = {}
    BY <1>8, <1>t, <2>1, <2>2, MatchKept DEF Stage, Goto
  <2>3. CASE Content[file[r]] # {}
    <3> DEFINE v == [file |-> file[r], status |-> "staged", dups |-> {},
                     overlay |-> "create_new", nomatch |-> "create_new",
                     imported |-> {}, created |-> {}]
    <3> PICK n : n = Len(batches) + 1
      OBVIOUS
    <3>1. batches' = Append(batches, v) /\ bid' = [bid EXCEPT ![r] = n] /\ Goto(r, "duplicates")
      BY <1>8, <2>1, <2>3 DEF Stage
    <3>2. v \in Batch
      BY <2>1 DEF Batch, Inv, HandInv, InHand, Status, Action
    <3>3. /\ DOMAIN batches' = DOMAIN batches \union {n}
          /\ n \in Nat /\ n \notin DOMAIN batches
          /\ \A i \in DOMAIN batches : batches'[i] = batches[i]
      BY <3>1, <3>2, BatchAppend DEF Inv
    <3> HIDE DEF v
    <3>4. pc'[r] = "duplicates" /\ bid'[r] = n
          /\ \A q \in Runs \ {r} : pc'[q] = pc[q] /\ bid'[q] = bid[q]
      BY <1>t, <3>1 DEF Goto
    <3>5. BeingMatched(n)'
      BY <3>4 DEF BeingMatched
    <3>6. ASSUME crashes = 0, NEW i \in DOMAIN batches PROVE Matched(i)' \/ BeingMatched(i)'
      BY <2>1, <3>3, <3>4, <3>6 DEF MatchInv, Matched, BeingMatched
    <3> QED
      BY <2>1, <3>3, <3>4, <3>5, <3>6 DEF MatchInv
  <2> QED
    BY <2>2, <2>3
<1>9. ASSUME NEW r \in Runs, FindDuplicates(r)
      PROVE  MatchInv'
  <2> DEFINE v == [batches[bid[r]] EXCEPT !.dups = {b \in Content[file[r]] : catalog[b] > 0}]
  <2>1. batches' = [batches EXCEPT ![bid[r]] = v]
    BY <1>9 DEF FindDuplicates
  <2>2. /\ v.overlay = batches[bid[r]].overlay /\ v.nomatch = batches[bid[r]].nomatch
        /\ pc[r] \in WithBatch
    BY <1>9, <2>1, HandUpdate DEF Batch, FindDuplicates, WithBatch
  <2> HIDE DEF v
  <2>3. /\ DOMAIN batches' = DOMAIN batches
        /\ \A i \in DOMAIN batches : /\ batches'[i].overlay = batches[i].overlay
                                     /\ batches'[i].nomatch = batches[i].nomatch
    BY <2>1, <2>2, HandUpdate
  <2>4. pc[r] = "duplicates" /\ Goto(r, "overlay") /\ UNCHANGED <<bid, opts, crashes>>
    BY <1>9 DEF FindDuplicates, local, env
  <2> QED
    BY <1>t, <2>3, <2>4 DEF MatchInv, Matched, BeingMatched, Goto
<1>10. ASSUME NEW r \in Runs, SetOverlayAction(r)
      PROVE  MatchInv'
  <2> DEFINE v == [batches[bid[r]] EXCEPT !.overlay = "replace"]
  <2>1. batches' = [batches EXCEPT ![bid[r]] = v]
    BY <1>10 DEF SetOverlayAction
  <2>2. v.overlay = "replace" /\ v.nomatch = batches[bid[r]].nomatch /\ pc[r] \in WithBatch
    BY <1>10, <2>1, HandUpdate DEF Batch, SetOverlayAction, WithBatch
  <2> HIDE DEF v
  <2>3. /\ DOMAIN batches' = DOMAIN batches
        /\ \A i \in DOMAIN batches :
              /\ batches'[i].overlay = batches[i].overlay \/ batches'[i].overlay = "replace"
              /\ i = bid[r] => batches'[i].overlay = "replace"
              /\ batches'[i].nomatch = batches[i].nomatch
    BY <2>1, <2>2, HandUpdate
  <2>4. pc[r] = "overlay" /\ Goto(r, "nomatch") /\ UNCHANGED <<bid, opts, crashes>>
    BY <1>10 DEF SetOverlayAction, local, env
  <2> QED
    BY <1>t, <2>3, <2>4 DEF MatchInv, Matched, BeingMatched, Goto
<1>11. ASSUME NEW r \in Runs, SetNoMatchAction(r)
      PROVE  MatchInv'
  <2> DEFINE v == [batches[bid[r]] EXCEPT !.nomatch = "ignore"]
  <2>1. batches' = [batches EXCEPT ![bid[r]] = v]
    BY <1>11 DEF SetNoMatchAction
  <2>2. v.nomatch = "ignore" /\ v.overlay = batches[bid[r]].overlay /\ pc[r] \in WithBatch
    BY <1>11, <2>1, HandUpdate DEF Batch, SetNoMatchAction, WithBatch
  <2> HIDE DEF v
  <2>3. /\ DOMAIN batches' = DOMAIN batches
        /\ \A i \in DOMAIN batches :
              /\ batches'[i].overlay = batches[i].overlay
              /\ batches'[i].nomatch = batches[i].nomatch \/ batches'[i].nomatch = "ignore"
              /\ i = bid[r] => batches'[i].nomatch = "ignore"
    BY <2>1, <2>2, HandUpdate
  <2>4. pc[r] = "nomatch" /\ UNCHANGED <<bid, opts, crashes>>
        /\ \A q \in Runs \ {r} : pc'[q] = pc[q]
    BY <1>11, <1>t DEF SetNoMatchAction, Goto, local, env
  <2>5. ASSUME crashes' = 0, NEW i \in DOMAIN batches PROVE Matched(i)' \/ BeingMatched(i)'
    <3>1. CASE Matched(i)
      BY <2>3, <3>1 DEF Matched
    <3>2. ASSUME NEW q \in Runs, bid[q] = i, pc[q] \in Matching,
                 pc[q] = "nomatch" => batches[i].overlay = "replace"
          PROVE  Matched(i)' \/ BeingMatched(i)'
      <4>1. CASE q = r
        BY <2>3, <2>4, <3>2, <4>1 DEF Matched
      <4>2. CASE q # r
        BY <2>3, <2>4, <3>2, <4>2 DEF BeingMatched
      <4> QED
        BY <4>1, <4>2
    <3> QED
      BY <2>4, <2>5, <3>1, <3>2 DEF MatchInv, BeingMatched
  <2> QED
    BY <1>t, <2>3, <2>4, <2>5 DEF MatchInv
<1>12. ASSUME NEW r \in Runs, pc[r] \in {"commit", "record", "revert"},
              DOMAIN batches' = DOMAIN batches,
              \A i \in DOMAIN batches : /\ batches'[i].overlay = batches[i].overlay
                                        /\ batches'[i].nomatch = batches[i].nomatch,
              \A q \in Runs \ {r} : pc'[q] = pc[q], UNCHANGED <<bid, opts, crashes>>
       PROVE  MatchInv'
  <2>1. opts'[r] \in Options
    BY <1>12 DEF MatchInv
  <2> QED
    BY <1>12, <2>1, MatchKept
<1>13. ASSUME NEW r \in Runs, BeginCommit(r)
      PROVE  MatchInv'
  <2> DEFINE v == [batches[bid[r]] EXCEPT !.status = "importing"]
  <2>1. batches' = [batches EXCEPT ![bid[r]] = v] /\ pc[r] = "commit"
    BY <1>13 DEF BeginCommit
  <2>2. v.overlay = batches[bid[r]].overlay /\ v.nomatch = batches[bid[r]].nomatch
    BY <2>1, HandUpdate DEF Batch, WithBatch
  <2> HIDE DEF v
  <2>3. /\ DOMAIN batches' = DOMAIN batches
        /\ \A i \in DOMAIN batches : /\ batches'[i].overlay = batches[i].overlay
                                     /\ batches'[i].nomatch = batches[i].nomatch
    BY <2>1, <2>2, HandUpdate DEF WithBatch
  <2>4. UNCHANGED <<bid, opts, crashes>> /\ \A q \in Runs \ {r} : pc'[q] = pc[q]
    BY <1>13, <1>t DEF BeginCommit, Goto, env
  <2> QED
    BY <1>12, <2>1, <2>3, <2>4
<1>14. ASSUME NEW r \in Runs, EndCommit(r)
      PROVE  MatchInv'
  <2> DEFINE v == [batches[bid[r]] EXCEPT !.status = "imported"]
  <2>1. batches' = [batches EXCEPT ![bid[r]] = v] /\ pc[r] = "record"
    BY <1>14 DEF EndCommit
  <2>2. v.overlay = batches[bid[r]].overlay /\ v.nomatch = batches[bid[r]].nomatch
    BY <2>1, HandUpdate DEF Batch, WithBatch
  <2> HIDE DEF v
  <2>3. /\ DOMAIN batches' = DOMAIN batches
        /\ \A i \in DOMAIN batches : /\ batches'[i].overlay = batches[i].overlay
                                     /\ batches'[i].nomatch = batches[i].nomatch
    BY <2>1, <2>2, HandUpdate DEF WithBatch
  <2>4. UNCHANGED <<bid, opts, crashes>> /\ \A q \in Runs \ {r} : pc'[q] = pc[q]
    BY <1>14, <1>t DEF EndCommit, Goto, local, env
  <2> QED
    BY <1>12, <2>1, <2>3, <2>4
<1>15. ASSUME NEW r \in Runs, revertRecords(r)
      PROVE  MatchInv'
  <2> DEFINE v == [batches[bid[r]] EXCEPT !.status = "reverted", !.imported = {}, !.created = {}]
  <2>1. batches' = [batches EXCEPT ![bid[r]] = v] /\ pc[r] = "revert"
    BY <1>15 DEF revertRecords
  <2>2. v.overlay = batches[bid[r]].overlay /\ v.nomatch = batches[bid[r]].nomatch
    BY <2>1, HandUpdate DEF Batch, WithBatch
  <2> HIDE DEF v
  <2>3. /\ DOMAIN batches' = DOMAIN batches
        /\ \A i \in DOMAIN batches : /\ batches'[i].overlay = batches[i].overlay
                                     /\ batches'[i].nomatch = batches[i].nomatch
    BY <2>1, <2>2, HandUpdate DEF WithBatch
  <2>4. UNCHANGED <<bid, opts, crashes>> /\ \A q \in Runs \ {r} : pc'[q] = pc[q]
    BY <1>15, <1>t DEF revertRecords, Goto, local, env
  <2> QED
    BY <1>12, <2>1, <2>3, <2>4
<1>16. ASSUME NEW r \in Runs, CommitRecord(r)
      PROVE  MatchInv'
  <2>1. pc[r] = "record" /\ UNCHANGED <<pc, bid, opts, crashes>>
    BY <1>16 DEF CommitRecord, env
  <2>2. CASE UNCHANGED batches
    BY <2>1, <2>2 DEF MatchInv, Matched, BeingMatched
  <2>3. ASSUME NEW next \in left[r],
               batches' = [batches EXCEPT ![bid[r]].imported = @ \union {next[1]}]
        PROVE  MatchInv'
    <3> DEFINE v == [batches[bid[r]] EXCEPT !.imported = @ \union {next[1]}]
    <3>1. batches' = [batches EXCEPT ![bid[r]] = v]
      BY <2>3
    <3>2. v.overlay = batches[bid[r]].overlay /\ v.nomatch = batches[bid[r]].nomatch
      BY <2>1, <3>1, HandUpdate DEF Batch, WithBatch
    <3> HIDE DEF v
    <3>3. /\ DOMAIN batches' = DOMAIN batches
          /\ \A i \in DOMAIN batches : /\ batches'[i].overlay = batches[i].overlay
                                       /\ batches'[i].nomatch = batches[i].nomatch
      BY <2>1, <3>1, <3>2, HandUpdate DEF WithBatch
    <3> QED
      BY <1>12, <2>1, <3>3
  <2>4. ASSUME NEW next \in left[r],
               batches' = [batches EXCEPT ![bid[r]].imported = @ \union {next[1]},
                                          ![bid[r]].created = @ \union {next[1]}]
        PROVE  MatchInv'
    <3> DEFINE v == [batches[bid[r]] EXCEPT !.imported = @ \union {next[1]},
                                            !.created = @ \union {next[1]}]
    <3>1. batches' = [batches EXCEPT ![bid[r]] = v]
      BY <2>4
    <3>2. v.overlay = batches[bid[r]].overlay /\ v.nomatch = batches[bid[r]].nomatch
      BY <2>1, <3>1, HandUpdate DEF Batch, WithBatch
    <3> HIDE DEF v
    <3>3. /\ DOMAIN batches' = DOMAIN batches
          /\ \A i \in DOMAIN batches : /\ batches'[i].overlay = batches[i].overlay
                                       /\ batches'[i].nomatch = batches[i].nomatch
      BY <2>1, <3>1, <3>2, HandUpdate DEF WithBatch
    <3> QED
      BY <1>12, <2>1, <3>3
  <2> QED
    BY <1>16, <2>2, <2>3, <2>4 DEF CommitRecord
<1>17. CASE UNCHANGED vars
  BY <1>17 DEF vars, store, local, env, MatchInv, Matched, BeingMatched
<1> QED
  BY <1>1, <1>2, <1>3, <1>4, <1>5, <1>6, <1>7, <1>8, <1>9, <1>10, <1>11, <1>13,
     <1>14, <1>15, <1>16, <1>17 DEF Next, Advance, importRecords

LEMMA MatchHolds ==
    ASSUME \A o \in Options : o.matcher
    PROVE  Spec => [](Inv /\ MatchInv)
<1>1. Init => MatchInv
  BY DEF Init, MatchInv
<1> QED
  BY <1>1, InvHolds, MatchStep, PTL DEF Spec

\* A commit that begins with "add as new" among its actions began while
\* another run was matching the same batch.
LEMMA CommitSeesActions ==
    ASSUME Inv, MatchInv, [Next]_vars, NEW r \in Runs, pc[r] = "commit", pc'[r] = "record",
           NEW next \in left'[r], next[2] = "create_new", crashes = 0
    PROVE  \E q \in Runs \ {r} : file[q] = file[r] /\ pc[q] \in Matching
<1>t. pc \in [Runs -> Statement] /\ left \in [Runs -> SUBSET (Biblios \X Action)]
  BY DEF Inv, TypeOK
<1>1. BeginCommit(r)
  <2>1. ASSUME NEW q \in Runs, Advance(q) PROVE \A p \in Runs \ {q} : pc'[p] = pc[p]
    BY <1>t, <2>1 DEF Advance, importRecords, NextFile, Finish, move_file, Unlink, Die, Exit,
       findImportedBatchByFileName, Stage, FindDuplicates, SetOverlayAction, SetNoMatchAction,
       BeginCommit, CommitRecord, EndCommit, revertRecords, skipRecordsFromBroadcastBiblios, Goto
  <2>2. ASSUME NEW q \in Runs, Crash(q) PROVE pc' = [pc EXCEPT ![q] = "idle"]
    BY <2>2 DEF Crash, Exit, Goto
  <2>3. ASSUME NEW q \in Runs, NEW o \in Options, Start(q, o)
        PROVE  pc[q] = "idle" /\ pc' = [pc EXCEPT ![q] = "scan"]
    BY <2>3 DEF Start, Goto
  <2>4. ASSUME NEW f \in Files, Arrive(f) PROVE pc' = pc
    BY <2>4 DEF Arrive
  <2>5. Advance(r)
    BY <1>t, <2>1, <2>2, <2>3, <2>4 DEF Next, vars
  <2> QED
    BY <2>5 DEF Advance, importRecords, NextFile, Finish, move_file, Unlink, Die,
       findImportedBatchByFileName, Stage, FindDuplicates, SetOverlayAction, SetNoMatchAction,
       CommitRecord, EndCommit, revertRecords, skipRecordsFromBroadcastBiblios
<1>2. PICK b : next = <<b, ActionOf(batches[bid[r]], b)>>
  BY <1>t, <1>1 DEF BeginCommit
<1>3. ~ Matched(bid[r])
  BY <1>2 DEF ActionOf, Matched
<1>4. bid[r] \in DOMAIN batches /\ batches[bid[r]].file = file[r]
  BY DEF Inv, HandInv, WithBatch
<1>5. PICK q \in Runs : bid[q] = bid[r] /\ pc[q] \in Matching
  BY <1>3, <1>4 DEF MatchInv, BeingMatched
<1>6. file[q] = file[r]
  BY <1>4, <1>5 DEF Inv, HandInv, WithBatch
<1> QED
  BY <1>5, <1>6 DEF Matching

\* When every run is given a matcher, a commit that adds records begins only
\* after a crash, or while another run is matching the same file's batch:
\* however many runs there are, two of them have to meet on one file.
THEOREM AddsOnlyOnInterference ==
    ASSUME \A o \in Options : o.matcher
    PROVE  Spec => AddsOnlyWhenInterrupted
<1> DEFINE A == \A r \in Runs :
          /\ pc[r] = "commit" /\ pc'[r] = "record"
          /\ \E next \in left'[r] : next[2] = "create_new"
          => \/ crashes > 0
             \/ \E q \in Runs \ {r} : file[q] = file[r] /\ pc[q] \in Matching
<1>1. Inv /\ MatchInv /\ [Next]_vars => [A]_vars
  BY CommitSeesActions DEF Inv, TypeOK
<1> QED
  BY <1>1, MatchHolds, PTL DEF Spec, AddsOnlyWhenInterrupted

-----------------------------------------------------------------------------
(* One importer at a time *)

\* The others are at their ends, and stay there.
Lone(r) == \A q \in Runs \ {r} : pc[q] = "idle" /\ pc'[q] = "idle"

AtMostOne == ~ overlapped => \A q, r \in Runs : pc[q] # "idle" /\ pc[r] # "idle" => q = r

\* A step of a run is the lone run's step.
LEMMA LoneActs ==
    ASSUME NEW r \in Runs, Lone(r), NEW q \in Runs, pc \in [Runs -> Statement],
           Advance(q) \/ Crash(q) \/ \E o \in Options : Start(q, o)
    PROVE  q = r
<1>1. Advance(q) \/ Crash(q) => pc[q] # "idle"
  BY DEF Advance, importRecords, NextFile, Finish, findImportedBatchByFileName, Stage, FindDuplicates,
         SetOverlayAction, SetNoMatchAction, BeginCommit, CommitRecord, EndCommit, revertRecords,
         skipRecordsFromBroadcastBiblios, move_file, Unlink, Die, Crash
<1>2. (\E o \in Options : Start(q, o)) => pc'[q] # "idle"
  BY DEF Start, Goto
<1> QED
  BY <1>1, <1>2 DEF Lone

LEMMA AtMostOneStep == Inv /\ AtMostOne /\ [Next]_vars => AtMostOne'
<1> SUFFICES ASSUME Inv, AtMostOne, [Next]_vars PROVE AtMostOne'
  OBVIOUS
<1>t. pc \in [Runs -> Statement]
  BY DEF Inv, TypeOK
<1>1. ASSUME NEW q \in Runs, Advance(q) \/ Crash(q)
      PROVE  AtMostOne'
  <2>1. pc[q] # "idle" /\ (\A p \in Runs \ {q} : pc'[p] = pc[p]) /\ overlapped' = overlapped
    BY <1>1, <1>t DEF Advance, importRecords, NextFile, Finish, findImportedBatchByFileName, Stage,
         FindDuplicates, SetOverlayAction, SetNoMatchAction, BeginCommit, CommitRecord, EndCommit,
         revertRecords, skipRecordsFromBroadcastBiblios, move_file, Unlink, Die, Crash, Exit, Goto, env
  <2> QED
    BY <2>1 DEF AtMostOne
<1>2. ASSUME NEW q \in Runs, NEW o \in Options, Start(q, o)
      PROVE  AtMostOne'
  BY <1>2, <1>t DEF AtMostOne, Start, Goto
<1>3. ASSUME NEW f \in Files, Arrive(f)
      PROVE  AtMostOne'
  BY <1>3 DEF AtMostOne, Arrive
<1>4. CASE UNCHANGED vars
  BY <1>4 DEF AtMostOne, vars, env
<1> QED
  BY <1>1, <1>2, <1>3, <1>4 DEF Next

\* While runs do not overlap, every step leaves all but one of them alone.
LEMMA LoneRun ==
    ASSUME Inv, AtMostOne, [Next]_vars, ~ overlapped'
    PROVE  ~ overlapped /\ \E r \in Runs : Lone(r)
<1>t. pc \in [Runs -> Statement]
  BY DEF Inv, TypeOK
<1>1. ASSUME NEW q \in Runs, Advance(q) \/ Crash(q)
      PROVE  ~ overlapped /\ Lone(q)
  <2>1. pc[q] # "idle" /\ (\A p \in Runs \ {q} : pc'[p] = pc[p]) /\ overlapped' = overlapped
    BY <1>1, <1>t DEF Advance, importRecords, NextFile, Finish, findImportedBatchByFileName, Stage,
         FindDuplicates, SetOverlayAction, SetNoMatchAction, BeginCommit, CommitRecord, EndCommit,
         revertRecords, skipRecordsFromBroadcastBiblios, move_file, Unlink, Die, Crash, Exit, Goto, env
  <2> QED
    BY <2>1 DEF AtMostOne, Lone
<1>2. ASSUME NEW q \in Runs, NEW o \in Options, Start(q, o)
      PROVE  ~ overlapped /\ Lone(q)
  BY <1>2, <1>t DEF Lone, Start, Goto
<1>3. ASSUME UNCHANGED <<pc, overlapped>>
      PROVE  ~ overlapped /\ \E r \in Runs : Lone(r)
  <2>1. CASE \E r \in Runs : pc[r] # "idle"
    BY <1>3, <2>1 DEF AtMostOne, Lone
  <2>2. CASE \A r \in Runs : pc[r] = "idle"
    BY <1>3, <2>2, RunsAssumption DEF Lone
  <2> QED
    BY <1>3, <2>1, <2>2
<1>4. ASSUME NEW f \in Files, Arrive(f)
      PROVE  UNCHANGED <<pc, overlapped>>
  BY <1>4 DEF Arrive
<1>5. CASE UNCHANGED vars
  BY <1>3, <1>5 DEF vars, env
<1> QED
  BY <1>1, <1>2, <1>3, <1>4, <1>5 DEF Next

\* What a lone run knows of its directory and of its batch. A file in hand is
\* in the directory and was not processed before; a batch has nothing in the
\* catalog before its commit, nor while the commit has changed nothing.
SoleShape ==
    /\ \A r \in Runs :
          /\ pc[r] # "idle" => todo[r] \subseteq dir
          /\ pc[r] \in InHand => file[r] \in dir \ (todo[r] \union processed)
          /\ pc[r] \in Matching \union {"commit"} => batches[bid[r]].imported = {}
          /\ pc[r] = "record" => batches[bid[r]].status # "staged"
          /\ pc[r] = "record" /\ ~ changed[r] => batches[bid[r]].imported = {}
    /\ \A i \in DOMAIN batches : batches[i].status = "staged" => batches[i].imported = {}

\* An imported file is in processed/ or still in hand.
Kept(f) ==
    \/ f \in processed
    \/ \E r \in Runs : pc[r] \in WithBatch /\ bid[r] \in Imports(f)

Counted ==
    \A f \in Files : Cardinality(Imports(f)) <= crashes + IF Kept(f) THEN 1 ELSE 0

LEMMA ImportsFinite ==
    ASSUME Inv, NEW f
    PROVE  IsFiniteSet(Imports(f)) /\ Cardinality(Imports(f)) \in Nat
<1>1. DOMAIN batches = 1 .. Len(batches) /\ Len(batches) \in Nat
  BY LenProperties DEF Inv, TypeOK
<1>2. IsFiniteSet(1 .. Len(batches))
  BY <1>1, FS_Interval
<1> QED
  BY <1>1, <1>2, FS_Subset, FS_CardinalityType DEF Imports

\* A lone run's step on the batch in its hand, in terms of that batch alone.
LEMMA SoleShapeKept ==
    ASSUME NEW r \in Runs, Lone(r), Inv, SoleShape, pc[r] \in WithBatch, NEW v,
           batches' = [batches EXCEPT ![bid[r]] = v],
           UNCHANGED <<dir, processed, todo, file, bid>>,
           pc'[r] \in Matching \union {"commit"} => v.imported = {},
           pc'[r] = "record" /\ ~ changed'[r] => v.imported = {},
           v.status = "staged" => v.imported = {} /\ pc'[r] # "record",
           pc'[r] \in InHand
    PROVE  SoleShape'
<1>1. /\ bid[r] \in DOMAIN batches
      /\ DOMAIN batches' = DOMAIN batches
      /\ batches'[bid[r]] = v
      /\ \A i \in DOMAIN batches : i # bid[r] => batches'[i] = batches[i]
  BY HandUpdate
<1>2. pc[r] \in InHand
  BY DEF InHand
<1> QED
  BY <1>1, <1>2 DEF SoleShape, Lone, InHand, WithBatch, Matching

LEMMA SoleShapeStep ==
    ASSUME NEW r \in Runs, Lone(r)
    PROVE  Inv /\ SoleShape /\ [Next]_vars => SoleShape'
<1> SUFFICES ASSUME Inv, SoleShape, [Next]_vars PROVE SoleShape'
  OBVIOUS
<1> USE DEF Matching, WithBatch, InHand
<1>t. /\ pc \in [Runs -> Statement] /\ todo \in [Runs -> SUBSET Files]
      /\ file \in [Runs -> Files \union {None}] /\ bid \in [Runs -> Nat]
      /\ changed \in [Runs -> BOOLEAN]
  BY DEF Inv, TypeOK
<1>h. pc[r] \in WithBatch => bid[r] \in DOMAIN batches /\ batches[bid[r]] \in Batch
  BY LenProperties, ElementOfSeq DEF Inv, TypeOK, HandInv
<1>1. ASSUME NEW o \in Options, Start(r, o)
      PROVE  SoleShape'
  BY <1>1, <1>t DEF SoleShape, Start, Goto, store
<1>2. ASSUME NEW f \in Files, Arrive(f)
      PROVE  SoleShape'
  BY <1>2, <1>t DEF SoleShape, Arrive, local
<1>3. ASSUME Crash(r) \/ Finish(r) \/ Die(r)
      PROVE  SoleShape'
  BY <1>3, <1>t DEF SoleShape, Crash, Finish, Die, Exit, Goto, store
<1>4. ASSUME NextFile(r)
      PROVE  SoleShape'
  <2> PICK f \in Earliest(todo[r]) :
          /\ todo' = [todo EXCEPT ![r] = @ \ {f}]
          /\ \/ UNCHANGED <<pc, file>>
             \/ f \notin processed /\ file' = [file EXCEPT ![r] = f] /\ Goto(r, "find")
    BY <1>4 DEF NextFile
  <2>1. f \in todo[r]
    BY DEF Earliest
  <2>2. pc[r] = "scan" /\ UNCHANGED <<store, bid, changed>>
    BY <1>4 DEF NextFile
  <2> QED
    BY <1>t, <2>1, <2>2 DEF SoleShape, Goto, store
<1>5. ASSUME findImportedBatchByFileName(r)
      PROVE  SoleShape'
  BY <1>5, <1>t DEF SoleShape, findImportedBatchByFileName, StagedBatches, Goto, store,
     AfterStaging, AfterCommit, AfterRevert
<1>6. ASSUME Stage(r)
      PROVE  SoleShape'
  <2>1. pc[r] = "stage" /\ UNCHANGED <<dir, processed, todo, file, changed>>
    BY <1>6 DEF Stage
  <2>2. CASE Content[file[r]] = {}
    BY <1>6, <1>t, <2>1, <2>2 DEF SoleShape, Stage, Goto
  <2>3. CASE Content[file[r]] # {}
    <3> DEFINE v == [file |-> file[r], status |-> "staged", dups |-> {},
                     overlay |-> "create_new", nomatch |-> "create_new",
                     imported |-> {}, created |-> {}]
    <3> PICK n : n = Len(batches) + 1
      OBVIOUS
    <3>1. /\ batches' = Append(batches, v) /\ bid' = [bid EXCEPT ![r] = n]
          /\ Goto(r, IF opts[r].matcher THEN "duplicates" ELSE AfterStaging(r))
      BY <1>6, <2>3 DEF Stage
    <3>2. v \in Batch /\ v.imported = {}
      BY <2>1 DEF Batch, Inv, HandInv, Status, Action
    <3>3. /\ DOMAIN batches' = DOMAIN batches \union {n}
          /\ batches'[n] = v /\ n \notin DOMAIN batches
          /\ \A i \in DOMAIN batches : batches'[i] = batches[i]
      BY <3>1, <3>2, BatchAppend DEF Inv
    <3> HIDE DEF v
    <3>4. bid'[r] = n /\ pc'[r] \in {"duplicates", "commit", "revert", "skip_bb", "move"}
      BY <1>t, <3>1 DEF Goto, AfterStaging, AfterCommit, AfterRevert
    <3> QED
      BY <2>1, <3>2, <3>3, <3>4 DEF SoleShape, Lone
  <2> QED
    BY <2>2, <2>3
<1>7. ASSUME FindDuplicates(r)
      PROVE  SoleShape'
  <2> DEFINE v == [batches[bid[r]] EXCEPT !.dups = {b \in Content[file[r]] : catalog[b] > 0}]
  <2>1. v.imported = {}
    BY <1>7, <1>h DEF SoleShape, FindDuplicates, Batch
  <2>2. batches' = [batches EXCEPT ![bid[r]] = v]
    BY <1>7 DEF FindDuplicates
  <2> HIDE DEF v
  <2> QED
    BY <1>7, <1>t, <2>1, <2>2, SoleShapeKept DEF FindDuplicates, Goto, local
<1>8. ASSUME SetOverlayAction(r)
      PROVE  SoleShape'
  <2> DEFINE v == [batches[bid[r]] EXCEPT !.overlay = "replace"]
  <2>1. v.imported = {}
    BY <1>8, <1>h DEF SoleShape, SetOverlayAction, Batch
  <2>2. batches' = [batches EXCEPT ![bid[r]] = v]
    BY <1>8 DEF SetOverlayAction
  <2> HIDE DEF v
  <2> QED
    BY <1>8, <1>t, <2>1, <2>2, SoleShapeKept DEF SetOverlayAction, Goto, local
<1>9. ASSUME SetNoMatchAction(r)
      PROVE  SoleShape'
  <2> DEFINE v == [batches[bid[r]] EXCEPT !.nomatch = "ignore"]
  <2>1. v.imported = {}
    BY <1>9, <1>h DEF SoleShape, SetNoMatchAction, Batch
  <2>2. batches' = [batches EXCEPT ![bid[r]] = v]
    BY <1>9 DEF SetNoMatchAction
  <2>3. pc'[r] \in {"commit", "revert", "skip_bb", "move"} /\ UNCHANGED <<dir, processed, todo, file, bid>>
    BY <1>9, <1>t DEF SetNoMatchAction, Goto, local, AfterStaging, AfterCommit, AfterRevert
  <2> HIDE DEF v
  <2> QED
    BY <1>9, <2>1, <2>2, <2>3, SoleShapeKept DEF SetNoMatchAction
<1>10. ASSUME BeginCommit(r)
      PROVE  SoleShape'
  <2> DEFINE v == [batches[bid[r]] EXCEPT !.status = "importing"]
  <2>1. v.imported = {} /\ v.status = "importing"
    BY <1>10, <1>h DEF SoleShape, BeginCommit, Batch
  <2>2. batches' = [batches EXCEPT ![bid[r]] = v]
    BY <1>10 DEF BeginCommit
  <2> HIDE DEF v
  <2> QED
    BY <1>10, <1>t, <2>1, <2>2, SoleShapeKept DEF BeginCommit, Goto
<1>11. ASSUME CommitRecord(r)
      PROVE  SoleShape'
  <2>1. pc[r] = "record" /\ UNCHANGED <<dir, processed, pc, todo, file, bid>>
    BY <1>11 DEF CommitRecord
  <2>2. CASE UNCHANGED <<batches, changed>>
    BY <2>1, <2>2 DEF SoleShape
  <2>3. ASSUME NEW next \in left[r],
               batches' = [batches EXCEPT ![bid[r]].imported = @ \union {next[1]}],
               changed' = [changed EXCEPT ![r] = TRUE]
        PROVE  SoleShape'
    <3> DEFINE v == [batches[bid[r]] EXCEPT !.imported = @ \union {next[1]}]
    <3>1. batches' = [batches EXCEPT ![bid[r]] = v] /\ changed'[r]
      BY <1>t, <2>3
    <3>2. v.status # "staged"
      BY <1>h, <2>1 DEF SoleShape, Batch
    <3> HIDE DEF v
    <3> QED
      BY <2>1, <3>1, <3>2, SoleShapeKept
  <2>4. ASSUME NEW next \in left[r],
               batches' = [batches EXCEPT ![bid[r]].imported = @ \union {next[1]},
                                          ![bid[r]].created = @ \union {next[1]}],
               changed' = [changed EXCEPT ![r] = TRUE]
        PROVE  SoleShape'
    <3> DEFINE v == [batches[bid[r]] EXCEPT !.imported = @ \union {next[1]},
                                            !.created = @ \union {next[1]}]
    <3>1. batches' = [batches EXCEPT ![bid[r]] = v] /\ changed'[r]
      BY <1>t, <2>4
    <3>2. v.status # "staged"
      BY <1>h, <2>1 DEF SoleShape, Batch
    <3> HIDE DEF v
    <3> QED
      BY <2>1, <3>1, <3>2, SoleShapeKept
  <2> QED
    BY <1>11, <2>2, <2>3, <2>4 DEF CommitRecord
<1>12. ASSUME EndCommit(r)
      PROVE  SoleShape'
  <2> DEFINE v == [batches[bid[r]] EXCEPT !.status = "imported"]
  <2>1. v.status = "imported"
    BY <1>12, <1>h DEF EndCommit, Batch
  <2>2. batches' = [batches EXCEPT ![bid[r]] = v]
    BY <1>12 DEF EndCommit
  <2>3. pc'[r] \in {"revert", "skip_bb", "move", "unlink"} /\ UNCHANGED <<dir, processed, todo, file, bid>>
    BY <1>12, <1>t DEF EndCommit, Goto, local, AfterCommit, AfterRevert
  <2> HIDE DEF v
  <2> QED
    BY <1>12, <2>1, <2>2, <2>3, SoleShapeKept DEF EndCommit
<1>13. ASSUME revertRecords(r)
      PROVE  SoleShape'
  <2> DEFINE v == [batches[bid[r]] EXCEPT !.status = "reverted", !.imported = {}, !.created = {}]
  <2>1. v.imported = {}
    BY <1>13, <1>h DEF revertRecords, Batch
  <2>2. batches' = [batches EXCEPT ![bid[r]] = v]
    BY <1>13 DEF revertRecords
  <2>3. pc'[r] \in {"skip_bb", "move", "unlink"} /\ UNCHANGED <<dir, processed, todo, file, bid>>
    BY <1>13, <1>t DEF revertRecords, Goto, local, AfterRevert
  <2> HIDE DEF v
  <2> QED
    BY <1>13, <2>1, <2>2, <2>3, SoleShapeKept DEF revertRecords
<1>14. ASSUME skipRecordsFromBroadcastBiblios(r)
      PROVE  SoleShape'
  BY <1>14, <1>t DEF SoleShape, skipRecordsFromBroadcastBiblios, Goto, local
<1>15. ASSUME move_file(r)
      PROVE  SoleShape'
  BY <1>15, <1>t DEF SoleShape, Lone, move_file, Goto
<1>16. ASSUME Unlink(r)
      PROVE  SoleShape'
  BY <1>16, <1>t DEF SoleShape, Lone, Unlink, Goto
<1>17. CASE UNCHANGED vars
  BY <1>17 DEF vars, store, local, env, SoleShape
<1> QED
  BY <1>1, <1>2, <1>3, <1>4, <1>5, <1>6, <1>7, <1>8, <1>9, <1>10, <1>11, <1>12, <1>13,
     <1>14, <1>15, <1>16, <1>17, <1>t, LoneActs DEF Next, Advance, importRecords

\* A step that changes no file's imports and lets go of none of them.
LEMMA CountKept ==
    ASSUME Inv, Counted, crashes' = crashes,
           \A f \in Files : Imports(f)' = Imports(f) /\ (Kept(f) => Kept(f)')
    PROVE  Counted'
<1>1. crashes \in Nat
  BY BoundsAssumption DEF Inv, TypeOK
<1> QED
  BY <1>1, ImportsFinite DEF Counted

\* A step on the batch in hand that leaves its imported records as they are.
LEMMA ImportsKept ==
    ASSUME Inv, NEW r \in Runs, pc[r] \in WithBatch, NEW v,
           v.file = batches[bid[r]].file, v.imported = batches[bid[r]].imported,
           batches' = [batches EXCEPT ![bid[r]] = v]
    PROVE  /\ DOMAIN batches' = DOMAIN batches
           /\ \A i \in DOMAIN batches : /\ batches'[i].file = batches[i].file
                                        /\ batches'[i].imported = batches[i].imported
BY HandUpdate

LEMMA CountedStep ==
    ASSUME NEW r \in Runs, Lone(r)
    PROVE  Inv /\ SoleShape /\ Counted /\ [Next]_vars => Counted'
<1> SUFFICES ASSUME Inv, SoleShape, Counted, [Next]_vars PROVE Counted'
  OBVIOUS
<1> USE DEF Matching, WithBatch, InHand
<1>t. /\ pc \in [Runs -> Statement] /\ bid \in [Runs -> Nat] /\ crashes \in Nat
      /\ changed \in [Runs -> BOOLEAN] /\ file \in [Runs -> Files \union {None}]
  BY BoundsAssumption DEF Inv, TypeOK
<1>h. pc[r] \in WithBatch => /\ bid[r] \in DOMAIN batches /\ batches[bid[r]] \in Batch
                             /\ batches[bid[r]].file = file[r] /\ file[r] \in Files
  BY LenProperties, ElementOfSeq DEF Inv, TypeOK, HandInv
<1>1. ASSUME UNCHANGED <<batches, crashes>>, processed \subseteq processed',
             pc[r] \notin WithBatch \/ (pc'[r] \in WithBatch /\ bid'[r] = bid[r])
      PROVE  Counted'
  BY <1>1, CountKept DEF Imports, Kept, Lone
<1>2. ASSUME NEW o \in Options, Start(r, o)
      PROVE  Counted'
  BY <1>1, <1>2 DEF Start, store, env
<1>3. ASSUME NEW f \in Files, Arrive(f)
      PROVE  Counted'
  BY <1>1, <1>3 DEF Arrive, local
<1>4. ASSUME Crash(r)
      PROVE  Counted'
  <2>1. crashes' = crashes + 1 /\ UNCHANGED batches
    BY <1>4 DEF Crash, store
  <2>2. ASSUME NEW f \in Files PROVE Cardinality(Imports(f)') <= crashes' + IF Kept(f)' THEN 1 ELSE 0
    <3>1. Imports(f)' = Imports(f) /\ Cardinality(Imports(f)) \in Nat
      BY <2>1, ImportsFinite DEF Imports
    <3>2. Cardinality(Imports(f)) <= crashes + 1
      BY <1>t, <3>1 DEF Counted
    <3> QED
      BY <1>t, <2>1, <3>1, <3>2
  <2> QED
    BY <2>2 DEF Counted
<1>5. ASSUME Finish(r) \/ Die(r) \/ NextFile(r) \/ Unlink(r) \/ findImportedBatchByFileName(r)
      PROVE  Counted'
  <2>1. pc[r] \notin WithBatch /\ UNCHANGED <<batches, processed, crashes>>
    BY <1>5 DEF Finish, Die, NextFile, Unlink, findImportedBatchByFileName, store, env, SoleShape
  <2> QED
    BY <1>1, <2>1
<1>6. ASSUME Stage(r)
      PROVE  Counted'
  <2>1. pc[r] = "stage" /\ UNCHANGED <<processed, crashes>>
    BY <1>6 DEF Stage, env
  <2>2. CASE Content[file[r]] = {}
    BY <1>1, <1>6, <2>1, <2>2 DEF Stage
  <2>3. CASE Content[file[r]] # {}
    <3> DEFINE v == [file |-> file[r], status |-> "staged", dups |-> {},
                     overlay |-> "create_new", nomatch |-> "create_new",
                     imported |-> {}, created |-> {}]
    <3> PICK n : n = Len(batches) + 1
      OBVIOUS
    <3>1. batches' = Append(batches, v)
      BY <1>6, <2>3 DEF Stage
    <3>2. v \in Batch /\ v.imported = {}
      BY <2>1 DEF Batch, Inv, HandInv, Status, Action
    <3>3. /\ DOMAIN batches' = DOMAIN batches \union {n}
          /\ batches'[n] = v /\ n \notin DOMAIN batches
          /\ \A i \in DOMAIN batches : batches'[i] = batches[i]
      BY <3>1, <3>2, BatchAppend DEF Inv
    <3> HIDE DEF v
    <3>4. \A f \in Files : Imports(f)' = Imports(f)
      BY <3>2, <3>3 DEF Imports
    <3>5. \A f \in Files : Kept(f) => Kept(f)'
      BY <2>1, <3>4 DEF Kept, Lone
    <3> QED
      BY <2>1, <3>4, <3>5, CountKept
  <2> QED
    BY <2>2, <2>3
<1>7. ASSUME pc[r] \in WithBatch, DOMAIN batches' = DOMAIN batches,
             \A i \in DOMAIN batches : /\ batches'[i].file = batches[i].file
                                       /\ batches'[i].imported = batches[i].imported,
             UNCHANGED <<processed, bid, crashes>>,
             pc'[r] \in WithBatch \/ batches[bid[r]].imported = {}
      PROVE  Counted'
  <2>1. \A f \in Files : Imports(f)' = Imports(f)
    BY <1>7 DEF Imports
  <2>2. \A f \in Files : Kept(f) => Kept(f)'
    BY <1>7, <2>1 DEF Kept, Imports, Lone
  <2> QED
    BY <1>7, <2>1, <2>2, CountKept
<1>8. ASSUME FindDuplicates(r)
      PROVE  Counted'
  <2> DEFINE v == [batches[bid[r]] EXCEPT !.dups = {b \in Content[file[r]] : catalog[b] > 0}]
  <2>1. v.file = batches[bid[r]].file /\ v.imported = batches[bid[r]].imported
    BY <1>8, <1>h DEF FindDuplicates, Batch
  <2>2. batches' = [batches EXCEPT ![bid[r]] = v] /\ pc[r] \in WithBatch
    BY <1>8 DEF FindDuplicates
  <2> HIDE DEF v
  <2>3. /\ DOMAIN batches' = DOMAIN batches
        /\ \A i \in DOMAIN batches : /\ batches'[i].file = batches[i].file
                                     /\ batches'[i].imported = batches[i].imported
    BY <2>1, <2>2, ImportsKept
  <2>4. UNCHANGED <<processed, bid, crashes>> /\ (pc'[r] \in WithBatch \/ batches[bid[r]].imported = {})
    BY <1>8, <1>t DEF FindDuplicates, Goto, local, env, AfterStaging, AfterCommit, AfterRevert, SoleShape
  <2> QED
    BY <1>7, <2>2, <2>3, <2>4
<1>9. ASSUME SetOverlayAction(r)
      PROVE  Counted'
  <2> DEFINE v == [batches[bid[r]] EXCEPT !.overlay = "replace"]
  <2>1. v.file = batches[bid[r]].file /\ v.imported = batches[bid[r]].imported
    BY <1>9, <1>h DEF SetOverlayAction, Batch
  <2>2. batches' = [batches EXCEPT ![bid[r]] = v] /\ pc[r] \in WithBatch
    BY <1>9 DEF SetOverlayAction
  <2> HIDE DEF v
  <2>3. /\ DOMAIN batches' = DOMAIN batches
        /\ \A i \in DOMAIN batches : /\ batches'[i].file = batches[i].file
                                     /\ batches'[i].imported = batches[i].imported
    BY <2>1, <2>2, ImportsKept
  <2>4. UNCHANGED <<processed, bid, crashes>> /\ (pc'[r] \in WithBatch \/ batches[bid[r]].imported = {})
    BY <1>9, <1>t DEF SetOverlayAction, Goto, local, env, AfterStaging, AfterCommit, AfterRevert, SoleShape
  <2> QED
    BY <1>7, <2>2, <2>3, <2>4
<1>10. ASSUME SetNoMatchAction(r)
      PROVE  Counted'
  <2> DEFINE v == [batches[bid[r]] EXCEPT !.nomatch = "ignore"]
  <2>1. v.file = batches[bid[r]].file /\ v.imported = batches[bid[r]].imported
    BY <1>10, <1>h DEF SetNoMatchAction, Batch
  <2>2. batches' = [batches EXCEPT ![bid[r]] = v] /\ pc[r] \in WithBatch
    BY <1>10 DEF SetNoMatchAction
  <2> HIDE DEF v
  <2>3. /\ DOMAIN batches' = DOMAIN batches
        /\ \A i \in DOMAIN batches : /\ batches'[i].file = batches[i].file
                                     /\ batches'[i].imported = batches[i].imported
    BY <2>1, <2>2, ImportsKept
  <2>4. UNCHANGED <<processed, bid, crashes>> /\ (pc'[r] \in WithBatch \/ batches[bid[r]].imported = {})
    BY <1>10, <1>t DEF SetNoMatchAction, Goto, local, env, AfterStaging, AfterCommit, AfterRevert, SoleShape
  <2> QED
    BY <1>7, <2>2, <2>3, <2>4
<1>11. ASSUME BeginCommit(r)
      PROVE  Counted'
  <2> DEFINE v == [batches[bid[r]] EXCEPT !.status = "importing"]
  <2>1. v.file = batches[bid[r]].file /\ v.imported = batches[bid[r]].imported
    BY <1>11, <1>h DEF BeginCommit, Batch
  <2>2. batches' = [batches EXCEPT ![bid[r]] = v] /\ pc[r] \in WithBatch
    BY <1>11 DEF BeginCommit
  <2> HIDE DEF v
  <2>3. /\ DOMAIN batches' = DOMAIN batches
        /\ \A i \in DOMAIN batches : /\ batches'[i].file = batches[i].file
                                     /\ batches'[i].imported = batches[i].imported
    BY <2>1, <2>2, ImportsKept
  <2>4. UNCHANGED <<processed, bid, crashes>> /\ (pc'[r] \in WithBatch \/ batches[bid[r]].imported = {})
    BY <1>11, <1>t DEF BeginCommit, Goto, local, env, AfterStaging, AfterCommit, AfterRevert, SoleShape
  <2> QED
    BY <1>7, <2>2, <2>3, <2>4
<1>12. ASSUME EndCommit(r)
      PROVE  Counted'
  <2> DEFINE v == [batches[bid[r]] EXCEPT !.status = "imported"]
  <2>1. v.file = batches[bid[r]].file /\ v.imported = batches[bid[r]].imported
    BY <1>12, <1>h DEF EndCommit, Batch
  <2>2. batches' = [batches EXCEPT ![bid[r]] = v] /\ pc[r] \in WithBatch
    BY <1>12 DEF EndCommit
  <2> HIDE DEF v
  <2>3. /\ DOMAIN batches' = DOMAIN batches
        /\ \A i \in DOMAIN batches : /\ batches'[i].file = batches[i].file
                                     /\ batches'[i].imported = batches[i].imported
    BY <2>1, <2>2, ImportsKept
  <2>4. UNCHANGED <<processed, bid, crashes>> /\ (pc'[r] \in WithBatch \/ batches[bid[r]].imported = {})
    BY <1>12, <1>t DEF EndCommit, Goto, local, env, AfterStaging, AfterCommit, AfterRevert, SoleShape
  <2> QED
    BY <1>7, <2>2, <2>3, <2>4
<1>13. ASSUME CommitRecord(r)
      PROVE  Counted'
  <2>1. pc[r] = "record" /\ UNCHANGED <<processed, pc, bid, crashes>>
    BY <1>13 DEF CommitRecord, env
  <2> PICK g : g = file[r]
    OBVIOUS
  <2>g. g \in Files /\ batches[bid[r]].file = g /\ bid[r] \in DOMAIN batches
    BY <1>h, <2>1
  <2>2. CASE UNCHANGED batches
    BY <1>1, <2>1, <2>2
  <2>3. ASSUME DOMAIN batches' = DOMAIN batches,
               \A i \in DOMAIN batches : i # bid[r] => batches'[i] = batches[i],
               batches'[bid[r]].file = g, batches'[bid[r]].imported # {}
        PROVE  Counted'
    <3>1. \A f \in Files \ {g} : Imports(f)' = Imports(f) /\ (Kept(f) => Kept(f)')
      BY <2>g, <2>1, <2>3 DEF Imports, Kept
    <3>2. Imports(g)' = Imports(g) \union {bid[r]}
      BY <2>g, <2>1, <2>3 DEF Imports
    <3>3. Kept(g)'
      BY <2>1, <3>2 DEF Kept
    <3>4. Cardinality(Imports(g)') <= crashes + 1
      <4>1. IsFiniteSet(Imports(g)) /\ Cardinality(Imports(g)) \in Nat
        BY ImportsFinite
      <4>2. CASE bid[r] \in Imports(g)
        <5>1. Imports(g)' = Imports(g) /\ Cardinality(Imports(g)) <= crashes + 1
          BY <1>t, <2>g, <3>2, <4>1, <4>2 DEF Counted
        <5> QED
          BY <5>1
      <4>3. CASE bid[r] \notin Imports(g)
        <5>1. ~ Kept(g)
          BY <2>1, <4>3 DEF Kept, SoleShape, Lone
        <5>2. Cardinality(Imports(g)) <= crashes
          BY <1>t, <2>g, <4>1, <5>1 DEF Counted
        <5>3. Cardinality(Imports(g) \union {bid[r]}) = Cardinality(Imports(g)) + 1
          BY <4>1, <4>3, FS_AddElement
        <5> QED
          BY <1>t, <3>2, <4>1, <5>2, <5>3
      <4> QED
        BY <4>2, <4>3
    <3>5. ASSUME NEW f \in Files
          PROVE  Cardinality(Imports(f)') <= crashes' + IF Kept(f)' THEN 1 ELSE 0
      <4>1. CASE f = g
        BY <2>1, <3>3, <3>4, <4>1
      <4>2. CASE f # g
        BY <1>t, <2>1, <3>1, <4>2, ImportsFinite DEF Counted
      <4> QED
        BY <4>1, <4>2
    <3> QED
      BY <3>5 DEF Counted
  <2>4. ASSUME NEW next \in left[r],
               batches' = [batches EXCEPT ![bid[r]].imported = @ \union {next[1]}]
        PROVE  Counted'
    <3> DEFINE v == [batches[bid[r]] EXCEPT !.imported = @ \union {next[1]}]
    <3>1. batches' = [batches EXCEPT ![bid[r]] = v]
      BY <2>4
    <3>2. v.file = file[r] /\ v.imported # {}
      BY <1>h, <2>1 DEF Batch
    <3> HIDE DEF v
    <3> QED
      BY <2>1, <2>3, <2>g, <3>1, <3>2, HandUpdate
  <2>5. ASSUME NEW next \in left[r],
               batches' = [batches EXCEPT ![bid[r]].imported = @ \union {next[1]},
                                          ![bid[r]].created = @ \union {next[1]}]
        PROVE  Counted'
    <3> DEFINE v == [batches[bid[r]] EXCEPT !.imported = @ \union {next[1]},
                                            !.created = @ \union {next[1]}]
    <3>1. batches' = [batches EXCEPT ![bid[r]] = v]
      BY <2>5
    <3>2. v.file = file[r] /\ v.imported # {}
      BY <1>h, <2>1 DEF Batch
    <3> HIDE DEF v
    <3> QED
      BY <2>1, <2>3, <2>g, <3>1, <3>2, HandUpdate
  <2> QED
    BY <1>13, <2>2, <2>4, <2>5 DEF CommitRecord
<1>14. ASSUME revertRecords(r)
      PROVE  Counted'
  <2> DEFINE v == [batches[bid[r]] EXCEPT !.status = "reverted", !.imported = {}, !.created = {}]
  <2>1. batches' = [batches EXCEPT ![bid[r]] = v] /\ pc[r] = "revert" /\ UNCHANGED <<processed, bid, crashes>>
    BY <1>14 DEF revertRecords, local, env
  <2>2. v.imported = {}
    BY <1>h, <2>1 DEF Batch
  <2> HIDE DEF v
  <2>3. \A f \in Files : Imports(f)' = Imports(f) \ {bid[r]}
    BY <1>h, <2>1, <2>2, HandUpdate DEF Imports
  <2>4. ASSUME NEW f \in Files
        PROVE  Cardinality(Imports(f)') <= crashes' + IF Kept(f)' THEN 1 ELSE 0
    <3>1. IsFiniteSet(Imports(f)) /\ Cardinality(Imports(f)) \in Nat
      BY ImportsFinite
    <3>2. CASE bid[r] \in Imports(f)
      <4>1. Cardinality(Imports(f) \ {bid[r]}) = Cardinality(Imports(f)) - 1
        BY <3>1, <3>2, FS_RemoveElement
      <4>2. Cardinality(Imports(f)) <= crashes + 1
        BY <1>t, <3>1 DEF Counted
      <4>3. Cardinality(Imports(f)') \in Int /\ Cardinality(Imports(f)') <= crashes'
        <5>1. Imports(f)' = Imports(f) \ {bid[r]} /\ crashes' = crashes
          BY <2>1, <2>3
        <5> QED
          BY <1>t, <3>1, <4>1, <4>2, <5>1
      <4> QED
        BY <1>t, <2>1, <4>3
    <3>3. CASE bid[r] \notin Imports(f)
      <4>1. Kept(f) => Kept(f)'
        BY <2>1, <2>3, <3>3 DEF Kept, Lone
      <4> QED
        BY SMTT(30), <1>t, <2>1, <2>3, <3>1, <3>3, <4>1 DEF Counted
    <3> QED
      BY <3>2, <3>3
  <2> QED
    BY <2>4 DEF Counted
<1>15. ASSUME skipRecordsFromBroadcastBiblios(r)
      PROVE  Counted'
  BY <1>1, <1>15, <1>t DEF skipRecordsFromBroadcastBiblios, Goto, local, env
<1>16. ASSUME move_file(r)
      PROVE  Counted'
  <2>1. pc[r] = "move" /\ processed' = processed \union {file[r]} /\ UNCHANGED <<batches, crashes>>
    BY <1>16 DEF move_file, env
  <2>2. \A f \in Files : Imports(f)' = Imports(f)
    BY <2>1 DEF Imports
  <2>3. \A f \in Files : Kept(f) => Kept(f)'
    BY <1>h, <2>1 DEF Kept, Imports, Lone
  <2> QED
    BY <2>1, <2>2, <2>3, CountKept
<1>17. CASE UNCHANGED vars
  BY <1>17, CountKept DEF vars, store, local, env, Imports, Kept
<1> QED
  BY <1>2, <1>3, <1>4, <1>5, <1>6, <1>8, <1>9, <1>10, <1>11, <1>12, <1>13,
     <1>14, <1>15, <1>16, <1>17, <1>t, LoneActs DEF Next, Advance, importRecords

Sole == ~ overlapped => SoleShape /\ Counted

\* While importers do not overlap, each crash costs at most one repeated import
\* of a file, and without crashes no file is imported twice, however often
\* the conversion writes it again.
THEOREM ImportedAtMostOnce == Spec => []ImportedOnce
<1>1. Init => AtMostOne /\ Sole
  BY FS_EmptySet DEF Init, AtMostOne, Sole, SoleShape, Counted, Imports, Matching, WithBatch, InHand
<1>2. Inv /\ Sole => ImportedOnce
  <2> SUFFICES ASSUME Inv, Counted, NEW f \in Files PROVE Cardinality(Imports(f)) <= 1 + crashes
    BY DEF ImportedOnce, Sole
  <2>1. Cardinality(Imports(f)) \in Nat /\ crashes \in Nat
    BY ImportsFinite, BoundsAssumption DEF Inv, TypeOK
  <2> QED
    BY <2>1 DEF Counted
<1>3. Inv /\ AtMostOne /\ Sole /\ [Next]_vars => AtMostOne' /\ Sole'
  BY AtMostOneStep, LoneRun, SoleShapeStep, CountedStep DEF Sole
<1> QED
  BY <1>1, <1>2, <1>3, InvHolds, PTL DEF Spec

-----------------------------------------------------------------------------
(* What is deleted *)

\* The commit, or its revert, was carried out.
CarriedOut(f) ==
    \E i \in DOMAIN batches : batches[i].file = f /\ batches[i].status \in {"imported", "reverted"}

\* A file that a lone run is about to delete is empty or was committed.
Deletable == \A r \in Runs : pc[r] = "unlink" => Content[file[r]] = {} \/ CarriedOut(file[r])

LEMMA DeletableStep ==
    ASSUME NEW r \in Runs, Lone(r)
    PROVE  Inv /\ Deletable /\ [Next]_vars => Deletable'
<1> SUFFICES ASSUME Inv, Deletable, [Next]_vars PROVE Deletable'
  OBVIOUS
<1>t. pc \in [Runs -> Statement] /\ batches \in Seq(Batch)
  BY DEF Inv, TypeOK
<1>1. ASSUME pc'[r] # "unlink" PROVE Deletable'
  BY <1>1 DEF Deletable, Lone
<1>2. ASSUME UNCHANGED <<pc, file, batches>> PROVE Deletable'
  BY <1>2 DEF Deletable, CarriedOut
<1>3. CASE Stage(r)
  <2>1. CASE Content[file[r]] = {}
    BY <1>3, <2>1 DEF Stage, Deletable, Lone
  <2>2. CASE Content[file[r]] # {}
    <3>1. pc'[r] # "unlink"
      BY <1>3, <1>t, <2>2 DEF Stage, Goto, AfterStaging, AfterCommit, AfterRevert
    <3> QED BY <1>1, <3>1
  <2> QED BY <2>1, <2>2
<1>4. ASSUME pc[r] \in WithBatch, file' = file, NEW v, batches' = [batches EXCEPT ![bid[r]] = v],
             v.file = file[r], v.status \in {"imported", "reverted"}
      PROVE  Deletable'
  <2>1. bid[r] \in DOMAIN batches' /\ batches'[bid[r]] = v
    BY <1>4, HandUpdate
  <2>2. CarriedOut(file[r])'
    BY <1>4, <2>1 DEF CarriedOut
  <2> QED BY <1>4, <2>2 DEF Deletable, Lone
<1>8. ASSUME pc[r] \in WithBatch
      PROVE  batches[bid[r]] \in Batch /\ batches[bid[r]].file = file[r]
  BY <1>8, LenProperties, ElementOfSeq DEF Inv, TypeOK, HandInv
<1>9. CASE EndCommit(r)
  <2> DEFINE v == [batches[bid[r]] EXCEPT !.status = "imported"]
  <2>1. pc[r] \in WithBatch /\ file' = file
    BY <1>9 DEF EndCommit, WithBatch, local
  <2>2. v.file = file[r] /\ v.status = "imported"
    BY <1>8, <2>1 DEF Batch
  <2>3. batches' = [batches EXCEPT ![bid[r]] = v]
    BY <1>9 DEF EndCommit
  <2> HIDE DEF v
  <2> QED BY <1>4, <2>1, <2>2, <2>3
<1>10. CASE revertRecords(r)
  <2> DEFINE v == [batches[bid[r]] EXCEPT !.status = "reverted", !.imported = {}, !.created = {}]
  <2>1. pc[r] \in WithBatch /\ file' = file
    BY <1>10 DEF revertRecords, WithBatch, local
  <2>2. v.file = file[r] /\ v.status = "reverted"
    BY <1>8, <2>1 DEF Batch
  <2>3. batches' = [batches EXCEPT ![bid[r]] = v]
    BY <1>10 DEF revertRecords
  <2> HIDE DEF v
  <2> QED BY <1>4, <2>1, <2>2, <2>3
<1>5. CASE \/ NextFile(r) \/ Finish(r) \/ move_file(r) \/ Unlink(r) \/ Die(r)
           \/ findImportedBatchByFileName(r) \/ FindDuplicates(r) \/ SetOverlayAction(r)
           \/ SetNoMatchAction(r) \/ BeginCommit(r) \/ CommitRecord(r)
           \/ skipRecordsFromBroadcastBiblios(r) \/ Crash(r) \/ \E o \in Options : Start(r, o)
  <2>1. pc'[r] # "unlink"
    BY <1>5, <1>t DEF NextFile, Finish, move_file, Unlink, Die, findImportedBatchByFileName,
       FindDuplicates, SetOverlayAction, SetNoMatchAction, BeginCommit, CommitRecord,
       skipRecordsFromBroadcastBiblios, Crash, Start, Exit, Goto, AfterStaging, AfterCommit, AfterRevert
  <2> QED BY <1>1, <2>1
<1>6. ASSUME NEW f \in Files, Arrive(f) PROVE Deletable'
  BY <1>2, <1>6 DEF Arrive, local
<1>7. CASE UNCHANGED vars
  BY <1>2, <1>7 DEF vars, store, local
<1> QED
  BY <1>3, <1>5, <1>6, <1>7, <1>9, <1>10, <1>t, LoneActs DEF Next, Advance, importRecords

\* Only Unlink takes a file away without keeping it.
LEMMA OnlyUnlinkDeletes ==
    ASSUME [Next]_vars, NEW f \in dir \ (dir' \union processed')
    PROVE  \E r \in Runs : pc[r] = "unlink" /\ file[r] = f
<1>1. ASSUME dir \subseteq dir' \union processed' PROVE FALSE
  BY <1>1
<1>2. ASSUME NEW r \in Runs, Advance(r) PROVE \E q \in Runs : pc[q] = "unlink" /\ file[q] = f
  <2>1. CASE Unlink(r)
    BY <2>1 DEF Unlink
  <2>2. CASE ~ Unlink(r)
    <3>1. dir \subseteq dir' \union processed'
      BY <1>2, <2>2 DEF Advance, importRecords, NextFile, Finish, findImportedBatchByFileName, Stage,
         FindDuplicates, SetOverlayAction, SetNoMatchAction, BeginCommit, CommitRecord, EndCommit,
         revertRecords, skipRecordsFromBroadcastBiblios, move_file, Die, store
    <3> QED BY <1>1, <3>1
  <2> QED BY <2>1, <2>2
<1>3. CASE \/ \E r \in Runs : Crash(r) \/ \E o \in Options : Start(r, o)
           \/ \E g \in Files : Arrive(g)
           \/ UNCHANGED vars
  BY <1>1, <1>3 DEF Crash, Start, Arrive, vars, store
<1> QED BY <1>2, <1>3 DEF Next

SoleDeletes == ~ overlapped => Deletable

\* While importers do not overlap, what is deleted was empty or was committed or
\* reverted in vain, and as many of its imports are in the catalog as there were
\* crashes, at the most: for any options, files and order of statements
\* (import_records.pl:110-130, KohaImporter.pm:83-121).
THEOREM DeletedInVain == Spec => DeletedWithoutEffect
<1>1. Init => AtMostOne /\ Sole /\ SoleDeletes
  BY FS_EmptySet DEF Init, AtMostOne, Sole, SoleShape, Counted, Imports, Matching, WithBatch, InHand,
     SoleDeletes, Deletable
<1>2. Inv /\ AtMostOne /\ Sole /\ SoleDeletes /\ [Next]_vars => AtMostOne' /\ Sole' /\ SoleDeletes'
  BY AtMostOneStep, LoneRun, SoleShapeStep, CountedStep, DeletableStep DEF Sole, SoleDeletes
<1>3. ASSUME Inv, AtMostOne, Sole, SoleDeletes, [Next]_vars
      PROVE  ~ overlapped => \A f \in dir \ (dir' \union processed') :
                 /\ Cardinality(Imports(f)) <= crashes
                 /\ Content[f] = {} \/ CarriedOut(f)
  <2> SUFFICES ASSUME ~ overlapped, NEW f \in dir \ (dir' \union processed')
               PROVE  Cardinality(Imports(f)) <= crashes /\ (Content[f] = {} \/ CarriedOut(f))
    OBVIOUS
  <2>1. PICK r \in Runs : pc[r] = "unlink" /\ file[r] = f
    BY <1>3, OnlyUnlinkDeletes
  <2>2. Content[f] = {} \/ CarriedOut(f)
    BY <1>3, <2>1 DEF SoleDeletes, Deletable
  <2>3. f \in Files /\ f \notin processed
    BY <1>3, <2>1 DEF Sole, SoleShape, InHand, Inv, HandInv
  <2>4. ~ Kept(f)
    BY <1>3, <2>1, <2>3 DEF Kept, AtMostOne, WithBatch, Matching
  <2>5. Cardinality(Imports(f)) <= crashes + 0
    BY <1>3, <2>3, <2>4 DEF Sole, Counted
  <2>6. crashes \in Nat
    BY <1>3, BoundsAssumption DEF Inv, TypeOK
  <2> QED
    BY <2>2, <2>5, <2>6
<1>4. Inv /\ AtMostOne /\ Sole /\ SoleDeletes /\ [Next]_vars =>
          [~ overlapped => \A f \in dir \ (dir' \union processed') :
              /\ Cardinality(Imports(f)) <= crashes
              /\ \/ Content[f] = {}
                 \/ \E i \in DOMAIN batches : /\ batches[i].file = f
                                             /\ batches[i].status \in {"imported", "reverted"}]_vars
  BY <1>3 DEF CarriedOut
<1> QED
  BY <1>1, <1>2, <1>4, InvHolds, PTL DEF Spec, DeletedWithoutEffect

-----------------------------------------------------------------------------
(* Without a crash nothing is added *)

\* Nothing was added, and the commit under way has nothing to add.
AddsNothing ==
    crashes = 0 =>
        /\ NothingAdded
        /\ \A i \in DOMAIN batches : batches[i].created = {}
        /\ \A r \in Runs : \A next \in left[r] : next[2] # "create_new"

LEMMA AddsNothingStep ==
    ASSUME NEW r \in Runs, Lone(r)
    PROVE  Inv /\ MatchInv /\ AddsNothing /\ [Next]_vars => AddsNothing'
<1> SUFFICES ASSUME Inv, MatchInv, AddsNothing, [Next]_vars, crashes' = 0 PROVE AddsNothing'
  BY DEF AddsNothing
<1> USE DEF Matching, WithBatch
<1>t. /\ left \in [Runs -> SUBSET (Biblios \X Action)] /\ crashes \in Nat
      /\ catalog \in [Biblios -> Int] /\ pc \in [Runs -> Statement]
  BY BoundsAssumption DEF Inv, TypeOK
<1>h. pc[r] \in WithBatch => bid[r] \in DOMAIN batches /\ batches[bid[r]] \in Batch
  BY LenProperties, ElementOfSeq DEF Inv, TypeOK, HandInv
<1>1. ASSUME UNCHANGED <<batches, catalog, crashes>>, \A q \in Runs : left'[q] \subseteq left[q]
      PROVE  AddsNothing'
  BY <1>1 DEF AddsNothing, NothingAdded
<1>2. ASSUME NEW o \in Options, Start(r, o)
      PROVE  AddsNothing'
  BY <1>1, <1>2 DEF Start, store, env
<1>3. ASSUME NEW f \in Files, Arrive(f)
      PROVE  AddsNothing'
  BY <1>1, <1>3 DEF Arrive, local
<1>4. ~ Crash(r)
  BY <1>t DEF Crash
<1>5. ASSUME Finish(r) \/ Die(r) \/ NextFile(r) \/ Unlink(r) \/ findImportedBatchByFileName(r)
             \/ move_file(r) \/ skipRecordsFromBroadcastBiblios(r)
      PROVE  AddsNothing'
  <2>1. UNCHANGED <<batches, catalog, crashes>> /\ (left' = left \/ left' = [left EXCEPT ![r] = {}])
    BY <1>5 DEF Finish, Die, Exit, NextFile, Unlink, findImportedBatchByFileName, move_file,
       skipRecordsFromBroadcastBiblios, store, local, env
  <2> QED
    BY <1>1, <1>t, <2>1
<1>6. ASSUME Stage(r)
      PROVE  AddsNothing'
  <2>1. pc[r] = "stage" /\ UNCHANGED <<catalog, left, crashes>>
    BY <1>6 DEF Stage, env
  <2>2. CASE Content[file[r]] = {}
    BY <1>1, <1>6, <2>1, <2>2 DEF Stage
  <2>3. CASE Content[file[r]] # {}
    <3> DEFINE v == [file |-> file[r], status |-> "staged", dups |-> {},
                     overlay |-> "create_new", nomatch |-> "create_new",
                     imported |-> {}, created |-> {}]
    <3>1. batches' = Append(batches, v)
      BY <1>6, <2>3 DEF Stage
    <3>2. v \in Batch /\ v.created = {}
      BY <2>1 DEF Batch, Inv, HandInv, InHand, Status, Action
    <3>3. /\ DOMAIN batches' = DOMAIN batches \union {Len(batches) + 1}
          /\ batches'[Len(batches) + 1] = v
          /\ \A i \in DOMAIN batches : batches'[i] = batches[i]
      BY <3>1, <3>2, BatchAppend DEF Inv
    <3> HIDE DEF v
    <3> QED
      BY <2>1, <3>2, <3>3 DEF AddsNothing, NothingAdded
  <2> QED
    BY <2>2, <2>3
<1>7. ASSUME pc[r] \in WithBatch, DOMAIN batches' = DOMAIN batches,
             \A i \in DOMAIN batches : batches'[i].created \subseteq batches[i].created,
             UNCHANGED <<catalog, crashes>>,
             \A q \in Runs : \A next \in left'[q] : next[2] # "create_new" \/ next \in left[q]
      PROVE  AddsNothing'
  BY <1>7 DEF AddsNothing, NothingAdded
<1>8. ASSUME FindDuplicates(r)
      PROVE  AddsNothing'
  <2> DEFINE v == [batches[bid[r]] EXCEPT !.dups = {b \in Content[file[r]] : catalog[b] > 0}]
  <2>1. v.created = batches[bid[r]].created
    BY <1>8, <1>h DEF FindDuplicates, Batch
  <2>2. batches' = [batches EXCEPT ![bid[r]] = v] /\ pc[r] \in WithBatch
    BY <1>8 DEF FindDuplicates
  <2> HIDE DEF v
  <2>3. /\ DOMAIN batches' = DOMAIN batches
        /\ \A i \in DOMAIN batches : batches'[i].created \subseteq batches[i].created
    BY <2>1, <2>2, HandUpdate
  <2>4. UNCHANGED <<catalog, crashes, left>>
    BY <1>8 DEF FindDuplicates, local, env
  <2> QED
    BY <1>7, <2>2, <2>3, <2>4
<1>9. ASSUME SetOverlayAction(r)
      PROVE  AddsNothing'
  <2> DEFINE v == [batches[bid[r]] EXCEPT !.overlay = "replace"]
  <2>1. v.created = batches[bid[r]].created
    BY <1>9, <1>h DEF SetOverlayAction, Batch
  <2>2. batches' = [batches EXCEPT ![bid[r]] = v] /\ pc[r] \in WithBatch
    BY <1>9 DEF SetOverlayAction
  <2> HIDE DEF v
  <2>3. /\ DOMAIN batches' = DOMAIN batches
        /\ \A i \in DOMAIN batches : batches'[i].created \subseteq batches[i].created
    BY <2>1, <2>2, HandUpdate
  <2>4. UNCHANGED <<catalog, crashes, left>>
    BY <1>9 DEF SetOverlayAction, local, env
  <2> QED
    BY <1>7, <2>2, <2>3, <2>4
<1>10. ASSUME SetNoMatchAction(r)
      PROVE  AddsNothing'
  <2> DEFINE v == [batches[bid[r]] EXCEPT !.nomatch = "ignore"]
  <2>1. v.created = batches[bid[r]].created
    BY <1>10, <1>h DEF SetNoMatchAction, Batch
  <2>2. batches' = [batches EXCEPT ![bid[r]] = v] /\ pc[r] \in WithBatch
    BY <1>10 DEF SetNoMatchAction
  <2> HIDE DEF v
  <2>3. /\ DOMAIN batches' = DOMAIN batches
        /\ \A i \in DOMAIN batches : batches'[i].created \subseteq batches[i].created
    BY <2>1, <2>2, HandUpdate
  <2>4. UNCHANGED <<catalog, crashes, left>>
    BY <1>10 DEF SetNoMatchAction, local, env
  <2> QED
    BY <1>7, <2>2, <2>3, <2>4
<1>11. ASSUME EndCommit(r)
      PROVE  AddsNothing'
  <2> DEFINE v == [batches[bid[r]] EXCEPT !.status = "imported"]
  <2>1. v.created = batches[bid[r]].created
    BY <1>11, <1>h DEF EndCommit, Batch
  <2>2. batches' = [batches EXCEPT ![bid[r]] = v] /\ pc[r] \in WithBatch
    BY <1>11 DEF EndCommit
  <2> HIDE DEF v
  <2>3. /\ DOMAIN batches' = DOMAIN batches
        /\ \A i \in DOMAIN batches : batches'[i].created \subseteq batches[i].created
    BY <2>1, <2>2, HandUpdate
  <2>4. UNCHANGED <<catalog, crashes, left>>
    BY <1>11 DEF EndCommit, local, env
  <2> QED
    BY <1>7, <2>2, <2>3, <2>4
<1>12. ASSUME BeginCommit(r)
      PROVE  AddsNothing'
  <2> DEFINE v == [batches[bid[r]] EXCEPT !.status = "importing"]
  <2>1. v.created = batches[bid[r]].created
    BY <1>12, <1>h DEF BeginCommit, Batch
  <2>2. batches' = [batches EXCEPT ![bid[r]] = v] /\ pc[r] \in WithBatch
    BY <1>12 DEF BeginCommit
  <2> HIDE DEF v
  <2>3. /\ DOMAIN batches' = DOMAIN batches
        /\ \A i \in DOMAIN batches : batches'[i].created \subseteq batches[i].created
    BY <2>1, <2>2, HandUpdate
  <2>4. UNCHANGED <<catalog, crashes>> /\ pc[r] = "commit" /\ pc'[r] = "record"
    BY <1>12 DEF BeginCommit, env, Goto, Inv, TypeOK
  <2>5. ASSUME NEW next \in left'[r], next[2] = "create_new"
        PROVE  FALSE
    <3>1. crashes = 0
      BY <2>4
    <3>2. \E q \in Runs \ {r} : pc[q] \in Matching
      BY <2>4, <2>5, <3>1, CommitSeesActions
    <3> QED
      BY <3>2 DEF Lone
  <2>6. \A q \in Runs \ {r} : left'[q] = left[q]
    BY <1>12, <1>t DEF BeginCommit
  <2> QED
    BY <1>7, <2>2, <2>3, <2>4, <2>5, <2>6
<1>13. ASSUME revertRecords(r)
      PROVE  AddsNothing'
  <2> DEFINE v == [batches[bid[r]] EXCEPT !.status = "reverted", !.imported = {}, !.created = {}]
  <2>1. v.created = {}
    BY <1>13, <1>h DEF revertRecords, Batch
  <2>2. batches' = [batches EXCEPT ![bid[r]] = v] /\ pc[r] \in WithBatch
    BY <1>13 DEF revertRecords
  <2> HIDE DEF v
  <2>3. /\ DOMAIN batches' = DOMAIN batches
        /\ \A i \in DOMAIN batches : batches'[i].created \subseteq batches[i].created
    BY <2>1, <2>2, HandUpdate
  <2>4. UNCHANGED <<crashes, left>> /\ pc[r] = "revert"
    BY <1>13 DEF revertRecords, local, env
  <2>5. batches[bid[r]].created = {}
    BY <1>h, <2>4 DEF AddsNothing
  <2>6. catalog' = catalog
    BY <1>13, <1>t, <2>5 DEF revertRecords
  <2> QED
    BY <1>7, <2>2, <2>3, <2>4, <2>6
<1>14. ASSUME CommitRecord(r)
      PROVE  AddsNothing'
  <2>1. pc[r] = "record" /\ UNCHANGED crashes
    BY <1>14 DEF CommitRecord, env
  <2> PICK next \in left[r] :
          /\ left' = [left EXCEPT ![r] = @ \ {next}]
          /\ \/ UNCHANGED <<batches, catalog>>
             \/ /\ next[2] = "replace"
                /\ batches' = [batches EXCEPT ![bid[r]].imported = @ \union {next[1]}]
                /\ UNCHANGED catalog
             \/ next[2] = "create_new"
    BY <1>14 DEF CommitRecord
  <2>2. next[2] # "create_new"
    BY <2>1 DEF AddsNothing
  <2>3. CASE UNCHANGED <<batches, catalog>>
    BY <1>1, <1>t, <2>1, <2>3
  <2>4. CASE batches' = [batches EXCEPT ![bid[r]].imported = @ \union {next[1]}] /\ UNCHANGED catalog
    <3> DEFINE v == [batches[bid[r]] EXCEPT !.imported = @ \union {next[1]}]
    <3>1. batches' = [batches EXCEPT ![bid[r]] = v]
      BY <2>4
    <3>2. v.created = batches[bid[r]].created
      BY <1>h, <2>1 DEF Batch
    <3> HIDE DEF v
    <3>3. /\ DOMAIN batches' = DOMAIN batches
          /\ \A i \in DOMAIN batches : batches'[i].created \subseteq batches[i].created
      BY <2>1, <3>1, <3>2, HandUpdate
    <3> QED
      BY <1>7, <1>t, <2>1, <2>4, <3>3
  <2> QED
    BY <2>2, <2>3, <2>4
<1>15. CASE UNCHANGED vars
  BY <1>1, <1>15 DEF vars, store, local, env
<1> QED
  BY <1>2, <1>3, <1>4, <1>5, <1>6, <1>8, <1>9, <1>10, <1>11, <1>12, <1>13,
     <1>14, <1>15, <1>t, LoneActs DEF Next, Advance, importRecords

SoleReplaces == ~ overlapped => AddsNothing

\* While importers do not overlap and all have a matcher, no record is added to
\* the catalog before the first crash.
THEOREM ReplacesOnly ==
    ASSUME \A o \in Options : o.matcher
    PROVE  Spec => []OnlyReplaces
<1>1. Init => AtMostOne /\ SoleReplaces
  BY DEF Init, AtMostOne, SoleReplaces, AddsNothing, NothingAdded
<1>2. SoleReplaces => OnlyReplaces
  BY DEF SoleReplaces, AddsNothing, OnlyReplaces
<1>3. Inv /\ MatchInv /\ AtMostOne /\ SoleReplaces /\ [Next]_vars => AtMostOne' /\ SoleReplaces'
  BY AtMostOneStep, LoneRun, AddsNothingStep DEF SoleReplaces
<1> QED
  BY <1>1, <1>2, <1>3, MatchHolds, PTL DEF Spec

-----------------------------------------------------------------------------
(* A processed file is imported completely *)

\* The records of a file that must be written: those Koha knows.
Wanted(f) == Content[f] \intersect Catalogued

\* What the matcher has been asked for it has found.
MatchedFirst(i) ==
    /\ batches[i].overlay # "ignore"
    /\ batches[i].nomatch = "ignore" => Wanted(batches[i].file) \subseteq batches[i].dups

\* While a run commits, what is wanted is written or among what is left; after that
\* it is written.
RunComplete(r) ==
    /\ pc[r] \in {"overlay", "nomatch"} => Wanted(file[r]) \subseteq batches[bid[r]].dups
    /\ pc[r] = "record" => \A b \in Wanted(file[r]) :
           b \in batches[bid[r]].imported \/ \E a \in Action \ {"ignore"} : <<b, a>> \in left[r]
    /\ pc[r] \in {"skip_bb", "move"} => Wanted(file[r]) \subseteq batches[bid[r]].imported
    /\ pc[r] # "revert"
    /\ pc[r] # "idle" => opts[r] \in Options

Imported(f) == \E i \in DOMAIN batches : batches[i].file = f /\ Wanted(f) \subseteq batches[i].imported

CompleteInv ==
    /\ \A b \in Catalogued : catalog[b] > 0
    /\ \A i \in DOMAIN batches : MatchedFirst(i)
    /\ \A r \in Runs : RunComplete(r)
    /\ \A f \in processed : Imported(f)

\* Batches are added and filled.
BatchesGrow ==
    \A i \in DOMAIN batches :
        /\ i \in DOMAIN batches' /\ batches'[i].file = batches[i].file
        /\ batches[i].imported \subseteq batches'[i].imported
        /\ Wanted(batches[i].file) \subseteq batches[i].dups =>
             Wanted(batches[i].file) \subseteq batches'[i].dups

\* When the batches grow, what one run does leaves the others as they were.
LEMMA CompleteKept ==
    ASSUME Inv, CompleteInv, BatchesGrow, NEW r \in Runs,
           \A b \in Catalogued : catalog[b] > 0 => catalog'[b] > 0,
           \A i \in DOMAIN batches' : MatchedFirst(i)',
           \A q \in Runs \ {r} : /\ pc'[q] = pc[q] /\ file'[q] = file[q] /\ bid'[q] = bid[q]
                                 /\ left'[q] = left[q] /\ opts'[q] = opts[q],
           RunComplete(r)',
           \A f \in processed' \ processed : Imported(f)
    PROVE  CompleteInv'
<1>1. ASSUME NEW f, Imported(f) PROVE Imported(f)'
  <2>1. PICK i \in DOMAIN batches : batches[i].file = f /\ Wanted(f) \subseteq batches[i].imported
    BY <1>1 DEF Imported
  <2>2. i \in DOMAIN batches' /\ batches'[i].file = f /\ Wanted(f) \subseteq batches'[i].imported
    BY <2>1 DEF BatchesGrow
  <2> QED BY <2>2 DEF Imported
<1>2. ASSUME NEW q \in Runs \ {r} PROVE RunComplete(q)'
  <2>1. pc[q] \in WithBatch => bid[q] \in DOMAIN batches /\ batches[bid[q]].file = file[q]
    BY DEF Inv, HandInv
  <2>2. RunComplete(q)
    BY DEF CompleteInv
  <2> QED BY <2>1, <2>2 DEF RunComplete, BatchesGrow, WithBatch, Matching
<1>3. \A b \in Catalogued : catalog'[b] > 0
  BY DEF CompleteInv
<1>4. \A f \in processed' : Imported(f)'
  BY <1>1 DEF CompleteInv
<1> QED BY <1>2, <1>3, <1>4 DEF CompleteInv

\* A step that leaves the batches and the catalog alone.
LEMMA CompleteKeptStill ==
    ASSUME Inv, CompleteInv, UNCHANGED <<batches, catalog>>, NEW r \in Runs,
           \A q \in Runs \ {r} : /\ pc'[q] = pc[q] /\ file'[q] = file[q] /\ bid'[q] = bid[q]
                                 /\ left'[q] = left[q] /\ opts'[q] = opts[q],
           RunComplete(r)',
           \A f \in processed' \ processed : Imported(f)
    PROVE  CompleteInv'
<1>1. BatchesGrow
  BY DEF BatchesGrow
<1>2. \A i \in DOMAIN batches' : MatchedFirst(i)'
  BY DEF CompleteInv, MatchedFirst
<1> QED BY <1>1, <1>2, CompleteKept

\* A step on the batch in run r's hand that drops none of its records.
LEMMA HandGrows ==
    ASSUME Inv, CompleteInv, NEW r \in Runs, pc[r] \in WithBatch, NEW v,
           batches' = [batches EXCEPT ![bid[r]] = v],
           v.file = file[r], batches[bid[r]].imported \subseteq v.imported,
           Wanted(file[r]) \subseteq batches[bid[r]].dups => Wanted(file[r]) \subseteq v.dups,
           v.overlay # "ignore",
           v.nomatch = "ignore" => Wanted(file[r]) \subseteq v.dups
    PROVE  /\ BatchesGrow /\ \A i \in DOMAIN batches' : MatchedFirst(i)'
           /\ batches'[bid[r]] = v
<1>1. /\ bid[r] \in DOMAIN batches
      /\ DOMAIN batches' = DOMAIN batches
      /\ batches'[bid[r]] = v
      /\ \A i \in DOMAIN batches : i # bid[r] => batches'[i] = batches[i]
      /\ batches[bid[r]].file = file[r]
  BY HandUpdate
<1>2. BatchesGrow
  BY <1>1 DEF BatchesGrow
<1>3. \A i \in DOMAIN batches' : MatchedFirst(i)'
  BY <1>1 DEF CompleteInv, MatchedFirst
<1> QED BY <1>1, <1>2, <1>3

\* When every run commits and none reverts, the statement after a lookup or the
\* matching is the commit, and none leads to a revert.
LEMMA CommitsNext ==
    ASSUME \A o \in Options : o.commit /\ ~ o.revert, NEW r \in Runs, opts[r] \in Options
    PROVE  AfterStaging(r) = "commit" /\ AfterCommit(r) \in {"skip_bb", "move"}
  BY DEF AfterStaging, AfterCommit, AfterRevert

LEMMA CompleteStep ==
    ASSUME \A o \in Options : o.commit /\ ~ o.revert
    PROVE  Inv /\ CompleteInv /\ [Next]_vars => CompleteInv'
<1> SUFFICES ASSUME Inv, CompleteInv, [Next]_vars PROVE CompleteInv'
  OBVIOUS
<1>t. /\ pc \in [Runs -> Statement] /\ bid \in [Runs -> Nat] /\ file \in [Runs -> Files \union {None}]
      /\ left \in [Runs -> SUBSET (Biblios \X Action)] /\ opts \in [Runs -> Options \union {NoOption}]
  BY DEF Inv, TypeOK
<1>o. \A r \in Runs : RunComplete(r)
  BY DEF CompleteInv
<1> USE DEF store, local, env, Goto
<1>1. ASSUME NEW r \in Runs, NEW o \in Options, Start(r, o) PROVE CompleteInv'
  <2>1. RunComplete(r)'
    BY <1>1, <1>t DEF Start, RunComplete
  <2> QED BY <1>1, <1>t, <2>1, CompleteKeptStill DEF Start
<1>2. ASSUME NEW f \in Files, Arrive(f) PROVE CompleteInv'
  BY <1>2 DEF Arrive, CompleteInv, RunComplete, MatchedFirst, Imported
<1>3. ASSUME NEW r \in Runs, Crash(r) \/ Finish(r) \/ Die(r) PROVE CompleteInv'
  <2>1. Exit(r) /\ UNCHANGED store
    BY <1>3 DEF Crash, Finish, Die
  <2>2. RunComplete(r)'
    BY <2>1, <1>t DEF Exit, RunComplete
  <2> QED BY <1>t, <2>1, <2>2, CompleteKeptStill DEF Exit
<1>4. ASSUME NEW r \in Runs, NextFile(r) PROVE CompleteInv'
  <2>1. /\ pc'[r] \in {"scan", "find"} /\ \A q \in Runs \ {r} : pc'[q] = pc[q] /\ file'[q] = file[q]
        /\ pc[r] = "scan" /\ UNCHANGED <<store, opts, bid, left>>
    BY <1>4, <1>t DEF NextFile
  <2>2. RunComplete(r)'
    BY <1>o, <2>1 DEF RunComplete
  <2> QED BY <2>1, <2>2, CompleteKeptStill
<1>5. ASSUME NEW r \in Runs, move_file(r) PROVE CompleteInv'
  <2>1. /\ pc[r] = "move" /\ pc'[r] = "scan" /\ processed' = processed \union {file[r]}
        /\ \A q \in Runs \ {r} : pc'[q] = pc[q] /\ file'[q] = file[q] /\ bid'[q] = bid[q]
        /\ UNCHANGED <<batches, catalog, opts, left>>
    BY <1>5, <1>t DEF move_file
  <2>2. RunComplete(r)'
    BY <1>o, <2>1 DEF RunComplete
  <2>3. Imported(file[r])
    BY <1>o, <2>1 DEF RunComplete, Imported, Inv, HandInv, WithBatch
  <2> QED BY <2>1, <2>2, <2>3, CompleteKeptStill
<1>6. ASSUME NEW r \in Runs, Unlink(r) PROVE CompleteInv'
  <2>1. /\ pc[r] = "unlink" /\ pc'[r] = "scan"
        /\ \A q \in Runs \ {r} : pc'[q] = pc[q] /\ file'[q] = file[q] /\ bid'[q] = bid[q]
        /\ UNCHANGED <<processed, batches, catalog, opts, left>>
    BY <1>6, <1>t DEF Unlink
  <2>2. RunComplete(r)'
    BY <1>o, <2>1 DEF RunComplete
  <2> QED BY <2>1, <2>2, CompleteKeptStill
<1>7. ASSUME NEW r \in Runs, findImportedBatchByFileName(r) PROVE CompleteInv'
  <2>1. opts[r] \in Options
    BY <1>7, <1>o DEF RunComplete, findImportedBatchByFileName
  <2>2. /\ pc'[r] \in {"stage", "commit"}
        /\ \A q \in Runs \ {r} : pc'[q] = pc[q] /\ bid'[q] = bid[q]
        /\ UNCHANGED <<store, opts, file, left>>
    BY <1>7, <1>t, <2>1, CommitsNext DEF findImportedBatchByFileName
  <2>3. RunComplete(r)'
    BY <2>1, <2>2 DEF RunComplete
  <2> QED BY <2>2, <2>3, CompleteKeptStill
<1>8. ASSUME NEW r \in Runs, Stage(r) PROVE CompleteInv'
  <2>1. opts[r] \in Options /\ pc[r] = "stage" /\ UNCHANGED <<processed, catalog, opts, file, left>>
    BY <1>8, <1>o DEF RunComplete, Stage
  <2>2. CASE Content[file[r]] = {}
    <3>1. pc' = [pc EXCEPT ![r] = "unlink"] /\ UNCHANGED <<batches, bid>>
      BY <1>8, <2>2 DEF Stage
    <3>2. RunComplete(r)'
      BY <1>t, <2>1, <3>1 DEF RunComplete
    <3> QED BY <1>t, <2>1, <3>1, <3>2, CompleteKeptStill
  <2>3. CASE Content[file[r]] # {}
    <3> DEFINE v == [file |-> file[r], status |-> "staged", dups |-> {},
                     overlay |-> "create_new", nomatch |-> "create_new",
                     imported |-> {}, created |-> {}]
    <3>1. /\ batches' = Append(batches, v) /\ bid' = [bid EXCEPT ![r] = Len(batches) + 1]
          /\ pc' \in {[pc EXCEPT ![r] = "duplicates"], [pc EXCEPT ![r] = AfterStaging(r)]}
      BY <1>8, <2>3 DEF Stage
    <3>2. v \in Batch
      BY <2>1 DEF Batch, Inv, HandInv, InHand, Status, Action
    <3>3. /\ DOMAIN batches' = DOMAIN batches \union {Len(batches) + 1}
          /\ batches'[Len(batches) + 1] = v
          /\ \A i \in DOMAIN batches : batches'[i] = batches[i]
      BY <3>1, <3>2, BatchAppend DEF Inv
    <3>4. v.overlay # "ignore" /\ v.nomatch # "ignore"
      OBVIOUS
    <3> HIDE DEF v
    <3>5. BatchesGrow
      BY <3>3 DEF BatchesGrow
    <3>6. \A i \in DOMAIN batches' : MatchedFirst(i)'
      BY <3>3, <3>4 DEF CompleteInv, MatchedFirst
    <3>7. /\ pc'[r] \in {"duplicates", "commit"}
          /\ \A q \in Runs \ {r} : pc'[q] = pc[q] /\ bid'[q] = bid[q]
      BY <1>t, <2>1, <3>1, CommitsNext
    <3>8. RunComplete(r)'
      BY <2>1, <3>7 DEF RunComplete
    <3> QED BY <2>1, <3>5, <3>6, <3>7, <3>8, CompleteKept
  <2> QED BY <2>2, <2>3
<1>9. ASSUME NEW r \in Runs, FindDuplicates(r) PROVE CompleteInv'
  <2> DEFINE v == [batches[bid[r]] EXCEPT !.dups = {b \in Content[file[r]] : catalog[b] > 0}]
  <2>1. /\ pc[r] = "duplicates" /\ batches' = [batches EXCEPT ![bid[r]] = v]
        /\ pc' = [pc EXCEPT ![r] = "overlay"] /\ UNCHANGED <<catalog, processed, local>>
    BY <1>9 DEF FindDuplicates
  <2>2. batches[bid[r]] \in Batch /\ batches[bid[r]].file = file[r] /\ bid[r] \in DOMAIN batches
    BY <2>1, HandUpdate DEF WithBatch, Matching
  <2>3. v.dups = {b \in Content[file[r]] : catalog[b] > 0} /\ v.file = file[r]
        /\ v.imported = batches[bid[r]].imported /\ v.overlay = batches[bid[r]].overlay
        /\ v.nomatch = batches[bid[r]].nomatch
    BY <2>2 DEF Batch
  <2>4. Wanted(file[r]) \subseteq v.dups
    BY <2>3 DEF Wanted, CompleteInv
  <2> HIDE DEF v
  <2>5. v.overlay # "ignore"
    BY <2>2, <2>3 DEF CompleteInv, MatchedFirst
  <2>6. BatchesGrow /\ (\A i \in DOMAIN batches' : MatchedFirst(i)') /\ batches'[bid[r]] = v
    BY <2>1, <2>3, <2>4, <2>5, HandGrows DEF WithBatch, Matching
  <2>7. RunComplete(r)'
    BY <1>o, <1>t, <2>1, <2>4, <2>6 DEF RunComplete
  <2> QED BY <1>t, <2>1, <2>6, <2>7, CompleteKept
<1>10. ASSUME NEW r \in Runs, SetOverlayAction(r) PROVE CompleteInv'
  <2> DEFINE v == [batches[bid[r]] EXCEPT !.overlay = "replace"]
  <2>1. /\ pc[r] = "overlay" /\ batches' = [batches EXCEPT ![bid[r]] = v]
        /\ pc' = [pc EXCEPT ![r] = "nomatch"] /\ UNCHANGED <<catalog, processed, local>>
    BY <1>10 DEF SetOverlayAction
  <2>2. batches[bid[r]] \in Batch /\ batches[bid[r]].file = file[r]
    BY ZenonT(60), <2>1, HandUpdate DEF WithBatch, Matching
  <2>3. v.dups = batches[bid[r]].dups /\ v.file = file[r]
        /\ v.imported = batches[bid[r]].imported /\ v.overlay = "replace"
    BY <2>2 DEF Batch
  <2>4. Wanted(file[r]) \subseteq v.dups
    BY <1>o, <2>1, <2>3 DEF RunComplete
  <2> HIDE DEF v
  <2>6. BatchesGrow /\ (\A i \in DOMAIN batches' : MatchedFirst(i)') /\ batches'[bid[r]] = v
    BY <2>1, <2>3, <2>4, HandGrows DEF WithBatch, Matching
  <2>7. RunComplete(r)'
    BY <1>o, <1>t, <2>1, <2>4, <2>6 DEF RunComplete
  <2> QED BY <1>t, <2>1, <2>6, <2>7, CompleteKept
<1>11. ASSUME NEW r \in Runs, SetNoMatchAction(r) PROVE CompleteInv'
  <2> DEFINE v == [batches[bid[r]] EXCEPT !.nomatch = "ignore"]
  <2>1. /\ pc[r] = "nomatch" /\ batches' = [batches EXCEPT ![bid[r]] = v]
        /\ opts[r] \in Options /\ UNCHANGED <<catalog, processed, local>>
    BY <1>11, <1>o DEF SetNoMatchAction, RunComplete
  <2>2. batches[bid[r]] \in Batch /\ batches[bid[r]].file = file[r] /\ bid[r] \in DOMAIN batches
    BY ZenonT(60), <2>1, HandUpdate DEF WithBatch, Matching
  <2>3. v.dups = batches[bid[r]].dups /\ v.file = file[r]
        /\ v.imported = batches[bid[r]].imported /\ v.overlay = batches[bid[r]].overlay
    BY <2>2 DEF Batch
  <2>4. Wanted(file[r]) \subseteq v.dups
    BY <1>o, <2>1, <2>3 DEF RunComplete
  <2> HIDE DEF v
  <2>5. v.overlay # "ignore"
    BY <2>2, <2>3 DEF CompleteInv, MatchedFirst
  <2>6. BatchesGrow /\ (\A i \in DOMAIN batches' : MatchedFirst(i)') /\ batches'[bid[r]] = v
    BY <2>1, <2>3, <2>4, <2>5, HandGrows DEF WithBatch, Matching
  <2>8. pc' = [pc EXCEPT ![r] = "commit"]
    BY <1>11, <2>1, CommitsNext DEF SetNoMatchAction
  <2>7. RunComplete(r)'
    BY <1>t, <2>1, <2>8 DEF RunComplete
  <2> QED BY <1>t, <2>1, <2>6, <2>7, <2>8, CompleteKept
<1>12. ASSUME NEW r \in Runs, BeginCommit(r) PROVE CompleteInv'
  <2> DEFINE v == [batches[bid[r]] EXCEPT !.status = "importing"]
  <2>1. /\ pc[r] = "commit" /\ batches' = [batches EXCEPT ![bid[r]] = v]
        /\ left' = [left EXCEPT ![r] = {<<b, ActionOf(batches[bid[r]], b)>> :
                                           b \in Content[file[r]] \ batches[bid[r]].imported}]
        /\ opts[r] \in Options /\ pc' = [pc EXCEPT ![r] = "record"]
        /\ UNCHANGED <<catalog, processed, opts, file, bid>>
    BY <1>12, <1>o DEF BeginCommit, RunComplete
  <2>2. batches[bid[r]] \in Batch /\ batches[bid[r]].file = file[r] /\ bid[r] \in DOMAIN batches
    BY ZenonT(60), <2>1, HandUpdate DEF WithBatch
  <2>3. v.dups = batches[bid[r]].dups /\ v.file = file[r] /\ v.nomatch = batches[bid[r]].nomatch
        /\ v.imported = batches[bid[r]].imported /\ v.overlay = batches[bid[r]].overlay
    BY <2>2 DEF Batch
  <2> HIDE DEF v
  <2>4. MatchedFirst(bid[r])
    BY <2>2 DEF CompleteInv
  <2>6. BatchesGrow /\ (\A i \in DOMAIN batches' : MatchedFirst(i)') /\ batches'[bid[r]] = v
    BY <2>1, <2>2, <2>3, <2>4, HandGrows DEF WithBatch, MatchedFirst
  <2>8. ASSUME NEW b \in Wanted(file[r]), b \notin batches[bid[r]].imported
        PROVE  \E a \in Action \ {"ignore"} : <<b, a>> \in left'[r]
    <3>1. ActionOf(batches[bid[r]], b) \in Action \ {"ignore"}
      BY <2>2, <2>4, <2>8 DEF MatchedFirst, ActionOf, Batch
    <3>2. <<b, ActionOf(batches[bid[r]], b)>> \in left'[r]
      BY <1>t, <2>1, <2>8 DEF Wanted
    <3> QED BY <3>1, <3>2
  <2>7. RunComplete(r)'
    <3>1. pc'[r] = "record" /\ bid'[r] = bid[r] /\ file'[r] = file[r] /\ opts'[r] = opts[r]
      BY <1>t, <2>1
    <3> QED BY <2>1, <2>3, <2>6, <2>8, <3>1 DEF RunComplete
  <2> QED BY <1>t, <2>1, <2>6, <2>7, CompleteKept
<1>13. ASSUME NEW r \in Runs, CommitRecord(r) PROVE CompleteInv'
  <2>1. PICK next \in left[r] :
          /\ left' = [left EXCEPT ![r] = @ \ {next}]
          /\ \/ /\ next[2] = "ignore" /\ UNCHANGED <<batches, catalog>>
             \/ /\ batches' = [batches EXCEPT ![bid[r]].imported = @ \union {next[1]}]
                /\ UNCHANGED catalog
             \/ /\ batches' = [batches EXCEPT ![bid[r]].imported = @ \union {next[1]},
                                              ![bid[r]].created = @ \union {next[1]}]
                /\ catalog' = [catalog EXCEPT ![next[1]] = @ + 1]
    BY <1>13 DEF CommitRecord
  <2>2. pc[r] = "record" /\ UNCHANGED <<processed, pc, opts, file, bid>>
    BY <1>13 DEF CommitRecord
  <2>3. batches[bid[r]] \in Batch /\ batches[bid[r]].file = file[r] /\ bid[r] \in DOMAIN batches
    BY <2>2, LenProperties, ElementOfSeq DEF Inv, TypeOK, HandInv, WithBatch
  <2>4. next[1] \in Biblios
    BY <1>t
  <2> DEFINE v == [batches[bid[r]] EXCEPT !.imported = @ \union {next[1]}]
             w == [batches[bid[r]] EXCEPT !.imported = @ \union {next[1]},
                                          !.created = @ \union {next[1]}]
  <2>5. (next[2] = "ignore" /\ UNCHANGED batches) \/ \E u \in Batch :
            /\ batches' = [batches EXCEPT ![bid[r]] = u]
            /\ u.dups = batches[bid[r]].dups /\ u.file = file[r] /\ u.nomatch = batches[bid[r]].nomatch
            /\ u.imported = batches[bid[r]].imported \union {next[1]}
            /\ u.overlay = batches[bid[r]].overlay
    <3>1. /\ v \in Batch /\ w \in Batch
          /\ v.dups = batches[bid[r]].dups /\ v.file = file[r] /\ v.nomatch = batches[bid[r]].nomatch
          /\ v.imported = batches[bid[r]].imported \union {next[1]}
          /\ v.overlay = batches[bid[r]].overlay
          /\ w.dups = batches[bid[r]].dups /\ w.file = file[r] /\ w.nomatch = batches[bid[r]].nomatch
          /\ w.imported = batches[bid[r]].imported \union {next[1]}
          /\ w.overlay = batches[bid[r]].overlay
      BY <2>3, <2>4 DEF Batch
    <3>2. \/ next[2] = "ignore" /\ UNCHANGED batches
          \/ batches' = [batches EXCEPT ![bid[r]] = v]
          \/ batches' = [batches EXCEPT ![bid[r]] = w]
      BY <2>1
    <3> HIDE DEF v, w
    <3> QED BY <3>1, <3>2
  <2>6. \A b \in Catalogued : catalog[b] > 0 => catalog'[b] > 0
    <3>1. catalog \in [Biblios -> Int] /\ Catalogued \subseteq Biblios
      BY CataloguedAssumption DEF Inv, TypeOK
    <3> QED BY <2>1, <2>4, <3>1
  <2>7. MatchedFirst(bid[r])
    BY <2>3 DEF CompleteInv
  <2>8. /\ BatchesGrow /\ \A i \in DOMAIN batches' : MatchedFirst(i)'
        /\ batches[bid[r]].imported \subseteq batches'[bid[r]].imported
        /\ next[2] # "ignore" => next[1] \in batches'[bid[r]].imported
    <3>1. CASE next[2] = "ignore" /\ UNCHANGED batches
      BY <3>1 DEF BatchesGrow, CompleteInv, MatchedFirst
    <3>2. CASE ~ (next[2] = "ignore" /\ UNCHANGED batches)
      <4>1. PICK u \in Batch :
              /\ batches' = [batches EXCEPT ![bid[r]] = u]
              /\ u.dups = batches[bid[r]].dups /\ u.file = file[r] /\ u.nomatch = batches[bid[r]].nomatch
              /\ u.imported = batches[bid[r]].imported \union {next[1]}
              /\ u.overlay = batches[bid[r]].overlay
        BY <2>5, <3>2
      <4>2. /\ BatchesGrow /\ (\A i \in DOMAIN batches' : MatchedFirst(i)')
            /\ batches'[bid[r]] = u
        BY <2>2, <2>3, <2>7, <4>1, HandGrows DEF WithBatch, MatchedFirst
      <4> QED BY <4>1, <4>2
    <3> QED BY <3>1, <3>2
  <2>9. RunComplete(r)'
    <3>1. left'[r] = left[r] \ {next}
      BY <1>t, <2>1
    <3>2. \A b, a : <<b, a>> = next => b = next[1] /\ a = next[2]
      OBVIOUS
    <3> QED BY SMTT(30), <1>o, <2>2, <2>8, <3>1, <3>2 DEF RunComplete
  <2>10. \A q \in Runs \ {r} : left'[q] = left[q]
    BY <1>t, <2>1
  <2> QED BY <2>2, <2>6, <2>8, <2>9, <2>10, CompleteKept
<1>14. ASSUME NEW r \in Runs, EndCommit(r) PROVE CompleteInv'
  <2> DEFINE v == [batches[bid[r]] EXCEPT !.status = "imported"]
  <2>1. /\ pc[r] = "record" /\ left[r] = {} /\ batches' = [batches EXCEPT ![bid[r]] = v]
        /\ opts[r] \in Options /\ UNCHANGED <<catalog, processed, local>>
    BY <1>14, <1>o DEF EndCommit, RunComplete
  <2>2. batches[bid[r]] \in Batch /\ batches[bid[r]].file = file[r] /\ bid[r] \in DOMAIN batches
    BY <2>1, LenProperties, ElementOfSeq DEF Inv, TypeOK, HandInv, WithBatch
  <2>3. v.dups = batches[bid[r]].dups /\ v.file = file[r] /\ v.nomatch = batches[bid[r]].nomatch
        /\ v.imported = batches[bid[r]].imported /\ v.overlay = batches[bid[r]].overlay
    BY <2>2 DEF Batch
  <2> HIDE DEF v
  <2>4. MatchedFirst(bid[r])
    BY <2>2 DEF CompleteInv
  <2>6. BatchesGrow /\ (\A i \in DOMAIN batches' : MatchedFirst(i)') /\ batches'[bid[r]] = v
    BY <2>1, <2>2, <2>3, <2>4, HandGrows DEF WithBatch, MatchedFirst
  <2>8. /\ pc'[r] \in {"skip_bb", "move", "unlink"}
        /\ \A q \in Runs \ {r} : pc'[q] = pc[q]
    BY <1>14, <1>t, <2>1, CommitsNext DEF EndCommit
  <2>9. Wanted(file[r]) \subseteq batches[bid[r]].imported
    BY <1>o, <2>1 DEF RunComplete
  <2>7. RunComplete(r)'
    BY <2>1, <2>3, <2>6, <2>8, <2>9 DEF RunComplete
  <2> QED BY <2>1, <2>6, <2>7, <2>8, CompleteKept
<1>15. ASSUME NEW r \in Runs, revertRecords(r) PROVE CompleteInv'
  BY <1>15, <1>o DEF revertRecords, RunComplete
<1>16. ASSUME NEW r \in Runs, skipRecordsFromBroadcastBiblios(r) PROVE CompleteInv'
  <2>1. /\ pc[r] = "skip_bb" /\ pc' = [pc EXCEPT ![r] = "move"]
        /\ UNCHANGED <<batches, catalog, processed, local>>
    BY <1>16 DEF skipRecordsFromBroadcastBiblios
  <2>2. RunComplete(r)'
    BY <1>o, <1>t, <2>1 DEF RunComplete
  <2> QED BY <1>t, <2>1, <2>2, CompleteKeptStill
<1>17. CASE UNCHANGED vars
  BY <1>17 DEF vars, CompleteInv, RunComplete, MatchedFirst, Imported
<1> QED
  BY <1>1, <1>2, <1>3, <1>4, <1>5, <1>6, <1>7, <1>8, <1>9, <1>10, <1>11, <1>12, <1>13, <1>14, <1>15, <1>16, <1>17
     DEF Next, Advance, importRecords

\* When every run commits and none reverts, a file in processed/ has been imported
\* completely, however many importers work on it at once and wherever they are
\* killed (import_records.pl).
THEOREM CommittedIsComplete ==
    ASSUME \A o \in Options : o.commit /\ ~ o.revert
    PROVE  Spec => []ProcessedIsComplete
<1>1. Init => CompleteInv
  BY CataloguedAssumption DEF Init, CompleteInv, RunComplete
<1>2. Inv /\ CompleteInv /\ [Next]_vars => CompleteInv'
  BY CompleteStep
<1>3. CompleteInv => ProcessedIsComplete
  BY DEF CompleteInv, Imported, Wanted, ProcessedIsComplete
<1> QED
  BY <1>1, <1>2, <1>3, InvHolds, PTL DEF Spec

=============================================================================
