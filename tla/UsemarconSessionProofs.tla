------------------------ MODULE UsemarconSessionProofs ------------------------
(***************************************************************************)
(* Proofs about UsemarconSession: the type invariant, that no ordinal is   *)
(* given twice, that no stale rules are used, and that a conversion which  *)
(* returns 0 returns all there is.                                         *)
(***************************************************************************)
EXTENDS UsemarconSession, TLAPS

Running == {"open_in", "open_out", "read", "write", "end", "finish"}

\* A running conversion has an initialized application, which was initialized
\* with the rules that are set; a record in hand was converted with them.
LoadedInv ==
    /\ pc \in Running => initialized
    /\ pc = "initialize" => ~initialized
    /\ initialized => /\ loaded.ini = settings.ini
                      /\ loaded.override = settings.override
                      /\ loaded.ini \in Inis
    /\ pc = "write" => item \in Item /\ item.by = WayNow

\* If ordinals are saved, those given are below the application's, if they are of
\* its .ini file, and below the one saved in their .ini file, unless still to be saved.
OrdinalInv ==
    UpdateOrdinal => \A g \in given :
        /\ initialized /\ g[1] = loaded.ini => g[2] < ordinal
        /\ g[2] < iniOrdinal[g[1]] \/ (pc \in {"read", "write", "end"} /\ g[1] = loaded.ini)

\* Between files, the output is there while it is open.
OpenInv ==
    /\ pc \in {"read", "write", "end"} => open
    /\ pc \in {"idle", "initialize", "open_in", "open_out"} => ~open
    /\ pc \in Running /\ appRecord = None =>
          /\ loaded.in \in Files /\ loaded.out \in Files
          /\ open => files[loaded.out] # None

Inv == TypeOK /\ LoadedInv /\ OrdinalInv /\ OpenInv

LEMMA InitInv == Init => Inv
<1> SUFFICES ASSUME Init PROVE Inv
  OBVIOUS
<1>1. settings \in Settings /\ loaded \in Settings
  BY DEF Init, Settings, NoSettings
<1>2. IsBuffer(record) /\ IsBuffer(appRecord) /\ IsBuffer(asked)
  BY DEF Init, IsBuffer
<1>3. /\ rest \in Seq(Item) /\ item \in Item \union {None}
      /\ files \in [Files -> Seq(Item) \union {None}] /\ iniOrdinal \in [Inis -> Nat]
  <2>1. ASSUME NEW f \in DOMAIN Input PROVE [k \in DOMAIN Input[f] |-> Raw(Input[f][k])] \in Seq(Item)
    <3>1. PICK n \in Nat : Input[f] \in [1 .. n -> Records]
      <4>1. Input[f] \in Seq(Records)
        BY InputAssumption
      <4> QED BY <4>1
    <3>2. \A k \in 1 .. n : Raw(Input[f][k]) \in Item
      BY <3>1 DEF Raw, Item
    <3>3. [k \in DOMAIN Input[f] |-> Raw(Input[f][k])] \in [1 .. n -> Item]
      BY <3>1, <3>2
    <3> QED BY <3>3
  <2>2. files \in [Files -> Seq(Item) \union {None}]
    BY <2>1 DEF Init
  <2> QED BY <2>2 DEF Init
<1>4. /\ initialized \in BOOLEAN /\ editConf \in BOOLEAN /\ tags \in BOOLEAN
      /\ pc \in {"idle", "initialize", "open_in", "open_out", "read", "write", "end", "finish"}
  BY DEF Init
<1>5. result \in {0, -1} /\ errors \in Nat /\ ordinal \in Nat
  BY DEF Init
<1>6. calls \in 0 .. MaxCalls /\ faults \in 0 .. MaxFaults /\ given \subseteq Inis \X Nat
  <2>1. calls = 0 /\ faults = 0 /\ given = {}
    BY DEF Init
  <2> QED BY <2>1, SettingsAssumption
<1>9. open \in BOOLEAN /\ failed \in BOOLEAN /\ input \in Seq(Item) \union {None}
  BY DEF Init
<1>7. TypeOK
  BY <1>1, <1>2, <1>3, <1>4, <1>5, <1>6, <1>9 DEF TypeOK
<1>8. LoadedInv /\ OrdinalInv /\ OpenInv
  BY DEF Init, LoadedInv, OrdinalInv, OpenInv, Running
<1> QED
  BY <1>7, <1>8 DEF Inv

\* Operations that only make a setting.
LEMMA SettingStep ==
    ASSUME Inv,
           \/ \E i \in Inis : SetIniFileName(i)
           \/ \E n \in 0 .. 1 : SetConfigOverrides(n)
           \/ \E value \in BOOLEAN : SetDisableCharacterConversion(value)
           \/ \E in, out \in Files : SetMarcFileNames(in, out)
           \/ \E x \in Records : SetMarcRecord(x)
    PROVE  Inv'
<1> USE DEF Call, application, disk, history
<1>1. /\ pc = "idle" /\ calls' = calls + 1 /\ calls < MaxCalls
      /\ UNCHANGED <<application, pc, disk, result, history, faults>>
  BY DEF SetIniFileName, SetConfigOverrides, SetDisableCharacterConversion,
         SetMarcFileNames, SetMarcRecord
<1>t. settings \in Settings /\ initialized \in BOOLEAN
  BY DEF Inv, TypeOK
<1>2. settings' \in Settings
  <2>1. ASSUME NEW i \in Inis, SetIniFileName(i) PROVE settings' \in Settings
    BY <1>t, <2>1 DEF SetIniFileName, Settings
  <2>2. ASSUME NEW n \in 0 .. 1, SetConfigOverrides(n) PROVE settings' \in Settings
    BY <1>t, <2>2 DEF SetConfigOverrides, Settings
  <2>3. ASSUME NEW v \in BOOLEAN, SetDisableCharacterConversion(v) PROVE settings' \in Settings
    BY <1>t, <2>3 DEF SetDisableCharacterConversion, Settings
  <2>4. ASSUME NEW in \in Files, NEW out \in Files, SetMarcFileNames(in, out)
        PROVE  settings' \in Settings
    BY <1>t, <2>4 DEF SetMarcFileNames, Settings
  <2>5. ASSUME NEW x \in Records, SetMarcRecord(x) PROVE settings' \in Settings
    BY <1>t, <2>5 DEF SetMarcRecord
  <2> QED
    BY <2>1, <2>2, <2>3, <2>4, <2>5
<1>3. IsBuffer(record')
  <2>1. CASE UNCHANGED record
    BY <2>1 DEF Inv, TypeOK, IsBuffer
  <2>2. ASSUME NEW x \in Records, SetMarcRecord(x) PROVE IsBuffer(record')
    <3>1. Raw(x) \in Item
      BY DEF Raw, Item
    <3> QED
      BY <2>2, <3>1 DEF SetMarcRecord, IsBuffer
  <2> QED
    BY <2>1, <2>2 DEF SetIniFileName, SetConfigOverrides, SetDisableCharacterConversion,
       SetMarcFileNames
<1>4. /\ initialized' \in BOOLEAN
      /\ initialized' => /\ initialized
                         /\ settings'.ini = settings.ini
                         /\ settings'.override = settings.override
  <2> DEFINE P == /\ initialized' \in BOOLEAN
                  /\ initialized' => /\ initialized
                                     /\ settings'.ini = settings.ini
                                     /\ settings'.override = settings.override
  <2>1. ASSUME NEW i \in Inis, SetIniFileName(i) PROVE P
    BY <1>t, <2>1 DEF SetIniFileName, Settings
  <2>2. ASSUME NEW n \in 0 .. 1, SetConfigOverrides(n) PROVE P
    BY <1>t, <2>2 DEF SetConfigOverrides, Settings
  <2>3. ASSUME NEW v \in BOOLEAN, SetDisableCharacterConversion(v) PROVE P
    BY <1>t, <2>3 DEF SetDisableCharacterConversion, Settings
  <2>4. ASSUME NEW in \in Files, NEW out \in Files, SetMarcFileNames(in, out) PROVE P
    BY <1>t, <2>4 DEF SetMarcFileNames, Settings
  <2>5. ASSUME NEW x \in Records, SetMarcRecord(x) PROVE P
    BY <1>t, <2>5 DEF SetMarcRecord
  <2> HIDE DEF P
  <2>6. P
    BY <2>1, <2>2, <2>3, <2>4, <2>5
  <2> QED
    BY <2>6 DEF P
<1>5. TypeOK'
  BY <1>1, <1>2, <1>3, <1>4, SettingsAssumption DEF Inv, TypeOK, IsBuffer
<1>6. LoadedInv' /\ OrdinalInv' /\ OpenInv'
  BY <1>1, <1>4 DEF Inv, LoadedInv, OrdinalInv, OpenInv, Running
<1> QED
  BY <1>5, <1>6 DEF Inv

LEMMA ConvertStep == Inv /\ Convert => Inv'
<1> SUFFICES ASSUME Inv, Convert PROVE Inv'
  OBVIOUS
<1> USE DEF Call, disk, usemarcon
<1>1. /\ pc = "idle" /\ calls' = calls + 1 /\ calls < MaxCalls /\ asked' = record
      /\ input' = None /\ failed' = FALSE
      /\ UNCHANGED <<usemarcon, loaded, editConf, tags, errors, ordinal, rest, item, open, disk, given, faults>>
      /\ pc' \in {"initialize", "open_in"} /\ (pc' = "open_in" <=> initialized)
      /\ appRecord' \in {appRecord, record, <<>>}
  BY DEF Convert
<1>2. IsBuffer(appRecord') /\ IsBuffer(asked')
  <2>1. IsBuffer(<<>>) /\ IsBuffer(record) /\ IsBuffer(appRecord)
    BY DEF Inv, TypeOK, IsBuffer
  <2> QED
    BY <1>1, <2>1
<1>3. TypeOK'
  <2>1. /\ input' \in Seq(Item) \union {None} /\ failed' \in BOOLEAN
        /\ pc' \in {"idle", "initialize", "open_in", "open_out", "read", "write", "end", "finish"}
    BY <1>1
  <2>2. calls' \in 0 .. MaxCalls
    BY <1>1, SettingsAssumption DEF Inv, TypeOK
  <2>3. IsBuffer(record') /\ UNCHANGED <<usemarcon, loaded, editConf, tags, errors, ordinal, rest, item, open, disk, given, faults>>
    BY <1>1 DEF Inv, TypeOK, IsBuffer
  <2> QED BY <1>2, <2>1, <2>2, <2>3 DEF Inv, TypeOK
<1>4. LoadedInv' /\ OrdinalInv'
  BY <1>1 DEF Inv, LoadedInv, OrdinalInv, Running
<1>5. OpenInv'
  <2>1. pc' = "open_in" => appRecord' # None
    <3>1. <<>> \in Seq(Item)
      OBVIOUS
    <3> QED BY <1>1, <3>1, NoneAssumption DEF Convert
  <2> QED BY <1>1, <2>1 DEF Inv, OpenInv, Running
<1> QED
  BY <1>3, <1>4, <1>5 DEF Inv

LEMMA InitializeStep == Inv /\ Initialize => Inv'
<1> SUFFICES ASSUME Inv, Initialize PROVE Inv'
  OBVIOUS
<1> USE DEF Return, application, disk, history
<1>t. /\ TypeOK /\ pc = "initialize" /\ OpenInv
      /\ UNCHANGED <<settings, record, disk, history, calls, faults, tags, rest, item, open>>
  BY DEF Inv, Initialize
<1>1. CASE settings.ini = None
  <2>1. result' = -1 /\ pc' = "idle" /\ UNCHANGED <<initialized, application>>
    BY <1>1 DEF Initialize
  <2>2. TypeOK'
    BY <1>t, <2>1 DEF TypeOK, IsBuffer
  <2> QED
    BY <1>t, <2>1, <2>2 DEF Inv, LoadedInv, OrdinalInv, OpenInv, Running
<1>2. CASE settings.ini # None
  <2>1. loaded' = settings /\ appRecord' \in {None, record}
    BY <1>2 DEF Initialize
  <2>2. settings.ini \in Inis
    BY <1>t, <1>2 DEF TypeOK, Settings
  <2>3. IsBuffer(appRecord')
    BY <1>t, <2>1 DEF TypeOK, IsBuffer
  <2>4. CASE settings.ini \in Loadable /\ (appRecord' = None => settings.in # None /\ settings.out # None)
    <3>1. /\ editConf' = (settings.ini \in EditConf) /\ initialized' = TRUE
          /\ errors' = 0 /\ ordinal' = iniOrdinal[settings.ini]
          /\ pc' = "open_in" /\ UNCHANGED result
      BY <1>2, <2>4 DEF Initialize
    <3>2. ordinal' \in Nat /\ editConf' \in BOOLEAN
      BY <1>t, <2>2, <3>1 DEF TypeOK
    <3>3. TypeOK'
      BY <1>t, <2>1, <2>3, <3>1, <3>2 DEF TypeOK, IsBuffer
    <3>4. LoadedInv'
      BY <1>t, <2>1, <2>2, <3>1 DEF LoadedInv, Running
    <3>5. OrdinalInv'
      BY <1>t, <2>1, <2>2, <3>1 DEF Inv, OrdinalInv
    <3>6. OpenInv'
      BY <1>t, <2>1, <2>4, <3>1 DEF OpenInv, Running, TypeOK, Settings
    <3> QED
      BY <3>3, <3>4, <3>5, <3>6 DEF Inv
  <2>5. CASE ~(settings.ini \in Loadable /\ (appRecord' = None => settings.in # None /\ settings.out # None))
    <3>1. /\ UNCHANGED <<initialized, editConf, ordinal>> /\ errors' = 1
          /\ result' = -1 /\ pc' = "idle"
      BY <1>2, <2>5 DEF Initialize
    <3>2. TypeOK'
      BY <1>t, <2>1, <2>3, <3>1 DEF TypeOK, IsBuffer
    <3>3. ~initialized /\ ~initialized'
      BY <1>t, <3>1 DEF Inv, LoadedInv
    <3>4. LoadedInv' /\ OrdinalInv' /\ OpenInv'
      BY <1>t, <3>1, <3>3 DEF Inv, LoadedInv, OrdinalInv, OpenInv, Running
    <3> QED
      BY <3>2, <3>4 DEF Inv
  <2> QED
    BY <2>4, <2>5
<1> QED
  BY <1>1, <1>2

LEMMA OpenInputStep == Inv /\ OpenInput => Inv'
<1> SUFFICES ASSUME Inv, OpenInput PROVE Inv'
  OBVIOUS
<1>t. /\ TypeOK /\ pc = "open_in" /\ LoadedInv /\ OrdinalInv /\ OpenInv
      /\ UNCHANGED <<settings, initialized, record, loaded, appRecord, ordinal, item, open, disk,
                     given, asked, failed, calls, faults>>
      /\ pc' \in {"open_out", "finish"}
  BY DEF Inv, OpenInput
<1>1. rest' \in Seq(Item) /\ input' \in Seq(Item) \union {None}
  <2>1. CASE appRecord = None => files[loaded.in] # None
    <3>1. rest' = (IF appRecord # None THEN appRecord ELSE files[loaded.in]) /\ input' = rest'
      BY <2>1 DEF OpenInput
    <3>2. CASE appRecord # None
      BY <1>t, <3>1, <3>2 DEF TypeOK, IsBuffer
    <3>3. CASE appRecord = None
      <4>1. loaded.in \in Files
        BY <1>t, <3>3 DEF OpenInv, Running
      <4> QED BY <1>t, <2>1, <3>1, <3>3, <4>1 DEF TypeOK
    <3> QED
      BY <3>2, <3>3
  <2>2. CASE ~(appRecord = None => files[loaded.in] # None)
    BY <1>t, <2>2 DEF OpenInput, TypeOK
  <2> QED
    BY <2>1, <2>2
<1>2. tags' \in BOOLEAN /\ editConf' \in BOOLEAN
  BY <1>t DEF OpenInput, TypeOK
<1>3. errors' \in Nat /\ result' \in {0, -1}
  BY <1>t DEF OpenInput, TypeOK
<1>4. TypeOK'
  BY <1>t, <1>1, <1>2, <1>3 DEF TypeOK, disk, IsBuffer
<1>5. LoadedInv' /\ OrdinalInv' /\ OpenInv'
  BY <1>t DEF LoadedInv, OrdinalInv, OpenInv, Running, disk
<1> QED
  BY <1>4, <1>5 DEF Inv

\* A failure is counted.
LEMMA FaultFact ==
    ASSUME TypeOK, Fault \/ UNCHANGED <<failed, faults>>
    PROVE  failed' \in BOOLEAN /\ faults' \in 0 .. MaxFaults
<1>1. CASE Fault
  <2>1. faults < MaxFaults /\ faults' = faults + 1 /\ failed' = TRUE
    BY <1>1 DEF Fault
  <2>2. faults \in 0 .. MaxFaults
    BY DEF TypeOK
  <2>3. faults' \in 0 .. MaxFaults
    BY <2>1, <2>2, SettingsAssumption
  <2> QED BY <2>1, <2>3
<1>2. CASE UNCHANGED <<failed, faults>>
  BY <1>2 DEF TypeOK
<1> QED BY <1>1, <1>2

LEMMA OpenOutputStep == Inv /\ OpenOutput => Inv'
<1> SUFFICES ASSUME Inv, OpenOutput PROVE Inv'
  OBVIOUS
<1>t. /\ TypeOK /\ pc = "open_out" /\ LoadedInv /\ OrdinalInv /\ OpenInv
      /\ UNCHANGED <<settings, initialized, record, loaded, appRecord, editConf, tags, ordinal, item,
                     iniOrdinal, given, asked, input, calls>>
      /\ (pc' = "read" /\ open' = TRUE /\ (appRecord # None \/ loaded.out \notin Unwritable))
            \/ (pc' = "finish" /\ UNCHANGED open)
      /\ Fault \/ UNCHANGED <<failed, faults>>
      /\ errors' \in {errors, errors + 1, errors + 2} /\ result' \in {result, -1}
      /\ rest' \in {rest, <<>>}
  BY DEF Inv, OpenOutput
<1>1. files' \in [Files -> Seq(Item) \union {None}]
  <2>1. <<>> \in Seq(Item) /\ files \in [Files -> Seq(Item) \union {None}]
    BY <1>t DEF TypeOK
  <2>2. files' \in {files, [files EXCEPT ![loaded.out] = <<>>]}
    BY DEF OpenOutput
  <2> QED
    BY <2>1, <2>2
<1>2. TypeOK'
  <2>1. failed' \in BOOLEAN /\ faults' \in 0 .. MaxFaults
    BY <1>t, FaultFact
  <2>2a. errors' \in Nat
    BY <1>t DEF TypeOK
  <2>2b. result' \in {0, -1}
    BY <1>t DEF TypeOK
  <2>2c. rest' \in Seq(Item)
    <3>1. rest \in Seq(Item) /\ <<>> \in Seq(Item)
      BY <1>t DEF TypeOK
    <3> QED
      BY <1>t, <3>1
  <2>3. open' \in BOOLEAN /\ pc' \in {"idle", "initialize", "open_in", "open_out", "read", "write", "end", "finish"}
    BY <1>t DEF TypeOK
  <2> QED BY <1>t, <1>1, <2>1, <2>2a, <2>2b, <2>2c, <2>3 DEF TypeOK, IsBuffer
<1>3. LoadedInv' /\ OrdinalInv'
  BY <1>t DEF LoadedInv, OrdinalInv, Running
<1>4. OpenInv'
  <2>1. ASSUME appRecord = None, pc' = "read" PROVE files'[loaded.out] # None
    <3>1. files' = [files EXCEPT ![loaded.out] = <<>>] /\ loaded.out \in Files
      BY <1>t, <2>1 DEF OpenOutput, OpenInv, Running
    <3>2. <<>> \in Seq(Item)
      OBVIOUS
    <3>3. files'[loaded.out] = <<>>
      BY <1>t, <3>1 DEF TypeOK
    <3> QED BY <3>2, <3>3, NoneAssumption
  <2> QED BY <1>t, <2>1 DEF OpenInv, Running
<1> QED
  BY <1>2, <1>3, <1>4 DEF Inv

LEMMA ReadAndConvertStep == Inv /\ ReadAndConvert => Inv'
<1> SUFFICES ASSUME Inv, ReadAndConvert PROVE Inv'
  OBVIOUS
<1>t. /\ TypeOK /\ pc = "read" /\ LoadedInv /\ OrdinalInv /\ OpenInv
      /\ UNCHANGED <<usemarcon, loaded, appRecord, editConf, tags, open, disk, asked, input, calls>>
      /\ pc' \in {"end", "write"}
      /\ Fault \/ UNCHANGED <<failed, faults>>
  BY DEF Inv, ReadAndConvert
<1>f. failed' \in BOOLEAN /\ faults' \in 0 .. MaxFaults
  BY <1>t, FaultFact
<1>o. OpenInv'
  BY <1>t DEF OpenInv, Running, disk
<1>0. initialized /\ loaded.ini \in Inis
  BY <1>t DEF LoadedInv, Running
<1>1. CASE UNCHANGED <<ordinal, rest, item, given>> /\ pc' = "end" /\ errors' \in {errors, errors + 1}
  <2>1. TypeOK'
    BY <1>t, <1>f, <1>1 DEF TypeOK, usemarcon, disk, IsBuffer
  <2>2. LoadedInv' /\ OrdinalInv'
    BY <1>t, <1>1 DEF LoadedInv, OrdinalInv, Running, usemarcon, disk
  <2> QED
    BY <1>o, <2>1, <2>2 DEF Inv
<1>2. CASE rest # <<>> /\ Head(rest).rec \notin Unreadable /\ pc' = "write"
  <2>1. /\ item' = [rec |-> Head(rest).rec, by |-> WayNow] /\ rest' = Tail(rest)
        /\ errors' = Errors[Head(rest).rec]
        /\ given' = given \union {<<loaded.ini, ordinal>>} /\ ordinal' = ordinal + 1
        /\ pc' = "write"
    BY <1>2 DEF ReadAndConvert
  <2>2. Head(rest) \in Item /\ Tail(rest) \in Seq(Item)
    BY <1>t, <1>2 DEF TypeOK
  <2>3. Head(rest).rec \in Records
    BY <2>2 DEF Item
  <2>4. WayNow \in Way
    BY <1>t DEF WayNow, Way, TypeOK, Settings
  <2>5. item' \in Item
    BY <2>1, <2>3, <2>4 DEF Item
  <2>6. errors' \in Nat
    BY <2>1, <2>3, ErrorsAssumption
  <2>7. ordinal \in Nat /\ ordinal' \in Nat /\ given' \subseteq Inis \X Nat
    BY <1>t, <1>0, <2>1 DEF TypeOK
  <2>8. TypeOK'
    BY <1>t, <1>f, <2>1, <2>2, <2>5, <2>6, <2>7 DEF TypeOK, usemarcon, disk, IsBuffer
  <2>9. WayNow' = WayNow
    BY <1>t DEF WayNow
  <2>10. item'.by = WayNow
    BY <2>1
  <2>11. LoadedInv'
    BY <1>t, <1>0, <2>1, <2>5, <2>9, <2>10 DEF LoadedInv, Running, usemarcon
  <2>12. OrdinalInv'
    <3>1. SUFFICES ASSUME UpdateOrdinal, NEW g \in given'
                   PROVE  /\ g[1] = loaded.ini => g[2] < ordinal + 1
                          /\ g[2] < iniOrdinal[g[1]] \/ g[1] = loaded.ini
      BY <1>t, <1>0, <2>1 DEF OrdinalInv, usemarcon, disk
    <3>2. CASE g \in given
      <4>1. g[2] \in Nat
        BY <1>t, <3>2 DEF TypeOK
      <4> QED
        BY <1>t, <1>0, <2>7, <3>1, <3>2, <4>1 DEF OrdinalInv
    <3>3. CASE g = <<loaded.ini, ordinal>>
      BY <2>7, <3>3
    <3> QED
      BY <2>1, <3>2, <3>3
  <2> QED
    BY <1>o, <2>8, <2>11, <2>12 DEF Inv
<1> QED
  BY <1>1, <1>2 DEF ReadAndConvert

\* Saving the ordinal puts the one in the .ini file above all those given.
LEMMA SaveOrdinalFact ==
    ASSUME TypeOK, LoadedInv, OrdinalInv, pc \in {"write", "end"}, SaveOrdinal
    PROVE  /\ iniOrdinal' \in [Inis -> Nat]
           /\ UpdateOrdinal => \A g \in given : g[2] < iniOrdinal'[g[1]]
<1>0. initialized /\ loaded.ini \in Inis
  BY DEF LoadedInv, Running
<1>1. iniOrdinal' \in [Inis -> Nat]
  BY <1>0 DEF SaveOrdinal, TypeOK
<1>2. ASSUME UpdateOrdinal, NEW g \in given PROVE g[2] < iniOrdinal'[g[1]]
  <2>1. iniOrdinal' = [iniOrdinal EXCEPT ![loaded.ini] = ordinal] /\ g[1] \in Inis
    BY <1>2 DEF SaveOrdinal, TypeOK
  <2>2. CASE g[1] = loaded.ini
    BY <1>0, <1>2, <2>1, <2>2 DEF OrdinalInv, TypeOK
  <2>3. CASE g[1] # loaded.ini
    BY <1>2, <2>1, <2>3 DEF OrdinalInv, TypeOK
  <2> QED
    BY <2>2, <2>3
<1> QED
  BY <1>1, <1>2

\* What is left of a file after a failure.
LEMMA BrokenFact == \A s \in Seq(Item) : Broken(s) \subseteq Seq(Item)
<1>1. \A x \in Records : Raw(x) \in Item
  BY DEF Raw, Item
<1> QED BY <1>1 DEF Broken

LEMMA WriteStep == Inv /\ Write => Inv'
<1> SUFFICES ASSUME Inv, Write PROVE Inv'
  OBVIOUS
<1>t. /\ TypeOK /\ pc = "write" /\ LoadedInv /\ OrdinalInv /\ OpenInv /\ item' = None
      /\ UNCHANGED <<settings, initialized, record, loaded, editConf, tags, ordinal, rest, open, given,
                     asked, input, calls>>
      /\ Fault \/ UNCHANGED <<failed, faults>>
  BY DEF Inv, Write
<1>f. failed' \in BOOLEAN /\ faults' \in 0 .. MaxFaults
  BY <1>t, FaultFact
<1>0. initialized /\ loaded.ini \in Inis /\ item \in Item
  BY <1>t DEF LoadedInv, Running
<1>1. /\ IsBuffer(appRecord') /\ files' \in [Files -> Seq(Item) \union {None}]
      /\ appRecord' = None => appRecord = None /\ files'[loaded.out] # None
  <2>1. CASE appRecord # None
    <3>1. appRecord' = <<item>> /\ files' = files
      BY <2>1 DEF Write, Written
    <3>2. <<item>> \in Seq(Item)
      BY <1>0
    <3>3. appRecord' # None /\ IsBuffer(appRecord')
      BY <1>0, <3>1, <3>2, NoneAssumption DEF IsBuffer
    <3> QED
      BY <1>t, <3>1, <3>3 DEF TypeOK
  <2>2. CASE appRecord = None
    <3>1. loaded.out \in Files /\ files[loaded.out] \in Seq(Item)
      BY <1>t, <2>2 DEF OpenInv, Running, TypeOK
    <3>2. PICK s \in Seq(Item) : files' = [files EXCEPT ![loaded.out] = s]
      <4>1. Append(files[loaded.out], item) \in Seq(Item) /\ Broken(files[loaded.out]) \subseteq Seq(Item)
        BY <1>0, <3>1, BrokenFact
      <4> QED BY <2>2, <4>1 DEF Write, Written
    <3>3. appRecord' = None
      BY <2>2 DEF Write, Written
    <3> QED BY <1>t, <2>2, <3>1, <3>2, <3>3, NoneAssumption DEF IsBuffer, TypeOK
  <2> QED
    BY <2>1, <2>2
<1>2. PICK e \in {errors, errors + 1} : GoOn(e)
  BY DEF Write
<1>3. CASE TooMany(e)
  <2>1. errors' = e + 1 /\ result' = -1 /\ SaveOrdinal /\ pc' = "finish"
    BY <1>2, <1>3 DEF GoOn
  <2>2. /\ iniOrdinal' \in [Inis -> Nat]
        /\ UpdateOrdinal => \A g \in given : g[2] < iniOrdinal'[g[1]]
    BY <1>t, <2>1, SaveOrdinalFact
  <2>3. TypeOK'
    BY <1>t, <1>f, <1>1, <2>1, <2>2 DEF TypeOK, IsBuffer
  <2>4. LoadedInv' /\ OrdinalInv'
    BY <1>t, <2>1, <2>2 DEF LoadedInv, OrdinalInv, Running
  <2>5. OpenInv'
    BY <1>t, <1>1, <2>1 DEF OpenInv, Running
  <2> QED
    BY <2>3, <2>4, <2>5 DEF Inv
<1>4. CASE ~TooMany(e)
  <2>1. pc' \in {"end", "read"} /\ errors' = e /\ UNCHANGED <<result, iniOrdinal>>
    BY <1>2, <1>4 DEF GoOn
  <2>2. TypeOK'
    BY <1>t, <1>f, <1>1, <2>1 DEF TypeOK, IsBuffer
  <2>3. LoadedInv' /\ OrdinalInv'
    BY <1>t, <2>1 DEF LoadedInv, OrdinalInv, Running
  <2>4. OpenInv'
    BY <1>t, <1>1, <2>1 DEF OpenInv, Running
  <2> QED
    BY <2>2, <2>3, <2>4 DEF Inv
<1> QED
  BY <1>3, <1>4

LEMMA EndOfInputStep == Inv /\ EndOfInput => Inv'
<1> SUFFICES ASSUME Inv, EndOfInput PROVE Inv'
  OBVIOUS
<1>t. /\ TypeOK /\ pc = "end" /\ LoadedInv /\ OrdinalInv /\ OpenInv /\ SaveOrdinal
      /\ result' = 0 /\ pc' = "finish"
      /\ UNCHANGED <<settings, initialized, record, application, files, history, calls, faults>>
  BY DEF Inv, EndOfInput
<1>1. /\ iniOrdinal' \in [Inis -> Nat]
      /\ UpdateOrdinal => \A g \in given : g[2] < iniOrdinal'[g[1]]
  BY <1>t, SaveOrdinalFact
<1>2. TypeOK'
  BY <1>t, <1>1 DEF TypeOK, IsBuffer, application, history
<1>3. LoadedInv' /\ OrdinalInv' /\ OpenInv'
  BY <1>t, <1>1 DEF LoadedInv, OrdinalInv, OpenInv, Running, application, history
<1> QED
  BY <1>2, <1>3 DEF Inv

LEMMA FinishStep == Inv /\ Finish => Inv'
<1> SUFFICES ASSUME Inv, Finish PROVE Inv'
  OBVIOUS
<1>t. /\ TypeOK /\ pc = "finish" /\ LoadedInv /\ OrdinalInv /\ OpenInv
      /\ rest' = <<>> /\ pc' = "idle" /\ open' = FALSE
      /\ record' \in {record, appRecord}
      /\ UNCHANGED <<settings, initialized, result, loaded, appRecord, editConf, tags, errors,
                     ordinal, item, iniOrdinal, given, asked, input, calls>>
      /\ Fault \/ UNCHANGED <<failed, faults>>
  BY DEF Inv, Finish, RecordBack
<1>f. failed' \in BOOLEAN /\ faults' \in 0 .. MaxFaults
  BY <1>t, FaultFact
<1>1. IsBuffer(record')
  BY <1>t DEF TypeOK, IsBuffer
<1>2. files' \in [Files -> Seq(Item) \union {None}]
  <2>1. CASE files' = files
    BY <1>t, <2>1 DEF TypeOK
  <2>2. CASE /\ open /\ appRecord = None
             /\ \E k \in 0 .. Len(files[loaded.out]) : \E s \in Broken(SubSeq(files[loaded.out], 1, k)) :
                   files' = [files EXCEPT ![loaded.out] = s]
    <3>1. files[loaded.out] \in Seq(Item)
      BY <1>t, <2>2 DEF OpenInv, Running, TypeOK
    <3>2. PICK k \in 0 .. Len(files[loaded.out]) : \E s \in Broken(SubSeq(files[loaded.out], 1, k)) :
                   files' = [files EXCEPT ![loaded.out] = s]
      BY <2>2
    <3>3. SubSeq(files[loaded.out], 1, k) \in Seq(Item)
      BY <3>1, <3>2
    <3>4. Broken(SubSeq(files[loaded.out], 1, k)) \subseteq Seq(Item)
      BY <3>3, BrokenFact
    <3> QED BY <1>t, <3>2, <3>4 DEF TypeOK
  <2> QED BY <2>1, <2>2 DEF Finish
<1>3. TypeOK'
  <2>1. open' \in BOOLEAN /\ pc' \in {"idle", "initialize", "open_in", "open_out", "read", "write", "end", "finish"}
    BY <1>t
  <2>2. rest' \in Seq(Item)
    BY <1>t
  <2> QED BY <1>t, <1>f, <1>1, <1>2, <2>1, <2>2 DEF TypeOK, IsBuffer
<1>4. LoadedInv' /\ OrdinalInv' /\ OpenInv'
  BY <1>t DEF LoadedInv, OrdinalInv, OpenInv, Running
<1> QED
  BY <1>3, <1>4 DEF Inv

LEMMA StutterStep == Inv /\ UNCHANGED vars => Inv'
<1> SUFFICES ASSUME Inv, UNCHANGED vars PROVE Inv'
  OBVIOUS
<1> USE DEF vars, usemarcon, application, disk, history
<1>1. TypeOK'
  BY DEF Inv, TypeOK, IsBuffer
<1>2. LoadedInv'
  BY DEF Inv, LoadedInv, Running, WayNow
<1>3. OrdinalInv' /\ OpenInv'
  BY DEF Inv, OrdinalInv, OpenInv
<1> QED
  BY <1>1, <1>2, <1>3 DEF Inv

THEOREM Invariance == Spec => []Inv
<1>1. Inv /\ [Next]_vars => Inv'
  BY SettingStep, ConvertStep, InitializeStep, OpenInputStep, OpenOutputStep,
     ReadAndConvertStep, WriteStep, EndOfInputStep, FinishStep, StutterStep DEF Next
<1> QED
  BY InitInv, <1>1, PTL DEF Spec

-----------------------------------------------------------------------------
\* The variables keep their types over every sequence of settings and
\* conversions (usemarconlib.cpp, tmpplctn.cpp).
THEOREM TypeCorrect == Spec => []TypeOK
<1>1. Inv => TypeOK
  BY DEF Inv
<1> QED
  BY Invariance, <1>1, PTL

\* With UpdateOrdinalNumber no ordinal is given to two records of one .ini file,
\* in any number of conversions, finished or broken off (tmpplctn.cpp:603-636).
THEOREM NoOrdinalTwice == Spec => []OrdinalsUnique
<1>1. Inv => OrdinalsUnique
  <2> SUFFICES ASSUME Inv, UpdateOrdinal, pc = "read", <<loaded.ini, ordinal>> \in given
               PROVE  FALSE
    BY DEF OrdinalsUnique
  <2>1. initialized /\ ordinal \in Nat
    BY DEF Inv, LoadedInv, Running, TypeOK
  <2>2. ordinal < ordinal
    BY <2>1 DEF Inv, OrdinalInv
  <2> QED
    BY <2>1, <2>2
<1> QED
  BY Invariance, <1>1, PTL

\* No record is converted with rules or overrides other than those set when
\* Convert() was called (usemarconlib.cpp:74-82, 110-136, 161-189).
THEOREM NoStaleRules == Spec => []RulesAreCurrent
<1>1. Inv => RulesAreCurrent
  <2> SUFFICES ASSUME Inv, pc = "write"
               PROVE  item.by.ini = settings.ini /\ item.by.override = settings.override
    BY DEF RulesAreCurrent
  <2>1. initialized /\ item.by = WayNow
    BY DEF Inv, LoadedInv, Running
  <2>2. loaded.ini = settings.ini /\ loaded.override = settings.override
    BY <2>1 DEF Inv, LoadedInv
  <2> QED
    BY <2>1, <2>2 DEF WayNow
<1> QED
  BY Invariance, <1>1, PTL
(***************************************************************************)
(* A conversion that returns 0 has converted all there is: what is written *)
(* and what is still to be read make up the input, in its order.           *)
(***************************************************************************)

\* in[1 .. n] is written to the file out.
Done(in, out, n) ==
    /\ DOMAIN out = 1 .. n
    /\ \A k \in 1 .. n : out[k].rec = in[k].rec /\ in[k].rec \notin Unreadable

\* What is still to be read is in behind its first n records.
Todo(in, s, n) ==
    /\ DOMAIN s = 1 .. (Len(in) - n)
    /\ \A k \in DOMAIN s : s[k].rec = in[n + k].rec

\* What there is to read once the output is open.
Source == IF loaded.in = loaded.out THEN <<>> ELSE input

\* The conversion has returned 0, or is about to.
Ended == pc = "end" \/ (pc \in {"finish", "idle"} /\ result = 0 /\ input # None)

\* Records from a file to a file, while reading and writing succeed.
FromFile ==
    /\ pc = "open_out" => rest = input
    /\ pc \in {"open_out", "read", "write", "end"} => input \in Seq(Item)
    /\ ~failed =>
       /\ pc = "read" => \E n \in 0 .. Len(Source) : Done(Source, files[loaded.out], n) /\ Todo(Source, rest, n)
       /\ pc = "write" => \E n \in 0 .. Len(Source) - 1 :
              /\ Done(Source, files[loaded.out], n) /\ Todo(Source, rest, n + 1)
              /\ item.rec = Source[n + 1].rec /\ item.rec \notin Unreadable
       /\ Ended => \E n \in 0 .. Len(Source) :
              /\ Done(Source, files[loaded.out], n)
              /\ n = Len(Source) \/ Source[n + 1].rec \in Unreadable

\* The record that comes back is the one that was given, converted.
ComesBack == appRecord[1].rec = asked[1].rec /\ appRecord[1].by # None

\* A record in memory.
InMemory ==
    asked \notin {None, <<>>} =>
        /\ pc = "open_in" => appRecord = asked
        /\ pc \in {"open_out", "read"} => rest = asked
        /\ pc = "write" => item.rec = asked[1].rec
        /\ Ended => asked[1].rec \in Unreadable \/ ComesBack

ReturnsInv ==
    /\ pc # "idle" => asked = record
    /\ pc \in {"initialize", "open_in"} => input = None
    /\ IF appRecord = None THEN FromFile ELSE InMemory

\* What the next record read is, and what is left.
LEMMA TodoStep ==
    ASSUME NEW in, Len(in) \in Nat, NEW n \in 0 .. Len(in), NEW s \in Seq(Item), Todo(in, s, n)
    PROVE  /\ s = <<>> <=> n = Len(in)
           /\ s # <<>> => /\ Head(s).rec = in[n + 1].rec /\ n + 1 \in 1 .. Len(in)
                          /\ Todo(in, Tail(s), n + 1)
<1>1. DOMAIN s = 1 .. Len(s) /\ Len(s) \in Nat
  OBVIOUS
<1>2. Len(s) = Len(in) - n
  BY <1>1 DEF Todo
<1>3. s = <<>> <=> Len(s) = 0
  OBVIOUS
<1>4. ASSUME s # <<>> PROVE Head(s).rec = in[n + 1].rec /\ n + 1 \in 1 .. Len(in)
  <2>1. 1 \in DOMAIN s /\ Head(s) = s[1]
    BY <1>1, <1>3, <1>4
  <2> QED BY <1>2, <1>3, <1>4, <2>1 DEF Todo
<1>5. ASSUME s # <<>> PROVE Todo(in, Tail(s), n + 1)
  <2>1. /\ DOMAIN Tail(s) = 1 .. (Len(s) - 1)
        /\ \A k \in 1 .. (Len(s) - 1) : Tail(s)[k] = s[k + 1]
    BY <1>5
  <2>2. DOMAIN Tail(s) = 1 .. (Len(in) - (n + 1))
    BY <1>2, <2>1
  <2>3. ASSUME NEW k \in DOMAIN Tail(s) PROVE Tail(s)[k].rec = in[(n + 1) + k].rec
    <3>1. k + 1 \in DOMAIN s /\ Tail(s)[k] = s[k + 1] /\ k \in Nat
      BY <1>1, <2>1
    <3>2. s[k + 1].rec = in[n + (k + 1)].rec
      BY <3>1 DEF Todo
    <3>3. n + (k + 1) = (n + 1) + k
      BY <3>1
    <3> QED BY <3>1, <3>2, <3>3
  <2> QED BY <2>2, <2>3 DEF Todo
<1> QED BY <1>2, <1>3, <1>4, <1>5

\* In front of the first unreadable record.
LEMMA ReadableEnd ==
    ASSUME NEW in, NEW m \in Nat, DOMAIN in = 1 .. m, NEW n \in 0 .. m,
           \A k \in 1 .. n : in[k].rec \notin Unreadable, n = m \/ in[n + 1].rec \in Unreadable
    PROVE  Readable(in) = 1 .. n
<1>1. ASSUME NEW k \in 1 .. n PROVE k \in Readable(in)
  BY DEF Readable
<1>2. ASSUME NEW k \in Readable(in), k \notin 1 .. n PROVE FALSE
  <2>1. k \in 1 .. m /\ n + 1 \in 1 .. k /\ n # m
    BY <1>2 DEF Readable
  <2> QED BY <1>2, <2>1 DEF Readable
<1> QED BY <1>1, <1>2

LEMMA SourceTypes == input \in Seq(Item) => Source \in Seq(Item) /\ Len(Source) \in Nat
<1>1. <<>> \in Seq(Item)
  OBVIOUS
<1> QED BY <1>1 DEF Source

LEMMA ReturnsSetting ==
    ASSUME ReturnsInv,
           \/ \E i \in Inis : SetIniFileName(i)
           \/ \E n \in 0 .. 1 : SetConfigOverrides(n)
           \/ \E value \in BOOLEAN : SetDisableCharacterConversion(value)
           \/ \E in, out \in Files : SetMarcFileNames(in, out)
           \/ \E x \in Records : SetMarcRecord(x)
    PROVE  ReturnsInv'
<1>1. pc = "idle" /\ pc' = "idle" /\ UNCHANGED <<result, loaded, appRecord, files, asked, input, failed>>
  BY DEF SetIniFileName, SetConfigOverrides, SetDisableCharacterConversion,
     SetMarcFileNames, SetMarcRecord, Call, application, disk, history
<1>2. Source' = Source /\ Ended' = Ended
  BY <1>1 DEF Source, Ended
<1> QED BY <1>1, <1>2 DEF ReturnsInv, FromFile, InMemory, ComesBack, Done

LEMMA ReturnsConvert == Inv /\ ReturnsInv /\ Convert => ReturnsInv'
<1> SUFFICES ASSUME Inv, ReturnsInv, Convert PROVE ReturnsInv'
  OBVIOUS
<1>1. asked' = record /\ record' = record /\ input' = None
  BY DEF Convert, usemarcon
<1>2. CASE pc' = "initialize"
  BY <1>1, <1>2 DEF ReturnsInv, FromFile, InMemory, Ended
<1>3. CASE pc' = "open_in" /\ appRecord' = IF record = None THEN <<>> ELSE record
  <2>1. appRecord' # None
    <3>1. <<>> \in Seq(Item)
      OBVIOUS
    <3> QED BY <1>3, <3>1, NoneAssumption
  <2> QED BY <1>1, <1>3, <2>1 DEF ReturnsInv, InMemory, Ended
<1> QED BY <1>2, <1>3 DEF Convert

LEMMA ReturnsInitialize == Inv /\ ReturnsInv /\ Initialize => ReturnsInv'
<1> SUFFICES ASSUME Inv, ReturnsInv, Initialize PROVE ReturnsInv'
  OBVIOUS
<1>1. /\ asked = record /\ asked' = asked /\ record' = record /\ input' = input /\ input = None
      /\ pc' = "idle" \/ pc' = "open_in"
  BY DEF Initialize, ReturnsInv, Return, history
<1>2. CASE pc' = "idle"
  BY <1>1, <1>2 DEF ReturnsInv, FromFile, InMemory, Ended
<1>3. CASE pc' = "open_in"
  <2>1. appRecord' = IF record \in {None, <<>>} THEN None ELSE record
    BY <1>3 DEF Initialize, Return
  <2> QED BY <1>1, <1>3, <2>1 DEF ReturnsInv, FromFile, InMemory, Ended
<1> QED BY <1>1, <1>2, <1>3

LEMMA ReturnsOpenInput == Inv /\ ReturnsInv /\ OpenInput => ReturnsInv'
<1> SUFFICES ASSUME Inv, ReturnsInv, OpenInput PROVE ReturnsInv'
  OBVIOUS
<1>1. pc = "open_in" /\ UNCHANGED <<record, asked, loaded, appRecord, files>> /\ asked' = record'
  BY DEF OpenInput, disk, ReturnsInv
<1>2. CASE pc' = "finish"
  <2>1. result' = -1
    BY <1>2 DEF OpenInput
  <2> QED BY <1>1, <1>2, <2>1 DEF ReturnsInv, FromFile, InMemory, Ended
<1>3. CASE pc' = "open_out"
  <2>1. /\ rest' = IF appRecord # None THEN appRecord ELSE files[loaded.in]
        /\ input' = rest' /\ (appRecord = None => files[loaded.in] # None)
    BY <1>3 DEF OpenInput
  <2>2. CASE appRecord = None
    <3>1. loaded.in \in Files
      BY <1>1, <2>2 DEF Inv, OpenInv, Running
    <3>2. input' \in Seq(Item)
      BY <2>1, <2>2, <3>1 DEF Inv, TypeOK
    <3> QED BY <1>1, <1>3, <2>1, <2>2, <3>2 DEF ReturnsInv, FromFile, Ended
  <2>3. CASE appRecord # None
    BY <1>1, <1>3, <2>1, <2>3 DEF ReturnsInv, InMemory, Ended
  <2> QED BY <2>2, <2>3
<1> QED BY <1>2, <1>3 DEF OpenInput

LEMMA ReturnsOpenOutput == Inv /\ ReturnsInv /\ OpenOutput => ReturnsInv'
<1> SUFFICES ASSUME Inv, ReturnsInv, OpenOutput PROVE ReturnsInv'
  OBVIOUS
<1>1. /\ pc = "open_out" /\ (pc' = "read" \/ (pc' = "finish" /\ result' = -1))
      /\ UNCHANGED <<record, asked, loaded, appRecord, input>> /\ asked' = record'
  BY DEF OpenOutput, ReturnsInv
<1>2. CASE pc' = "finish"
  BY <1>1, <1>2 DEF ReturnsInv, FromFile, InMemory, Ended
<1>3. CASE pc' = "read" /\ appRecord = None
  <2>1. loaded.out \in Files /\ input \in Seq(Item) /\ rest = input
    BY <1>1, <1>3 DEF ReturnsInv, FromFile, Running, Inv, OpenInv
  <2>2. files' = [files EXCEPT ![loaded.out] = <<>>]
    BY <1>3 DEF OpenOutput
  <2>3. files'[loaded.out] = <<>> /\ rest' = Source
    <3>1. rest' = IF loaded.in = loaded.out THEN <<>> ELSE rest
      BY <1>3 DEF OpenOutput
    <3> QED BY <2>1, <2>2, <3>1 DEF Source, Inv, TypeOK
  <2>4. Source' = Source /\ Source \in Seq(Item) /\ Len(Source) \in Nat
    BY <1>1, <2>1, SourceTypes DEF Source
  <2>5. Done(Source, files'[loaded.out], 0)
    BY <2>3 DEF Done
  <2>6. Todo(Source, rest', 0)
    <3>1. DOMAIN rest' = 1 .. Len(Source) - 0 /\ \A k \in DOMAIN rest' : rest'[k].rec = Source[0 + k].rec
      BY <2>3, <2>4
    <3> QED BY <3>1 DEF Todo
  <2>7. FromFile'
    BY <1>1, <1>3, <2>1, <2>4, <2>5, <2>6 DEF FromFile, Ended, Done, Todo
  <2> QED BY <1>1, <1>3, <2>7 DEF ReturnsInv
<1>4. CASE pc' = "read" /\ appRecord # None
  <2>1. rest' = rest
    BY <1>4 DEF OpenOutput
  <2> QED BY <1>1, <1>4, <2>1 DEF ReturnsInv, InMemory, Ended
<1> QED BY <1>1, <1>2, <1>3, <1>4

LEMMA ReturnsRead == Inv /\ ReturnsInv /\ ReadAndConvert => ReturnsInv'
<1> SUFFICES ASSUME Inv, ReturnsInv, ReadAndConvert PROVE ReturnsInv'
  OBVIOUS
<1>1. /\ pc = "read"
      /\ UNCHANGED <<record, asked, loaded, appRecord, files, input>> /\ asked' = record'
  BY DEF ReadAndConvert, usemarcon, disk, ReturnsInv
<1> DEFINE Over == /\ rest' = rest /\ pc' = "end" /\ failed' = failed
                   /\ rest = <<>> \/ Head(rest).rec \in Unreadable
           More == /\ rest # <<>> /\ Head(rest).rec \notin Unreadable /\ failed' = failed
                   /\ item'.rec = Head(rest).rec /\ rest' = Tail(rest) /\ pc' = "write"
           Fails == appRecord = None /\ failed' /\ pc' = "end"
<1>2. Over \/ More \/ Fails
  BY DEF ReadAndConvert, Fault
<1>3. rest \in Seq(Item)
  BY DEF Inv, TypeOK
<1>4. CASE appRecord = None /\ failed'
  BY <1>1, <1>2, <1>4 DEF ReturnsInv, FromFile
<1>5. CASE appRecord = None /\ ~failed'
  <2>0. ~failed
    BY <1>2, <1>5
  <2>1. input \in Seq(Item) /\ Source \in Seq(Item) /\ Len(Source) \in Nat /\ Source' = Source
    BY <1>1, <1>5, SourceTypes DEF ReturnsInv, FromFile, Source
  <2>2. PICK n \in 0 .. Len(Source) : Done(Source, files[loaded.out], n) /\ Todo(Source, rest, n)
    BY <1>1, <1>5, <2>0 DEF ReturnsInv, FromFile
  <2>3. /\ rest = <<>> <=> n = Len(Source)
        /\ rest # <<>> => /\ Head(rest).rec = Source[n + 1].rec /\ n + 1 \in 1 .. Len(Source)
                          /\ Todo(Source, Tail(rest), n + 1)
    BY <1>3, <2>1, <2>2, TodoStep
  <2>4. Done(Source, files[loaded.out], n)'
    BY <1>1, <2>1, <2>2 DEF Done
  <2>5. CASE Over
    <3>1. n = Len(Source) \/ Source[n + 1].rec \in Unreadable
      BY <2>3, <2>5
    <3>2. FromFile'
      BY <1>1, <2>1, <2>2, <2>4, <2>5, <3>1 DEF FromFile
    <3> QED BY <1>1, <1>5, <2>5, <3>2 DEF ReturnsInv
  <2>6. CASE More
    <3>1. n \in 0 .. Len(Source) - 1
      BY <2>1, <2>3, <2>6
    <3>2. Todo(Source, rest', n + 1) /\ item'.rec = Source[n + 1].rec /\ item'.rec \notin Unreadable
      BY <2>3, <2>6
    <3>3. Todo(Source, rest, n + 1)'
      BY <1>1, <2>1, <3>2 DEF Todo
    <3>4. FromFile'
      BY <1>1, <2>1, <2>4, <2>6, <3>1, <3>2, <3>3 DEF FromFile, Ended
    <3> QED BY <1>1, <1>5, <2>6, <3>4 DEF ReturnsInv
  <2> QED BY <1>2, <1>5, <2>5, <2>6
<1>6. CASE appRecord # None
  <2>1. /\ pc' \in {"end", "write"}
        /\ Over \/ More
    BY <1>2, <1>6
  <2>2. ASSUME asked \notin {None, <<>>} PROVE InMemory'
    <3>1. rest = asked /\ asked \in Seq(Item) /\ Len(asked) <= 1
      BY <1>1, <1>6, <2>2 DEF ReturnsInv, InMemory, Inv, TypeOK, IsBuffer
    <3>2. Head(rest) = asked[1] /\ rest # <<>>
      BY <2>2, <3>1
    <3> QED BY <1>1, <2>1, <3>2 DEF InMemory, Ended
  <2>3. InMemory'
    BY <1>1, <2>2 DEF InMemory
  <2> QED BY <1>1, <1>6, <2>1, <2>3 DEF ReturnsInv
<1> QED BY <1>4, <1>5, <1>6

LEMMA ReturnsWrite == Inv /\ ReturnsInv /\ Write => ReturnsInv'
<1> SUFFICES ASSUME Inv, ReturnsInv, Write PROVE ReturnsInv'
  OBVIOUS
<1>1. /\ pc = "write" /\ UNCHANGED <<record, asked, loaded, rest, input>> /\ asked' = record'
  BY DEF Write, ReturnsInv
<1>2. item \in Item /\ item.by = WayNow /\ WayNow \in Way
  BY <1>1 DEF Inv, LoadedInv, TypeOK, WayNow, Way, Settings, Running
<1>3. \/ pc' = "finish" /\ result' = -1
      \/ pc' = IF appRecord # None THEN "end" ELSE "read"
  BY DEF Write, GoOn
<1>4. CASE appRecord = None /\ failed'
  <2>1. appRecord' = None
    BY <1>4 DEF Write, Written
  <2> QED BY <1>1, <1>3, <1>4, <2>1 DEF ReturnsInv, FromFile
<1>5. CASE appRecord = None /\ ~failed'
  <2>0. appRecord' = None /\ ~failed /\ files' = [files EXCEPT ![loaded.out] = Append(@, item)]
    BY <1>5 DEF Write, Written, Fault
  <2>1. /\ input \in Seq(Item) /\ Source \in Seq(Item) /\ Len(Source) \in Nat /\ Source' = Source
        /\ loaded.out \in Files /\ files[loaded.out] \in Seq(Item)
    BY <1>1, <1>5, SourceTypes DEF ReturnsInv, FromFile, Source, Inv, TypeOK, OpenInv, Running
  <2>2. PICK n \in 0 .. Len(Source) - 1 :
            /\ Done(Source, files[loaded.out], n) /\ Todo(Source, rest, n + 1)
            /\ item.rec = Source[n + 1].rec /\ item.rec \notin Unreadable
    BY <1>1, <1>5, <2>0 DEF ReturnsInv, FromFile
  <2>3. n \in Nat /\ n + 1 \in 0 .. Len(Source)
    BY <2>1, <2>2
  <2> DEFINE out == files[loaded.out]
  <2>4. out \in Seq(Item) /\ DOMAIN out = 1 .. n
    BY <2>1, <2>2 DEF Done
  <2>5. files'[loaded.out] = Append(out, item)
    BY <2>0, <2>1 DEF Inv, TypeOK
  <2>6. Done(Source, files[loaded.out], n + 1)'
    <3>1. /\ DOMAIN Append(out, item) = 1 .. n + 1 /\ Append(out, item)[n + 1] = item
          /\ \A k \in 1 .. n : Append(out, item)[k] = out[k]
      <4> HIDE DEF out
      <4>1. Len(out) = n
        BY <2>3, <2>4
      <4> QED BY <1>2, <2>3, <2>4, <4>1
    <3>2. \A k \in 1 .. n : out[k].rec = Source[k].rec /\ Source[k].rec \notin Unreadable
      BY <2>2 DEF Done
    <3>3. ASSUME NEW k \in 1 .. n + 1
          PROVE  Append(out, item)[k].rec = Source[k].rec /\ Source[k].rec \notin Unreadable
      <4> HIDE DEF out
      <4> QED BY <2>2, <2>3, <3>1, <3>2
    <3> QED BY <1>1, <2>1, <2>5, <3>1, <3>3 DEF Done
  <2>7. Todo(Source, rest, n + 1)'
    BY <1>1, <2>1, <2>2 DEF Todo
  <2>8. FromFile'
    BY <1>1, <1>3, <1>5, <2>1, <2>3, <2>6, <2>7 DEF FromFile, Ended
  <2> QED BY <1>1, <1>3, <1>5, <2>0, <2>8 DEF ReturnsInv
<1>6. CASE appRecord # None
  <2>1. appRecord' = <<item>>
    BY <1>6 DEF Write, Written
  <2>2. appRecord' # None
    <3>1. <<item>> \in Seq(Item)
      BY <1>2
    <3> QED BY <2>1, <3>1, NoneAssumption
  <2>3. item.by # None
    BY <1>2, NoneAssumption
  <2>4. InMemory'
    BY <1>1, <1>3, <1>6, <2>1, <2>3 DEF InMemory, ReturnsInv, ComesBack, Ended
  <2> QED BY <1>1, <1>3, <2>2, <2>4 DEF ReturnsInv
<1> QED BY <1>4, <1>5, <1>6

LEMMA ReturnsEnd == ReturnsInv /\ EndOfInput => ReturnsInv'
<1> SUFFICES ASSUME ReturnsInv, EndOfInput PROVE ReturnsInv'
  OBVIOUS
<1>1. /\ pc = "end" /\ pc' = "finish" /\ asked = record
      /\ UNCHANGED <<record, asked, loaded, appRecord, files, input, failed>>
  BY DEF EndOfInput, application, history, ReturnsInv
<1>2. Source' = Source /\ Ended
  BY <1>1 DEF Source, Ended
<1> QED BY <1>1, <1>2 DEF ReturnsInv, FromFile, InMemory, ComesBack, Done

LEMMA ReturnsFinish == ReturnsInv /\ Finish => ReturnsInv'
<1> SUFFICES ASSUME ReturnsInv, Finish PROVE ReturnsInv'
  OBVIOUS
<1>1. /\ pc = "finish" /\ pc' = "idle"
      /\ UNCHANGED <<result, asked, loaded, appRecord, input>>
      /\ UNCHANGED <<files, failed>> \/ (appRecord = None /\ failed')
  BY DEF Finish, Fault
<1>2. Source' = Source /\ Ended' = Ended
  BY <1>1 DEF Source, Ended
<1> QED BY <1>1, <1>2 DEF ReturnsInv, FromFile, InMemory, ComesBack, Done

\* When Convert() has returned 0, every record in front of the first unreadable one is
\* in the output file, or the record in memory has been replaced by its conversion,
\* for any input, any errors and any history of settings and conversions, unless the
\* input was the output, of which nothing is left, or the system failed to read or
\* write (usemarconlib.cpp:110-158, tmpplctn.cpp:538-670, marcfile.cpp:485-682).
THEOREM AllReturned == Spec => []ReturnsAll
<1>1. Init => ReturnsInv
  BY DEF Init, ReturnsInv, FromFile, InMemory, Ended
<1>2. Inv /\ ReturnsInv /\ [Next]_vars => ReturnsInv'
  <2>1. ReturnsInv /\ UNCHANGED vars => ReturnsInv'
    BY DEF vars, usemarcon, application, disk, history, ReturnsInv, FromFile, InMemory, Done, Todo,
       ComesBack, Source, Ended
  <2> QED
    BY <2>1, ReturnsSetting, ReturnsConvert, ReturnsInitialize, ReturnsOpenInput, ReturnsOpenOutput,
       ReturnsRead, ReturnsWrite, ReturnsEnd, ReturnsFinish DEF Next
<1>3. Inv /\ ReturnsInv => ReturnsAll
  <2> SUFFICES ASSUME Inv, ReturnsInv, pc = "idle", result = 0, input # None PROVE ReturnsAll
    BY DEF ReturnsAll
  <2>1. CASE appRecord = None /\ ~failed
    <3>1. input \in Seq(Item) /\ Source \in Seq(Item) /\ Len(Source) \in Nat
      BY SourceTypes DEF Inv, TypeOK
    <3>2. PICK n \in 0 .. Len(Source) : /\ Done(Source, files[loaded.out], n)
                                        /\ n = Len(Source) \/ Source[n + 1].rec \in Unreadable
      BY <2>1 DEF ReturnsInv, FromFile, Ended
    <3>3. Readable(Source) = 1 .. n
      BY <3>1, <3>2, ReadableEnd DEF Done
    <3> QED BY <2>1, <3>2, <3>3 DEF ReturnsAll, FileReturned, Source, Done
  <2>2. CASE appRecord = None /\ failed
    BY <2>2 DEF ReturnsAll
  <2>3. CASE appRecord # None
    BY <2>3 DEF ReturnsAll, ReturnsInv, InMemory, ComesBack, Ended
  <2> QED BY <2>1, <2>2, <2>3
<1> QED
  BY Invariance, <1>1, <1>2, <1>3, PTL DEF Spec
=============================================================================
