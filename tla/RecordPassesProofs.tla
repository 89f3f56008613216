------------------------- MODULE RecordPassesProofs -------------------------
(***************************************************************************)
(* Proofs about RecordPasses, for records of every length in every         *)
(* configuration: the type invariant, and that of every subfield and field *)
(* one stays when duplicates are removed.                                  *)
(*                                                                         *)
(* Places in a record come from searches (the first field that ...) and    *)
(* some lists from recursive functions over the fields.  Both are reasoned *)
(* about by the least number with a property, Least, which stands on the   *)
(* well-foundedness of the subsets of a finite set.  What the passes keep  *)
(* is stated of lists and configurations, not of variables, so that its    *)
(* lemmas are about one list before a removal and after it.                *)
(***************************************************************************)
EXTENDS RecordPasses, FiniteSetTheorems, TLAPS

\* No 880 field is put back before there are any to put back.
Unseparated == phase \in {"merge", "convert"} => num = 0 /\ last880 = 0

Types == TypeOK /\ Unseparated

-----------------------------------------------------------------------------
(* What stays, of subfields ss and fields bs, in a configuration c         *)

FoldsAny(c) == Folds(c.subfields) \/ Folds(c.fields)

\* No text is empty or broken.
Texts(fs) == \A i \in DOMAIN fs : \A k \in DOMAIN fs[i].subs :
                fs[i].subs[k].word \notin {Empty, NotUtf8}

\* No text of bs can be taken for another that it is not.
Tells(c, bs) == FoldsAny(c) => Texts(bs)

\* A text that stands for s: the same, but for what folding ignores.
Stands(c, t, s) ==
    /\ t.code = s.code
    /\ IF FoldsAny(c) THEN t.word = s.word /\ t.script = s.script ELSE t = s
    /\ c.subfields = "smart" /\ c.fields = "leave" => t.caps <= s.caps

Stood(c, ts, ss) ==
    \A k \in DOMAIN ss : \E l \in DOMAIN ts : Stands(c, ts[l], ss[k])

\* The subfields ts are left of ss, in their order.
LeftOf(ts, ss) ==
    \E place \in [DOMAIN ts -> DOMAIN ss] :
        /\ \A j, k \in DOMAIN ts : j < k => place[j] < place[k]
        /\ \A k \in DOMAIN ts : ts[k] = ss[place[k]]

LeftOver(c, bs, f, b) ==
    /\ f.tag = b.tag /\ f.ind = b.ind
    /\ LeftOf(f.subs, b.subs)
    /\ Tells(c, bs) => Stood(c, f.subs, b.subs)

\* Up to the one at n, no subfield at an odd place is like the one behind it.
NoPair(mode, ts, n) ==
    \A k \in DOMAIN ts \ {Len(ts)} :
        k % 2 = 1 /\ k < n => ~AlikeSubfields(mode, ts[k], ts[k + 1])

\* With the subfield at k in process, compared with those before the one at l.
Passed(mode, ts, k, l) ==
    /\ k <= Len(ts)
    /\ NoPair(mode, ts, k)
    /\ l > k + 1 /\ k < Len(ts) => ~AlikeSubfields(mode, ts[k], ts[k + 1])

SubfieldsLeft(c, fs, bs, n, k, l) ==
    /\ c.subfields # "leave"
    /\ Len(fs) = Len(bs)
    /\ \A i \in 1 .. Len(fs) : LeftOver(c, bs, fs[i], bs[i])
    /\ \A i \in 1 .. Len(fs) : i < n => NoPair(c.subfields, fs[i].subs, Len(fs[i].subs))
    /\ n <= Len(fs) => Passed(c.subfields, fs[n].subs, k, l)

SubfieldsInv ==
    phase = "subfields" => SubfieldsLeft(conversion, fields, before, cur, p, q)

\* Keeps, of a configuration.
Kept(c, g, f) ==
    /\ g.tag = f.tag /\ g.ind = f.ind
    /\ Stood(c, g.subs, f.subs)
    /\ c.fields = "smart" /\ c.subfields = "leave" => CapsOf(g) <= CapsOf(f)

FieldsLeft(c, fs, bs) ==
    /\ Tells(c, bs) => \A i \in DOMAIN bs : \E j \in DOMAIN fs : Kept(c, fs[j], bs[i])
    /\ FoldsAny(c) /\ Texts(bs) => Texts(fs)
    /\ c.subfields # "leave" =>
          \A i \in DOMAIN fs : NoPair(c.subfields, fs[i].subs, Len(fs[i].subs))

\* Fields up to the one at n are unlike those of their tag behind them.
NoTwins(mode, fs, n) ==
    \A i, j \in DOMAIN fs :
        i < n /\ i < j /\ (\A k \in i..j : fs[k].tag = fs[i].tag)
          /\ AlikeFields(mode, fs[i], fs[j])
            => mode = "smart" /\ i = 1

\* With the field at n in process, compared with those before the one at l.
Compared(mode, fs, n, l) ==
    /\ NoTwins(mode, fs, n)
    /\ n <= Len(fs) => \A j \in n + 1 .. l - 1 :
          /\ j <= Len(fs) /\ fs[j].tag = fs[n].tag
          /\ ~AlikeFields(mode, fs[n], fs[j])

FieldsInv ==
    /\ phase \in {"fields", "done"} => FieldsLeft(conversion, fields, before)
    /\ phase = "fields" =>
        conversion.fields # "leave" /\ Compared(conversion.fields, fields, cur, q)
    /\ phase = "done" /\ conversion.fields # "leave" =>
        NoTwins(conversion.fields, fields, Len(fields))

GarbledInv == phase = "garbled" =>
    /\ conversion.subfields = "smart"
    /\ \E i \in DOMAIN before : \E j, k \in DOMAIN before[i].subs :
         /\ j < k /\ before[i].subs[j].caps > before[i].subs[k].caps
         /\ AlikeSubfields("smart", before[i].subs[j], before[i].subs[k])

Inv == Types /\ SubfieldsInv /\ FieldsInv /\ GarbledInv
-----------------------------------------------------------------------------
(* Induction, over sets of numbers and functions                           *)

LEMMA Least ==
    ASSUME NEW T, T \subseteq Nat, T # {}
    PROVE  \E n \in T : \A m \in T : n <= m
<1> DEFINE Sets == {1 .. n : n \in T}
<1>1. Sets \subseteq FiniteSubsetsOf(Nat) /\ Sets # {}
  <2>1. \A n \in T : IsFiniteSet(1 .. n)
    BY FS_Interval
  <2>2. \A n \in T : 1 .. n \in SUBSET Nat
    OBVIOUS
  <2> QED
    BY <2>1, <2>2, Zenon DEF FiniteSubsetsOf
<1>2. \E x \in Sets : \A y \in Sets : <<y, x>> \notin StrictSubsetOrdering(Nat)
  BY <1>1, FS_StrictSubsetOrderingWellFounded, WFMin
<1>3. PICK n \in T : \A m \in T : <<1 .. m, 1 .. n>> \notin StrictSubsetOrdering(Nat)
  BY <1>2
<1>4. ASSUME NEW m \in T, m < n PROVE FALSE
  <2>1. 1 .. m \subseteq 1 .. n /\ n \in 1 .. n /\ n \notin 1 .. m
    BY <1>4
  <2>2. <<1 .. m, 1 .. n>> \in StrictSubsetOrdering(Nat)
    BY <2>1 DEF StrictSubsetOrdering
  <2> QED
    BY <1>3, <2>2
<1> QED
  BY <1>3, <1>4

LEMMA LeastIs ==
    ASSUME NEW T, T \subseteq Nat, T # {}
    PROVE  Min(T) \in T /\ \A m \in T : Min(T) <= m
BY Least DEF Min

\* What holds of 0 and of the next number holds of every number.
LEMMA Reaches ==
    ASSUME NEW n \in Nat, NEW f, NEW A, f[0] \in A,
           \A i \in 1 .. n : f[i - 1] \in A => f[i] \in A
    PROVE  \A i \in 0 .. n : f[i] \in A
<1> DEFINE T == {i \in 0 .. n : f[i] \notin A}
<1> SUFFICES ASSUME T # {} PROVE FALSE
  OBVIOUS
<1>0. T \subseteq Nat
  OBVIOUS
<1> HIDE DEF T
<1>1. PICK i \in T : \A m \in T : i <= m
  BY <1>0, Least
<1>2. i \in 1 .. n /\ i - 1 \in 0 .. n /\ i - 1 \notin T
  BY <1>1 DEF T
<1> QED
  BY <1>1, <1>2 DEF T

\* The function a recursive definition over 0 .. n defines is there.
IsFold(f, n, b, step) == f[0] = b /\ \A i \in 1 .. n : f[i] = step[i][f[i - 1]]

LEMMA FoldExists ==
    ASSUME NEW n \in Nat, NEW A, NEW b \in A, NEW step \in [1 .. n -> [A -> A]]
    PROVE  \E f \in [0 .. n -> A] : IsFold(f, n, b, step)
<1> DEFINE Is(f, k) == /\ f[0] = b
                       /\ \A i \in 1 .. k : f[i] = step[i][f[i - 1]]
           T == {k \in 0 .. n : ~ \E f \in [0 .. k -> A] : Is(f, k)}
<1>0. T \subseteq Nat
  OBVIOUS
<1>1. ASSUME NEW k \in T, \A m \in T : k <= m
      PROVE  FALSE
  <2>1. k # 0
    <3> DEFINE f == [i \in 0 .. 0 |-> b]
    <3>1. f \in [0 .. 0 -> A] /\ Is(f, 0)
      OBVIOUS
    <3> QED
      BY <3>1
  <2>2. k \in 1 .. n
    BY <2>1
  <2>3. k - 1 \in 0 .. n /\ ~(k <= k - 1)
    BY <2>2
  <2>4. k - 1 \notin T
    <3> HIDE DEF T
    <3> QED
      BY <1>1, <2>3
  <2>5. PICK f \in [0 .. k - 1 -> A] : Is(f, k - 1)
    BY <2>3, <2>4
  <2> DEFINE g == [i \in 0 .. k |-> IF i = k THEN step[k][f[k - 1]] ELSE f[i]]
  <2>6. f[k - 1] \in A /\ step[k] \in [A -> A]
    BY <2>2
  <2>7. step[k][f[k - 1]] \in A
    BY <2>6
  <2>8. g \in [0 .. k -> A]
    BY <2>2, <2>7
  <2>9. g[0] = b
    BY <2>2, <2>5
  <2>10. ASSUME NEW i \in 1 .. k PROVE g[i] = step[i][g[i - 1]]
    <3>1. g[i - 1] = f[i - 1]
      BY <2>2
    <3>2. CASE i = k
      BY <3>1, <3>2
    <3>3. CASE i # k
      BY <2>5, <3>1, <3>3
    <3> QED
      BY <3>2, <3>3
  <2>11. \E f1 \in [0 .. k -> A] : Is(f1, k)
    <3>1. Is(g, k)
      BY <2>9, <2>10
    <3> HIDE DEF Is, g
    <3> QED
      BY <2>8, <3>1
  <2> QED
    BY <2>11
<1>2. T = {}
  <2> HIDE DEF T
  <2> QED
    BY <1>0, <1>1, Least
<1>3. \E f \in [0 .. n -> A] : Is(f, n)
  BY SMTT(30), <1>2
<1> QED
  BY <1>3 DEF IsFold

-----------------------------------------------------------------------------
(* Lists                                                                   *)

LEMMA Cut ==
    ASSUME NEW S, NEW s \in Seq(S), NEW i \in 1 .. Len(s) + 1, NEW j \in i - 1 .. Len(s)
    PROVE  /\ SubSeq(s, i, j) \in Seq(S) /\ Len(SubSeq(s, i, j)) = j - i + 1
           /\ \A k \in 1 .. j - i + 1 : SubSeq(s, i, j)[k] = s[i + k - 1]
OBVIOUS

LEMMA Joined ==
    ASSUME NEW S, NEW s \in Seq(S), NEW t \in Seq(S)
    PROVE  /\ s \o t \in Seq(S) /\ Len(s \o t) = Len(s) + Len(t)
           /\ \A k \in 1 .. Len(s) + Len(t) : (s \o t)[k] = IF k <= Len(s) THEN s[k] ELSE t[k - Len(s)]
OBVIOUS

LEMMA Single ==
    ASSUME NEW S, NEW e \in S
    PROVE  <<e>> \in Seq(S) /\ Len(<<e>>) = 1 /\ <<e>>[1] = e
OBVIOUS

LEMMA Removed ==
    ASSUME NEW S, NEW s \in Seq(S), NEW i \in 1 .. Len(s)
    PROVE  /\ RemoveAt(s, i) \in Seq(S) /\ Len(RemoveAt(s, i)) = Len(s) - 1
           /\ \A j \in 1 .. Len(s) - 1 : RemoveAt(s, i)[j] = IF j < i THEN s[j] ELSE s[j + 1]
<1> DEFINE a == SubSeq(s, 1, i - 1)
           b == SubSeq(s, i + 1, Len(s))
<1>0. Len(s) \in Nat
  OBVIOUS
<1>1. a \in Seq(S) /\ Len(a) = i - 1 /\ \A k \in 1 .. i - 1 : a[k] = s[k]
  <2>1. 1 \in 1 .. Len(s) + 1 /\ i - 1 \in 1 - 1 .. Len(s) /\ i - 1 - 1 + 1 = i - 1
        /\ \A k \in 1 .. i - 1 : 1 + k - 1 = k
    BY <1>0
  <2> QED
    BY <2>1, Cut
<1>2. b \in Seq(S) /\ Len(b) = Len(s) - i /\ \A k \in 1 .. Len(s) - i : b[k] = s[i + k]
  <2>1. PICK f \in 1 .. Len(s) + 1 : f = i + 1
    BY <1>0
  <2>2. Len(s) \in f - 1 .. Len(s)
    BY <1>0, <2>1
  <2>3. /\ SubSeq(s, f, Len(s)) \in Seq(S) /\ Len(SubSeq(s, f, Len(s))) = Len(s) - f + 1
        /\ \A k \in 1 .. Len(s) - f + 1 : SubSeq(s, f, Len(s))[k] = s[f + k - 1]
    BY <2>2, Cut
  <2>4. Len(s) - f + 1 = Len(s) - i /\ \A k \in 1 .. Len(s) - i : f + k - 1 = i + k
    BY <1>0, <2>1
  <2> QED
    BY <2>1, <2>3, <2>4
<1>3. RemoveAt(s, i) = a \o b
  BY DEF RemoveAt
<1> HIDE DEF a, b
<1>4. /\ a \o b \in Seq(S) /\ Len(a \o b) = Len(a) + Len(b)
      /\ \A k \in 1 .. Len(a) + Len(b) : (a \o b)[k] = IF k <= Len(a) THEN a[k] ELSE b[k - Len(a)]
  BY <1>1, <1>2, Joined
<1>5. \A j \in 1 .. Len(s) - 1 : (a \o b)[j] = IF j < i THEN s[j] ELSE s[j + 1]
  <2> TAKE j \in 1 .. Len(s) - 1
  <2>1. CASE j < i
    BY <1>0, <1>1, <1>2, <1>4, <2>1
  <2>2. CASE j >= i
    <3>1. PICK k \in 1 .. Len(s) - i : k = j - (i - 1)
      BY <1>0, <2>2
    <3>2. b[k] = s[i + k] /\ i + k = j + 1 /\ ~(j <= i - 1) /\ ~(j < i)
      BY <1>0, <1>2, <2>2, <3>1
    <3>3. (a \o b)[j] = b[k]
      BY <1>0, <1>1, <1>2, <1>4, <3>1, <3>2
    <3> QED
      BY <3>2, <3>3
  <2>3. j < i \/ j >= i
    BY <1>0
  <2> QED
    BY <2>1, <2>2, <2>3
<1>6. Len(a \o b) = Len(s) - 1
  BY ONLY <1>0, <1>1, <1>2, <1>4, i \in 1 .. Len(s)
<1> QED
  BY <1>3, <1>4, <1>5, <1>6

LEMMA Inserted ==
    ASSUME NEW S, NEW s \in Seq(S), NEW i \in 1 .. Len(s) + 1, NEW e \in S
    PROVE  /\ InsertAt(s, i, e) \in Seq(S) /\ Len(InsertAt(s, i, e)) = Len(s) + 1
           /\ \A j \in 1 .. Len(s) + 1 : InsertAt(s, i, e)[j] =
                  IF j < i THEN s[j] ELSE IF j = i THEN e ELSE s[j - 1]
<1> DEFINE a == SubSeq(s, 1, i - 1)
           b == SubSeq(s, i, Len(s))
<1>0. Len(s) \in Nat
  OBVIOUS
<1>1. a \in Seq(S) /\ Len(a) = i - 1 /\ \A k \in 1 .. i - 1 : a[k] = s[k]
  <2>1. 1 \in 1 .. Len(s) + 1 /\ i - 1 \in 1 - 1 .. Len(s) /\ i - 1 - 1 + 1 = i - 1
        /\ \A k \in 1 .. i - 1 : 1 + k - 1 = k
    BY <1>0
  <2> QED
    BY <2>1, Cut
<1>2. b \in Seq(S) /\ Len(b) = Len(s) - i + 1 /\ \A k \in 1 .. Len(s) - i + 1 : b[k] = s[i + k - 1]
  <2>1. Len(s) \in i - 1 .. Len(s)
    BY <1>0
  <2> QED
    BY <2>1, Cut
<1>3. InsertAt(s, i, e) = (a \o <<e>>) \o b
  BY DEF InsertAt
<1> DEFINE c == a \o <<e>>
<1> HIDE DEF a, b
<1>4. c \in Seq(S) /\ Len(c) = i /\ \A k \in 1 .. i : c[k] = IF k < i THEN s[k] ELSE e
  <2>1. PICK t \in Seq(S) : t = <<e>> /\ Len(t) = 1 /\ t[1] = e
    BY Single
  <2>2. /\ a \o t \in Seq(S) /\ Len(a \o t) = Len(a) + Len(t)
        /\ \A k \in 1 .. Len(a) + Len(t) : (a \o t)[k] = IF k <= Len(a) THEN a[k] ELSE t[k - Len(a)]
    BY <1>1, Joined
  <2>c. c = a \o t
    BY <2>1
  <2> HIDE DEF c
  <2>3. Len(a) = i - 1 /\ Len(a) + 1 = i
    BY <1>0, <1>1
  <2>4. ASSUME NEW k \in 1 .. i PROVE c[k] = IF k < i THEN s[k] ELSE e
    <3>1. CASE k < i
      BY <1>0, <1>1, <2>1, <2>2, <2>3, <2>c, <3>1
    <3>2. CASE k = i
      <4>1. k - Len(a) = 1 /\ ~(k <= Len(a)) /\ ~(k < i)
        BY <1>0, <2>3, <3>2
      <4> QED
        BY <1>0, <2>1, <2>2, <2>3, <2>c, <4>1
    <3>3. k < i \/ k = i
      BY <1>0
    <3> QED
      BY <3>1, <3>2, <3>3
  <2> QED
    BY <2>1, <2>2, <2>3, <2>4, <2>c
<1> HIDE DEF c
<1>5. /\ c \o b \in Seq(S) /\ Len(c \o b) = Len(c) + Len(b)
      /\ \A k \in 1 .. Len(c) + Len(b) : (c \o b)[k] = IF k <= Len(c) THEN c[k] ELSE b[k - Len(c)]
  BY <1>2, <1>4, Joined
<1>6. \A j \in 1 .. Len(s) + 1 : (c \o b)[j] = IF j < i THEN s[j] ELSE IF j = i THEN e ELSE s[j - 1]
  <2> TAKE j \in 1 .. Len(s) + 1
  <2>1. CASE j <= i
    BY <1>0, <1>2, <1>4, <1>5, <2>1
  <2>2. CASE j > i
    <3>1. PICK k \in 1 .. Len(s) - i + 1 : k = j - i
      BY <1>0, <2>2
    <3>2. b[k] = s[i + k - 1] /\ i + k - 1 = j - 1 /\ ~(j <= i) /\ ~(j < i) /\ j # i
      BY <1>0, <1>2, <2>2, <3>1
    <3>3. (c \o b)[j] = b[k]
      BY <1>0, <1>2, <1>4, <1>5, <3>1, <3>2
    <3> QED
      BY <3>2, <3>3
  <2>3. j <= i \/ j > i
    BY <1>0
  <2> QED
    BY <2>1, <2>2, <2>3
<1>7. Len(c \o b) = Len(s) + 1
  BY <1>0, <1>2, <1>4, <1>5
<1> QED
  BY <1>3, <1>5, <1>6, <1>7 DEF c

LEMMA Replaced ==
    ASSUME NEW S, NEW s \in Seq(S), NEW i \in 1 .. Len(s), NEW e \in S
    PROVE  /\ ReplaceAt(s, i, e) \in Seq(S) /\ Len(ReplaceAt(s, i, e)) = Len(s)
           /\ \A j \in 1 .. Len(s) : ReplaceAt(s, i, e)[j] = IF j = i THEN e ELSE s[j]
BY DEF ReplaceAt

-----------------------------------------------------------------------------
(* Types *)

Filled == {f \in Field : f.subs # <<>>}
Given  == [tag : 0..999, ind : Name, subs : Seq(Sub) \ {<<>>}]

LEMMA Settings ==
    ASSUME conversion \in Conversions
    PROVE  /\ conversion.linked \in BOOLEAN
           /\ conversion.subfields \in Modes /\ conversion.fields \in Modes
           /\ conversion.record \in Seq(Given) /\ conversion.record # <<>>
<1>1. conversion.record \in Seq([tag : 0..999, ind : Name, subs : Seq(Sub) \ {<<>>}])
  BY ConversionsAssumption, ZenonT(60)
<1>2. conversion.record \in Seq(Given)
  BY <1>1, Zenon DEF Given
<1> QED
  BY <1>2, ConversionsAssumption

LEMMA FilledAre ==
    ASSUME NEW fs
    PROVE  fs \in Seq(Filled) <=> fs \in Seq(Field) /\ \A i \in DOMAIN fs : fs[i].subs # <<>>
BY DEF Filled

LEMMA FieldsAre ==
    ASSUME TypeOK
    PROVE  fields \in Seq(Filled) /\ Len(fields) \in Nat /\ DOMAIN fields = 1 .. Len(fields)
BY FilledAre DEF TypeOK

LEMMA SubsAre ==
    ASSUME NEW f \in Filled
    PROVE  /\ f \in Field /\ f.subs \in Seq(Sub) /\ f.lib2 \in Seq(Sub) /\ f.script \in Script
           /\ f.tag \in 0 .. 999 /\ f.ind \in Name /\ f.subs # <<>>
           /\ Len(f.subs) \in Nat /\ Len(f.subs) > 0 /\ DOMAIN f.subs = 1 .. Len(f.subs)
BY DEF Filled, Field

LEMMA LinkPlace ==
    ASSUME NEW f, f.subs \in Seq(Sub), HasLink(f)
    PROVE  /\ LinkAt(f) \in DOMAIN f.subs /\ IsLink(f.subs[LinkAt(f)])
           /\ \A k \in DOMAIN f.subs : IsLink(f.subs[k]) => LinkAt(f) <= k
<1> DEFINE I == {i \in 1 .. Len(f.subs) : IsLink(f.subs[i])}
<1>1. I \subseteq Nat /\ I # {} /\ DOMAIN f.subs = 1 .. Len(f.subs)
  BY DEF HasLink
<1>2. LinkAt(f) = Min(I)
  BY <1>1 DEF LinkAt, SelectInSeq
<1>3. Min(I) \in I /\ \A m \in I : Min(I) <= m
  <2> HIDE DEF I
  <2> QED
    BY <1>1, LeastIs
<1> QED
  BY <1>1, <1>2, <1>3

LEMMA TargetIs ==
    ASSUME NEW fs \in Seq(Filled), NEW f880
    PROVE  TargetOf(fs, f880) # 0 => TargetOf(fs, f880) \in 1 .. Len(fs) /\ HasLink(f880)
<1> SUFFICES ASSUME HasLink(f880), TargetOf(fs, f880) # 0
             PROVE  TargetOf(fs, f880) \in 1 .. Len(fs)
  BY DEF TargetOf
<1> DEFINE I == {i \in 1 .. Len(fs) : /\ fs[i].tag = LinkOf(f880).word[1]
                                      /\ HasLink(fs[i])
                                      /\ LinkOf(fs[i]).word[2] = LinkOf(f880).word[2]}
<1>1. I \subseteq Nat
  OBVIOUS
<1>2. TargetOf(fs, f880) = IF I # {} THEN Min(I) ELSE 0
  BY DEF TargetOf, SelectInSeq
<1>3. I # {} => Min(I) \in I
  <2> HIDE DEF I
  <2> QED
    BY <1>1, LeastIs
<1>4. I \subseteq 1 .. Len(fs)
  OBVIOUS
<1> HIDE DEF I
<1> QED
  BY <1>2, <1>3, <1>4

LEMMA NoScriptIs == NoScript \in Script
<1>1. <<>> \in Seq(Sub)
  OBVIOUS
<1>2. ASSUME NEW e \in Seq(Sub)
      PROVE  [name |-> "", spill |-> e] \in [name : Name, spill : Seq(Sub)]
  BY DEF Name
<1> QED
  BY <1>1, <1>2, Zenon DEF NoScript, Script

LEMMA ScriptIs ==
    ASSUME NEW f \in Filled, HasLink(f)
    PROVE  ScriptOf(f) \in Script
<1>1. f.subs \in Seq(Sub) /\ LinkAt(f) \in 1 .. Len(f.subs)
  BY SubsAre, LinkPlace
<1>2. LinkOf(f) \in Sub
  BY <1>1 DEF LinkOf
<1>3. LinkOf(f).script \in Name
  BY <1>2 DEF Sub
<1>4. LinkAt(f) # Len(f.subs) => f.subs[LinkAt(f) + 1] \in Sub
  <2>1. LinkAt(f) # Len(f.subs) => LinkAt(f) + 1 \in 1 .. Len(f.subs)
    BY <1>1
  <2> QED
    BY <1>1, <2>1
<1>5. ScriptOf(f).spill \in Seq(Sub)
  <2> DEFINE none == LinkOf(f).script # "" \/ LinkAt(f) = Len(f.subs)
             next == f.subs[LinkAt(f) + 1]
  <2>1. ScriptOf(f).spill = IF none THEN <<>> ELSE <<next>>
    BY DEF ScriptOf
  <2>2. ~none => next \in Sub
    BY <1>4
  <2>3. <<>> \in Seq(Sub)
    OBVIOUS
  <2> HIDE DEF none, next
  <2>4. ~none => <<next>> \in Seq(Sub)
    BY <2>2, Single
  <2> QED
    BY <2>1, <2>3, <2>4, Zenon
<1> QED
  BY <1>3, <1>5 DEF ScriptOf, Script

LEMMA WithLinked ==
    ASSUME NEW g \in Filled, NEW subs \in Seq(Sub), NEW script \in Script
    PROVE  [g EXCEPT !.lib2 = subs, !.script = script] \in Filled
<1>1. g \in Field /\ g.subs # <<>>
  BY DEF Filled
<1> DEFINE new == [g EXCEPT !.lib2 = subs, !.script = script]
<1>2. new \in Field /\ new.subs = g.subs
  BY ZenonT(60), <1>1 DEF Field
<1> QED
  BY <1>1, <1>2 DEF Filled

LEMMA MergedIs ==
    ASSUME NEW fs \in Seq(Filled), NEW f \in Filled
    PROVE  Merged(fs, f) \in Seq(Filled) /\ Len(Merged(fs, f)) = Len(fs)
<1>0. CASE TargetOf(fs, f) = 0
  BY <1>0 DEF Merged
<1>t. CASE TargetOf(fs, f) # 0
  <2>1. PICK t \in 1 .. Len(fs) : t = TargetOf(fs, f) /\ HasLink(f)
    BY <1>t, TargetIs
  <2>2. fs[t] \in Filled /\ fs \in [1 .. Len(fs) -> Filled]
    OBVIOUS
  <2>3. f.subs \in Seq(Sub) /\ ScriptOf(f) \in Script /\ fs[t].script \in Script
    BY <2>1, <2>2, SubsAre, ScriptIs
  <2>4. PICK script \in Script : script = FirstScript(fs[t].script, ScriptOf(f))
    BY <2>3 DEF FirstScript
  <2>5. PICK new \in Filled : new = [fs[t] EXCEPT !.lib2 = f.subs, !.script = script]
    BY <2>2, <2>3, WithLinked
  <2>6. Merged(fs, f) = [fs EXCEPT ![t] = [fs[t] EXCEPT !.lib2 = f.subs, !.script = script]]
    <3>1. fs[t] = [tag |-> fs[t].tag, ind |-> fs[t].ind, subs |-> fs[t].subs,
                   lib2 |-> fs[t].lib2, script |-> fs[t].script]
      BY <2>2 DEF Filled, Field
    <3>2. Merged(fs, f) = [fs EXCEPT ![t].lib2 = f.subs,
                                     ![t].script = FirstScript(@, ScriptOf(f))]
      BY <1>t, <2>1 DEF Merged
    <3> QED
      BY <2>2, <2>4, <3>1, <3>2
  <2>7. Merged(fs, f) = [fs EXCEPT ![t] = new]
    BY <2>5, <2>6
  <2> QED
    BY <2>1, <2>7
<1> QED
  BY <1>0, <1>t

\* ToCD and FromCD.
LEMMA PairedIs ==
    ASSUME NEW f \in Filled
    PROVE  Paired(f) \in Seq(Sub)
<1> DEFINE n == IF Len(f.lib2) < Len(f.subs) THEN Len(f.lib2) ELSE Len(f.subs)
           A == Seq(Sub)
           Pair(k) == IF f.lib2[k].word = Empty THEN <<>>
                      ELSE <<[f.lib2[k] EXCEPT !.code = f.subs[k].code]>>
           Step(v, k) == v \o Pair(k)
           step == [k \in 1 .. n |-> [v \in A |-> Step(v, k)]]
           R(g) == g = [k \in 0 .. n |-> IF k = 0 THEN <<>> ELSE Step(g[k - 1], k)]
<1>0. /\ n \in Nat /\ <<>> \in A
      /\ f.subs \in Seq(Sub) /\ f.lib2 \in Seq(Sub)
      /\ n <= Len(f.subs) /\ n <= Len(f.lib2)
  BY SubsAre
<1>1. Paired(f) = (CHOOSE g : R(g))[n]
  BY DEF Paired
<1>2. ASSUME NEW k \in 1 .. n, NEW v \in A
      PROVE  Step(v, k) \in A
  <2>1. f.lib2[k] \in Sub /\ f.subs[k] \in Sub
    BY <1>0
  <2>2. [f.lib2[k] EXCEPT !.code = f.subs[k].code] \in Sub
    BY <2>1 DEF Sub
  <2>3. Pair(k) \in Seq(Sub)
    BY <1>0, <2>2, Single
  <2> HIDE DEF Pair
  <2> QED
    BY <2>3, Joined
<1> HIDE DEF n, A, Step
<1>3. step \in [1 .. n -> [A -> A]]
  BY <1>2
<1>4. PICK g \in [0 .. n -> A] : IsFold(g, n, <<>>, step)
  <2> HIDE DEF step
  <2> QED
    BY <1>0, <1>3, FoldExists, Zenon
<1>5. R(g)
  <2>1. ASSUME NEW k \in 1 .. n PROVE g[k] = Step(g[k - 1], k)
    <3>1. g[k - 1] \in A
      BY <1>0
    <3>2. g[k] = step[k][g[k - 1]]
      BY <1>4 DEF IsFold
    <3> QED
      BY <3>1, <3>2
  <2>2. \A k \in 0 .. n : g[k] = IF k = 0 THEN <<>> ELSE Step(g[k - 1], k)
    BY <1>0, <1>4, <2>1 DEF IsFold
  <2> QED
    BY <2>2
<1> DEFINE h == CHOOSE h : R(h)
<1>6. R(h)
  BY <1>5
<1> HIDE DEF h
<1>7. h[0] = <<>> /\ \A k \in 1 .. n : h[k] = Step(h[k - 1], k)
  BY <1>0, <1>6
<1>8. \A k \in 0 .. n : h[k] \in A
  <2>1. \A k \in 1 .. n : h[k - 1] \in A => h[k] \in A
    BY <1>2, <1>7
  <2>2. h[0] \in A
    BY <1>0, <1>7
  <2> QED
    BY <1>0, <2>1, <2>2, Reaches, Zenon
<1> QED
  BY <1>0, <1>1, <1>8 DEF A, h

LEMMA ScriptUpToIs ==
    ASSUME NEW fs \in Seq(Filled), NEW i \in 1 .. Len(fs)
    PROVE  ScriptUpTo(fs, i) \in Script
<1> DEFINE I == {k \in 1 .. i : fs[k].script # NoScript}
<1>1. ScriptUpTo(fs, i) = LET k == IF I # {} THEN Min(I) ELSE 0
                          IN  IF k = 0 THEN NoScript ELSE fs[k].script
  BY DEF ScriptUpTo, SelectInSubSeq
<1>2. I \subseteq Nat /\ I \subseteq 1 .. Len(fs)
  OBVIOUS
<1> HIDE DEF I
<1>3. I # {} => Min(I) \in 1 .. Len(fs)
  BY <1>2, LeastIs
<1>4. \A k \in 1 .. Len(fs) : fs[k].script \in Script
  BY SubsAre
<1> QED
  BY <1>1, <1>3, <1>4, NoScriptIs

LEMMA CarriedIs ==
    ASSUME NEW fs \in Seq(Filled)
    PROVE  Carried(fs) \in Seq(Filled)
<1>1. ASSUME NEW i \in 1 .. Len(fs)
      PROVE  [fs[i] EXCEPT !.lib2 = Paired(fs[i]), !.script = ScriptUpTo(fs, i)] \in Filled
  <2>1. fs[i] \in Filled
    OBVIOUS
  <2> QED
    BY <2>1, PairedIs, ScriptUpToIs, WithLinked
<1>2. DOMAIN fs = 1 .. Len(fs) /\ Len(fs) \in Nat
  OBVIOUS
<1>3. Carried(fs) \in [1 .. Len(fs) -> Filled]
  BY <1>1, <1>2 DEF Carried
<1> QED
  BY <1>2, <1>3

LEMMA PlacedIs ==
    ASSUME NEW sorted \in Seq(Filled), NEW f \in Filled
    PROVE  Placed(sorted, f) \in Seq(Filled)
<1> DEFINE I == {k \in 1 .. Len(sorted) : sorted[k].tag > f.tag}
           place == LET k == IF I # {} THEN Min(I) ELSE 0
                    IN  IF k = 0 THEN Len(sorted) + 1 ELSE k
<1>1. Placed(sorted, f) = InsertAt(sorted, place, f)
  BY DEF Placed, SelectInSeq
<1>2. I \subseteq Nat /\ I \subseteq 1 .. Len(sorted) /\ Len(sorted) \in Nat
  OBVIOUS
<1>3. place \in 1 .. Len(sorted) + 1
  <2> HIDE DEF I
  <2>1. I # {} => Min(I) \in 1 .. Len(sorted)
    BY <1>2, LeastIs
  <2> QED
    BY <1>2, <2>1
<1> HIDE DEF place
<1> QED
  BY <1>1, <1>3, Inserted

LEMMA ByTagIs ==
    ASSUME NEW fs \in Seq(Filled)
    PROVE  ByTag(fs) \in Seq(Filled)
<1> DEFINE n == Len(fs)
           A == Seq(Filled)
           Step(v, k) == Placed(v, fs[k])
           step == [k \in 1 .. n |-> [v \in A |-> Step(v, k)]]
           R(g) == g = [k \in 0 .. n |-> IF k = 0 THEN <<>> ELSE Step(g[k - 1], k)]
<1>0. n \in Nat /\ <<>> \in A
  OBVIOUS
<1>1. ByTag(fs) = (CHOOSE g : R(g))[n]
  BY DEF ByTag
<1>2. ASSUME NEW k \in 1 .. n, NEW v \in A
      PROVE  Step(v, k) \in A
  <2>1. fs[k] \in Filled
    OBVIOUS
  <2> QED
    BY <2>1, PlacedIs
<1> HIDE DEF n, A, Step
<1>3. step \in [1 .. n -> [A -> A]]
  BY <1>2
<1>4. PICK g \in [0 .. n -> A] : IsFold(g, n, <<>>, step)
  <2> HIDE DEF step
  <2> QED
    BY <1>0, <1>3, FoldExists, Zenon
<1>5. R(g)
  <2>1. ASSUME NEW k \in 1 .. n PROVE g[k] = Step(g[k - 1], k)
    <3>1. g[k - 1] \in A
      BY <1>0
    <3>2. g[k] = step[k][g[k - 1]]
      BY <1>4 DEF IsFold
    <3> QED
      BY <3>1, <3>2
  <2>2. \A k \in 0 .. n : g[k] = IF k = 0 THEN <<>> ELSE Step(g[k - 1], k)
    BY <1>0, <1>4, <2>1 DEF IsFold
  <2> QED
    BY <2>2
<1> DEFINE h == CHOOSE h : R(h)
<1>6. R(h)
  BY <1>5
<1> HIDE DEF h
<1>7. h[0] = <<>> /\ \A k \in 1 .. n : h[k] = Step(h[k - 1], k)
  BY <1>0, <1>6
<1>8. \A k \in 0 .. n : h[k] \in A
  <2>1. \A k \in 1 .. n : h[k - 1] \in A => h[k] \in A
    BY <1>2, <1>7
  <2>2. h[0] \in A
    BY <1>0, <1>7
  <2> QED
    BY <1>0, <2>1, <2>2, Reaches, Zenon
<1> QED
  BY <1>0, <1>1, <1>8 DEF A, h

\* SeparateLinkedFields: in what WithLink returns the link is the first one.
LEMMA LinkIs ==
    ASSUME NEW tag \in Nat, NEW n \in Nat, NEW script \in Script
    PROVE  /\ Link(tag, n, script) \in Seq(Sub) /\ Len(Link(tag, n, script)) >= 1
           /\ IsLink(Link(tag, n, script)[1]) /\ Link(tag, n, script)[1].word[2] = n
<1> DEFINE first == [code |-> "6", word |-> <<tag, n>>, caps |-> 0, script |-> script.name]
<1>1. script.name \in Name /\ script.spill \in Seq(Sub)
  BY DEF Script
<1>2. first \in Sub /\ first.code = "6" /\ first.word = <<tag, n>>
  <2>1. <<tag, n>> \in Seq(Nat) /\ "6" \in Name
    BY DEF Name
  <2> QED
    BY <1>1, <2>1 DEF Sub
<1>3. IsLink(first) /\ first.word[2] = n
  BY <1>2 DEF IsLink
<1>4. Link(tag, n, script) = <<first>> \o script.spill
  BY DEF Link
<1> HIDE DEF first
<1>5. PICK s \in Seq(Sub) : s = <<first>> /\ Len(s) = 1 /\ s[1] = first
  BY <1>2, Single
<1>6. /\ s \o script.spill \in Seq(Sub) /\ Len(s \o script.spill) = 1 + Len(script.spill)
      /\ (s \o script.spill)[1] = first
  <2>1. Len(script.spill) \in Nat /\ 1 \in 1 .. 1 + Len(script.spill)
    BY <1>1
  <2> QED
    BY <1>1, <1>5, <2>1, Joined
<1>7. Len(script.spill) \in Nat
  BY <1>1
<1> QED
  BY <1>3, <1>4, <1>5, <1>6, <1>7

LEMMA WithLinkIs ==
    ASSUME NEW subs \in Seq(Sub), subs # <<>>, NEW tag \in Nat, NEW n \in Nat, NEW script \in Script,
           NEW g, g.subs = WithLink(subs, Link(tag, n, script))
    PROVE  /\ g.subs \in Seq(Sub) /\ g.subs # <<>>
           /\ HasLink(g) /\ LinkOf(g).word[2] = n
<1> DEFINE link == Link(tag, n, script)
           I == {i \in 1 .. Len(Front(subs)) : Front(subs)[i].code = "6"}
           k == IF I # {} THEN Min(I) ELSE 0
<1>0. Len(subs) \in Nat /\ Len(subs) >= 1
  OBVIOUS
<1>1. Front(subs) \in Seq(Sub) /\ Len(Front(subs)) = Len(subs) - 1 /\ \A i \in 1 .. Len(subs) - 1 : Front(subs)[i] = subs[i]
  <2>1. 1 \in 1 .. Len(subs) + 1 /\ Len(subs) - 1 \in 1 - 1 .. Len(subs) /\ Len(subs) - 1 - 1 + 1 = Len(subs) - 1
        /\ \A i \in 1 .. Len(subs) - 1 : 1 + i - 1 = i
    BY <1>0
  <2> QED
    BY <2>1, Cut DEF Front
<1>2. g.subs = IF k = 0 THEN link \o subs
               ELSE SubSeq(subs, 1, k - 1) \o link \o SubSeq(subs, k + 1, Len(subs))
  BY DEF WithLink, SelectInSeq
<1>3. /\ link \in Seq(Sub) /\ Len(link) >= 1 /\ Len(link) \in Nat
      /\ IsLink(link[1]) /\ link[1].word[2] = n /\ link[1] \in Sub
  <2>1. link \in Seq(Sub) /\ Len(link) >= 1 /\ IsLink(link[1]) /\ link[1].word[2] = n
    BY LinkIs
  <2> HIDE DEF link
  <2>2. Len(link) \in Nat /\ 1 \in 1 .. Len(link)
    BY <2>1
  <2> QED
    BY <2>1, <2>2
<1>4. k # 0 => k \in 1 .. Len(subs) - 1 /\ \A j \in 1 .. k - 1 : subs[j].code # "6"
  <2>1. I \subseteq Nat /\ I \subseteq 1 .. Len(subs) - 1
    BY <1>1
  <2>2. \A j \in 1 .. Len(subs) - 1 : subs[j].code = "6" => j \in I
    BY <1>1
  <2> HIDE DEF I
  <2>3. I # {} => Min(I) \in I /\ \A m \in I : Min(I) <= m
    BY <2>1, LeastIs
  <2>4. k # 0 => k \in I /\ \A m \in I : k <= m
    BY <2>3
  <2> HIDE DEF k
  <2>5. ASSUME k # 0, NEW j \in 1 .. k - 1 PROVE subs[j].code # "6"
    <3>1. k \in 1 .. Len(subs) - 1
      BY <2>1, <2>4, <2>5
    <3>2. j \in 1 .. Len(subs) - 1 /\ ~(k <= j)
      BY <1>0, <2>5, <3>1
    <3> QED
      BY <2>2, <2>4, <2>5, <3>2
  <2> QED
    BY <2>1, <2>4, <2>5
<1> HIDE DEF link, k
\* The link is at place m, and no link is before it.
<1>5. PICK m \in Nat : /\ g.subs \in Seq(Sub) /\ m \in 1 .. Len(g.subs) /\ g.subs[m] = link[1]
                       /\ \A j \in 1 .. m - 1 : ~IsLink(g.subs[j])
  <2>1. CASE k = 0
    <3>1. /\ link \o subs \in Seq(Sub) /\ Len(link \o subs) = Len(link) + Len(subs)
          /\ \A j \in 1 .. Len(link) + Len(subs) :
                (link \o subs)[j] = IF j <= Len(link) THEN link[j] ELSE subs[j - Len(link)]
      BY <1>3, Joined
    <3>2. 1 \in 1 .. Len(link) + Len(subs) /\ 1 <= Len(link)
      BY <1>0, <1>3
    <3>3. (link \o subs)[1] = link[1]
      BY <3>1, <3>2
    <3>4. g.subs = link \o subs
      BY <1>2, <2>1
    <3>5. g.subs \in Seq(Sub) /\ 1 \in 1 .. Len(g.subs) /\ g.subs[1] = link[1] /\ 1 \in Nat
      BY <3>1, <3>2, <3>3, <3>4
    <3>6. \A j \in 1 .. 1 - 1 : ~IsLink(g.subs[j])
      OBVIOUS
    <3> QED
      BY <3>5, <3>6
  <2>2. CASE k # 0
    <3>0. k \in 1 .. Len(subs) - 1 /\ k \in Nat
      BY <1>0, <1>4, <2>2
    <3> DEFINE a == SubSeq(subs, 1, k - 1)
               b == SubSeq(subs, k + 1, Len(subs))
    <3>1. a \in Seq(Sub) /\ Len(a) = k - 1 /\ \A j \in 1 .. k - 1 : a[j] = subs[j]
      <4>1. 1 \in 1 .. Len(subs) + 1 /\ k - 1 \in 1 - 1 .. Len(subs) /\ k - 1 - 1 + 1 = k - 1
            /\ \A j \in 1 .. k - 1 : 1 + j - 1 = j
        BY <1>0, <3>0
      <4> QED
        BY <4>1, Cut
    <3>2. b \in Seq(Sub)
      <4>1. k + 1 \in 1 .. Len(subs) + 1 /\ Len(subs) \in k + 1 - 1 .. Len(subs)
        BY <1>0, <3>0
      <4> QED
        BY <4>1, Cut
    <3>3. g.subs = (a \o link) \o b
      BY <1>2, <2>2
    <3> HIDE DEF a, b
    <3>4. /\ a \o link \in Seq(Sub) /\ Len(a \o link) = Len(a) + Len(link)
          /\ \A j \in 1 .. Len(a) + Len(link) :
                (a \o link)[j] = IF j <= Len(a) THEN a[j] ELSE link[j - Len(a)]
      BY <1>3, <3>1, Joined
    <3>5. PICK c \in Seq(Sub) : c = a \o link
      BY <3>4
    <3>6. Len(c) = k - 1 + Len(link) /\ \A j \in 1 .. k : c[j] = IF j < k THEN subs[j] ELSE link[1]
      <4>1. Len(c) = k - 1 + Len(link)
        BY <3>1, <3>4, <3>5
      <4>2. ASSUME NEW j \in 1 .. k PROVE c[j] = IF j < k THEN subs[j] ELSE link[1]
        <5>1. j \in 1 .. Len(a) + Len(link)
          BY <1>3, <3>0, <3>1
        <5>2. CASE j < k
          <6>1. j <= Len(a) /\ j \in 1 .. k - 1
            BY <3>0, <3>1, <5>2
          <6> QED
            BY <3>1, <3>4, <3>5, <5>1, <5>2, <6>1
        <5>3. CASE ~(j < k)
          <6>1. ~(j <= Len(a)) /\ j - Len(a) = 1
            BY <3>0, <3>1, <5>3
          <6> QED
            BY <3>4, <3>5, <5>1, <5>3, <6>1
        <5> QED
          BY <5>2, <5>3
      <4> QED
        BY <4>1, <4>2
    <3>7. /\ c \o b \in Seq(Sub) /\ Len(c \o b) = Len(c) + Len(b)
          /\ \A j \in 1 .. Len(c) + Len(b) : (c \o b)[j] = IF j <= Len(c) THEN c[j] ELSE b[j - Len(c)]
      BY <3>2, Joined
    <3>8. Len(c) \in Nat /\ Len(b) \in Nat /\ k <= Len(c)
      BY <1>3, <3>0, <3>2, <3>6
    <3>9. \A j \in 1 .. k : j \in 1 .. Len(c) + Len(b) /\ j <= Len(c)
      BY <3>0, <3>8
    <3>10. \A j \in 1 .. k : g.subs[j] = IF j < k THEN subs[j] ELSE link[1]
      BY <3>3, <3>5, <3>6, <3>7, <3>9
    <3>11. k \in 1 .. Len(g.subs) /\ g.subs \in Seq(Sub)
      BY <3>0, <3>3, <3>5, <3>7, <3>8
    <3>12. g.subs[k] = link[1]
      BY <3>0, <3>10
    <3>13. ASSUME NEW j \in 1 .. k - 1 PROVE ~IsLink(g.subs[j])
      <4>1. j \in 1 .. k /\ j < k
        BY <3>0
      <4>2. g.subs[j] = subs[j] /\ subs[j].code # "6"
        BY <1>4, <2>2, <3>10, <4>1
      <4> QED
        BY <4>2 DEF IsLink
    <3> QED
      BY <3>0, <3>11, <3>12, <3>13
  <2> QED
    BY <2>1, <2>2
<1>6. DOMAIN g.subs = 1 .. Len(g.subs) /\ Len(g.subs) \in Nat
  BY <1>5
<1>7. HasLink(g)
  BY <1>3, <1>5, <1>6 DEF HasLink
<1>8. LinkAt(g) = m
  <2>1. LinkAt(g) \in 1 .. Len(g.subs) /\ IsLink(g.subs[LinkAt(g)]) /\ LinkAt(g) <= m
    BY <1>3, <1>5, <1>6, <1>7, LinkPlace
  <2>2. LinkAt(g) \notin 1 .. m - 1
    BY <1>5, <2>1
  <2> QED
    BY <1>5, <1>6, <2>1, <2>2
<1>9. g.subs # <<>>
  BY <1>5
<1> QED
  BY <1>3, <1>5, <1>7, <1>8, <1>9 DEF LinkOf

LEMMA InitTypes == Init => Types /\ fields \in Seq(Filled)
<1> SUFFICES ASSUME Init PROVE Types /\ fields \in Seq(Filled)
  OBVIOUS
<1> DEFINE r == conversion.record
<1>1. conversion \in Conversions /\ r \in Seq(Given) /\ DOMAIN r = 1 .. Len(r) /\ Len(r) \in Nat
  BY Settings DEF Init
<1>2. ASSUME NEW i \in 1 .. Len(r)
      PROVE  [tag |-> r[i].tag, ind |-> r[i].ind, subs |-> r[i].subs,
              lib2 |-> <<>>, script |-> NoScript] \in Filled
  <2>1. r[i] \in Given /\ <<>> \in Seq(Sub)
    BY <1>1
  <2>2. /\ r[i].tag \in 0 .. 999 /\ r[i].ind \in Name /\ r[i].subs \in Seq(Sub)
        /\ r[i].subs # <<>>
    BY ZenonT(60), <2>1 DEF Given
  <2> QED
    BY ZenonT(60), <2>1, <2>2, NoScriptIs DEF Filled, Field
<1>3. fields \in [1 .. Len(r) -> Filled]
  BY <1>1, <1>2 DEF Init
<1>4. fields \in Seq(Filled)
  BY <1>1, <1>3
<1>5. /\ before = <<>> /\ <<>> \in Seq(Field) /\ num = 0 /\ last880 = 0 /\ cur = 1 /\ p = 1 /\ q = 2
      /\ phase \in {"merge", "convert"}
  BY DEF Init
<1>6. TypeOK
  BY <1>1, <1>4, <1>5, FilledAre DEF TypeOK, Phases
<1> QED
  BY <1>4, <1>5, <1>6 DEF Types, Unseparated

LEMMA MergeTypes == Types /\ MergeLinkedField => Types'
<1> SUFFICES ASSUME Types, MergeLinkedField PROVE Types'
  OBVIOUS
<1>1. PICK i \in DOMAIN fields : fields' = RemoveAt(Merged(fields, fields[i]), i)
  BY DEF MergeLinkedField
<1>2. fields \in Seq(Filled) /\ DOMAIN fields = 1 .. Len(fields)
  BY FieldsAre DEF Types
<1>3. Merged(fields, fields[i]) \in Seq(Filled) /\ Len(Merged(fields, fields[i])) = Len(fields)
  <2>1. fields[i] \in Filled
    BY <1>2
  <2> QED
    BY <1>2, <2>1, MergedIs
<1>4. fields' \in Seq(Filled)
  BY <1>1, <1>2, <1>3, Removed
<1>5. fields' \in Seq(Field) /\ \A k \in DOMAIN fields' : fields'[k].subs # <<>>
  BY <1>4, FilledAre
<1>6. phase = "merge" /\ UNCHANGED <<conversion, phase, num, last880, cur, p, q, before>>
  BY DEF MergeLinkedField
<1> QED
  BY <1>5, <1>6 DEF Types, TypeOK, Unseparated

LEMMA StartTypes == Types /\ StartConversion => Types'
BY DEF Types, TypeOK, Unseparated, StartConversion, Phases

\* The passes that remove duplicates begin.
LEMMA DuplicatesBegin ==
    ASSUME conversion \in Conversions, num \in Nat, last880 \in Nat, UNCHANGED <<conversion, num, last880>>,
           fields' \in Seq(Filled), ToDuplicates(fields')
    PROVE  Types'
<1>1. fields' \in Seq(Field) /\ \A k \in DOMAIN fields' : fields'[k].subs # <<>>
  BY FilledAre
<1>2. /\ before' = fields' /\ cur' = 1 /\ p' = 1 /\ q' = 2 /\ phase' = DuplicatesPhase
      /\ phase' \in {"subfields", "fields", "done"}
  BY DEF ToDuplicates, DuplicatesPhase
<1>3. Len(fields') \in Nat
  BY <1>1
<1> QED
  BY <1>1, <1>2, <1>3 DEF Types, TypeOK, Unseparated, Phases

LEMMA ConvertTypes == Types /\ Convert => Types'
<1> SUFFICES ASSUME Types, Convert PROVE Types'
  OBVIOUS
<1>1. fields \in Seq(Filled)
  BY FieldsAre DEF Types
<1>2. fields' \in Seq(Filled)
  BY <1>1, CarriedIs, ByTagIs DEF Convert
<1>3. conversion \in Conversions /\ num = 0 /\ last880 = 0 /\ UNCHANGED <<conversion, num, last880>>
  BY DEF Types, TypeOK, Unseparated, Convert
<1>4. CASE conversion.linked
  <2>1. phase' = "separate" /\ UNCHANGED <<cur, p, q, before>>
    BY <1>4 DEF Convert
  <2>2. fields' \in Seq(Field) /\ (\A k \in DOMAIN fields' : fields'[k].subs # <<>>) /\ Len(fields') \in Nat
    BY <1>2, FilledAre
  <2> QED
    BY <1>3, <2>1, <2>2 DEF Types, TypeOK, Unseparated, Phases
<1>5. CASE ~conversion.linked
  <2>1. ToDuplicates(fields')
    BY <1>5 DEF Convert
  <2> QED
    BY <1>2, <1>3, <2>1, DuplicatesBegin
<1> QED
  BY <1>4, <1>5

LEMMA EndSeparationTypes == Types /\ EndSeparation => Types'
<1> SUFFICES ASSUME Types, EndSeparation PROVE Types'
  OBVIOUS
<1>1. /\ conversion \in Conversions /\ num \in Nat /\ last880 \in Nat
      /\ UNCHANGED <<conversion, fields, num, last880>>
  BY DEF Types, TypeOK, EndSeparation
<1>2. fields' \in Seq(Filled)
  BY <1>1, FieldsAre DEF Types
<1>3. ToDuplicates(fields')
  BY <1>1 DEF EndSeparation
<1> QED
  BY <1>1, <1>2, <1>3, DuplicatesBegin

LEMMA PlaceIs ==
    ASSUME Types, phase = "separate"
    PROVE  PlaceOf880 \in 1 .. Len(fields) + 1
<1> DEFINE I == {k \in 1 .. Len(fields) : fields[k].tag >= 880}
           k == IF I # {} THEN Min(I) ELSE 0
<1>1. PlaceOf880 = IF last880 # 0 THEN last880 + 1 ELSE IF k = 0 THEN Len(fields) + 1 ELSE k + 1
  BY DEF PlaceOf880, SelectInSeq
<1>2. last880 \in Nat /\ last880 <= Len(fields) /\ Len(fields) \in Nat
  BY FieldsAre DEF Types, TypeOK
<1>3. k \in 0 .. Len(fields)
  <2>1. I \subseteq Nat /\ I \subseteq 1 .. Len(fields)
    OBVIOUS
  <2> HIDE DEF I
  <2>2. I # {} => Min(I) \in 1 .. Len(fields)
    BY <2>1, LeastIs
  <2> QED
    BY <1>2, <2>2
<1> HIDE DEF k
<1> QED
  BY <1>1, <1>2, <1>3

LEMMA Made ==
    ASSUME NEW tag \in 0 .. 999, NEW ind \in Name, NEW subs \in Seq(Sub), NEW lib2 \in Seq(Sub),
           NEW script \in Script
    PROVE  [tag |-> tag, ind |-> ind, lib2 |-> lib2, script |-> script, subs |-> subs] \in Field
BY DEF Field

LEMMA WithSubs ==
    ASSUME NEW f \in Filled, NEW subs \in Seq(Sub), subs # <<>>, NEW lib2 \in Seq(Sub)
    PROVE  [f EXCEPT !.subs = subs, !.lib2 = lib2] \in Filled
<1>1. f \in Field
  BY DEF Filled
<1> DEFINE new == [f EXCEPT !.subs = subs, !.lib2 = lib2]
<1>2. new \in Field /\ new.subs = subs
  BY ZenonT(60), <1>1 DEF Field
<1> QED
  BY <1>2 DEF Filled

LEMMA Field880Is ==
    ASSUME NEW f \in Filled, f.lib2 # <<>>, num \in Nat
    PROVE  /\ Field880(f) \in Filled /\ Field880(f).tag = 880
           /\ LinkOf(Field880(f)).word[2] = num + 1
<1>1. /\ f.lib2 \in Seq(Sub) /\ f.tag \in 0 .. 999 /\ f.ind \in Name /\ f.script \in Script
  BY SubsAre
<1>2. f.tag \in Nat /\ num + 1 \in Nat
  <2>1. PICK tag \in 0 .. 999 : tag = f.tag
    BY ZenonT(60), <1>1
  <2>2. tag \in Nat
    OBVIOUS
  <2> QED
    BY <2>1, <2>2
<1>3. PICK g : g = Field880(f)
  OBVIOUS
<1>4. g.subs = WithLink(f.lib2, Link(f.tag, num + 1, f.script)) /\ g.tag = 880
  BY <1>3 DEF Field880
<1>5. g.subs \in Seq(Sub) /\ g.subs # <<>> /\ HasLink(g) /\ LinkOf(g).word[2] = num + 1
  BY ONLY <1>1, <1>2, <1>4, f.lib2 # <<>>, WithLinkIs
<1>6. g = [tag |-> 880, ind |-> f.ind, lib2 |-> <<>>, script |-> NoScript, subs |-> g.subs]
  BY <1>3 DEF Field880
<1>7. g \in Field
  <2>1. PICK tag \in 0 .. 999 : tag = 880
    OBVIOUS
  <2>2. PICK none \in Seq(Sub) : none = <<>>
    <3>1. <<>> \in Seq(Sub)
      OBVIOUS
    <3> QED
      BY <3>1, Zenon
  <2>3. [tag |-> tag, ind |-> f.ind, lib2 |-> none, script |-> NoScript, subs |-> g.subs] \in Field
    BY ONLY ZenonT(60), <1>1, <1>5, NoScriptIs, Made
  <2> QED
    BY <1>6, <2>1, <2>2, <2>3
<1> QED
  BY <1>3, <1>4, <1>5, <1>7 DEF Filled

LEMMA OwnFieldIs ==
    ASSUME NEW f \in Filled, num \in Nat
    PROVE  OwnField(f) \in Filled
<1>1. f.subs \in Seq(Sub) /\ f.subs # <<>> /\ f \in Field
  BY SubsAre DEF Filled
<1>2. num + 1 \in Nat /\ 880 \in Nat /\ <<>> \in Seq(Sub)
  OBVIOUS
<1>3. PICK own : own = OwnField(f)
  OBVIOUS
<1>4. own.subs = WithLink(f.subs, Link(880, num + 1, NoScript))
  BY <1>1, <1>3 DEF Field, OwnField
<1>5. own.subs \in Seq(Sub) /\ own.subs # <<>>
  BY ONLY <1>1, <1>2, <1>4, NoScriptIs, WithLinkIs
<1>6. own = [f EXCEPT !.subs = own.subs, !.lib2 = <<>>]
  BY <1>1, <1>3, <1>4 DEF Field, OwnField
<1>7. [f EXCEPT !.subs = own.subs, !.lib2 = <<>>] \in Filled
  BY ONLY f \in Filled, <1>2, <1>5, WithSubs
<1> QED
  BY <1>3, <1>6, <1>7

LEMMA SeparateTypes == Types /\ SeparateLinkedField => Types'
<1> SUFFICES ASSUME Types, SeparateLinkedField PROVE Types'
  OBVIOUS
<1>0. /\ fields \in Seq(Filled) /\ DOMAIN fields = 1 .. Len(fields) /\ Len(fields) \in Nat
      /\ phase = "separate" /\ num \in Nat /\ num + 1 \in Nat /\ num <= Len(fields)
  BY FieldsAre DEF Types, TypeOK, SeparateLinkedField
<1>1. PICK i \in 1 .. Len(fields) :
         /\ fields[i].lib2 # <<>>
         /\ fields' = InsertAt(ReplaceAt(fields, i, OwnField(fields[i])), PlaceOf880, Field880(fields[i]))
  BY <1>0 DEF SeparateLinkedField
<1>2. PICK f \in Filled : f = fields[i]
  BY <1>0
<1>5. PICK f880 \in Filled : f880 = Field880(f) /\ f880.tag = 880 /\ LinkOf(f880).word[2] = num + 1
  BY <1>0, <1>1, <1>2, Field880Is
<1>7. PICK own \in Filled : own = OwnField(f)
  BY <1>0, OwnFieldIs
<1>8. PICK place \in 1 .. Len(fields) + 1 : place = PlaceOf880
  BY <1>0, PlaceIs
<1>9. PICK list \in Seq(Filled) : list = ReplaceAt(fields, i, own) /\ Len(list) = Len(fields)
  BY <1>0, <1>7, Replaced
<1>10. fields' = InsertAt(list, place, f880)
  BY <1>1, <1>2, <1>5, <1>7, <1>8, <1>9
<1>11. fields' \in Seq(Filled) /\ Len(fields') = Len(fields) + 1 /\ fields'[place] = f880
  <2>0. list \in Seq(Filled) /\ f880 \in Filled /\ place \in 1 .. Len(list) + 1
    BY <1>9
  <2>1. InsertAt(list, place, f880) \in Seq(Filled) /\ Len(InsertAt(list, place, f880)) = Len(list) + 1
    BY ONLY <2>0, Inserted
  <2>2. \A j \in 1 .. Len(list) + 1 : InsertAt(list, place, f880)[j] =
               IF j < place THEN list[j] ELSE IF j = place THEN f880 ELSE list[j - 1]
    BY ONLY <2>0, Inserted
  <2>3. InsertAt(list, place, f880)[place] = f880
    <3>1. ~(place < place)
      BY <1>0
    <3> QED
      BY ONLY <2>0, <2>2, <3>1
  <2> QED
    BY <1>9, <1>10, <2>1, <2>3
<1>12. fields' \in Seq(Field) /\ \A k \in DOMAIN fields' : fields'[k].subs # <<>>
  BY <1>11, FilledAre
<1>13. /\ num' = num + 1 /\ last880' = place /\ phase' = phase
       /\ UNCHANGED <<conversion, phase, cur, p, q, before>>
  BY <1>8 DEF SeparateLinkedField
<1>14. /\ num' \in Nat /\ last880' \in Nat /\ num' <= Len(fields') /\ last880' <= Len(fields')
       /\ fields'[last880'].tag = 880 /\ LinkOf(fields'[last880']).word[2] = num'
  BY <1>0, <1>5, <1>11, <1>13
<1>15. LinkOf(fields[last880])' = LinkOf(fields'[last880'])
  BY DEF LinkOf, LinkAt
<1> QED
  BY <1>0, <1>12, <1>13, <1>14, <1>15 DEF Types, TypeOK, Unseparated, Phases

LEMMA Rewritten ==
    ASSUME NEW f \in Filled, NEW subs \in Seq(Sub), subs # <<>>,
           NEW new, new = [f EXCEPT !.subs = subs]
    PROVE  new \in Filled /\ new.subs = subs /\ new.tag = f.tag /\ new.ind = f.ind
<1>1. f \in Field
  BY DEF Filled
<1>2. new.subs = subs
  BY <1>1 DEF Field
<1>3. new.tag = f.tag
  BY <1>1 DEF Field
<1>4. new.ind = f.ind
  BY <1>1 DEF Field
<1>5. [f EXCEPT !.subs = subs] \in Field
  BY ZenonT(60), <1>1 DEF Field
<1> QED
  BY <1>2, <1>3, <1>4, <1>5 DEF Filled

\* A subfield of one field is removed.
LEMMA Shortened ==
    ASSUME NEW fs \in Seq(Filled), NEW i \in 1 .. Len(fs), NEW k \in 1 .. Len(fs[i].subs),
           Len(fs[i].subs) > 1,
           NEW gs, gs = [fs EXCEPT ![i].subs = RemoveAt(@, k)]
    PROVE  /\ gs \in Seq(Filled) /\ Len(gs) = Len(fs)
           /\ gs[i].subs = RemoveAt(fs[i].subs, k) /\ gs[i].subs # <<>>
           /\ gs[i].tag = fs[i].tag /\ gs[i].ind = fs[i].ind
           /\ \A j \in 1 .. Len(fs) : j # i => gs[j] = fs[j]
<1>1. fs[i] \in Filled /\ fs \in [1 .. Len(fs) -> Filled] /\ Len(fs) \in Nat
  OBVIOUS
<1>2. PICK f \in Filled : f = fs[i]
  BY <1>1
<1>3. f.subs \in Seq(Sub) /\ k \in 1 .. Len(f.subs) /\ Len(f.subs) > 1 /\ Len(f.subs) \in Nat
  BY <1>2, SubsAre
<1>4. PICK subs : subs = RemoveAt(f.subs, k)
  OBVIOUS
<1>5. subs \in Seq(Sub) /\ Len(subs) = Len(f.subs) - 1
  BY ONLY <1>3, <1>4, Removed
<1>6. subs # <<>>
  <2>1. Len(subs) # 0
    BY SMTT(30), <1>3, <1>5
  <2> QED
    BY <2>1
<1>7. PICK new : new = [f EXCEPT !.subs = subs]
  OBVIOUS
<1>8. new \in Filled /\ new.subs = subs /\ new.tag = f.tag /\ new.ind = f.ind
  BY ONLY f \in Filled, <1>5, <1>6, <1>7, Rewritten
<1>9. gs = [fs EXCEPT ![i] = new]
  <2>1. gs = [fs EXCEPT ![i] = [fs[i] EXCEPT !.subs = RemoveAt(fs[i].subs, k)]]
    BY <1>1
  <2> QED
    BY <1>2, <1>4, <1>7, <2>1
<1>10. gs \in [1 .. Len(fs) -> Filled] /\ gs[i] = new /\ \A j \in 1 .. Len(fs) : j # i => gs[j] = fs[j]
  BY ONLY <1>1, <1>8, <1>9, i \in 1 .. Len(fs)
<1>11. gs \in Seq(Filled) /\ Len(gs) = Len(fs)
  BY <1>1, <1>10
<1> QED
  BY <1>2, <1>4, <1>6, <1>8, <1>10, <1>11

\* What CompareSubfields does to the fields.
Unlike == ~AlikeSubfields(conversion.subfields, Subs[p], Subs[q])
Second == PrefersSecond(conversion.subfields, Subs[p].caps, Subs[q].caps)

LEMMA ComparedSubfields ==
    ASSUME Types, CompareSubfields
    PROVE  /\ phase = "subfields"
           /\ fields \in Seq(Filled) /\ cur \in 1 .. Len(fields)
           /\ fields[cur] \in Filled /\ Subs \in Seq(Sub) /\ Len(Subs) \in Nat
           /\ p \in 1 .. Len(Subs) /\ q \in 1 .. Len(Subs) /\ p < q /\ p % 2 = 1
           /\ UNCHANGED <<conversion, num, last880, cur, p, before>>
           /\ fields' \in Seq(Filled) /\ Len(fields') = Len(fields)
           /\ \A j \in 1 .. Len(fields) : j # cur => fields'[j] = fields[j]
           /\ fields'[cur].tag = fields[cur].tag /\ fields'[cur].ind = fields[cur].ind
           /\ \/ /\ Unlike /\ q' = q + 2 /\ fields' = fields /\ phase' = phase
              \/ /\ ~Unlike /\ ~Second /\ q' = q /\ phase' = phase
                 /\ fields'[cur].subs = RemoveAt(Subs, q)
              \/ /\ ~Unlike /\ Second /\ q' = p + 1 /\ phase' \in {phase, "garbled"}
                 /\ fields'[cur].subs = RemoveAt(Subs, p)
<1>1. /\ phase = "subfields" /\ cur \in Nat \ {0} /\ p \in Nat \ {0} /\ q \in Nat
      /\ p < q /\ p % 2 = 1 /\ cur <= Len(fields) /\ q <= Len(Subs)
      /\ UNCHANGED <<conversion, num, last880, cur, p, before>>
  BY DEF Types, TypeOK, CompareSubfields
<1>2. fields \in Seq(Filled) /\ Len(fields) \in Nat
  BY FieldsAre DEF Types
<1>3. cur \in 1 .. Len(fields)
  BY <1>1, <1>2
<1>4. fields[cur] \in Filled
  BY <1>2, <1>3
<1>5. Subs \in Seq(Sub) /\ Len(Subs) \in Nat
  BY <1>4, SubsAre DEF Subs
<1>6. p \in 1 .. Len(Subs) /\ q \in 1 .. Len(Subs) /\ Len(Subs) > 1
  BY <1>1, <1>5
<1>7. CASE Unlike
  <2>1. q' = q + 2 /\ fields' = fields /\ phase' = phase
    BY <1>7 DEF CompareSubfields, Unlike
  <2> QED
    BY <1>1, <1>2, <1>3, <1>4, <1>5, <1>6, <1>7, <2>1
<1>8. CASE ~Unlike /\ ~Second
  <2>1. q' = q /\ phase' = phase /\ fields' = [fields EXCEPT ![cur].subs = RemoveAt(@, q)]
    BY <1>8 DEF CompareSubfields, Unlike, Second
  <2>2. q \in 1 .. Len(fields[cur].subs) /\ Len(fields[cur].subs) > 1
    BY <1>6 DEF Subs
  <2>3. /\ fields' \in Seq(Filled) /\ Len(fields') = Len(fields)
        /\ \A j \in 1 .. Len(fields) : j # cur => fields'[j] = fields[j]
        /\ fields'[cur].tag = fields[cur].tag /\ fields'[cur].ind = fields[cur].ind
        /\ fields'[cur].subs = RemoveAt(fields[cur].subs, q)
    BY ONLY SMTT(30), <1>2, <1>3, <2>1, <2>2, Shortened
  <2> QED
    BY <1>1, <1>2, <1>3, <1>4, <1>5, <1>6, <1>8, <2>1, <2>3 DEF Subs
<1>9. CASE ~Unlike /\ Second
  <2>1. q' = p + 1 /\ phase' \in {phase, "garbled"} /\ fields' = [fields EXCEPT ![cur].subs = RemoveAt(@, p)]
    BY <1>9 DEF CompareSubfields, Unlike, Second
  <2>2. p \in 1 .. Len(fields[cur].subs) /\ Len(fields[cur].subs) > 1
    BY <1>6 DEF Subs
  <2>3. /\ fields' \in Seq(Filled) /\ Len(fields') = Len(fields)
        /\ \A j \in 1 .. Len(fields) : j # cur => fields'[j] = fields[j]
        /\ fields'[cur].tag = fields[cur].tag /\ fields'[cur].ind = fields[cur].ind
        /\ fields'[cur].subs = RemoveAt(fields[cur].subs, p)
    BY ONLY SMTT(30), <1>2, <1>3, <2>1, <2>2, Shortened
  <2> QED
    BY <1>1, <1>2, <1>3, <1>4, <1>5, <1>6, <1>9, <2>1, <2>3 DEF Subs
<1> QED
  BY <1>7, <1>8, <1>9

LEMMA CompareSubfieldsTypes == Types /\ CompareSubfields => Types'
<1> SUFFICES ASSUME Types, CompareSubfields PROVE Types'
  OBVIOUS
<1>1. /\ fields' \in Seq(Filled) /\ Len(fields') = Len(fields)
      /\ UNCHANGED <<conversion, num, last880, cur, p, before>>
      /\ p < q /\ q' \in {q, q + 2, p + 1} /\ phase = "subfields" /\ phase' \in {phase, "garbled"}
  BY ComparedSubfields
<1>2. fields' \in Seq(Field) /\ \A k \in DOMAIN fields' : fields'[k].subs # <<>>
  BY <1>1, FilledAre
<1>3. q' \in Nat /\ p' < q'
  BY <1>1 DEF Types, TypeOK
<1> QED
  BY <1>1, <1>2, <1>3 DEF Types, TypeOK, Unseparated, Phases

LEMMA NextSubfieldTypes == Types /\ NextSubfield => Types'
<1> SUFFICES ASSUME Types, NextSubfield PROVE Types'
  OBVIOUS
<1>1. p \in Nat /\ p % 2 = 1 /\ cur \in Nat /\ cur <= Len(fields) /\ Len(fields) \in Nat
  BY FieldsAre DEF Types, TypeOK, NextSubfield
<1>2. /\ p' \in Nat \ {0} /\ q' \in Nat /\ p' < q' /\ p' % 2 = 1
      /\ cur' \in Nat \ {0} /\ cur' <= Len(fields) + 1
  <2>1. \/ p' = p + 2 /\ q' = p + 3 /\ cur' = cur
        \/ p' = 1 /\ q' = 2 /\ cur' = cur + 1
    BY DEF NextSubfield
  <2> QED
    BY SMTT(30), <1>1, <2>1 DEF Types, TypeOK
<1> QED
  BY <1>1, <1>2 DEF Types, TypeOK, Unseparated, NextSubfield

LEMMA EndSubfieldsTypes == Types /\ EndSubfields => Types'
<1> SUFFICES ASSUME Types, EndSubfields PROVE Types'
  OBVIOUS
<1>1. Len(fields) \in Nat
  BY FieldsAre DEF Types
<1> QED
  BY <1>1 DEF Types, TypeOK, Unseparated, Phases, EndSubfields

\* What CompareFields does to the fields.
Differ == ~AlikeFields(conversion.fields, fields[cur], fields[q])
Later  == PrefersSecond(conversion.fields, CapsOf(fields[cur]), CapsOf(fields[q]))

LEMMA ComparedFields ==
    ASSUME Types, CompareFields
    PROVE  /\ phase = "fields"
           /\ fields \in Seq(Filled) /\ Len(fields) \in Nat
           /\ cur \in 1 .. Len(fields) /\ q \in 1 .. Len(fields) /\ cur < q
           /\ fields[q].tag = fields[cur].tag
           /\ UNCHANGED <<conversion, phase, num, last880, p, before>>
           /\ fields' \in Seq(Filled)
           /\ \/ Differ /\ q' = q + 1 /\ cur' = cur /\ fields' = fields
              \/ ~Differ /\ ~Later /\ q' = q /\ cur' = cur /\ fields' = RemoveAt(fields, q)
              \/ /\ ~Differ /\ Later /\ fields' = RemoveAt(fields, cur)
                 /\ cur' = (IF cur = 1 THEN 2 ELSE cur) /\ q' = cur' + 1
<1>1. /\ phase = "fields" /\ cur \in Nat \ {0} /\ q \in Nat /\ cur < q /\ q <= Len(fields)
      /\ fields[q].tag = fields[cur].tag
      /\ UNCHANGED <<conversion, phase, num, last880, p, before>>
  BY DEF Types, TypeOK, CompareFields
<1>2. fields \in Seq(Filled) /\ Len(fields) \in Nat
  BY FieldsAre DEF Types
<1>3. cur \in 1 .. Len(fields) /\ q \in 1 .. Len(fields)
  BY <1>1, <1>2
<1>4. \/ Differ /\ q' = q + 1 /\ cur' = cur /\ fields' = fields
      \/ ~Differ /\ ~Later /\ q' = q /\ cur' = cur /\ fields' = RemoveAt(fields, q)
      \/ /\ ~Differ /\ Later /\ fields' = RemoveAt(fields, cur)
         /\ cur' = (IF cur = 1 THEN 2 ELSE cur) /\ q' = cur' + 1
  BY DEF CompareFields, Differ, Later
<1>5. RemoveAt(fields, q) \in Seq(Filled) /\ RemoveAt(fields, cur) \in Seq(Filled)
  BY ONLY <1>2, <1>3, Removed
<1> QED
  BY <1>1, <1>2, <1>3, <1>4, <1>5

LEMMA CompareFieldsTypes == Types /\ CompareFields => Types'
<1> SUFFICES ASSUME Types, CompareFields PROVE Types'
  OBVIOUS
<1>1. /\ phase = "fields" /\ phase' = phase /\ fields' \in Seq(Filled)
      /\ UNCHANGED <<conversion, num, last880, p, before>>
  BY ComparedFields
<1>2. fields' \in Seq(Field) /\ \A k \in DOMAIN fields' : fields'[k].subs # <<>>
  BY <1>1, FilledAre
<1>3. cur' \in Nat \ {0} /\ q' \in Nat /\ cur' <= Len(fields') + 1 /\ cur' < q'
  <2>1. /\ cur \in 1 .. Len(fields) /\ q \in 1 .. Len(fields) /\ cur < q
        /\ fields \in Seq(Filled) /\ Len(fields) \in Nat
    BY ComparedFields
  <2>2. Len(RemoveAt(fields, q)) = Len(fields) - 1 /\ Len(RemoveAt(fields, cur)) = Len(fields) - 1
    BY ONLY <2>1, Removed
  <2>3. \/ q' = q + 1 /\ cur' = cur /\ fields' = fields
        \/ q' = q /\ cur' = cur /\ fields' = RemoveAt(fields, q)
        \/ fields' = RemoveAt(fields, cur) /\ cur' = (IF cur = 1 THEN 2 ELSE cur) /\ q' = cur' + 1
    BY ComparedFields
  <2> QED
    BY ONLY <2>1, <2>2, <2>3
<1> QED
  BY <1>1, <1>2, <1>3 DEF Types, TypeOK, Unseparated, Phases

LEMMA NextFieldTypes == Types /\ NextField => Types'
<1> SUFFICES ASSUME Types, NextField PROVE Types'
  OBVIOUS
<1>1. Len(fields) \in Nat
  BY FieldsAre DEF Types
<1> QED
  BY <1>1 DEF Types, TypeOK, Unseparated, NextField

LEMMA EndFieldsTypes == Types /\ EndFields => Types'
BY DEF Types, TypeOK, Unseparated, Phases, EndFields

LEMMA StutterTypes == Types /\ UNCHANGED vars => Types'
BY DEF Types, TypeOK, Unseparated, vars, LinkOf, LinkAt

\* Every variable keeps its type in records of every length: no field is left
\* without subfields, and the cursors of both removals of duplicates stay
\* apart and within the record, one place behind it at most.
THEOREM TypeCorrect == Spec => []TypeOK
<1>1. Init => Types
  BY InitTypes
<1>2. Types /\ [Next]_vars => Types'
  BY MergeTypes, StartTypes, ConvertTypes, SeparateTypes, EndSeparationTypes,
     CompareSubfieldsTypes, NextSubfieldTypes, EndSubfieldsTypes,
     CompareFieldsTypes, NextFieldTypes, EndFieldsTypes, StutterTypes, Zenon DEF Next
<1>3. Types => TypeOK
  BY DEF Types
<1> QED
  BY <1>1, <1>2, <1>3, PTL DEF Spec

-----------------------------------------------------------------------------
(* Subfields                                                               *)

LEMMA StandsSelf ==
    ASSUME NEW c, NEW s \in Sub
    PROVE  Stands(c, s, s)
BY DEF Stands, Sub

LEMMA StandsOn ==
    ASSUME NEW c, NEW r \in Sub, NEW s \in Sub, NEW t \in Sub, Stands(c, t, s), Stands(c, s, r)
    PROVE  Stands(c, t, r)
<1>1. t.caps \in Nat /\ s.caps \in Nat /\ r.caps \in Nat
  BY DEF Sub
<1> QED
  BY <1>1 DEF Stands

\* Of two subfields that are alike, the one that stays stands for the other.
LEMMA StandsAlike ==
    ASSUME NEW c, NEW s \in Sub, NEW t \in Sub, AlikeSubfields(c.subfields, s, t),
           FoldsAny(c) => {s.word, t.word} \cap {Empty, NotUtf8} = {}
    PROVE  IF PrefersSecond(c.subfields, s.caps, t.caps) THEN Stands(c, t, s) ELSE Stands(c, s, t)
<1>1. s.caps \in Nat /\ t.caps \in Nat
  BY DEF Sub
<1>2. s.code = t.code /\ SameText(c.subfields, s, t)
  BY DEF AlikeSubfields
<1>3. CASE Folds(c.subfields)
  <2>1. s.word = t.word /\ s.script = t.script /\ FoldsAny(c)
    BY <1>2, <1>3 DEF SameText, FoldsAny
  <2> QED
    BY <1>1, <1>2, <2>1 DEF Stands, PrefersSecond
<1>4. CASE ~Folds(c.subfields)
  <2>1. s = t
    BY <1>2, <1>4 DEF SameText
  <2> QED
    BY <2>1, StandsSelf
<1> QED
  BY <1>3, <1>4

LEMMA StoodSelf ==
    ASSUME NEW c, NEW ts \in Seq(Sub)
    PROVE  Stood(c, ts, ts) /\ LeftOf(ts, ts)
<1>1. \A k \in DOMAIN ts : ts[k] \in Sub
  OBVIOUS
<1>2. Stood(c, ts, ts)
  BY <1>1, StandsSelf DEF Stood
<1>3. LeftOf(ts, ts)
  <2> DEFINE place == [k \in DOMAIN ts |-> k]
  <2>1. /\ place \in [DOMAIN ts -> DOMAIN ts]
        /\ \A j, k \in DOMAIN ts : j < k => place[j] < place[k]
        /\ \A k \in DOMAIN ts : ts[k] = ts[place[k]]
    OBVIOUS
  <2> HIDE DEF place
  <2> QED
    BY <2>1 DEF LeftOf
<1> QED
  BY <1>2, <1>3

\* What stays of a list of which the one at k goes.
LEMMA Stays ==
    ASSUME NEW S, NEW s \in Seq(S), NEW k \in 1 .. Len(s), NEW n \in 1 .. Len(s), n # k
    PROVE  \E m \in 1 .. Len(s) - 1 : RemoveAt(s, k)[m] = s[n]
<1>0. Len(s) \in Nat
  OBVIOUS
<1>1. \A j \in 1 .. Len(s) - 1 : RemoveAt(s, k)[j] = IF j < k THEN s[j] ELSE s[j + 1]
  BY Removed
<1>2. CASE n < k
  <2>1. n \in 1 .. Len(s) - 1
    BY <1>0, <1>2
  <2> QED
    BY <1>1, <1>2, <2>1
<1>3. CASE n > k
  <2>1. PICK m \in 1 .. Len(s) - 1 : m = n - 1
    BY <1>0, <1>3
  <2>2. m + 1 = n /\ ~(m < k)
    BY <1>0, <1>3, <2>1
  <2> QED
    BY <1>1, <2>1, <2>2
<1> QED
  BY <1>0, <1>2, <1>3

LEMMA StoodLess ==
    ASSUME NEW c, NEW ts \in Seq(Sub), NEW ss \in Seq(Sub), Stood(c, ts, ss),
           NEW k \in 1 .. Len(ts), NEW l \in 1 .. Len(ts), k # l, Stands(c, ts[l], ts[k])
    PROVE  Stood(c, RemoveAt(ts, k), ss)
<1>1. /\ DOMAIN ts = 1 .. Len(ts) /\ \A n \in 1 .. Len(ts) : ts[n] \in Sub
      /\ \A m \in DOMAIN ss : ss[m] \in Sub
  OBVIOUS
<1>2. RemoveAt(ts, k) \in Seq(Sub) /\ Len(RemoveAt(ts, k)) = Len(ts) - 1
  BY Removed
<1>3. DOMAIN RemoveAt(ts, k) = 1 .. Len(ts) - 1
  BY <1>2
<1>4. ASSUME NEW m \in DOMAIN ss
      PROVE  \E j \in DOMAIN RemoveAt(ts, k) : Stands(c, RemoveAt(ts, k)[j], ss[m])
  <2>1. PICK n \in 1 .. Len(ts) : Stands(c, ts[n], ss[m])
    BY <1>1 DEF Stood
  <2>2. PICK i \in 1 .. Len(ts) : i # k /\ Stands(c, ts[i], ss[m])
    <3>1. CASE n # k
      BY <2>1, <3>1
    <3>2. CASE n = k
      <4>1. Stands(c, ts[l], ss[m])
        BY <1>1, <2>1, <3>2, StandsOn
      <4> QED
        BY <4>1
    <3> QED
      BY <3>1, <3>2
  <2>3. PICK j \in 1 .. Len(ts) - 1 : RemoveAt(ts, k)[j] = ts[i]
    BY <2>2, Stays
  <2> QED
    BY <1>3, <2>2, <2>3
<1> QED
  BY <1>4 DEF Stood

LEMMA LeftLess ==
    ASSUME NEW ts \in Seq(Sub), NEW ss \in Seq(Sub), LeftOf(ts, ss), NEW k \in 1 .. Len(ts)
    PROVE  LeftOf(RemoveAt(ts, k), ss)
<1>0. Len(ts) \in Nat /\ DOMAIN ts = 1 .. Len(ts) /\ DOMAIN ss = 1 .. Len(ss) /\ Len(ss) \in Nat
  OBVIOUS
<1>1. PICK place \in [1 .. Len(ts) -> DOMAIN ss] :
        /\ \A j, m \in 1 .. Len(ts) : j < m => place[j] < place[m]
        /\ \A m \in 1 .. Len(ts) : ts[m] = ss[place[m]]
  BY <1>0 DEF LeftOf
<1>2. PICK rest : rest = RemoveAt(ts, k)
  OBVIOUS
<1>3. /\ rest \in Seq(Sub) /\ Len(rest) = Len(ts) - 1
      /\ \A j \in 1 .. Len(ts) - 1 : rest[j] = IF j < k THEN ts[j] ELSE ts[j + 1]
  BY <1>2, Removed
<1>4. DOMAIN rest = 1 .. Len(ts) - 1
  BY <1>3
<1> DEFINE from(j) == IF j < k THEN j ELSE j + 1
           new == [j \in 1 .. Len(ts) - 1 |-> place[from(j)]]
<1>5. /\ \A j \in 1 .. Len(ts) - 1 : from(j) \in 1 .. Len(ts) /\ rest[j] = ts[from(j)]
      /\ \A j, m \in 1 .. Len(ts) - 1 : j < m => from(j) < from(m)
  BY <1>0, <1>3
<1> HIDE DEF from
<1>6. /\ new \in [1 .. Len(ts) - 1 -> DOMAIN ss]
      /\ \A j, m \in 1 .. Len(ts) - 1 : j < m => new[j] < new[m]
      /\ \A j \in 1 .. Len(ts) - 1 : rest[j] = ss[new[j]]
  BY <1>1, <1>5
<1> HIDE DEF new
<1>7. LeftOf(rest, ss)
  BY <1>4, <1>6 DEF LeftOf
<1> QED
  BY <1>2, <1>7

\* What is left has the texts of what was there.
LEMMA LeftTexts ==
    ASSUME NEW ts \in Seq(Sub), NEW bs, NEW i \in DOMAIN bs, Texts(bs), LeftOf(ts, bs[i].subs),
           NEW k \in DOMAIN ts
    PROVE  ts[k].word \notin {Empty, NotUtf8}
BY DEF LeftOf, Texts

\* A subfield goes of which another stands for the text.
LEMMA LeftOverLess ==
    ASSUME NEW c, NEW bs, NEW b \in Field, NEW f \in Filled, LeftOver(c, bs, f, b),
           NEW k \in 1 .. Len(f.subs), NEW l \in 1 .. Len(f.subs), k # l,
           Tells(c, bs) => Stands(c, f.subs[l], f.subs[k]),
           NEW g, g.tag = f.tag, g.ind = f.ind, g.subs = RemoveAt(f.subs, k)
    PROVE  LeftOver(c, bs, g, b)
<1>1. f.subs \in Seq(Sub) /\ b.subs \in Seq(Sub)
  BY SubsAre DEF Field
<1>2. LeftOf(RemoveAt(f.subs, k), b.subs)
  BY <1>1, LeftLess DEF LeftOver
<1>3. Tells(c, bs) => Stood(c, RemoveAt(f.subs, k), b.subs)
  BY <1>1, StoodLess DEF LeftOver
<1> QED
  BY <1>2, <1>3 DEF LeftOver

LEMMA OddBehind ==
    ASSUME NEW j \in Nat, NEW n \in Nat, j % 2 = 1, n % 2 = 1, j < n
    PROVE  j + 1 < n
<1>1. n # j + 1
  OBVIOUS
<1> QED
  BY <1>1

\* No pair comes up behind the subfields that have been compared.
LEMMA NoPairLess ==
    ASSUME NEW mode, NEW ts \in Seq(Sub), NEW k \in 1 .. Len(ts), NEW n \in 1 .. Len(ts),
           n % 2 = 1, n <= k, NoPair(mode, ts, n)
    PROVE  NoPair(mode, RemoveAt(ts, k), n)
<1>0. Len(ts) \in Nat /\ DOMAIN ts = 1 .. Len(ts)
  OBVIOUS
<1>1. PICK rest : rest = RemoveAt(ts, k)
  OBVIOUS
<1>2. /\ rest \in Seq(Sub) /\ Len(rest) = Len(ts) - 1
      /\ \A j \in 1 .. Len(ts) - 1 : rest[j] = IF j < k THEN ts[j] ELSE ts[j + 1]
  BY <1>1, Removed
<1>3. DOMAIN rest = 1 .. Len(ts) - 1
  BY <1>2
<1>4. ASSUME NEW j \in 1 .. Len(ts) - 1, j # Len(ts) - 1, j % 2 = 1, j < n
      PROVE  ~AlikeSubfields(mode, rest[j], rest[j + 1])
  <2>0. j \in Nat /\ n \in Nat /\ k \in Nat /\ 1 <= j /\ k <= Len(ts)
    BY <1>0
  <2>1. j + 1 < n
    BY <1>4, <2>0, OddBehind
  <2>2. j < k /\ j + 1 < k /\ j + 1 \in 1 .. Len(ts) - 1 /\ j \in 1 .. Len(ts) /\ j # Len(ts)
    <3>1. \A a, b, d, e \in Nat : 1 <= a /\ a + 1 < b /\ b <= d /\ d <= e =>
             a < d /\ a + 1 < d /\ a + 1 \in 1 .. e - 1 /\ a \in 1 .. e /\ a # e
      OBVIOUS
    <3>2. n <= k /\ Len(ts) \in Nat
      BY <1>0
    <3> QED
      BY ONLY <2>0, <2>1, <3>1, <3>2
  <2>3. rest[j] = ts[j] /\ rest[j + 1] = ts[j + 1]
    BY <1>2, <2>2
  <2> QED
    BY <1>0, <1>4, <2>2, <2>3 DEF NoPair
<1>5. NoPair(mode, rest, n)
  BY <1>2, <1>3, <1>4 DEF NoPair
<1> QED
  BY <1>1, <1>5

\* The same of a pair in process.
LEMMA PassedLess ==
    ASSUME NEW mode, NEW ts \in Seq(Sub), NEW k \in 1 .. Len(ts), NEW l \in 1 .. Len(ts),
           k % 2 = 1, k < l, Passed(mode, ts, k, l)
    PROVE  Passed(mode, RemoveAt(ts, l), k, l) /\ Passed(mode, RemoveAt(ts, k), k, k + 1)
<1>0. Len(ts) \in Nat /\ Len(RemoveAt(ts, l)) = Len(ts) - 1 /\ Len(RemoveAt(ts, k)) = Len(ts) - 1
  BY Removed
<1>1. k <= Len(ts) - 1
  BY <1>0
<1>2. NoPair(mode, RemoveAt(ts, l), k) /\ NoPair(mode, RemoveAt(ts, k), k)
  BY NoPairLess DEF Passed
<1>3. ASSUME l > k + 1, k < Len(ts) - 1
      PROVE  ~AlikeSubfields(mode, RemoveAt(ts, l)[k], RemoveAt(ts, l)[k + 1])
  <2>1. \A j \in 1 .. Len(ts) - 1 : RemoveAt(ts, l)[j] = IF j < l THEN ts[j] ELSE ts[j + 1]
    BY Removed
  <2>2. k \in 1 .. Len(ts) - 1 /\ k + 1 \in 1 .. Len(ts) - 1 /\ k < Len(ts)
    BY <1>0, <1>3
  <2>3. RemoveAt(ts, l)[k] = ts[k] /\ RemoveAt(ts, l)[k + 1] = ts[k + 1]
    BY <1>3, <2>1, <2>2
  <2> QED
    BY <1>3, <2>2, <2>3 DEF Passed
<1>4. ~(k + 1 > k + 1)
  OBVIOUS
<1> QED
  BY <1>0, <1>1, <1>2, <1>3, <1>4 DEF Passed

\* Of two subfields that are alike, the one PrefersSecond tells to goes.
LEMMA SubfieldGoes ==
    ASSUME NEW c, NEW fs \in Seq(Filled), NEW bs \in Seq(Field), NEW n \in 1 .. Len(fs),
           NEW k \in 1 .. Len(fs[n].subs), NEW l \in 1 .. Len(fs[n].subs), k % 2 = 1, k < l,
           SubfieldsLeft(c, fs, bs, n, k, l),
           AlikeSubfields(c.subfields, fs[n].subs[k], fs[n].subs[l]),
           NEW second,
           second <=> PrefersSecond(c.subfields, fs[n].subs[k].caps, fs[n].subs[l].caps),
           NEW gs \in Seq(Filled), Len(gs) = Len(fs),
           \A j \in 1 .. Len(fs) : j # n => gs[j] = fs[j],
           gs[n].tag = fs[n].tag, gs[n].ind = fs[n].ind,
           gs[n].subs = RemoveAt(fs[n].subs, IF second THEN k ELSE l)
    PROVE  SubfieldsLeft(c, gs, bs, n, k, IF second THEN k + 1 ELSE l)
<1>1. PICK f \in Filled : f = fs[n]
  OBVIOUS
<1>2. PICK g \in Filled : g = gs[n]
  OBVIOUS
<1>3. PICK b \in Field : b = bs[n]
  <2>1. n \in 1 .. Len(bs)
    BY DEF SubfieldsLeft
  <2> QED
    BY <2>1
<1>4. /\ f.subs \in Seq(Sub) /\ Len(f.subs) \in Nat /\ DOMAIN f.subs = 1 .. Len(f.subs)
      /\ k \in 1 .. Len(f.subs) /\ l \in 1 .. Len(f.subs) /\ k # l
      /\ f.subs[k] \in Sub /\ f.subs[l] \in Sub
  <2>1. f.subs \in Seq(Sub) /\ Len(f.subs) \in Nat /\ DOMAIN f.subs = 1 .. Len(f.subs)
    BY SubsAre
  <2>2. k \in 1 .. Len(f.subs) /\ l \in 1 .. Len(f.subs) /\ k # l
    BY <1>1
  <2> QED
    BY <2>1, <2>2
<1>5. LeftOver(c, bs, f, b) /\ Passed(c.subfields, f.subs, k, l)
  <2>1. n <= Len(fs)
    OBVIOUS
  <2> QED
    BY <1>1, <1>3, <2>1 DEF SubfieldsLeft
<1>6. Tells(c, bs) => IF second THEN Stands(c, f.subs[l], f.subs[k]) ELSE Stands(c, f.subs[k], f.subs[l])
  <2>1. ASSUME FoldsAny(c), Tells(c, bs)
        PROVE  {f.subs[k].word, f.subs[l].word} \cap {Empty, NotUtf8} = {}
    <3>1. Texts(bs) /\ LeftOf(f.subs, bs[n].subs) /\ n \in DOMAIN bs
      <4>1. n \in 1 .. Len(bs)
        BY DEF SubfieldsLeft
      <4> QED
        BY <1>3, <1>5, <2>1, <4>1 DEF Tells, LeftOver
    <3>2. f.subs[k].word \notin {Empty, NotUtf8} /\ f.subs[l].word \notin {Empty, NotUtf8}
      BY <1>4, <3>1, LeftTexts
    <3> QED
      BY <3>2
  <2>2. /\ AlikeSubfields(c.subfields, f.subs[k], f.subs[l])
        /\ second <=> PrefersSecond(c.subfields, f.subs[k].caps, f.subs[l].caps)
    BY <1>1
  <2>3. SUFFICES ASSUME Tells(c, bs)
        PROVE  IF second THEN Stands(c, f.subs[l], f.subs[k]) ELSE Stands(c, f.subs[k], f.subs[l])
    OBVIOUS
  <2>4. IF PrefersSecond(c.subfields, f.subs[k].caps, f.subs[l].caps)
          THEN Stands(c, f.subs[l], f.subs[k]) ELSE Stands(c, f.subs[k], f.subs[l])
    BY <1>4, <2>1, <2>2, <2>3, StandsAlike
  <2> QED
    BY <2>2, <2>4
<1>7. g.tag = f.tag /\ g.ind = f.ind /\ g.subs = RemoveAt(f.subs, IF second THEN k ELSE l)
  BY <1>1, <1>2
<1>8. LeftOver(c, bs, g, b)
  <2>1. CASE second
    BY <1>4, <1>5, <1>6, <1>7, <2>1, LeftOverLess
  <2>2. CASE ~second
    BY <1>4, <1>5, <1>6, <1>7, <2>2, LeftOverLess
  <2> QED
    BY <2>1, <2>2
<1>9. Passed(c.subfields, g.subs, k, IF second THEN k + 1 ELSE l)
  <2>1. Passed(c.subfields, RemoveAt(f.subs, l), k, l) /\ Passed(c.subfields, RemoveAt(f.subs, k), k, k + 1)
    BY <1>4, <1>5, PassedLess
  <2> QED
    BY <1>7, <2>1
<1>10. \A i \in 1 .. Len(gs) : LeftOver(c, bs, gs[i], bs[i])
  <2>1. \A i \in 1 .. Len(gs) : i # n => LeftOver(c, bs, gs[i], bs[i])
    BY DEF SubfieldsLeft
  <2> QED
    BY <1>2, <1>3, <1>8, <2>1
<1>11. \A i \in 1 .. Len(gs) : i < n => NoPair(c.subfields, gs[i].subs, Len(gs[i].subs))
  <2>1. \A i \in 1 .. Len(gs) : i < n => gs[i] = fs[i] /\ i \in 1 .. Len(fs)
    OBVIOUS
  <2> QED
    BY <2>1 DEF SubfieldsLeft
<1> QED
  BY <1>2, <1>9, <1>10, <1>11 DEF SubfieldsLeft

\* The next field, or the subfield after the next, is compared.
LEMMA SubfieldsGoOn ==
    ASSUME NEW c, NEW fs \in Seq(Filled), NEW bs, NEW n \in 1 .. Len(fs),
           NEW k \in Nat \ {0}, NEW l \in Nat, k % 2 = 1, l > Len(fs[n].subs),
           SubfieldsLeft(c, fs, bs, n, k, l)
    PROVE  IF k + 2 <= Len(fs[n].subs) THEN SubfieldsLeft(c, fs, bs, n, k + 2, k + 3)
                                       ELSE SubfieldsLeft(c, fs, bs, n + 1, 1, 2)
<1>1. PICK ts \in Seq(Sub) : ts = fs[n].subs
  <2>1. fs[n] \in Filled
    OBVIOUS
  <2> QED
    BY <2>1, SubsAre
<1>2. Len(ts) \in Nat /\ DOMAIN ts = 1 .. Len(ts) /\ l > Len(ts) /\ Len(fs) \in Nat /\ n <= Len(fs)
  BY <1>1
<1>3. Passed(c.subfields, ts, k, l)
  BY <1>1, <1>2 DEF SubfieldsLeft
\* The pair the two make is none either.
<1>4. ASSUME NEW j \in 1 .. Len(ts), j # Len(ts), j % 2 = 1, j <= k
      PROVE  ~AlikeSubfields(c.subfields, ts[j], ts[j + 1])
  <2>1. CASE j < k
    BY <1>2, <1>3, <1>4, <2>1 DEF Passed, NoPair
  <2>2. CASE j = k
    <3>1. k < Len(ts) /\ l > k + 1
      <4>1. \A a, d, e \in Nat : a <= d /\ a # d /\ e > d => a < d /\ e > a + 1
        OBVIOUS
      <4>2. j \in Nat /\ j <= Len(ts) /\ j # Len(ts) /\ l \in Nat /\ k \in Nat
        BY <1>4
      <4> QED
        BY ONLY <1>2, <2>2, <4>1, <4>2
    <3> QED
      BY <1>3, <2>2, <3>1 DEF Passed
  <2> QED
    BY <1>4, <2>1, <2>2
<1>5. CASE k + 2 <= Len(ts)
  <2>1. NoPair(c.subfields, ts, k + 2)
    <3>1. \A j \in 1 .. Len(ts) : j % 2 = 1 /\ j < k + 2 => j <= k
      <4>1. ASSUME NEW j \in 1 .. Len(ts), j % 2 = 1, j < k + 2, ~(j <= k) PROVE FALSE
        <5>1. k < j /\ j \in Nat /\ k \in Nat
          BY <4>1
        <5>2. k + 1 < j
          BY <4>1, <5>1, OddBehind
        <5> QED
          BY <4>1, <5>1, <5>2
      <4> QED
        BY <4>1
    <3> QED
      BY <1>2, <1>4, <3>1 DEF NoPair
  <2>2. ~(k + 3 > k + 2 + 1)
    OBVIOUS
  <2>3. Passed(c.subfields, ts, k + 2, k + 3)
    BY <1>5, <2>1, <2>2 DEF Passed
  <2> QED
    BY <1>1, <1>5, <2>3 DEF SubfieldsLeft
<1>6. CASE ~(k + 2 <= Len(ts))
  <2>1. NoPair(c.subfields, ts, Len(ts))
    <3>1. \A j \in 1 .. Len(ts) : j # Len(ts) => j <= k
      <4>1. \A a, d, e \in Nat : e <= d /\ e # d /\ ~(a + 2 <= d) => e <= a
        OBVIOUS
      <4>2. k \in Nat /\ \A j \in 1 .. Len(ts) : j \in Nat /\ j <= Len(ts)
        OBVIOUS
      <4> QED
        BY ONLY <1>2, <1>6, <4>1, <4>2
    <3> QED
      BY <1>2, <1>4, <3>1 DEF NoPair
  <2>2. \A i \in 1 .. Len(fs) : i < n + 1 => NoPair(c.subfields, fs[i].subs, Len(fs[i].subs))
    <3>1. \A i \in 1 .. Len(fs) : i < n + 1 => i < n \/ i = n
      BY <1>2
    <3> QED
      BY <1>1, <2>1, <3>1 DEF SubfieldsLeft
  <2>3. n + 1 <= Len(fs) => Passed(c.subfields, fs[n + 1].subs, 1, 2)
    <3>1. SUFFICES ASSUME n + 1 <= Len(fs) PROVE Passed(c.subfields, fs[n + 1].subs, 1, 2)
      OBVIOUS
    <3>2. fs[n + 1] \in Filled
      BY <3>1
    <3>3. 1 <= Len(fs[n + 1].subs) /\ DOMAIN fs[n + 1].subs = 1 .. Len(fs[n + 1].subs)
      BY <3>2, SubsAre
    <3>4. NoPair(c.subfields, fs[n + 1].subs, 1)
      BY <3>3 DEF NoPair
    <3> QED
      BY <3>3, <3>4 DEF Passed
  <2> QED
    BY <1>1, <1>6, <2>2, <2>3 DEF SubfieldsLeft
<1> QED
  BY <1>1, <1>5, <1>6

LEMMA SubfieldsBegin ==
    ASSUME NEW c, c.subfields # "leave", NEW fs \in Seq(Filled)
    PROVE  SubfieldsLeft(c, fs, fs, 1, 1, 2)
<1>1. ASSUME NEW i \in 1 .. Len(fs)
      PROVE  LeftOver(c, fs, fs[i], fs[i]) /\ Passed(c.subfields, fs[i].subs, 1, 2)
  <2>1. fs[i] \in Filled
    OBVIOUS
  <2>2. /\ fs[i].subs \in Seq(Sub) /\ Len(fs[i].subs) \in Nat /\ Len(fs[i].subs) > 0
        /\ DOMAIN fs[i].subs = 1 .. Len(fs[i].subs)
    BY <2>1, SubsAre
  <2>3. LeftOver(c, fs, fs[i], fs[i])
    BY <2>2, StoodSelf DEF LeftOver
  <2>4. NoPair(c.subfields, fs[i].subs, 1)
    BY <2>2 DEF NoPair
  <2> QED
    BY <2>2, <2>3, <2>4 DEF Passed
<1>2. Len(fs) \in Nat
  OBVIOUS
<1> QED
  BY <1>1, <1>2 DEF SubfieldsLeft

\* What delete_smart garbles had a first text with more capitals.
LEMMA SubfieldGarbled ==
    ASSUME NEW c, NEW fs \in Seq(Filled), NEW bs \in Seq(Field), NEW n \in 1 .. Len(fs),
           NEW k \in 1 .. Len(fs[n].subs), NEW l \in 1 .. Len(fs[n].subs), k < l,
           SubfieldsLeft(c, fs, bs, n, k, l),
           AlikeSubfields(c.subfields, fs[n].subs[k], fs[n].subs[l]),
           PrefersSecond(c.subfields, fs[n].subs[k].caps, fs[n].subs[l].caps)
    PROVE  /\ c.subfields = "smart"
           /\ \E i \in DOMAIN bs : \E j, m \in DOMAIN bs[i].subs :
                /\ j < m /\ bs[i].subs[j].caps > bs[i].subs[m].caps
                /\ AlikeSubfields("smart", bs[i].subs[j], bs[i].subs[m])
<1>1. c.subfields = "smart" /\ fs[n].subs[k].caps > fs[n].subs[l].caps
  BY DEF PrefersSecond
<1>2. n \in DOMAIN bs /\ LeftOf(fs[n].subs, bs[n].subs)
  <2>1. n \in 1 .. Len(bs) /\ DOMAIN bs = 1 .. Len(bs)
    BY DEF SubfieldsLeft
  <2> QED
    BY <2>1 DEF SubfieldsLeft, LeftOver
<1>3. k \in DOMAIN fs[n].subs /\ l \in DOMAIN fs[n].subs
  <2>1. fs[n] \in Filled
    OBVIOUS
  <2>2. DOMAIN fs[n].subs = 1 .. Len(fs[n].subs)
    BY <2>1, SubsAre
  <2> QED
    BY <2>2
<1>4. PICK place \in [DOMAIN fs[n].subs -> DOMAIN bs[n].subs] :
        /\ \A j, m \in DOMAIN fs[n].subs : j < m => place[j] < place[m]
        /\ \A m \in DOMAIN fs[n].subs : fs[n].subs[m] = bs[n].subs[place[m]]
  BY <1>2 DEF LeftOf
<1>5. /\ place[k] \in DOMAIN bs[n].subs /\ place[l] \in DOMAIN bs[n].subs /\ place[k] < place[l]
      /\ fs[n].subs[k] = bs[n].subs[place[k]] /\ fs[n].subs[l] = bs[n].subs[place[l]]
  BY <1>3, <1>4
<1> QED
  BY <1>1, <1>2, <1>5

-----------------------------------------------------------------------------
(* Fields                                                                  *)

LEMMA CapsIs ==
    ASSUME NEW f \in Field
    PROVE  CapsOf(f) \in Nat
<1> DEFINE n == Len(f.subs)
           Step(v, k) == v + f.subs[k].caps
           step == [k \in 1 .. n |-> [v \in Nat |-> Step(v, k)]]
           R(g) == g = [k \in 0 .. n |-> IF k = 0 THEN 0 ELSE Step(g[k - 1], k)]
<1>0. n \in Nat /\ f.subs \in Seq(Sub)
  <2>1. f.subs \in Seq(Sub)
    BY DEF Field
  <2> QED
    BY <2>1
<1>1. CapsOf(f) = (CHOOSE g : R(g))[n]
  BY DEF CapsOf
<1>2. ASSUME NEW k \in 1 .. n, NEW v \in Nat
      PROVE  Step(v, k) \in Nat
  <2>1. f.subs[k] \in Sub
    BY <1>0
  <2>2. f.subs[k].caps \in Nat
    BY <2>1 DEF Sub
  <2> QED
    BY <2>2
<1> HIDE DEF n, Step
<1>3. step \in [1 .. n -> [Nat -> Nat]]
  BY <1>2
<1>4. PICK g \in [0 .. n -> Nat] : IsFold(g, n, 0, step)
  <2> HIDE DEF step
  <2>1. 0 \in Nat
    OBVIOUS
  <2> QED
    BY <1>0, <1>3, <2>1, FoldExists, Zenon
<1>5. R(g)
  <2>1. ASSUME NEW k \in 1 .. n PROVE g[k] = Step(g[k - 1], k)
    <3>1. g[k - 1] \in Nat
      BY <1>0
    <3>2. g[k] = step[k][g[k - 1]]
      BY <1>4 DEF IsFold
    <3> QED
      BY <3>1, <3>2
  <2>2. \A k \in 0 .. n : g[k] = IF k = 0 THEN 0 ELSE Step(g[k - 1], k)
    BY <1>0, <1>4, <2>1 DEF IsFold
  <2> QED
    BY <2>2
<1> DEFINE h == CHOOSE h : R(h)
<1>6. R(h)
  BY <1>5
<1> HIDE DEF h
<1>7. h[0] = 0 /\ \A k \in 1 .. n : h[k] = Step(h[k - 1], k)
  BY <1>0, <1>6
<1>8. \A k \in 0 .. n : h[k] \in Nat
  <2>1. \A k \in 1 .. n : h[k - 1] \in Nat => h[k] \in Nat
    BY <1>2, <1>7
  <2>2. h[0] \in Nat
    BY <1>0, <1>7
  <2> QED
    BY <1>0, <2>1, <2>2, Reaches, Zenon
<1>9. n \in 0 .. n
  BY <1>0
<1> QED
  BY <1>1, <1>8, <1>9 DEF h

LEMMA KeptSelf ==
    ASSUME NEW c, NEW f \in Filled
    PROVE  Kept(c, f, f)
<1>1. Stood(c, f.subs, f.subs) /\ CapsOf(f) \in Nat
  BY SubsAre, StoodSelf, CapsIs
<1> QED
  BY <1>1 DEF Kept

LEMMA KeptOn ==
    ASSUME NEW c, NEW f \in Field, NEW g \in Filled, NEW h \in Filled, Kept(c, h, g), Kept(c, g, f)
    PROVE  Kept(c, h, f)
<1>1. /\ f.subs \in Seq(Sub) /\ g.subs \in Seq(Sub) /\ h.subs \in Seq(Sub)
      /\ CapsOf(f) \in Nat /\ CapsOf(g) \in Nat /\ CapsOf(h) \in Nat
  <2>1. f.subs \in Seq(Sub)
    BY DEF Field
  <2> QED
    BY <2>1, SubsAre, CapsIs
<1>2. ASSUME NEW k \in DOMAIN f.subs
      PROVE  \E l \in DOMAIN h.subs : Stands(c, h.subs[l], f.subs[k])
  <2>1. PICK m \in DOMAIN g.subs : Stands(c, g.subs[m], f.subs[k])
    BY DEF Kept, Stood
  <2>2. PICK l \in DOMAIN h.subs : Stands(c, h.subs[l], g.subs[m])
    BY DEF Kept, Stood
  <2>3. f.subs[k] \in Sub /\ g.subs[m] \in Sub /\ h.subs[l] \in Sub
    BY <1>1
  <2> QED
    BY <2>1, <2>2, <2>3, StandsOn
<1>3. Stood(c, h.subs, f.subs)
  BY <1>2 DEF Stood
<1>4. h.tag = f.tag /\ h.ind = f.ind
  BY DEF Kept
<1>5. c.fields = "smart" /\ c.subfields = "leave" => CapsOf(h) <= CapsOf(f)
  BY <1>1 DEF Kept
<1> QED
  BY <1>3, <1>4, <1>5 DEF Kept

\* Fields that differ in case at most stand for each other's subfields.
LEMMA StoodAlike ==
    ASSUME NEW c, c.fields # "leave", NEW f \in Filled, NEW g \in Filled, AlikeFields(c.fields, f, g),
           FoldsAny(c) => ~Unfoldable(f) /\ ~Unfoldable(g)
    PROVE  Stood(c, f.subs, g.subs) /\ Stood(c, g.subs, f.subs)
<1>1. f.subs \in Seq(Sub) /\ g.subs \in Seq(Sub)
  BY SubsAre
<1>2. CASE Folds(c.fields)
  <2>1. FoldsAny(c) /\ Folded(f) = Folded(g)
    BY <1>2 DEF FoldsAny, AlikeFields
  <2>2. DOMAIN f.subs = DOMAIN g.subs
    BY <2>1 DEF Folded
  <2>3. ASSUME NEW k \in DOMAIN f.subs
        PROVE  Stands(c, f.subs[k], g.subs[k]) /\ Stands(c, g.subs[k], f.subs[k])
    <3>1. PICK s \in Sub : s = f.subs[k]
      BY <1>1
    <3>2. PICK t \in Sub : t = g.subs[k]
      BY <1>1, <2>2
    <3>3. [s EXCEPT !.caps = 0] = [t EXCEPT !.caps = 0]
      BY <2>1, <2>2, <3>1, <3>2 DEF Folded
    <3>4. s.code = t.code /\ s.word = t.word /\ s.script = t.script
      BY <3>3 DEF Sub
    <3> QED
      BY <2>1, <3>1, <3>2, <3>4 DEF Stands
  <2> QED
    BY <2>2, <2>3 DEF Stood
<1>3. CASE ~Folds(c.fields)
  <2>1. f.subs = g.subs
    BY <1>3 DEF AlikeFields
  <2> QED
    BY <1>1, <2>1, StoodSelf
<1> QED
  BY <1>2, <1>3

LEMMA SameCaps ==
    ASSUME NEW f, NEW g, f.subs = g.subs
    PROVE  CapsOf(f) = CapsOf(g)
BY DEF CapsOf

LEMMA KeptAlike ==
    ASSUME NEW c, c.fields # "leave", NEW f \in Filled, NEW g \in Filled, AlikeFields(c.fields, f, g),
           FoldsAny(c) => ~Unfoldable(f) /\ ~Unfoldable(g)
    PROVE  IF PrefersSecond(c.fields, CapsOf(f), CapsOf(g)) THEN Kept(c, g, f) ELSE Kept(c, f, g)
<1>1. Stood(c, f.subs, g.subs) /\ Stood(c, g.subs, f.subs)
  BY StoodAlike
<1>2. f.tag = g.tag /\ f.ind = g.ind
  BY DEF AlikeFields
<1>3. CapsOf(f) \in Nat /\ CapsOf(g) \in Nat
  BY SubsAre, CapsIs
<1> QED
  BY <1>1, <1>2, <1>3 DEF Kept, PrefersSecond

\* The fields before duplicate fields are removed.
LEMMA FieldsBegin ==
    ASSUME NEW c, NEW fs \in Seq(Filled), c.subfields = "leave"
    PROVE  FieldsLeft(c, fs, fs)
<1>1. \A i \in DOMAIN fs : Kept(c, fs[i], fs[i])
  <2>1. \A i \in DOMAIN fs : fs[i] \in Filled
    OBVIOUS
  <2> QED
    BY <2>1, KeptSelf
<1> QED
  BY <1>1 DEF FieldsLeft

LEMMA FieldsBeginBehind ==
    ASSUME NEW c, NEW fs \in Seq(Filled), NEW bs \in Seq(Field), NEW n \in Nat, n > Len(fs),
           NEW k, NEW l, SubfieldsLeft(c, fs, bs, n, k, l)
    PROVE  FieldsLeft(c, fs, bs)
<1>1. DOMAIN fs = 1 .. Len(fs) /\ DOMAIN bs = 1 .. Len(fs) /\ Len(fs) \in Nat
  BY DEF SubfieldsLeft
<1>2. ASSUME Tells(c, bs), NEW i \in DOMAIN bs
      PROVE  Kept(c, fs[i], bs[i])
  <2>1. LeftOver(c, bs, fs[i], bs[i]) /\ c.subfields # "leave"
    BY <1>1, <1>2 DEF SubfieldsLeft
  <2> QED
    BY <1>2, <2>1 DEF LeftOver, Kept
<1>3. ASSUME Texts(bs)
      PROVE  Texts(fs)
  <2>1. ASSUME NEW i \in DOMAIN fs, NEW k0 \in DOMAIN fs[i].subs
        PROVE  fs[i].subs[k0].word \notin {Empty, NotUtf8}
    <3>1. i \in DOMAIN bs /\ LeftOf(fs[i].subs, bs[i].subs)
      BY <1>1 DEF SubfieldsLeft, LeftOver
    <3>2. fs[i].subs \in Seq(Sub)
      <4>1. fs[i] \in Filled
        BY <1>1
      <4> QED
        BY <4>1, SubsAre
    <3> QED
      BY <1>3, <3>1, <3>2, LeftTexts
  <2> QED
    BY <2>1 DEF Texts
<1>4. \A i \in DOMAIN fs : NoPair(c.subfields, fs[i].subs, Len(fs[i].subs))
  <2>1. \A i \in DOMAIN fs : i < n
    BY <1>1
  <2> QED
    BY <1>1, <2>1 DEF SubfieldsLeft
<1> QED
  BY <1>1, <1>2, <1>3, <1>4 DEF FieldsLeft

\* Of two fields that are alike, the one PrefersSecond tells to goes.
LEMMA FieldGoes ==
    ASSUME NEW c, c.fields # "leave", NEW fs \in Seq(Filled), NEW bs \in Seq(Field),
           FieldsLeft(c, fs, bs),
           NEW n \in 1 .. Len(fs), NEW l \in 1 .. Len(fs), n < l,
           AlikeFields(c.fields, fs[n], fs[l]),
           NEW x \in 1 .. Len(fs),
           x = IF PrefersSecond(c.fields, CapsOf(fs[n]), CapsOf(fs[l])) THEN n ELSE l
    PROVE  FieldsLeft(c, RemoveAt(fs, x), bs)
<1>0. /\ DOMAIN fs = 1 .. Len(fs) /\ Len(fs) \in Nat /\ \A i \in 1 .. Len(fs) : fs[i] \in Filled
      /\ \A i \in DOMAIN bs : bs[i] \in Field
  OBVIOUS
<1>1. PICK gs : gs = RemoveAt(fs, x)
  OBVIOUS
<1>2. /\ gs \in Seq(Filled) /\ Len(gs) = Len(fs) - 1
      /\ \A j \in 1 .. Len(fs) - 1 : gs[j] = IF j < x THEN fs[j] ELSE fs[j + 1]
  BY <1>1, Removed
<1>3. DOMAIN gs = 1 .. Len(fs) - 1
  BY <1>2
<1>4. \A j \in DOMAIN gs : \E i \in 1 .. Len(fs) : gs[j] = fs[i]
  <2>1. \A j \in 1 .. Len(fs) - 1 : j \in 1 .. Len(fs) /\ j + 1 \in 1 .. Len(fs)
    BY <1>0
  <2> QED
    BY <1>2, <1>3, <2>1
\* The one that stays is kept for the one that goes.
<1>5. PICK y \in 1 .. Len(fs) : y # x /\ (Tells(c, bs) => Kept(c, fs[y], fs[x]))
  <2>1. ASSUME Tells(c, bs), FoldsAny(c) PROVE ~Unfoldable(fs[n]) /\ ~Unfoldable(fs[l])
    <3>1. Texts(fs)
      BY <2>1 DEF FieldsLeft, Tells
    <3> QED
      BY <1>0, <3>1 DEF Texts, Unfoldable
  <2>2. Tells(c, bs) => IF PrefersSecond(c.fields, CapsOf(fs[n]), CapsOf(fs[l]))
                           THEN Kept(c, fs[l], fs[n]) ELSE Kept(c, fs[n], fs[l])
    <3>1. fs[n] \in Filled /\ fs[l] \in Filled
      BY <1>0
    <3> QED
      BY <2>1, <3>1, KeptAlike
  <2>3. n # l
    BY <1>0
  <2>4. CASE PrefersSecond(c.fields, CapsOf(fs[n]), CapsOf(fs[l]))
    BY <2>2, <2>3, <2>4
  <2>5. CASE ~PrefersSecond(c.fields, CapsOf(fs[n]), CapsOf(fs[l]))
    BY <2>2, <2>3, <2>5
  <2> QED
    BY <2>4, <2>5
<1>6. ASSUME Tells(c, bs), NEW i \in DOMAIN bs
      PROVE  \E j \in DOMAIN gs : Kept(c, gs[j], bs[i])
  <2>1. PICK k \in 1 .. Len(fs) : Kept(c, fs[k], bs[i])
    BY <1>0, <1>6 DEF FieldsLeft
  <2>2. PICK m \in 1 .. Len(fs) : m # x /\ Kept(c, fs[m], bs[i])
    <3>1. CASE k # x
      BY <2>1, <3>1
    <3>2. CASE k = x
      <4>1. fs[x] \in Filled /\ fs[y] \in Filled /\ bs[i] \in Field
        BY <1>0
      <4>2. Kept(c, fs[y], fs[x]) /\ Kept(c, fs[x], bs[i])
        BY <1>5, <1>6, <2>1, <3>2
      <4>3. Kept(c, fs[y], bs[i])
        BY <4>1, <4>2, KeptOn
      <4> QED
        BY <1>5, <4>3
    <3> QED
      BY <3>1, <3>2
  <2>3. PICK j \in 1 .. Len(fs) - 1 : gs[j] = fs[m]
    BY <1>1, <2>2, Stays
  <2> QED
    BY <1>3, <2>2, <2>3
<1>7. Texts(fs) => Texts(gs)
  BY <1>0, <1>4 DEF Texts
<1>8. c.subfields # "leave" =>
         \A j \in DOMAIN gs : NoPair(c.subfields, gs[j].subs, Len(gs[j].subs))
  <2>1. c.subfields # "leave" =>
           \A i \in 1 .. Len(fs) : NoPair(c.subfields, fs[i].subs, Len(fs[i].subs))
    BY <1>0 DEF FieldsLeft
  <2> QED
    BY <1>4, <2>1
<1>9. FieldsLeft(c, gs, bs)
  BY <1>6, <1>7, <1>8 DEF FieldsLeft
<1> QED
  BY <1>1, <1>9

\* The fields before the one in process stay unlike those behind them when one
\* of its tag goes.
LEMMA TwinsGone ==
    ASSUME NEW mode, NEW fs \in Seq(Filled), NEW n \in 1 .. Len(fs), NEW x \in 1 .. Len(fs),
           NoTwins(mode, fs, n), n <= x, fs[x].tag = fs[n].tag,
           x = n => n < Len(fs) /\ fs[n + 1].tag = fs[n].tag
    PROVE  NoTwins(mode, RemoveAt(fs, x), n)
<1>0. DOMAIN fs = 1 .. Len(fs) /\ Len(fs) \in Nat
  OBVIOUS
<1>1. PICK gs : gs = RemoveAt(fs, x)
  OBVIOUS
<1>2. /\ gs \in Seq(Filled) /\ Len(gs) = Len(fs) - 1
      /\ \A j \in 1 .. Len(fs) - 1 : gs[j] = IF j < x THEN fs[j] ELSE fs[j + 1]
  BY <1>1, Removed
<1>3. DOMAIN gs = 1 .. Len(fs) - 1
  BY <1>2
<1>4. ASSUME NEW i \in 1 .. Len(fs) - 1, NEW j \in 1 .. Len(fs) - 1, i < n, i < j,
             \A k \in i .. j : gs[k].tag = gs[i].tag, AlikeFields(mode, gs[i], gs[j])
      PROVE  mode = "smart" /\ i = 1
  <2>1. gs[i] = fs[i] /\ i \in 1 .. Len(fs) /\ i < x
    BY <1>0, <1>2, <1>4
  <2>2. CASE j < x
    <3>1. \A k \in i .. j : gs[k] = fs[k]
      BY SMTT(30), <1>0, <1>2, <1>4, <2>2
    <3>2. j \in 1 .. Len(fs) /\ gs[j] = fs[j]
      BY <1>0, <1>2, <1>4, <2>2
    <3>3. \A k \in i .. j : fs[k].tag = fs[i].tag
      BY <1>4, <2>1, <3>1
    <3> QED
      BY <1>0, <1>4, <2>1, <3>2, <3>3 DEF NoTwins
  <2>3. CASE ~(j < x)
    <3>1. gs[j] = fs[j + 1] /\ j + 1 \in 1 .. Len(fs) /\ i < j + 1
      BY <1>0, <1>2, <1>4, <2>3
    <3>2. \A k \in i .. x - 1 : k \in i .. j /\ gs[k] = fs[k]
      BY <1>0, <1>2, <1>4, <2>3
    <3>3. \A k \in x + 1 .. j + 1 : k - 1 \in i .. j /\ gs[k - 1] = fs[k]
      <4>1. ASSUME NEW k \in x + 1 .. j + 1 PROVE k - 1 \in i .. j /\ gs[k - 1] = fs[k]
        <5>1. PICK m \in 1 .. Len(fs) - 1 : m = k - 1 /\ m + 1 = k /\ ~(m < x) /\ m \in i .. j
          BY <1>0, <1>4, <2>1, <2>3
        <5>2. gs[m] = fs[m + 1]
          BY <1>2, <5>1
        <5> QED
          BY <5>1, <5>2
      <4> QED
        BY <4>1
    <3>4. fs[x].tag = fs[i].tag
      <4>1. CASE x = n
        <5>1. n + 1 \in x + 1 .. j + 1
          BY <1>0, <2>3, <4>1
        <5>2. fs[n + 1].tag = gs[i].tag
          <6>1. n + 1 - 1 \in i .. j /\ gs[n + 1 - 1] = fs[n + 1]
            BY <3>3, <5>1
          <6> QED
            BY <1>4, <6>1
        <5> QED
          BY <2>1, <4>1, <5>2
      <4>2. CASE x # n
        <5>1. n \in i .. x - 1
          BY <1>0, <1>4, <4>2
        <5>2. fs[n].tag = gs[i].tag
          BY <1>4, <3>2, <5>1
        <5> QED
          BY <2>1, <5>2
      <4> QED
        BY <4>1, <4>2
    <3>5. \A k \in i .. j + 1 : fs[k].tag = fs[i].tag
      <4>1. \A k \in i .. x - 1 : fs[k].tag = fs[i].tag
        BY <1>4, <2>1, <3>2
      <4>2. \A k \in x + 1 .. j + 1 : fs[k].tag = fs[i].tag
        BY <1>4, <2>1, <3>3
      <4>3. \A k \in i .. j + 1 : k \in i .. x - 1 \/ k = x \/ k \in x + 1 .. j + 1
        BY <1>0
      <4> QED
        BY <3>4, <4>1, <4>2, <4>3
    <3>6. AlikeFields(mode, fs[i], fs[j + 1])
      BY <1>4, <2>1, <3>1
    <3> QED
      BY <1>0, <1>4, <2>1, <3>1, <3>5, <3>6 DEF NoTwins
  <2> QED
    BY <2>2, <2>3
<1>5. NoTwins(mode, gs, n)
  BY <1>3, <1>4 DEF NoTwins
<1> QED
  BY <1>1, <1>5

\* A field after which one of its tag goes, or one that goes itself.
LEMMA ComparedLess ==
    ASSUME NEW mode, NEW fs \in Seq(Filled), NEW n \in 1 .. Len(fs), NEW l \in 1 .. Len(fs), n < l,
           fs[l].tag = fs[n].tag, Compared(mode, fs, n, l)
    PROVE  /\ Compared(mode, RemoveAt(fs, l), n, l)
           /\ n # 1 => Compared(mode, RemoveAt(fs, n), n, n + 1)
           /\ mode = "smart" => Compared(mode, RemoveAt(fs, 1), 2, 3)
<1>0. Len(fs) \in Nat /\ n < Len(fs) /\ 1 \in 1 .. Len(fs)
  OBVIOUS
<1>1. /\ Len(RemoveAt(fs, l)) = Len(fs) - 1
      /\ \A j \in 1 .. Len(fs) - 1 : RemoveAt(fs, l)[j] = IF j < l THEN fs[j] ELSE fs[j + 1]
  BY Removed
<1>2. NoTwins(mode, fs, n) /\ \A j \in n + 1 .. l - 1 :
          fs[j].tag = fs[n].tag /\ ~AlikeFields(mode, fs[n], fs[j])
  BY <1>0 DEF Compared
<1>3. Compared(mode, RemoveAt(fs, l), n, l)
  <2>1. NoTwins(mode, RemoveAt(fs, l), n)
    BY <1>0, <1>2, TwinsGone
  <2>2. ASSUME NEW j \in n + 1 .. l - 1
        PROVE  /\ j <= Len(fs) - 1 /\ RemoveAt(fs, l)[j] = fs[j] /\ RemoveAt(fs, l)[n] = fs[n]
    <3>1. j \in 1 .. Len(fs) - 1 /\ n \in 1 .. Len(fs) - 1 /\ j < l
      BY <1>0
    <3> QED
      BY <1>1, <3>1
  <2> QED
    BY <1>1, <1>2, <2>1, <2>2 DEF Compared
<1>4. NoTwins(mode, RemoveAt(fs, n), n)
  <2>1. fs[n + 1].tag = fs[n].tag
    <3>1. CASE l = n + 1
      BY <3>1
    <3>2. CASE l # n + 1
      <4>1. n + 1 \in n + 1 .. l - 1
        BY <1>0, <3>2
      <4> QED
        BY <1>2, <4>1
    <3> QED
      BY <3>1, <3>2
  <2> QED
    BY <1>0, <1>2, <2>1, TwinsGone
<1>5. Compared(mode, RemoveAt(fs, n), n, n + 1)
  <2>1. n + 1 .. n + 1 - 1 = {}
    BY <1>0
  <2> QED
    BY <1>4, <2>1 DEF Compared
<1>6. ASSUME mode = "smart"
      PROVE  Compared(mode, RemoveAt(fs, 1), 2, 3)
  <2>1. DOMAIN RemoveAt(fs, 1) = 1 .. Len(fs) - 1
    <3>1. RemoveAt(fs, 1) \in Seq(Filled) /\ Len(RemoveAt(fs, 1)) = Len(fs) - 1
      BY <1>0, Removed
    <3> QED
      BY <3>1
  <2>2. NoTwins(mode, RemoveAt(fs, 1), 2)
    <3>1. \A i \in 1 .. Len(fs) - 1 : i < 2 => i = 1
      BY <1>0
    <3> QED
      BY <1>6, <2>1, <3>1 DEF NoTwins
  <2>3. 2 + 1 .. 3 - 1 = {}
    OBVIOUS
  <2> QED
    BY <2>2, <2>3 DEF Compared
<1> QED
  BY <1>3, <1>5, <1>6

\* The next field is compared, once the fields of the tag have been.
LEMMA FieldsGoOn ==
    ASSUME NEW mode, NEW fs \in Seq(Filled), NEW n \in 1 .. Len(fs), NEW l \in Nat, n < l,
           l <= Len(fs) => fs[l].tag # fs[n].tag, Compared(mode, fs, n, l)
    PROVE  Compared(mode, fs, n + 1, n + 2)
<1>0. DOMAIN fs = 1 .. Len(fs) /\ Len(fs) \in Nat
  OBVIOUS
<1>1. NoTwins(mode, fs, n) /\ \A j \in n + 1 .. l - 1 : ~AlikeFields(mode, fs[n], fs[j])
  BY <1>0 DEF Compared
<1>2. ASSUME NEW j \in 1 .. Len(fs), n < j, \A k \in n .. j : fs[k].tag = fs[n].tag
      PROVE  ~AlikeFields(mode, fs[n], fs[j])
  <2>1. CASE j < l
    <3>1. j \in n + 1 .. l - 1
      BY <1>0, <1>2, <2>1
    <3> QED
      BY <1>1, <3>1
  <2>2. CASE ~(j < l)
    <3>1. l \in n .. j /\ l <= Len(fs)
      BY <1>0, <1>2, <2>2
    <3> QED
      BY <1>2, <3>1
  <2> QED
    BY <2>1, <2>2
<1>3. \A i \in 1 .. Len(fs) : i < n + 1 => i < n \/ i = n
  BY <1>0
<1>4. NoTwins(mode, fs, n + 1)
  BY <1>0, <1>1, <1>2, <1>3 DEF NoTwins
<1>5. n + 1 + 1 .. n + 2 - 1 = {}
  BY <1>0
<1> QED
  BY <1>4, <1>5 DEF Compared

LEMMA CompareBegins ==
    ASSUME NEW mode, NEW fs \in Seq(Filled)
    PROVE  Compared(mode, fs, 1, 2)
<1>1. DOMAIN fs = 1 .. Len(fs) /\ 1 + 1 .. 2 - 1 = {}
  OBVIOUS
<1> QED
  BY <1>1 DEF Compared, NoTwins

-----------------------------------------------------------------------------
(* The passes *)

\* No duplicate has been removed yet, nor will one be in this step.
Quiet == SubfieldsInv /\ FieldsInv /\ GarbledInv

LEMMA QuietOutside ==
    ASSUME phase' \notin {"subfields", "fields", "done", "garbled"}
    PROVE  Quiet'
BY DEF Quiet, SubfieldsInv, FieldsInv, GarbledInv

LEMMA QuietAtFirst ==
    ASSUME fields' \in Seq(Filled), UNCHANGED conversion, ToDuplicates(fields')
    PROVE  Quiet'
<1>1. /\ before' = fields' /\ cur' = 1 /\ p' = 1 /\ q' = 2
      /\ phase' = IF conversion.subfields # "leave" THEN "subfields"
                  ELSE IF conversion.fields # "leave" THEN "fields" ELSE "done"
  BY DEF ToDuplicates, DuplicatesPhase
<1>2. CASE conversion.subfields # "leave"
  <2>1. phase' = "subfields"
    BY <1>1, <1>2
  <2>2. SubfieldsLeft(conversion, fields', fields', 1, 1, 2)
    BY <1>2, SubfieldsBegin
  <2> QED
    BY <1>1, <2>1, <2>2 DEF Quiet, SubfieldsInv, FieldsInv, GarbledInv
<1>3. CASE conversion.subfields = "leave"
  <2>1. FieldsLeft(conversion, fields', fields')
    BY <1>3, FieldsBegin
  <2>2. CASE conversion.fields # "leave"
    <3>1. phase' = "fields"
      BY <1>1, <1>3, <2>2
    <3>2. Compared(conversion.fields, fields', 1, 2)
      BY CompareBegins
    <3> QED
      BY <1>1, <2>1, <2>2, <3>1, <3>2 DEF Quiet, SubfieldsInv, FieldsInv, GarbledInv
  <2>3. CASE conversion.fields = "leave"
    <3>1. phase' = "done"
      BY <1>1, <1>3, <2>3
    <3> QED
      BY <1>1, <2>1, <2>3, <3>1 DEF Quiet, SubfieldsInv, FieldsInv, GarbledInv
  <2> QED
    BY <2>2, <2>3
<1> QED
  BY <1>2, <1>3

LEMMA ConvertQuiet == Types /\ Convert => Quiet'
<1> SUFFICES ASSUME Types, Convert PROVE Quiet'
  OBVIOUS
<1>1. fields \in Seq(Filled) /\ UNCHANGED conversion
  BY FieldsAre DEF Types, Convert
<1>2. fields' \in Seq(Filled)
  BY <1>1, CarriedIs, ByTagIs DEF Convert
<1>3. CASE conversion.linked
  <2>1. phase' = "separate"
    BY <1>3 DEF Convert
  <2> QED
    BY <2>1, QuietOutside
<1>4. CASE ~conversion.linked
  <2>1. ToDuplicates(fields')
    BY <1>4 DEF Convert
  <2> QED
    BY <1>1, <1>2, <2>1, QuietAtFirst
<1> QED
  BY <1>3, <1>4

LEMMA EndSeparationQuiet == Types /\ EndSeparation => Quiet'
<1> SUFFICES ASSUME Types, EndSeparation PROVE Quiet'
  OBVIOUS
<1>1. UNCHANGED <<conversion, fields>> /\ ToDuplicates(fields)
  BY DEF EndSeparation
<1>2. fields' \in Seq(Filled) /\ ToDuplicates(fields')
  BY <1>1, FieldsAre DEF Types
<1> QED
  BY <1>1, <1>2, QuietAtFirst

LEMMA CompareSubfieldsQuiet == Inv /\ CompareSubfields => Quiet'
<1> SUFFICES ASSUME Inv, CompareSubfields PROVE Quiet'
  OBVIOUS
<1>1. /\ phase = "subfields"
      /\ fields \in Seq(Filled) /\ cur \in 1 .. Len(fields)
      /\ p \in 1 .. Len(Subs) /\ q \in 1 .. Len(Subs) /\ p < q /\ p % 2 = 1
      /\ UNCHANGED <<conversion, cur, p, before>>
      /\ fields' \in Seq(Filled) /\ Len(fields') = Len(fields)
      /\ \A j \in 1 .. Len(fields) : j # cur => fields'[j] = fields[j]
      /\ fields'[cur].tag = fields[cur].tag /\ fields'[cur].ind = fields[cur].ind
      /\ \/ /\ Unlike /\ q' = q + 2 /\ fields' = fields /\ phase' = phase
         \/ /\ ~Unlike /\ ~Second /\ q' = q /\ phase' = phase
            /\ fields'[cur].subs = RemoveAt(Subs, q)
         \/ /\ ~Unlike /\ Second /\ q' = p + 1 /\ phase' \in {phase, "garbled"}
            /\ fields'[cur].subs = RemoveAt(Subs, p)
  BY ComparedSubfields DEF Inv
<1>2. SubfieldsLeft(conversion, fields, before, cur, p, q) /\ before \in Seq(Field)
  BY <1>1 DEF Inv, SubfieldsInv, Types, TypeOK
<1>3. CASE Unlike
  <2>1. phase' = "subfields" /\ q' = q + 2 /\ fields' = fields
    BY <1>1, <1>3
  <2>2. SubfieldsLeft(conversion, fields, before, cur, p, q + 2)
    <3>1. Passed(conversion.subfields, fields[cur].subs, p, q + 2)
      <4>1. Passed(conversion.subfields, fields[cur].subs, p, q)
        BY <1>1, <1>2 DEF SubfieldsLeft
      <4>2. q > p + 1 \/ q = p + 1
        BY <1>1
      <4>3. CASE q = p + 1
        BY <1>3, <4>1, <4>3 DEF Passed, Unlike, Subs
      <4>4. CASE q > p + 1
        BY <4>1, <4>4 DEF Passed
      <4> QED
        BY <4>2, <4>3, <4>4
    <3> QED
      BY <1>2, <3>1 DEF SubfieldsLeft
  <2> QED
    BY <1>1, <2>1, <2>2 DEF Quiet, SubfieldsInv, FieldsInv, GarbledInv
<1>4. CASE ~Unlike
  <2>1. PICK second : second = Second
    OBVIOUS
  <2>2. /\ fields'[cur].subs = RemoveAt(fields[cur].subs, IF second THEN p ELSE q)
        /\ q' = IF second THEN p + 1 ELSE q
        /\ second <=> PrefersSecond(conversion.subfields, fields[cur].subs[p].caps, fields[cur].subs[q].caps)
        /\ AlikeSubfields(conversion.subfields, fields[cur].subs[p], fields[cur].subs[q])
    BY <1>1, <1>4, <2>1 DEF Unlike, Second, Subs
  <2>3. p \in 1 .. Len(fields[cur].subs) /\ q \in 1 .. Len(fields[cur].subs)
    BY <1>1 DEF Subs
  <2>4. SubfieldsLeft(conversion, fields', before, cur, p, q')
    <3>1. SubfieldsLeft(conversion, fields', before, cur, p, IF second THEN p + 1 ELSE q)
      BY ONLY <1>1, <1>2, <2>2, <2>3, SubfieldGoes
    <3> QED
      BY <2>2, <3>1
  <2>5. CASE phase' = "subfields"
    BY <1>1, <2>4, <2>5 DEF Quiet, SubfieldsInv, FieldsInv, GarbledInv
  <2>6. CASE phase' = "garbled"
    <3>1. second
      BY <1>1, <2>1, <2>6
    <3>2. /\ conversion.subfields = "smart"
          /\ \E i \in DOMAIN before : \E j, m \in DOMAIN before[i].subs :
               /\ j < m /\ before[i].subs[j].caps > before[i].subs[m].caps
               /\ AlikeSubfields("smart", before[i].subs[j], before[i].subs[m])
      BY <1>1, <1>2, <2>2, <2>3, <3>1, SubfieldGarbled
    <3> QED
      BY <1>1, <2>6, <3>2 DEF Quiet, SubfieldsInv, FieldsInv, GarbledInv
  <2> QED
    BY <1>1, <2>5, <2>6
<1> QED
  BY <1>3, <1>4

LEMMA NextSubfieldQuiet == Inv /\ NextSubfield => Quiet'
<1> SUFFICES ASSUME Inv, NextSubfield PROVE Quiet'
  OBVIOUS
<1>1. /\ phase = "subfields" /\ cur \in Nat \ {0} /\ cur <= Len(fields) /\ q > Len(Subs)
      /\ p \in Nat \ {0} /\ q \in Nat /\ p % 2 = 1 /\ fields \in Seq(Filled)
      /\ UNCHANGED <<conversion, fields, phase, before>>
  BY FieldsAre DEF Inv, Types, TypeOK, NextSubfield
<1>2. SubfieldsLeft(conversion, fields, before, cur, p, q)
  BY <1>1 DEF Inv, SubfieldsInv
<1>3. cur \in 1 .. Len(fields)
  BY <1>1
<1>4. IF p + 2 <= Len(fields[cur].subs)
         THEN SubfieldsLeft(conversion, fields, before, cur, p + 2, p + 3)
         ELSE SubfieldsLeft(conversion, fields, before, cur + 1, 1, 2)
  BY <1>1, <1>2, <1>3, SubfieldsGoOn DEF Subs
<1>5. IF p + 2 <= Len(fields[cur].subs) THEN p' = p + 2 /\ q' = p + 3 /\ cur' = cur
                                        ELSE p' = 1 /\ q' = 2 /\ cur' = cur + 1
  BY DEF NextSubfield, Subs
<1>6. SubfieldsLeft(conversion, fields, before, cur', p', q')
  BY <1>4, <1>5
<1> QED
  BY <1>1, <1>6 DEF Quiet, SubfieldsInv, FieldsInv, GarbledInv

LEMMA EndSubfieldsQuiet == Inv /\ EndSubfields => Quiet'
<1> SUFFICES ASSUME Inv, EndSubfields PROVE Quiet'
  OBVIOUS
<1>1. /\ phase = "subfields" /\ cur \in Nat /\ cur > Len(fields)
      /\ fields \in Seq(Filled) /\ before \in Seq(Field)
      /\ UNCHANGED <<conversion, fields, before>> /\ cur' = 1 /\ q' = 2
      /\ phase' = IF conversion.fields = "leave" THEN "done" ELSE "fields"
  BY FieldsAre DEF Inv, Types, TypeOK, EndSubfields
<1>2. SubfieldsLeft(conversion, fields, before, cur, p, q)
  BY <1>1 DEF Inv, SubfieldsInv
<1>3. FieldsLeft(conversion, fields, before)
  BY <1>1, <1>2, FieldsBeginBehind
<1>4. Compared(conversion.fields, fields, 1, 2)
  BY <1>1, CompareBegins
<1>5. CASE conversion.fields = "leave"
  BY <1>1, <1>3, <1>5 DEF Quiet, SubfieldsInv, FieldsInv, GarbledInv
<1>6. CASE conversion.fields # "leave"
  BY <1>1, <1>3, <1>4, <1>6 DEF Quiet, SubfieldsInv, FieldsInv, GarbledInv
<1> QED
  BY <1>5, <1>6

LEMMA CompareFieldsQuiet == Inv /\ CompareFields => Quiet'
<1> SUFFICES ASSUME Inv, CompareFields PROVE Quiet'
  OBVIOUS
<1>1. /\ phase = "fields"
      /\ fields \in Seq(Filled) /\ Len(fields) \in Nat
      /\ cur \in 1 .. Len(fields) /\ q \in 1 .. Len(fields) /\ cur < q
      /\ fields[q].tag = fields[cur].tag
      /\ UNCHANGED <<conversion, phase, before>>
      /\ \/ Differ /\ q' = q + 1 /\ cur' = cur /\ fields' = fields
         \/ ~Differ /\ ~Later /\ q' = q /\ cur' = cur /\ fields' = RemoveAt(fields, q)
         \/ /\ ~Differ /\ Later /\ fields' = RemoveAt(fields, cur)
            /\ cur' = (IF cur = 1 THEN 2 ELSE cur) /\ q' = cur' + 1
  BY ComparedFields DEF Inv
<1>2. /\ FieldsLeft(conversion, fields, before) /\ before \in Seq(Field)
      /\ conversion.fields # "leave" /\ Compared(conversion.fields, fields, cur, q)
  BY <1>1 DEF Inv, FieldsInv, Types, TypeOK
<1>3. FieldsLeft(conversion, fields', before) /\ Compared(conversion.fields, fields', cur', q')
  <2>1. CASE Differ
    <3>1. q' = q + 1 /\ cur' = cur /\ fields' = fields
      BY <1>1, <2>1
    <3>2. Compared(conversion.fields, fields, cur, q + 1)
      <4>1. NoTwins(conversion.fields, fields, cur) /\ \A j \in cur + 1 .. q - 1 :
                /\ j <= Len(fields) /\ fields[j].tag = fields[cur].tag
                /\ ~AlikeFields(conversion.fields, fields[cur], fields[j])
        BY <1>1, <1>2 DEF Compared
      <4>2. \A j \in cur + 1 .. q + 1 - 1 : j \in cur + 1 .. q - 1 \/ j = q
        BY <1>1
      <4>3. ~AlikeFields(conversion.fields, fields[cur], fields[q]) /\ q <= Len(fields)
        BY <1>1, <2>1 DEF Differ
      <4> QED
        BY <1>1, <4>1, <4>2, <4>3 DEF Compared
    <3> QED
      BY <1>2, <3>1, <3>2
  <2>2. CASE ~Differ /\ ~Later
    <3>1. q' = q /\ cur' = cur /\ fields' = RemoveAt(fields, q)
      BY <1>1, <2>2
    <3>2. /\ AlikeFields(conversion.fields, fields[cur], fields[q])
          /\ q = IF PrefersSecond(conversion.fields, CapsOf(fields[cur]), CapsOf(fields[q]))
                 THEN cur ELSE q
      BY <2>2 DEF Differ, Later
    <3>3. FieldsLeft(conversion, RemoveAt(fields, q), before)
      BY ONLY <1>1, <1>2, <3>2, FieldGoes
    <3>4. Compared(conversion.fields, RemoveAt(fields, q), cur, q)
      BY ONLY <1>1, <1>2, ComparedLess
    <3> QED
      BY <3>1, <3>3, <3>4
  <2>3. CASE ~Differ /\ Later
    <3>1. fields' = RemoveAt(fields, cur) /\ cur' = (IF cur = 1 THEN 2 ELSE cur) /\ q' = cur' + 1
      BY <1>1, <2>3
    <3>2. /\ AlikeFields(conversion.fields, fields[cur], fields[q])
          /\ cur = IF PrefersSecond(conversion.fields, CapsOf(fields[cur]), CapsOf(fields[q]))
                   THEN cur ELSE q
          /\ conversion.fields = "smart"
      BY <2>3 DEF Differ, Later, PrefersSecond
    <3>3. FieldsLeft(conversion, RemoveAt(fields, cur), before)
      BY ONLY <1>1, <1>2, <3>2, FieldGoes
    <3>4. /\ cur # 1 => Compared(conversion.fields, RemoveAt(fields, cur), cur, cur + 1)
          /\ Compared(conversion.fields, RemoveAt(fields, 1), 2, 3)
      BY ONLY <1>1, <1>2, <3>2, ComparedLess
    <3>5. CASE cur = 1
      BY <3>1, <3>3, <3>4, <3>5
    <3>6. CASE cur # 1
      BY <3>1, <3>3, <3>4, <3>6
    <3> QED
      BY <3>5, <3>6
  <2> QED
    BY <2>1, <2>2, <2>3
<1> QED
  BY <1>1, <1>2, <1>3 DEF Quiet, SubfieldsInv, FieldsInv, GarbledInv

LEMMA NextFieldQuiet == Inv /\ NextField => Quiet'
<1> SUFFICES ASSUME Inv, NextField PROVE Quiet'
  OBVIOUS
<1>1. /\ phase = "fields" /\ cur \in Nat \ {0} /\ cur <= Len(fields) /\ q \in Nat /\ cur < q
      /\ fields \in Seq(Filled) /\ Len(fields) \in Nat
      /\ q <= Len(fields) => fields[q].tag # fields[cur].tag
      /\ UNCHANGED <<conversion, fields, phase, before>> /\ cur' = cur + 1 /\ q' = cur + 2
  BY FieldsAre DEF Inv, Types, TypeOK, NextField
<1>2. /\ FieldsLeft(conversion, fields, before)
      /\ conversion.fields # "leave" /\ Compared(conversion.fields, fields, cur, q)
  BY <1>1 DEF Inv, FieldsInv
<1>3. cur \in 1 .. Len(fields)
  BY <1>1
<1>4. Compared(conversion.fields, fields, cur + 1, cur + 2)
  BY ONLY <1>1, <1>2, <1>3, FieldsGoOn
<1> QED
  BY <1>1, <1>2, <1>4 DEF Quiet, SubfieldsInv, FieldsInv, GarbledInv

LEMMA EndFieldsQuiet == Inv /\ EndFields => Quiet'
<1> SUFFICES ASSUME Inv, EndFields PROVE Quiet'
  OBVIOUS
<1>1. /\ phase = "fields" /\ phase' = "done" /\ cur \in Nat /\ cur > Len(fields)
      /\ Len(fields) \in Nat /\ UNCHANGED <<conversion, fields, before>>
      /\ DOMAIN fields = 1 .. Len(fields)
  BY FieldsAre DEF Inv, Types, TypeOK, EndFields
<1>2. FieldsLeft(conversion, fields, before) /\ NoTwins(conversion.fields, fields, cur)
  BY <1>1 DEF Inv, FieldsInv, Compared
<1>3. NoTwins(conversion.fields, fields, Len(fields))
  BY <1>1, <1>2 DEF NoTwins
<1> QED
  BY <1>1, <1>2, <1>3 DEF Quiet, SubfieldsInv, FieldsInv, GarbledInv

LEMMA StutterQuiet == Inv /\ UNCHANGED vars => Quiet'
BY DEF Inv, Quiet, SubfieldsInv, FieldsInv, GarbledInv, vars

\* Of every subfield and every field that was there before the duplicates were
\* removed, in a record of any length and in every configuration, one stays,
\* and what is left besides are the pairs that the loops of
\* TMarcRecord::ProcessDuplicateFields do not compare.
THEOREM OneStays == Spec => []OneOfEachStays
<1>1. Init => Inv
  <2>1. Init => Types
    BY InitTypes
  <2>2. Init => Quiet
    BY DEF Init, Quiet, SubfieldsInv, FieldsInv, GarbledInv
  <2> QED
    BY <2>1, <2>2 DEF Inv, Quiet
<1>2. Inv /\ [Next]_vars => Inv'
  <2> SUFFICES ASSUME Inv, [Next]_vars PROVE Inv'
    OBVIOUS
  <2>1. Types'
    BY MergeTypes, StartTypes, ConvertTypes, SeparateTypes, EndSeparationTypes,
       CompareSubfieldsTypes, NextSubfieldTypes, EndSubfieldsTypes,
       CompareFieldsTypes, NextFieldTypes, EndFieldsTypes, StutterTypes, Zenon DEF Next, Inv
  <2>2. MergeLinkedField \/ StartConversion \/ SeparateLinkedField => Quiet'
    BY QuietOutside DEF MergeLinkedField, StartConversion, SeparateLinkedField
  <2>3. Quiet'
    BY <2>2, ConvertQuiet, EndSeparationQuiet, CompareSubfieldsQuiet, NextSubfieldQuiet,
       EndSubfieldsQuiet, CompareFieldsQuiet, NextFieldQuiet, EndFieldsQuiet, StutterQuiet,
       Zenon DEF Next, Inv
  <2> QED
    BY <2>1, <2>3 DEF Inv, Quiet
<1>3. Inv => OneOfEachStays
  <2> SUFFICES ASSUME Inv PROVE OneOfEachStays
    OBVIOUS
  <2>1. \A g, f : Kept(conversion, g, f) => Keeps(g, f)
    BY DEF Kept, Keeps, Stood, Stands, FoldsAny, Folding
  <2>2. (~Folding \/ Foldable) => Tells(conversion, before)
    BY DEF Tells, FoldsAny, Texts, Folding, Foldable
  <2>3. phase = "done" => FieldsLeft(conversion, fields, before)
    BY DEF Inv, FieldsInv
  <2>4. phase = "done" /\ (~Folding \/ Foldable) =>
           \A i \in DOMAIN before : \E j \in DOMAIN fields : Keeps(fields[j], before[i])
    BY <2>1, <2>2, <2>3 DEF FieldsLeft
  <2>5. phase = "done" /\ conversion.subfields # "leave" =>
           \A i \in DOMAIN fields : \A k \in DOMAIN fields[i].subs \ {Len(fields[i].subs)} :
               k % 2 = 1 => ~AlikeSubfields(conversion.subfields, fields[i].subs[k], fields[i].subs[k + 1])
    <3>1. SUFFICES ASSUME phase = "done", conversion.subfields # "leave", NEW i \in DOMAIN fields,
                          NEW k \in DOMAIN fields[i].subs \ {Len(fields[i].subs)}, k % 2 = 1
          PROVE  ~AlikeSubfields(conversion.subfields, fields[i].subs[k], fields[i].subs[k + 1])
      OBVIOUS
    <3>2. NoPair(conversion.subfields, fields[i].subs, Len(fields[i].subs))
      BY <2>3, <3>1 DEF FieldsLeft
    <3>3. DOMAIN fields[i].subs = 1 .. Len(fields[i].subs) /\ Len(fields[i].subs) \in Nat
      <4>1. fields[i] \in Filled
        BY FieldsAre DEF Inv, Types
      <4> QED
        BY <4>1, SubsAre
    <3>4. k < Len(fields[i].subs)
      BY <3>3
    <3> QED
      BY <3>1, <3>2, <3>4 DEF NoPair
  <2>6. phase = "done" /\ conversion.fields # "leave" =>
           \A i, j \in DOMAIN fields :
               i < j /\ SameRun(i, j) /\ AlikeFields(conversion.fields, fields[i], fields[j])
                 => conversion.fields = "smart" /\ i = 1
    <3>1. SUFFICES ASSUME phase = "done", conversion.fields # "leave", NEW i \in DOMAIN fields,
                          NEW j \in DOMAIN fields, i < j, SameRun(i, j),
                          AlikeFields(conversion.fields, fields[i], fields[j])
          PROVE  conversion.fields = "smart" /\ i = 1
      OBVIOUS
    <3>2. NoTwins(conversion.fields, fields, Len(fields))
      BY <3>1 DEF Inv, FieldsInv
    <3>3. i < Len(fields)
      BY <3>1, FieldsAre DEF Inv, Types
    <3> QED
      BY <3>1, <3>2, <3>3 DEF NoTwins, SameRun
  <2> QED
    BY <2>4, <2>5, <2>6 DEF OneOfEachStays, Inv, GarbledInv
<1> QED
  BY <1>1, <1>2, <1>3, PTL DEF Spec
=============================================================================
