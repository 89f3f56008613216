-------------------------- MODULE RuleEngineProofs --------------------------
(***************************************************************************)
(* Proofs about RuleEngine, for records, tables and rules of every kind    *)
(* the model has.                                                          *)
(*                                                                         *)
(* The walk is over a list that changes while it is walked.  What a rule   *)
(* does to a list is told by where each CD of the new list was in the old  *)
(* one: Grown for InsertCDLib, Sorts for PartialSort.  The CDs are told    *)
(* apart by their ids, which name the CD and the rule that made them; that *)
(* no id is made twice stands on the walk not coming back, and that on the *)
(* order of the list behind its original end.                              *)
(*                                                                         *)
(* What a table that copies does with a tag its own rules do not speak of  *)
(* has an invariant of its own, Others: the input list keeps the CDs of    *)
(* the tag, and the output has of each what the rules that copy have had   *)
(* their turn with.  Of(l, A) is the part of a list it is about.           *)
(***************************************************************************)
EXTENDS RuleEngine, FiniteSetTheorems, TLAPS

Texts == Seq(Nat \X Nat)

\* The CD a rule was applied to, and the rule, for the id of a CD it made.
Writer(id) == Front(Front(id))
RuleOf(id) == Last(Front(id))

\* Made by a rule for a CD that has been offered to it: one of those in o, and
\* for the CD c in process a rule before the k-th.
Made(id, o, c, k) ==
    /\ Len(id) > 3
    /\ \E x \in o : x.id = Writer(id)
    /\ Writer(id) = c => RuleOf(id) \in 1 .. k - 1

\* The ids of the input record have three numbers.
Named(id, o, c, k) == id \in Seq(Nat) /\ (Len(id) = 3 \/ Made(id, o, c, k))

Distinct(l) == \A i, j \in DOMAIN l : l[i].id = l[j].id => i = j

Types ==
    /\ record \in Records /\ rules \in Tables
    /\ in \in Seq(CDs) /\ out \in Seq(CDs)
    /\ Distinct(in) /\ Distinct(out)
    /\ rule \in 1 .. Len(rules) + 1
    /\ canTag \in BOOLEAN /\ canSub \in BOOLEAN
    /\ phase \in {"convert", "done", "freed"}
    /\ cur \in Seq(Nat) /\ Len(cur) >= 3

IdsInv ==
    /\ \A o \in offered : Named(o.id, offered, cur, rule)
    /\ \A i \in DOMAIN in : Named(in[i].id, offered, cur, rule)
    /\ \A i \in DOMAIN out : out[i].id \in Seq(Nat) /\ Made(out[i].id, offered, cur, rule)

\* A text no rule saw was put into a CD the walk has passed, and what wrote
\* it did not stand before that.
Seen(l, i) ==
    \/ Offered(l[i])
    \/ /\ Visited(l[i].by)
       /\ Position(l, l[i].by) # 0 => i <= Position(l, l[i].by)

InOrder(l, i, n) == \A j, k \in 1 .. n : i < j /\ j < k => ~IsLess(l[k], l[j])

Ordered(l, i) == InOrder(l, i, Len(l))

\* The walk has visited no CD behind the one it is at, and the list is in
\* order behind its original end.
WalkInv ==
    phase # "freed" =>
        /\ At # 0 /\ Visited(cur)
        /\ Position(in, LastOf(record)) # 0
        /\ Ordered(in, Position(in, LastOf(record)))
        /\ \A i \in DOMAIN in : Visited(in[i].id) => i <= At
        /\ \A i \in 1 .. At : Seen(in, i)

\* The original last CD belongs to the leader or to a field of the record.
OfRecord(r, tag) == tag = 0 \/ \E f \in DOMAIN r : r[f].tag = tag

OriginInv == \A i \in DOMAIN in : in[i].id = LastOf(record) => OfRecord(record, in[i].tag)

DoneInv == phase = "done" => fields = FromCD(out) /\ At = Len(in)

Inv == /\ Types /\ IdsInv /\ WalkInv /\ OriginInv /\ DoneInv
       /\ FreedOnlyByRewriting

-----------------------------------------------------------------------------
(* Induction, over sets of numbers and functions                           *)

\* A set of numbers that is not empty has a least one.
LEMMA Least ==
    ASSUME NEW T, T \subseteq Nat, T # {}
    PROVE  \E n \in T : \A m \in T : n <= m
<1> DEFINE Sets == {1 .. n : n \in T}
<1>1. Sets \subseteq FiniteSubsetsOf(Nat) /\ Sets # {}
  <2>1. \A n \in T : IsFiniteSet(1 .. n)
    BY FS_Interval
  <2>2. \A n \in T : 1 .. n \in SUBSET Nat
    OBVIOUS
  <2> QED
    BY <2>1, <2>2, Zenon DEF FiniteSubsetsOf
<1>2. \E x \in Sets : \A y \in Sets : <<y, x>> \notin StrictSubsetOrdering(Nat)
  BY <1>1, FS_StrictSubsetOrderingWellFounded, WFMin
<1>3. PICK n \in T : \A m \in T : <<1 .. m, 1 .. n>> \notin StrictSubsetOrdering(Nat)
  BY <1>2
<1>4. ASSUME NEW m \in T, m < n PROVE FALSE
  <2>1. 1 .. m \subseteq 1 .. n /\ n \in 1 .. n /\ n \notin 1 .. m
    BY <1>4
  <2>2. <<1 .. m, 1 .. n>> \in StrictSubsetOrdering(Nat)
    BY <2>1 DEF StrictSubsetOrdering
  <2> QED
    BY <1>3, <2>2
<1> QED
  BY <1>3, <1>4

LEMMA LeastIs ==
    ASSUME NEW T, T \subseteq Nat, T # {}
    PROVE  Min(T) \in T /\ \A m \in T : Min(T) <= m
BY Least DEF Min

\* What holds of 0 and of the next number holds of every number.
LEMMA Reaches ==
    ASSUME NEW n \in Nat, NEW f, NEW A, f[0] \in A,
           \A i \in 1 .. n : f[i - 1] \in A => f[i] \in A
    PROVE  \A i \in 0 .. n : f[i] \in A
<1> DEFINE T == {i \in 0 .. n : f[i] \notin A}
<1> SUFFICES ASSUME T # {} PROVE FALSE
  OBVIOUS
<1>0. T \subseteq Nat
  OBVIOUS
<1> HIDE DEF T
<1>1. PICK i \in T : \A m \in T : i <= m
  BY <1>0, Least
<1>2. i \in 1 .. n /\ i - 1 \in 0 .. n /\ i - 1 \notin T
  BY <1>1 DEF T
<1> QED
  BY <1>1, <1>2 DEF T

\* The function a recursive definition over 0 .. n defines is there.
IsFold(f, n, b, step) == f[0] = b /\ \A i \in 1 .. n : f[i] = step[i][f[i - 1]]

LEMMA FoldExists ==
    ASSUME NEW n \in Nat, NEW A, NEW b \in A, NEW step \in [1 .. n -> [A -> A]]
    PROVE  \E f \in [0 .. n -> A] : IsFold(f, n, b, step)
<1> DEFINE Is(f, k) == /\ f[0] = b
                       /\ \A i \in 1 .. k : f[i] = step[i][f[i - 1]]
           T == {k \in 0 .. n : ~ \E f \in [0 .. k -> A] : Is(f, k)}
<1>0. T \subseteq Nat
  OBVIOUS
<1>1. ASSUME NEW k \in T, \A m \in T : k <= m
      PROVE  FALSE
  <2>1. k # 0
    <3> DEFINE f == [i \in 0 .. 0 |-> b]
    <3>1. f \in [0 .. 0 -> A] /\ Is(f, 0)
      OBVIOUS
    <3> QED
      BY <3>1
  <2>2. k \in 1 .. n
    BY <2>1
  <2>3. k - 1 \in 0 .. n /\ ~(k <= k - 1)
    BY <2>2
  <2>4. k - 1 \notin T
    <3> HIDE DEF T
    <3> QED
      BY <1>1, <2>3
  <2>5. PICK f \in [0 .. k - 1 -> A] : Is(f, k - 1)
    BY <2>3, <2>4
  <2> DEFINE g == [i \in 0 .. k |-> IF i = k THEN step[k][f[k - 1]] ELSE f[i]]
  <2>6. f[k - 1] \in A /\ step[k] \in [A -> A]
    BY <2>2
  <2>7. step[k][f[k - 1]] \in A
    BY <2>6
  <2>8. g \in [0 .. k -> A]
    BY <2>2, <2>7
  <2>9. g[0] = b
    BY <2>2, <2>5
  <2>10. ASSUME NEW i \in 1 .. k PROVE g[i] = step[i][g[i - 1]]
    <3>1. g[i - 1] = f[i - 1]
      BY <2>2
    <3>2. CASE i = k
      BY <3>1, <3>2
    <3>3. CASE i # k
      BY <2>5, <3>1, <3>3
    <3> QED
      BY <3>2, <3>3
  <2>11. \E f1 \in [0 .. k -> A] : Is(f1, k)
    <3>1. Is(g, k)
      BY <2>9, <2>10
    <3> HIDE DEF Is, g
    <3> QED
      BY <2>8, <3>1
  <2> QED
    BY <2>11
<1>2. T = {}
  <2> HIDE DEF T
  <2> QED
    BY <1>0, <1>1, Least
<1>3. \E f \in [0 .. n -> A] : Is(f, n)
  BY SMTT(30), <1>2
<1> QED
  BY <1>3 DEF IsFold

-----------------------------------------------------------------------------
(* Lists                                                                   *)

LEMMA Cut ==
    ASSUME NEW S, NEW s \in Seq(S), NEW i \in 1 .. Len(s) + 1, NEW j \in i - 1 .. Len(s)
    PROVE  /\ SubSeq(s, i, j) \in Seq(S) /\ Len(SubSeq(s, i, j)) = j - i + 1
           /\ \A k \in 1 .. j - i + 1 : SubSeq(s, i, j)[k] = s[i + k - 1]
OBVIOUS

LEMMA Concat ==
    ASSUME NEW S, NEW s \in Seq(S), NEW t \in Seq(S)
    PROVE  /\ s \o t \in Seq(S) /\ Len(s \o t) = Len(s) + Len(t)
           /\ \A k \in 1 .. Len(s) + Len(t) : (s \o t)[k] = IF k <= Len(s) THEN s[k] ELSE t[k - Len(s)]
OBVIOUS

LEMMA Single ==
    ASSUME NEW S, NEW e \in S
    PROVE  <<e>> \in Seq(S) /\ Len(<<e>>) = 1 /\ <<e>>[1] = e
OBVIOUS
\* What InsertAt makes of a list, place by place.
LEMMA Inserted ==
    ASSUME NEW S, NEW s \in Seq(S), NEW i \in 1 .. Len(s) + 1, NEW e \in S
    PROVE  /\ InsertAt(s, i, e) \in Seq(S) /\ Len(InsertAt(s, i, e)) = Len(s) + 1
           /\ \A j \in 1 .. Len(s) + 1 : InsertAt(s, i, e)[j] =
                  IF j < i THEN s[j] ELSE IF j = i THEN e ELSE s[j - 1]
<1> DEFINE a == SubSeq(s, 1, i - 1)
           b == SubSeq(s, i, Len(s))
<1>0. Len(s) \in Nat
  OBVIOUS
<1>1. a \in Seq(S) /\ Len(a) = i - 1 /\ \A k \in 1 .. i - 1 : a[k] = s[k]
  <2>1. 1 \in 1 .. Len(s) + 1 /\ i - 1 \in 1 - 1 .. Len(s) /\ i - 1 - 1 + 1 = i - 1
        /\ \A k \in 1 .. i - 1 : 1 + k - 1 = k
    BY <1>0
  <2> QED
    BY <2>1, Cut
<1>2. b \in Seq(S) /\ Len(b) = Len(s) - i + 1 /\ \A k \in 1 .. Len(s) - i + 1 : b[k] = s[i + k - 1]
  <2>1. Len(s) \in i - 1 .. Len(s)
    BY <1>0
  <2> QED
    BY <2>1, Cut
<1>3. InsertAt(s, i, e) = (a \o <<e>>) \o b
  BY DEF InsertAt
<1> DEFINE c == a \o <<e>>
<1> HIDE DEF a, b
<1>4. c \in Seq(S) /\ Len(c) = i /\ \A k \in 1 .. i : c[k] = IF k < i THEN s[k] ELSE e
  <2>1. PICK t \in Seq(S) : t = <<e>> /\ Len(t) = 1 /\ t[1] = e
    BY Single
  <2>2. /\ a \o t \in Seq(S) /\ Len(a \o t) = Len(a) + Len(t)
        /\ \A k \in 1 .. Len(a) + Len(t) : (a \o t)[k] = IF k <= Len(a) THEN a[k] ELSE t[k - Len(a)]
    BY <1>1, Concat
  <2>c. c = a \o t
    BY <2>1
  <2> HIDE DEF c
  <2>3. Len(a) = i - 1 /\ Len(a) + 1 = i
    BY <1>0, <1>1
  <2>4. ASSUME NEW k \in 1 .. i PROVE c[k] = IF k < i THEN s[k] ELSE e
    <3>1. CASE k < i
      BY <1>0, <1>1, <2>1, <2>2, <2>3, <2>c, <3>1
    <3>2. CASE k = i
      <4>1. k - Len(a) = 1 /\ ~(k <= Len(a)) /\ ~(k < i)
        BY <1>0, <2>3, <3>2
      <4> QED
        BY <1>0, <2>1, <2>2, <2>3, <2>c, <4>1
    <3>3. k < i \/ k = i
      BY <1>0
    <3> QED
      BY <3>1, <3>2, <3>3
  <2> QED
    BY <2>1, <2>2, <2>3, <2>4, <2>c
<1> HIDE DEF c
<1>5. /\ c \o b \in Seq(S) /\ Len(c \o b) = Len(c) + Len(b)
      /\ \A k \in 1 .. Len(c) + Len(b) : (c \o b)[k] = IF k <= Len(c) THEN c[k] ELSE b[k - Len(c)]
  BY <1>2, <1>4, Concat
<1>6. \A j \in 1 .. Len(s) + 1 : (c \o b)[j] = IF j < i THEN s[j] ELSE IF j = i THEN e ELSE s[j - 1]
  <2> TAKE j \in 1 .. Len(s) + 1
  <2>1. CASE j <= i
    BY <1>0, <1>2, <1>4, <1>5, <2>1
  <2>2. CASE j > i
    <3>1. PICK k \in 1 .. Len(s) - i + 1 : k = j - i
      BY <1>0, <2>2
    <3>2. b[k] = s[i + k - 1] /\ i + k - 1 = j - 1 /\ ~(j <= i) /\ ~(j < i) /\ j # i
      BY <1>0, <1>2, <2>2, <3>1
    <3>3. (c \o b)[j] = b[k]
      BY <1>0, <1>2, <1>4, <1>5, <3>1, <3>2
    <3> QED
      BY <3>2, <3>3
  <2>3. j <= i \/ j > i
    BY <1>0
  <2> QED
    BY <2>1, <2>2, <2>3
<1>7. Len(c \o b) = Len(s) + 1
  BY <1>0, <1>2, <1>4, <1>5
<1> QED
  BY <1>3, <1>5, <1>6, <1>7 DEF c

LEMMA Appended ==
    ASSUME NEW S, NEW s \in Seq(S), NEW e \in S
    PROVE  /\ Append(s, e) \in Seq(S) /\ Len(Append(s, e)) = Len(s) + 1
           /\ Append(s, e)[Len(s) + 1] = e
           /\ \A j \in 1 .. Len(s) : Append(s, e)[j] = s[j]
<1>1. Append(s, e) \in Seq(S) /\ Len(Append(s, e)) = Len(s) + 1
  OBVIOUS
<1>2. Append(s, e)[Len(s) + 1] = e
  OBVIOUS
<1>3. \A j \in 1 .. Len(s) : Append(s, e)[j] = s[j]
  OBVIOUS
<1> QED
  BY <1>1, <1>2, <1>3

\* What holds of 0 and of the next number, as a set.
LEMMA Induct ==
    ASSUME NEW n \in Nat, NEW G, 0 \in G, \A k \in 1 .. n : k - 1 \in G => k \in G
    PROVE  \A k \in 0 .. n : k \in G
<1> DEFINE f == [k \in 0 .. n |-> k]
<1>1. f[0] \in G /\ \A k \in 1 .. n : f[k - 1] \in G => f[k] \in G
  OBVIOUS
<1>2. \A k \in 0 .. n : f[k] = k
  OBVIOUS
<1> HIDE DEF f
<1>3. \A k \in 0 .. n : f[k] \in G
  BY <1>1, Reaches, Zenon
<1> QED
  BY <1>2, <1>3

LEMMA GreatestIs ==
    ASSUME NEW T, NEW n \in Nat, T \subseteq 1 .. n, T # {}
    PROVE  Max(T) \in T /\ \A m \in T : m <= Max(T)
<1> DEFINE U == {n - m : m \in T}
<1>0. \A m \in T : m \in 1 .. n /\ n - m \in Nat
  OBVIOUS
<1>1. U \subseteq Nat /\ U # {}
  BY <1>0
<1>2. PICK u \in U : \A m \in U : u <= m
  <2> HIDE DEF U
  <2> QED
    BY <1>1, Least
<1>3. PICK t \in T : u = n - t
  BY <1>2
<1>4. \A m \in T : m <= t
  <2> TAKE m \in T
  <2>1. n - m \in U
    OBVIOUS
  <2>2. n - t <= n - m
    BY <1>2, <1>3, <2>1
  <2> QED
    BY <1>0, <2>2
<1> QED
  BY <1>4 DEF Max

\* What the searches of SequencesExt find.
-----------------------------------------------------------------------------
(* Selections                                                              *)

\* place tells where the elements of l were in s, up to the one at k.
Selects(place, l, s, I, k) ==
    /\ place \in [1 .. Len(l) -> I \cap (1 .. k)]
    /\ \A a, b \in 1 .. Len(l) : a < b => place[a] < place[b]
    /\ \A a \in 1 .. Len(l) : l[a] = s[place[a]]
    /\ \A i \in I \cap (1 .. k) : \E a \in 1 .. Len(l) : place[a] = i

Selected(l, s, I, k) == \E place \in [1 .. Len(l) -> I \cap (1 .. k)] : Selects(place, l, s, I, k)

LEMMA SelectedNext ==
    ASSUME NEW S, NEW s \in Seq(S), NEW I, NEW k \in 1 .. Len(s),
           NEW l \in Seq(S), Selected(l, s, I, k - 1), k \in I
    PROVE  Selected(Append(l, s[k]), s, I, k)
<1>1. PICK place \in [1 .. Len(l) -> I \cap (1 .. k - 1)] : Selects(place, l, s, I, k - 1)
  BY DEF Selected
<1> DEFINE m == Append(l, s[k])
           n == Len(l)
           new == [a \in 1 .. n + 1 |-> IF a = n + 1 THEN k ELSE place[a]]
<1>2. s[k] \in S /\ n \in Nat /\ k \in Nat
  OBVIOUS
<1>3. m \in Seq(S) /\ Len(m) = n + 1 /\ m[n + 1] = s[k] /\ \A j \in 1 .. n : m[j] = l[j]
  BY <1>2, Appended
<1>4. \A a \in 1 .. n : place[a] \in I \cap (1 .. k - 1)
  OBVIOUS
<1> HIDE DEF m, n
<1>5. new \in [1 .. n + 1 -> I \cap (1 .. k)]
  <2> SUFFICES ASSUME NEW a \in 1 .. n + 1 PROVE new[a] \in I \cap (1 .. k)
    OBVIOUS
  <2>1. CASE a = n + 1
    BY <1>2, <2>1
  <2>2. CASE a # n + 1
    BY <1>2, <1>4, <2>2
  <2> QED
    BY <2>1, <2>2
<1>6. \A a, b \in 1 .. n + 1 : a < b => new[a] < new[b]
  <2> TAKE a, b \in 1 .. n + 1
  <2> HAVE a < b
  <2>1. a \in 1 .. n /\ new[a] = place[a]
    BY <1>2
  <2>2. CASE b = n + 1
    BY <1>2, <1>4, <2>1, <2>2
  <2>3. CASE b # n + 1
    <3>1. b \in 1 .. n /\ new[b] = place[b]
      BY <1>2, <2>3
    <3> QED
      BY <1>1, <2>1, <3>1 DEF Selects, n
  <2> QED
    BY <2>2, <2>3
<1>7. \A a \in 1 .. n + 1 : m[a] = s[new[a]]
  <2> TAKE a \in 1 .. n + 1
  <2>1. CASE a = n + 1
    BY <1>2, <1>3, <2>1
  <2>2. CASE a # n + 1
    <3>1. a \in 1 .. n /\ new[a] = place[a]
      BY <1>2, <2>2
    <3>2. l[a] = s[place[a]]
      BY <1>1, <3>1 DEF Selects, n
    <3> QED
      BY <1>3, <3>1, <3>2
  <2> QED
    BY <2>1, <2>2
<1>8. \A i \in I \cap (1 .. k) : \E a \in 1 .. n + 1 : new[a] = i
  <2> TAKE i \in I \cap (1 .. k)
  <2>1. CASE i = k
    <3>1. n + 1 \in 1 .. n + 1 /\ new[n + 1] = k
      BY <1>2
    <3> QED
      BY <2>1, <3>1
  <2>2. CASE i # k
    <3>1. i \in I \cap (1 .. k - 1)
      BY <1>2, <2>2
    <3>2. PICK a \in 1 .. n : place[a] = i
      BY <1>1, <3>1 DEF Selects, n
    <3>3. a \in 1 .. n + 1 /\ new[a] = place[a]
      BY <1>2
    <3> QED
      BY <3>2, <3>3
  <2> QED
    BY <2>1, <2>2
<1> HIDE DEF new
<1>9. Selects(new, m, s, I, k)
  BY <1>3, <1>5, <1>6, <1>7, <1>8 DEF Selects
<1> QED
  BY <1>3, <1>5, <1>9 DEF Selected, m

LEMMA SelectedSame ==
    ASSUME NEW S, NEW s \in Seq(S), NEW I, NEW k \in 1 .. Len(s),
           NEW l \in Seq(S), Selected(l, s, I, k - 1), k \notin I
    PROVE  Selected(l, s, I, k)
<1>1. I \cap (1 .. k) = I \cap (1 .. k - 1)
  OBVIOUS
<1> QED
  BY <1>1, Zenon DEF Selected, Selects

LEMMA PickedIs ==
    ASSUME NEW S, NEW s \in Seq(S), NEW I
    PROVE  Picked(s, I) \in Seq(S) /\ Selected(Picked(s, I), s, I, Len(s))
<1> DEFINE n == Len(s)
           A == Seq(S)
           Step(v, k) == IF k \in I THEN Append(v, s[k]) ELSE v
           step == [k \in 1 .. n |-> [v \in A |-> Step(v, k)]]
           R(g) == g = [k \in 0 .. n |-> IF k = 0 THEN <<>> ELSE Step(g[k - 1], k)]
<1>0. n \in Nat /\ <<>> \in A
  OBVIOUS
<1>1. Picked(s, I) = (CHOOSE g : R(g))[n]
  BY DEF Picked
<1>2. ASSUME NEW k \in 1 .. n, NEW v \in A
      PROVE  Step(v, k) \in A
  <2>1. s[k] \in S
    OBVIOUS
  <2> QED
    BY <2>1, Appended
<1> HIDE DEF n, A, Step
<1>3. step \in [1 .. n -> [A -> A]]
  BY <1>2
<1>4. PICK g \in [0 .. n -> A] : IsFold(g, n, <<>>, step)
  <2> HIDE DEF step
  <2> QED
    BY <1>0, <1>3, FoldExists, Zenon
<1>5. R(g)
  <2>1. ASSUME NEW k \in 1 .. n PROVE g[k] = Step(g[k - 1], k)
    <3>1. g[k - 1] \in A
      BY <1>0
    <3>2. g[k] = step[k][g[k - 1]]
      BY <1>4 DEF IsFold
    <3> QED
      BY <3>1, <3>2
  <2>2. \A k \in 0 .. n : g[k] = IF k = 0 THEN <<>> ELSE Step(g[k - 1], k)
    BY <1>0, <1>4, <2>1 DEF IsFold
  <2> QED
    BY <2>2
<1> DEFINE h == CHOOSE h : R(h)
<1>6. R(h)
  BY <1>5
<1> HIDE DEF h
<1>7. h[0] = <<>> /\ \A k \in 1 .. n : h[k] = Step(h[k - 1], k)
  BY <1>0, <1>6
<1> DEFINE G == {k \in 0 .. n : h[k] \in A /\ Selected(h[k], s, I, k)}
<1>8. 0 \in G
  <2>1. PICK p \in [1 .. 0 -> I \cap (1 .. 0)] : TRUE
    <3>1. [a \in 1 .. 0 |-> 0] \in [1 .. 0 -> I \cap (1 .. 0)]
      OBVIOUS
    <3> QED
      BY <3>1
  <2>2. Len(<<>>) = 0
    OBVIOUS
  <2>3. Selects(p, <<>>, s, I, 0)
    BY <2>2 DEF Selects
  <2>4. Selected(<<>>, s, I, 0)
    BY <2>2, <2>3 DEF Selected
  <2> QED
    BY <1>0, <1>7, <2>4
<1>9. ASSUME NEW k \in 1 .. n, k - 1 \in G PROVE k \in G
  <2>1. h[k - 1] \in A /\ Selected(h[k - 1], s, I, k - 1) /\ k \in 1 .. Len(s) /\ k \in 0 .. n
    BY <1>0, <1>9 DEF n
  <2>2. h[k] = Step(h[k - 1], k) /\ h[k] \in A
    BY <1>2, <1>7, <2>1
  <2>3. CASE k \in I
    <3>1. h[k] = Append(h[k - 1], s[k])
      BY <2>2, <2>3 DEF Step
    <3>2. Selected(Append(h[k - 1], s[k]), s, I, k)
      BY <2>1, <2>3, SelectedNext DEF A
    <3> QED
      BY <2>1, <2>2, <3>1, <3>2
  <2>4. CASE k \notin I
    <3>1. h[k] = h[k - 1]
      BY <2>2, <2>4 DEF Step
    <3>2. Selected(h[k - 1], s, I, k)
      BY <2>1, <2>4, SelectedSame DEF A
    <3> QED
      BY <2>1, <2>2, <3>1, <3>2
  <2> QED
    BY <2>3, <2>4
<1>10. n \in G
  <2> HIDE DEF G
  <2>1. \A k \in 0 .. n : k \in G
    BY <1>0, <1>8, <1>9, Induct, Zenon
  <2> QED
    BY <1>0, <2>1
<1> QED
  BY <1>1, <1>10 DEF n, A, h

-----------------------------------------------------------------------------
(* The order of a list                                                     *)

LEMMA OrderIs ==
    ASSUME NEW b \in CDs, NEW c \in CDs, NEW d \in CDs
    PROVE  /\ ~IsLess(c, c)
           /\ IsLess(b, c) => ~IsLess(c, b)
           /\ IsLess(b, c) /\ ~IsLess(d, c) => IsLess(b, d)
           /\ ~IsLess(c, b) /\ ~IsLess(d, c) => ~IsLess(d, b)
           /\ ~IsLess(b, c) /\ ~IsLess(c, b) <=> SameField(b, c)
<1>1. /\ b.tag \in Nat /\ c.tag \in Nat /\ d.tag \in Nat
      /\ b.nt \in Nat /\ c.nt \in Nat /\ d.nt \in Nat
  BY DEF CDs
<1> QED
  BY <1>1 DEF IsLess, SameField

\* place tells where the first k CDs of s are in l.
Sorts(place, l, s, i, k) ==
    /\ \A a \in 1 .. k : place[a] \in 1 .. k /\ l[place[a]] = s[a]
    /\ \A a, b \in 1 .. k : place[a] = place[b] => a = b
    /\ \A m \in 1 .. k : \E a \in 1 .. k : place[a] = m
    /\ \A a \in 1 .. k : a < i => place[a] = a
    /\ \A a, b \in 1 .. k : a < b /\ (a < i \/ ~IsLess(s[b], s[a])) => place[a] < place[b]

Sorted(l, s, i, k) ==
    /\ Len(l) = k
    /\ \E place \in [1 .. k -> 1 .. k] : Sorts(place, l, s, i, k)
    /\ Ordered(l, i - 1)

\* Where the CD c goes among the k - 1 CDs of l.
Goes(c, l, i, k, q) ==
    /\ k < i => q = k
    /\ k >= i => q >= i
    /\ \A m \in 1 .. k - 1 : i <= m /\ m < q => ~IsLess(c, l[m])
    /\ q < k => IsLess(c, l[q])

Inserts(new, l, c, k, q) ==
    \A j \in 1 .. k : new[j] = IF j < q THEN l[j] ELSE IF j = q THEN c ELSE l[j - 1]

OfCDs(l, k) == \A j \in 1 .. k : l[j] \in CDs

\* Places of the first k CDs in a list the k-th has just been put into.
LEMMA SortsNext ==
    ASSUME NEW i \in Nat, 1 <= i, NEW k \in Nat, 1 <= k, NEW q \in 1 .. k,
           NEW s, NEW l, NEW new, OfCDs(s, k), OfCDs(l, k - 1),
           NEW place, Sorts(place, l, s, i, k - 1), InOrder(l, i - 1, k - 1),
           Goes(s[k], l, i, k, q), Inserts(new, l, s[k], k, q)
    PROVE  /\ \E to \in [1 .. k -> 1 .. k] : Sorts(to, new, s, i, k)
           /\ InOrder(new, i - 1, k)
<1> DEFINE c == s[k]
           to == [a \in 1 .. k |-> IF a = k THEN q
                                   ELSE IF place[a] < q THEN place[a] ELSE place[a] + 1]
<1>2. k \in 1 .. k /\ c \in CDs /\ Goes(c, l, i, k, q)
  BY DEF OfCDs
<1>3. \A j \in 1 .. k : new[j] = IF j < q THEN l[j] ELSE IF j = q THEN c ELSE l[j - 1]
  BY DEF Inserts
<1>4. \A j \in 1 .. k - 1 : l[j] \in CDs
  BY DEF OfCDs
<1> HIDE DEF c
<1>5. ASSUME NEW a \in 1 .. k - 1
      PROVE  /\ place[a] \in 1 .. k - 1
             /\ to[a] = IF place[a] < q THEN place[a] ELSE place[a] + 1
             /\ l[place[a]] = s[a]
  <2>1. a \in 1 .. k /\ a # k
    BY <1>2
  <2> QED
    BY <2>1 DEF Sorts
<1>6. to[k] = q /\ to \in [1 .. k -> 1 .. k]
  <2>1. ASSUME NEW a \in 1 .. k PROVE to[a] \in 1 .. k
    <3>1. CASE a = k
      BY <3>1
    <3>2. CASE a # k
      <4>1. a \in 1 .. k - 1
        BY <1>2, <3>2
      <4>2. place[a] \in 1 .. k - 1
        BY <1>5, <4>1
      <4> QED
        BY <1>2, <1>5, <4>1, <4>2
    <3> QED
      BY <3>1, <3>2
  <2> QED
    BY <1>2, <2>1
<1> HIDE DEF to
<1>7. \A a \in 1 .. k : new[to[a]] = s[a]
  <2> TAKE a \in 1 .. k
  <2>1. CASE a = k
    BY <1>2, <1>3, <1>6, <2>1 DEF c
  <2>2. CASE a # k
    <3>1. a \in 1 .. k - 1
      BY <1>2, <2>2
    <3>2. place[a] \in 1 .. k - 1 /\ l[place[a]] = s[a]
      BY <1>5, <3>1
    <3>3. CASE place[a] < q
      <4>1. to[a] = place[a] /\ place[a] \in 1 .. k
        BY <1>2, <1>5, <3>1, <3>2, <3>3
      <4> QED
        BY <1>3, <3>2, <3>3, <4>1
    <3>4. CASE ~(place[a] < q)
      <4>1. to[a] = place[a] + 1 /\ place[a] + 1 \in 1 .. k
        BY <1>2, <1>5, <3>1, <3>2, <3>4
      <4>2. ~(place[a] + 1 < q) /\ place[a] + 1 # q /\ place[a] + 1 - 1 = place[a]
        BY <1>2, <3>2, <3>4
      <4>3. PICK j \in 1 .. k : j = place[a] + 1
        BY <4>1
      <4>4. new[j] = l[j - 1] /\ j - 1 = place[a]
        <5>1. new[j] = IF j < q THEN l[j] ELSE IF j = q THEN c ELSE l[j - 1]
          BY <1>3
        <5>2. ~(j < q) /\ j # q
          BY <4>2, <4>3, Zenon
        <5>3. j - 1 = place[a]
          BY ONLY <3>2, <4>3, SMTT(30)
        <5> QED
          BY <5>1, <5>2, <5>3, Zenon
      <4> QED
        BY <3>2, <4>1, <4>3, <4>4
    <3> QED
      BY <3>3, <3>4
  <2> QED
    BY <2>1, <2>2
<1>8. \A a, b \in 1 .. k : to[a] = to[b] => a = b
  <2> TAKE a, b \in 1 .. k
  <2> HAVE to[a] = to[b]
  <2>1. \A d \in 1 .. k : d # k => to[d] # q
    <3> TAKE d \in 1 .. k
    <3> HAVE d # k
    <3>1. d \in 1 .. k - 1
      BY <1>2
    <3> QED
      BY <1>2, <1>5, <3>1
  <2>2. CASE a = k \/ b = k
    BY <1>6, <2>1, <2>2
  <2>3. CASE a # k /\ b # k
    <3>1. a \in 1 .. k - 1 /\ b \in 1 .. k - 1
      BY <1>2, <2>3
    <3>2. place[a] = place[b]
      BY <1>2, <1>5, <3>1
    <3> QED
      BY <3>1, <3>2 DEF Sorts
  <2> QED
    BY <2>2, <2>3
<1>9. \A m \in 1 .. k : \E a \in 1 .. k : to[a] = m
  <2> TAKE m \in 1 .. k
  <2>1. CASE m = q
    <3>1. k \in 1 .. k
      BY <1>2
    <3> QED
      BY <1>6, <2>1, <3>1
  <2>2. CASE m < q
    <3>1. m \in 1 .. k - 1
      BY <1>2, <2>2
    <3>2. PICK a \in 1 .. k - 1 : place[a] = m
      BY <3>1 DEF Sorts
    <3>3. to[a] = m /\ a \in 1 .. k
      BY <1>2, <1>5, <2>2, <3>2
    <3> QED
      BY <3>3
  <2>3. CASE m > q
    <3>1. m - 1 \in 1 .. k - 1
      BY <1>2, <2>3
    <3>2. PICK a \in 1 .. k - 1 : place[a] = m - 1
      BY <3>1 DEF Sorts
    <3>3. to[a] = m /\ a \in 1 .. k
      BY <1>2, <1>5, <2>3, <3>2
    <3> QED
      BY <3>3
  <2>4. m < q \/ m = q \/ m > q
    BY <1>2
  <2> QED
    BY <2>1, <2>2, <2>3, <2>4
<1>10. \A a \in 1 .. k : a < i => to[a] = a
  <2> TAKE a \in 1 .. k
  <2> HAVE a < i
  <2>1. CASE a = k
    BY <1>2, <1>6, <2>1 DEF Goes
  <2>2. CASE a # k
    <3>1. a \in 1 .. k - 1
      BY <1>2, <2>2
    <3>2. place[a] = a
      BY <3>1 DEF Sorts
    <3>3. a < q
      BY <1>2, <3>1 DEF Goes
    <3> QED
      BY <1>5, <3>1, <3>2, <3>3
  <2> QED
    BY <2>1, <2>2
<1>11. \A a, b \in 1 .. k : a < b /\ (a < i \/ ~IsLess(s[b], s[a])) => to[a] < to[b]
  <2> TAKE a, b \in 1 .. k
  <2> HAVE a < b /\ (a < i \/ ~IsLess(s[b], s[a]))
  <2>0. a \in 1 .. k - 1
    OBVIOUS
  <2>1. CASE b = k
    <3>1. place[a] < q
      <4> SUFFICES ASSUME place[a] >= q PROVE FALSE
        BY <1>2, <1>5, <2>0
      <4>1. place[a] \in 1 .. k - 1 /\ l[place[a]] = s[a]
        BY <1>5, <2>0
      <4>2. q < k /\ q \in 1 .. k - 1
        BY <1>2, <4>1
      <4>3. IsLess(c, l[q])
        BY <1>2, <4>2 DEF Goes
      <4>4. CASE a < i
        <5>1. place[a] = a
          BY <2>0, <4>4 DEF Sorts
        <5> QED
          BY <1>2, <4>4, <5>1 DEF Goes
      <4>5. CASE ~IsLess(s[b], s[a]) /\ a >= i
        <5>1. k >= i
          BY <1>2, <2>0, <4>5
        <5>1a. i - 1 < q
          BY <1>2, <5>1 DEF Goes
        <5>2. q = place[a] \/ ~IsLess(l[place[a]], l[q])
          BY <4>1, <4>2, <5>1a DEF InOrder
        <5>3. l[q] \in CDs /\ l[place[a]] \in CDs
          BY <1>4, <4>1, <4>2
        <5>4. IsLess(c, l[place[a]])
          BY <1>2, <4>3, <5>2, <5>3, OrderIs
        <5> QED
          BY <2>1, <4>1, <4>5, <5>4 DEF c
      <4> QED
        BY <1>2, <2>0, <4>4, <4>5
    <3> QED
      BY <1>5, <1>6, <2>0, <2>1, <3>1
  <2>2. CASE b # k
    <3>1. b \in 1 .. k - 1
      BY <1>2, <2>2
    <3>2. place[a] < place[b]
      BY <2>0, <3>1 DEF Sorts
    <3> QED
      BY <1>2, <1>5, <2>0, <3>1, <3>2
  <2> QED
    BY <2>1, <2>2
<1>12. InOrder(new, i - 1, k)
  <2> SUFFICES ASSUME NEW j \in 1 .. k, NEW m \in 1 .. k, i - 1 < j, j < m
               PROVE  ~IsLess(new[m], new[j])
    BY DEF InOrder
  <2>0. k >= i /\ q >= i
    BY <1>2 DEF Goes
  <2>1. CASE m < q
    <3>1. new[m] = l[m] /\ new[j] = l[j] /\ m \in 1 .. k - 1 /\ j \in 1 .. k - 1
      BY <1>2, <1>3, <2>1
    <3> QED
      BY <1>2, <3>1 DEF InOrder
  <2>2. CASE m = q
    <3>1. new[m] = c /\ new[j] = l[j] /\ j \in 1 .. k - 1
      BY <1>2, <1>3, <2>2
    <3> QED
      BY <1>2, <2>0, <2>2, <3>1 DEF Goes
  <2>3. CASE m > q
    <3>1. new[m] = l[m - 1] /\ m - 1 \in 1 .. k - 1
      BY <1>2, <1>3, <2>3
    <3>2. CASE j < q
      <4>1. new[j] = l[j] /\ j \in 1 .. k - 1 /\ j < m - 1
        BY <1>2, <1>3, <2>3, <3>2
      <4> QED
        BY <1>2, <3>1, <4>1 DEF InOrder
    <3>3. CASE j = q
      <4>1. new[j] = c /\ q < k /\ q \in 1 .. k - 1
        BY <1>2, <1>3, <2>3, <3>3
      <4>2. IsLess(c, l[q])
        BY <1>2, <4>1 DEF Goes
      <4>3. q = m - 1 \/ ~IsLess(l[m - 1], l[q])
        BY <1>2, <2>0, <2>3, <3>1, <4>1 DEF InOrder
      <4>4. l[q] \in CDs /\ l[m - 1] \in CDs
        BY <1>4, <3>1, <4>1
      <4> QED
        BY <1>2, <3>1, <4>1, <4>2, <4>3, <4>4, OrderIs
    <3>4. CASE j > q
      <4>1. new[j] = l[j - 1] /\ j - 1 \in 1 .. k - 1 /\ j - 1 < m - 1 /\ i - 1 < j - 1
        BY <1>2, <1>3, <2>0, <3>4
      <4> QED
        BY <1>2, <3>1, <4>1 DEF InOrder
    <3> QED
      BY <1>2, <3>2, <3>3, <3>4
  <2> QED
    BY <1>2, <2>1, <2>2, <2>3
<1>13. Sorts(to, new, s, i, k)
  BY <1>6, <1>7, <1>8, <1>9, <1>10, <1>11, Zenon DEF Sorts
<1> QED
  BY <1>6, <1>12, <1>13

LEMMA SortedNext ==
    ASSUME NEW s \in Seq(CDs), NEW i \in Nat, 1 <= i, NEW k \in 1 .. Len(s),
           NEW l \in Seq(CDs), Sorted(l, s, i, k - 1),
           NEW q \in 1 .. k, Goes(s[k], l, i, k, q)
    PROVE  InsertAt(l, q, s[k]) \in Seq(CDs) /\ Sorted(InsertAt(l, q, s[k]), s, i, k)
<1> DEFINE new == InsertAt(l, q, s[k])
<1>1. Len(l) = k - 1 /\ InOrder(l, i - 1, k - 1)
  BY DEF Sorted, Ordered
<1>2. PICK place \in [1 .. k - 1 -> 1 .. k - 1] : Sorts(place, l, s, i, k - 1)
  BY DEF Sorted
<1>3. k \in Nat /\ 1 <= k /\ s[k] \in CDs /\ q \in 1 .. Len(l) + 1 /\ Len(l) + 1 = k
  BY <1>1
<1>4. /\ new \in Seq(CDs) /\ Len(new) = k
      /\ \A j \in 1 .. k : new[j] = IF j < q THEN l[j] ELSE IF j = q THEN s[k] ELSE l[j - 1]
  <2>1. /\ new \in Seq(CDs) /\ Len(new) = Len(l) + 1
        /\ \A j \in 1 .. Len(l) + 1 : new[j] = IF j < q THEN l[j] ELSE IF j = q THEN s[k] ELSE l[j - 1]
    <3>1. PICK e \in CDs : e = s[k]
      BY <1>3
    <3>2. PICK m \in 1 .. Len(l) + 1 : m = q
      BY <1>3
    <3>3. /\ InsertAt(l, m, e) \in Seq(CDs) /\ Len(InsertAt(l, m, e)) = Len(l) + 1
          /\ \A j \in 1 .. Len(l) + 1 : InsertAt(l, m, e)[j] =
                IF j < m THEN l[j] ELSE IF j = m THEN e ELSE l[j - 1]
      BY Inserted
    <3> QED
      BY <3>1, <3>2, <3>3, Zenon
  <2> QED
    BY <1>3, <2>1, Zenon
<1> HIDE DEF new
<1>5. OfCDs(s, k) /\ OfCDs(l, k - 1)
  <2>1. \A j \in 1 .. k : s[j] \in CDs
    OBVIOUS
  <2>2. \A j \in 1 .. k - 1 : l[j] \in CDs
    BY <1>1
  <2> QED
    BY <2>1, <2>2, Zenon DEF OfCDs
<1>6. Inserts(new, l, s[k], k, q)
  BY <1>4 DEF Inserts
<1>7. /\ \E to \in [1 .. k -> 1 .. k] : Sorts(to, new, s, i, k)
      /\ InOrder(new, i - 1, k)
  BY <1>1, <1>2, <1>3, <1>5, <1>6, SortsNext
<1>8. Sorted(new, s, i, k)
  BY <1>4, <1>7 DEF Sorted, Ordered
<1> QED
  BY <1>4, <1>8 DEF new

SortStep(l, s, i, k) == IF k < i THEN Append(l, s[k]) ELSE InsertSorted(l, i, s[k])

LEMMA AtEnd ==
    ASSUME NEW S, NEW l \in Seq(S), NEW e \in S
    PROVE  Append(l, e) = InsertAt(l, Len(l) + 1, e)
BY DEF InsertAt

LEMMA StepGoes ==
    ASSUME NEW s \in Seq(CDs), NEW i \in Nat, 1 <= i, NEW k \in 1 .. Len(s),
           NEW l \in Seq(CDs), Sorted(l, s, i, k - 1)
    PROVE  \E q \in 1 .. k : Goes(s[k], l, i, k, q) /\ SortStep(l, s, i, k) = InsertAt(l, q, s[k])
<1> DEFINE c == s[k]
<1>1. Len(l) = k - 1 /\ k \in Nat /\ 1 <= k /\ k \in 1 .. k /\ k = Len(l) + 1
  BY DEF Sorted
<1>2. c \in CDs
  OBVIOUS
<1> HIDE DEF c
<1>3. CASE k < i
  <2>1. SortStep(l, s, i, k) = InsertAt(l, k, c)
    BY <1>1, <1>2, <1>3, AtEnd DEF SortStep, c
  <2>2. Goes(c, l, i, k, k)
    BY <1>1, <1>3 DEF Goes
  <2> QED
    BY <1>1, <2>1, <2>2 DEF c
<1>4. CASE k >= i
  <2> DEFINE T == {m \in i .. Len(l) : IsLess(c, l[m])}
             p == IF T # {} THEN Min(T) ELSE 0
             q == IF p = 0 THEN Len(l) + 1 ELSE p
  <2>1. SortStep(l, s, i, k) = InsertAt(l, q, c)
    BY <1>1, <1>4 DEF SortStep, InsertSorted, SelectInSubSeq, c
  <2>2. T \subseteq Nat /\ T \subseteq i .. k - 1 /\ 0 \notin T
    BY ONLY <1>1, i \in Nat, 1 <= i
  <2>3. T # {} => p \in T /\ p # 0 /\ \A m \in T : p <= m
    <3> HIDE DEF T
    <3> QED
      BY <2>2, LeastIs
  <2>4. T = {} => p = 0
    OBVIOUS
  <2>5. q \in 1 .. k /\ q >= i
    <3>1. CASE T = {}
      <4> HIDE DEF T, p
      <4> QED
        BY <1>1, <1>4, <2>4, <3>1
    <3>2. CASE T # {}
      <4> HIDE DEF T, p
      <4>1. p \in i .. k - 1 /\ q = p
        BY <2>2, <2>3, <3>2
      <4> QED
        BY <1>1, <4>1
    <3> QED
      BY <3>1, <3>2
  <2>6. ASSUME NEW m \in 1 .. k - 1, i <= m, m < q PROVE ~IsLess(c, l[m])
    <3>1. m \notin T
      <4> SUFFICES ASSUME m \in T PROVE FALSE
        OBVIOUS
      <4> HIDE DEF T, p
      <4>1. T # {} /\ p <= m /\ q = p
        BY <2>3
      <4>2. p \in Nat /\ m \in Nat /\ m < p
        BY <2>2, <2>3, <2>6, <4>1
      <4> QED
        BY ONLY <4>1, <4>2
    <3>2. m \in i .. Len(l)
      BY <1>1, <2>6
    <3> QED
      BY <3>1, <3>2
  <2>7. q < k => IsLess(c, l[q])
    <3>1. q < k => q \in T
      <4> HIDE DEF T, p
      <4> QED
        BY <1>1, <2>3, <2>4
    <3> QED
      BY <3>1
  <2> HIDE DEF q
  <2>8. Goes(c, l, i, k, q)
    BY <1>1, <1>4, <2>5, <2>6, <2>7 DEF Goes
  <2> QED
    BY <2>1, <2>5, <2>8 DEF c
<1> QED
  BY <1>1, <1>3, <1>4

LEMMA PartialSortIs ==
    ASSUME NEW s \in Seq(CDs), NEW i \in Nat, 1 <= i
    PROVE  PartialSort(s, i) \in Seq(CDs) /\ Sorted(PartialSort(s, i), s, i, Len(s))
<1> DEFINE n == Len(s)
           A == Seq(CDs)
           Step(v, k) == IF k < i THEN Append(v, s[k]) ELSE InsertSorted(v, i, s[k])
           G(v, k) == v \in A /\ Sorted(v, s, i, k)
           step == [k \in 1 .. n |-> [v \in A |-> IF G(v, k - 1) THEN Step(v, k) ELSE v]]
           R(g) == g = [k \in 0 .. n |-> IF k = 0 THEN <<>> ELSE Step(g[k - 1], k)]
<1>0. n \in Nat /\ <<>> \in A
  OBVIOUS
<1>1. PartialSort(s, i) = (CHOOSE g : R(g))[n]
  BY DEF PartialSort
<1>2. ASSUME NEW k \in 1 .. n, NEW v, G(v, k - 1)
      PROVE  G(Step(v, k), k)
  <2>1. v \in Seq(CDs) /\ Sorted(v, s, i, k - 1) /\ k \in 1 .. Len(s)
    BY <1>2
  <2>2. PICK q \in 1 .. k : Goes(s[k], v, i, k, q) /\ SortStep(v, s, i, k) = InsertAt(v, q, s[k])
    BY <2>1, StepGoes
  <2>3. Step(v, k) = InsertAt(v, q, s[k])
    BY <2>2 DEF SortStep
  <2>4. InsertAt(v, q, s[k]) \in Seq(CDs) /\ Sorted(InsertAt(v, q, s[k]), s, i, k)
    BY <2>1, <2>2, SortedNext
  <2> HIDE DEF Step
  <2> QED
    BY <2>3, <2>4
<1>2a. G(<<>>, 0)
  <2>1. Len(<<>>) = 0 /\ [a \in 1 .. 0 |-> a] \in [1 .. 0 -> 1 .. 0]
    OBVIOUS
  <2>2. Sorts([a \in 1 .. 0 |-> a], <<>>, s, i, 0)
    BY DEF Sorts
  <2>3. Ordered(<<>>, i - 1)
    BY <2>1 DEF Ordered, InOrder
  <2> QED
    BY <1>0, <2>1, <2>2, <2>3 DEF Sorted
<1>2b. \A k \in 1 .. n : \A v : G(v, k) => v \in A
  OBVIOUS
<1> HIDE DEF n, A, Step, G
<1>3. step \in [1 .. n -> [A -> A]]
  BY <1>2, <1>2b
<1>4. PICK g \in [0 .. n -> A] : IsFold(g, n, <<>>, step)
  <2> HIDE DEF step
  <2> QED
    BY <1>0, <1>3, FoldExists, Zenon
<1>5. /\ g[0] = <<>>
      /\ \A k \in 1 .. n : g[k - 1] \in A /\ g[k] = IF G(g[k - 1], k - 1) THEN Step(g[k - 1], k) ELSE g[k - 1]
  <2>1. g[0] = <<>> /\ \A k \in 1 .. n : g[k] = step[k][g[k - 1]]
    BY <1>4 DEF IsFold
  <2>2. \A k \in 1 .. n : g[k - 1] \in A
    BY <1>0
  <2> QED
    BY <2>1, <2>2
<1>6. \A k \in 0 .. n : G(g[k], k)
  <2> DEFINE Good == {k \in 0 .. n : G(g[k], k)}
  <2>1. 0 \in Good
    BY <1>0, <1>2a, <1>5
  <2>2. \A k \in 1 .. n : k - 1 \in Good => k \in Good
    BY <1>0, <1>2, <1>5
  <2>3. \A k \in 0 .. n : k \in Good
    <3> HIDE DEF Good
    <3> QED
      BY <1>0, <2>1, <2>2, Induct, Zenon
  <2> QED
    BY <2>3
<1>7. R(g)
  <2>1. \A k \in 1 .. n : g[k] = Step(g[k - 1], k)
    <3> TAKE k \in 1 .. n
    <3>1. k - 1 \in 0 .. n
      BY <1>0
    <3> QED
      BY <1>5, <1>6, <3>1
  <2>2. \A k \in 0 .. n : g[k] = IF k = 0 THEN <<>> ELSE Step(g[k - 1], k)
    BY <1>0, <1>5, <2>1
  <2> QED
    BY <2>2
<1> DEFINE h == CHOOSE h : R(h)
<1>8. R(h)
  BY <1>7
<1> HIDE DEF h
<1>9. h[0] = <<>> /\ \A k \in 1 .. n : h[k] = Step(h[k - 1], k)
  BY <1>0, <1>8
<1>10. \A k \in 0 .. n : G(h[k], k)
  <2> DEFINE Good == {k \in 0 .. n : G(h[k], k)}
  <2>1. 0 \in Good
    BY <1>0, <1>2a, <1>9
  <2>2. \A k \in 1 .. n : k - 1 \in Good => k \in Good
    BY <1>0, <1>2, <1>9
  <2>3. \A k \in 0 .. n : k \in Good
    <3> HIDE DEF Good
    <3> QED
      BY <1>0, <2>1, <2>2, Induct, Zenon
  <2> QED
    BY <2>3
<1>11. G(h[n], n)
  BY <1>0, <1>10
<1> QED
  BY <1>1, <1>11 DEF n, A, G, h

-----------------------------------------------------------------------------
(* InsertCDLib                                                             *)

\* What a CD is made of before its place in the list is known.
Heads == [id : Seq(Nat), by : Seq(Nat), tag : Nat, nt : Int, sub : Subs,
          ns : Nat, n : Nat, text : Texts]

Parts == [sub : Subs, text : Texts]

LEMMA CDIs ==
    ASSUME NEW c \in CDs
    PROVE  /\ c.id \in Seq(Nat) /\ c.by \in Seq(Nat) /\ c.tag \in Nat /\ c.nt \in Nat \ {0}
           /\ c.sub \in Subs /\ c.ns \in Nat /\ c.n \in Nat /\ c.text \in Texts
BY DEF CDs, Texts

LEMMA HeadIs ==
    ASSUME NEW c \in Heads
    PROVE  /\ c.id \in Seq(Nat) /\ c.by \in Seq(Nat) /\ c.tag \in Nat /\ c.nt \in Int
           /\ c.sub \in Subs /\ c.ns \in Nat /\ c.n \in Nat /\ c.text \in Texts
BY DEF Heads

LEMMA AppendSame ==
    ASSUME NEW x \in Seq(Nat), NEW y \in Seq(Nat), NEW p \in Nat, NEW q \in Nat,
           Append(x, p) = Append(y, q)
    PROVE  x = y /\ p = q
<1>1. Len(x) = Len(y)
  <2>1. Len(Append(x, p)) = Len(x) + 1 /\ Len(Append(y, q)) = Len(y) + 1
    BY Appended
  <2>2. Len(x) \in Nat /\ Len(y) \in Nat
    OBVIOUS
  <2> QED
    BY <2>1, <2>2
<1>2. p = q
  <2>1. Append(x, p)[Len(x) + 1] = p /\ Append(y, q)[Len(y) + 1] = q
    BY Appended
  <2> QED
    BY <1>1, <2>1
<1>3. \A j \in 1 .. Len(x) : x[j] = y[j]
  <2>0. ASSUME NEW z \in Seq(Nat), NEW r \in Nat
        PROVE  \A j \in 1 .. Len(z) : Append(z, r)[j] = z[j]
    BY ONLY z \in Seq(Nat), r \in Nat, Appended
  <2>1. \A j \in 1 .. Len(x) : Append(x, p)[j] = x[j]
    BY <2>0
  <2>2. \A j \in 1 .. Len(y) : Append(y, q)[j] = y[j]
    BY <2>0
  <2> QED
    BY <1>1, <2>1, <2>2
<1>4. x = [j \in 1 .. Len(x) |-> x[j]] /\ y = [j \in 1 .. Len(y) |-> y[j]]
  OBVIOUS
<1> QED
  BY <1>1, <1>2, <1>3, <1>4

\* The CD d of a list, after parts were written by the CD by.
Left(d, c, by) ==
    /\ d.id = c.id /\ SameField(d, c) /\ d.sub = c.sub
    /\ d.by = by \/ (d.by = c.by /\ d.text = c.text)

\* A CD made for one of the first k parts of h.
IsNew(d, h, k) ==
    /\ \E q \in 1 .. k : d.id = Append(h.id, q)
    /\ d.by = h.by /\ d.tag = h.tag

Stays(h, d) == h.sub = "" => ~Replaces(h, d)

\* The first m CDs of l were in s, at from; those behind were made for h.
Grows(from, m, l, s, h, k) ==
    /\ m <= Len(l)
    /\ k > 0 => Len(l) > 0
    /\ \A a, b \in 1 .. m : a < b => from[a] < from[b]
    /\ \A a \in 1 .. m : Left(l[a], s[from[a]], h.by)
    /\ \A i \in 1 .. Len(s) : Stays(h, s[i]) => \E a \in 1 .. m : from[a] = i
    /\ \A a \in m + 1 .. Len(l) : IsNew(l[a], h, k)
    /\ \A a, b \in m + 1 .. Len(l) : l[a].id = l[b].id => a = b

Grown(l, s, h, k) ==
    /\ l \in Seq(CDs)
    /\ \E m \in Nat : \E from \in [1 .. m -> 1 .. Len(s)] : Grows(from, m, l, s, h, k)

LEMMA NumberedIs ==
    ASSUME NEW l \in Seq(CDs), NEW c \in CDs
    PROVE  /\ Numbered(l, c) \in CDs
           /\ Numbered(l, c).id = c.id /\ Numbered(l, c).by = c.by
           /\ Numbered(l, c).tag = c.tag /\ Numbered(l, c).nt = c.nt
<1> DEFINE T == {j \in 1 .. Len(l) : l[j].tag = c.tag /\ l[j].sub = c.sub}
           i == IF T # {} THEN Max(T) ELSE 0
           n == IF i = 0 THEN 1 ELSE l[i].n + 1
           ns == IF c.sub = "" THEN 0 ELSE IF i # 0 /\ l[i].nt = c.nt THEN l[i].ns + 1 ELSE 1
<1>1. Numbered(l, c) = [c EXCEPT !.n = n, !.ns = ns]
  BY DEF Numbered, SelectLastInSeq
<1>2. i # 0 => i \in 1 .. Len(l)
  <2>1. T \subseteq 1 .. Len(l) /\ Len(l) \in Nat
    OBVIOUS
  <2> HIDE DEF T
  <2> QED
    BY <2>1, GreatestIs
<1> HIDE DEF i
<1>3. i # 0 => l[i].n \in Nat /\ l[i].ns \in Nat
  <2>1. i # 0 => l[i] \in CDs
    BY <1>2
  <2> QED
    BY <2>1, CDIs
<1>4. n \in Nat /\ ns \in Nat
  <2>1. n \in Nat
    BY <1>3
  <2>2. ns \in Nat
    <3>1. i # 0 => l[i].ns + 1 \in Nat
      BY <1>3
    <3> QED
      BY <3>1
  <2> QED
    BY <2>1, <2>2
<1> HIDE DEF n, ns
<1>5. [c EXCEPT !.n = n, !.ns = ns] \in CDs
  BY <1>4 DEF CDs
<1>6. /\ [c EXCEPT !.n = n, !.ns = ns].id = c.id /\ [c EXCEPT !.n = n, !.ns = ns].by = c.by
      /\ [c EXCEPT !.n = n, !.ns = ns].tag = c.tag /\ [c EXCEPT !.n = n, !.ns = ns].nt = c.nt
  BY DEF CDs
<1> QED
  BY <1>1, <1>5, <1>6

Written(d, c) == [d EXCEPT !.text = c.text, !.by = c.by]

\* The text and its writer are put into the i-th CD.
PutAt(l, i, c) == [l EXCEPT ![i].text = c.text, ![i].by = c.by]

LEMMA PutIs ==
    ASSUME NEW l \in Seq(CDs), NEW i \in 1 .. Len(l), NEW c \in CDs
    PROVE  /\ PutAt(l, i, c) \in Seq(CDs) /\ Len(PutAt(l, i, c)) = Len(l)
           /\ \A j \in 1 .. Len(l) : PutAt(l, i, c)[j] =
                 IF j = i THEN Written(l[i], c) ELSE l[j]
           /\ Written(l[i], c).id = l[i].id /\ SameField(Written(l[i], c), l[i])
           /\ Written(l[i], c).sub = l[i].sub /\ Written(l[i], c).by = c.by
<1> DEFINE e == Written(l[i], c)
<1>1. l[i] \in CDs /\ DOMAIN l = 1 .. Len(l) /\ Len(l) \in Nat
  OBVIOUS
<1>2. e \in CDs
  BY <1>1, CDIs DEF CDs, Texts, Written
<1>3. e.id = l[i].id /\ SameField(e, l[i]) /\ e.sub = l[i].sub /\ e.by = c.by
  BY <1>1 DEF CDs, SameField, Written
<1>4. \A j \in 1 .. Len(l) : PutAt(l, i, c)[j] = IF j = i THEN e ELSE l[j]
  BY <1>1 DEF PutAt, CDs, Written
<1>5. DOMAIN PutAt(l, i, c) = 1 .. Len(l) /\ PutAt(l, i, c) = [j \in 1 .. Len(l) |-> PutAt(l, i, c)[j]]
  BY <1>1 DEF PutAt
<1> HIDE DEF e
<1>6. \A j \in 1 .. Len(l) : PutAt(l, i, c)[j] \in CDs
  BY <1>2, <1>4
<1>7. PutAt(l, i, c) \in Seq(CDs) /\ Len(PutAt(l, i, c)) = Len(l)
  <2>1. PutAt(l, i, c) \in [1 .. Len(l) -> CDs]
    BY <1>5, <1>6
  <2> QED
    BY <1>1, <2>1
<1> QED
  BY <1>3, <1>4, <1>7 DEF e

LEMMA InsertPartIs ==
    ASSUME NEW l \in Seq(CDs), NEW c \in CDs
    PROVE  \/ \E i \in 1 .. Len(l) : InsertPart(l, c) = PutAt(l, i, c)
           \/ InsertPart(l, c) = Append(l, Numbered(l, c))
<1> DEFINE T == {j \in 1 .. Len(l) : IsEqual(l[j], c) /\ (c.sub = "" => l[j].sub = "")}
           p == IF T # {} THEN Min(T) ELSE 0
           i == IF c.sub = "" \/ c.ns # 0 THEN p ELSE 0
<1>1. InsertPart(l, c) = IF i # 0 THEN PutAt(l, i, c) ELSE Append(l, Numbered(l, c))
  BY DEF InsertPart, SelectInSeq, PutAt
<1>2. T \subseteq Nat /\ T \subseteq 1 .. Len(l)
  <2>1. T \subseteq 1 .. Len(l)
    BY Zenon
  <2> HIDE DEF T
  <2> QED
    BY <2>1
<1>3. p # 0 => p \in 1 .. Len(l)
  <2> HIDE DEF T
  <2> QED
    BY <1>2, LeastIs
<1> HIDE DEF p
<1>4. i # 0 => i \in 1 .. Len(l)
  BY <1>3
<1> HIDE DEF i
<1> QED
  BY <1>1, <1>4

LEMMA GrownAtFirst ==
    ASSUME NEW s \in Seq(CDs), NEW h
    PROVE  LET kept == IF h.sub = ""
                       THEN Picked(s, {i \in DOMAIN s : ~Replaces(h, s[i])}) ELSE s
           IN  Grown(kept, s, h, 0)
<1> DEFINE I == {i \in DOMAIN s : ~Replaces(h, s[i])}
           n == Len(s)
<1>0. n \in Nat /\ DOMAIN s = 1 .. n
  OBVIOUS
<1>1. CASE h.sub = ""
  <2> DEFINE l == Picked(s, I)
  <2>1. l \in Seq(CDs) /\ Selected(l, s, I, n)
    BY PickedIs
  <2>2. I \subseteq 1 .. n /\ \A i \in 1 .. n : Stays(h, s[i]) => i \in I \cap (1 .. n)
    BY <1>0, <1>1 DEF Stays
  <2> HIDE DEF I, l
  <2>3. PICK from \in [1 .. Len(l) -> I \cap (1 .. n)] : Selects(from, l, s, I, n)
    BY <2>1 DEF Selected
  <2>4. Len(l) \in Nat /\ from \in [1 .. Len(l) -> 1 .. n]
    BY <2>1
  <2>5. Len(l) + 1 .. Len(l) = {}
    BY <2>4
  <2>6. Grows(from, Len(l), l, s, h, 0)
    <3>1. \A a \in 1 .. Len(l) : Left(l[a], s[from[a]], h.by)
      BY <2>3 DEF Selects, Left, SameField
    <3>2. \A i \in 1 .. Len(s) : Stays(h, s[i]) => \E a \in 1 .. Len(l) : from[a] = i
      BY <2>2, <2>3 DEF Selects, n
    <3>3. \A a, b \in 1 .. Len(l) : a < b => from[a] < from[b]
      BY <2>3 DEF Selects
    <3> QED
      BY <2>4, <2>5, <3>1, <3>2, <3>3 DEF Grows
  <2> QED
    BY <1>1, <2>1, <2>4, <2>6 DEF Grown, I, l, n
<1>2. CASE h.sub # ""
  <2> DEFINE from == [a \in 1 .. n |-> a]
  <2>1. from \in [1 .. n -> 1 .. n] /\ n + 1 .. n = {} /\ \A a \in 1 .. n : from[a] = a
    BY <1>0
  <2> HIDE DEF from
  <2>2. Grows(from, n, s, s, h, 0)
    BY <1>0, <2>1 DEF Grows, Left, SameField, n
  <2> QED
    BY <1>0, <1>2, <2>1, <2>2 DEF Grown, n
<1> QED
  BY <1>1, <1>2

LEMMA GrownPut ==
    ASSUME NEW s \in Seq(CDs), NEW h \in Heads, NEW k \in Nat \ {0}, NEW l, Grown(l, s, h, k - 1),
           NEW i \in 1 .. Len(l), NEW c \in CDs, c.by = h.by
    PROVE  Grown(PutAt(l, i, c), s, h, k)
<1> DEFINE new == PutAt(l, i, c)
           e == Written(l[i], c)
<1>1. l \in Seq(CDs) /\ Len(l) \in Nat
  BY DEF Grown
<1>2a. PICK m \in Nat : \E from \in [1 .. m -> 1 .. Len(s)] : Grows(from, m, l, s, h, k - 1)
  BY DEF Grown
<1>2. PICK from \in [1 .. m -> 1 .. Len(s)] : Grows(from, m, l, s, h, k - 1)
  BY <1>2a
<1>3. /\ new \in Seq(CDs) /\ Len(new) = Len(l)
      /\ \A j \in 1 .. Len(l) : new[j] = IF j = i THEN e ELSE l[j]
      /\ e.id = l[i].id /\ SameField(e, l[i]) /\ e.sub = l[i].sub /\ e.by = c.by
  BY <1>1, PutIs
<1> HIDE DEF new, e
<1>4. m <= Len(l)
  BY <1>2 DEF Grows
<1>5. ASSUME NEW a \in 1 .. m PROVE Left(new[a], s[from[a]], h.by)
  <2>1. Left(l[a], s[from[a]], h.by) /\ a \in 1 .. Len(l)
    BY <1>1, <1>2, <1>4 DEF Grows
  <2>2. new[a] = IF a = i THEN e ELSE l[a]
    BY <1>3, <2>1
  <2> QED
    BY <1>3, <2>1, <2>2 DEF Left, SameField
<1>6. ASSUME NEW a \in m + 1 .. Len(l)
      PROVE  IsNew(new[a], h, k) /\ new[a].id = l[a].id
  <2>1. IsNew(l[a], h, k - 1) /\ a \in 1 .. Len(l)
    BY <1>1, <1>2, <1>4 DEF Grows
  <2>2. new[a] = IF a = i THEN e ELSE l[a]
    BY <1>3, <2>1
  <2>3. PICK q \in 1 .. k - 1 : l[a].id = Append(h.id, q)
    BY <2>1 DEF IsNew
  <2>4. q \in 1 .. k
    OBVIOUS
  <2>5. new[a].id = l[a].id /\ new[a].by = h.by /\ new[a].tag = h.tag
    BY <1>3, <2>1, <2>2 DEF IsNew, SameField
  <2> QED
    BY <2>3, <2>4, <2>5 DEF IsNew
<1>7. Grows(from, m, new, s, h, k)
  <2>1. \A a, b \in m + 1 .. Len(l) : new[a].id = new[b].id => a = b
    BY <1>2, <1>6 DEF Grows
  <2>2. \A a, b \in 1 .. m : a < b => from[a] < from[b]
    BY <1>2 DEF Grows
  <2>3. \A j \in 1 .. Len(s) : Stays(h, s[j]) => \E a \in 1 .. m : from[a] = j
    BY <1>2 DEF Grows
  <2>4. Len(l) > 0
    BY <1>1
  <2> QED
    BY <1>3, <1>4, <1>5, <1>6, <2>1, <2>2, <2>3, <2>4 DEF Grows
<1> QED
  BY <1>2, <1>3, <1>7 DEF Grown, new

LEMMA GrownAppend ==
    ASSUME NEW s \in Seq(CDs), NEW h \in Heads, NEW k \in Nat \ {0}, NEW l, Grown(l, s, h, k - 1),
           NEW c \in CDs, c.by = h.by, c.tag = h.tag, c.id = Append(h.id, k)
    PROVE  Grown(Append(l, c), s, h, k)
<1> DEFINE new == Append(l, c)
           n == Len(l)
<1>1. l \in Seq(CDs) /\ n \in Nat
  BY DEF Grown
<1>2a. PICK m \in Nat : \E from \in [1 .. m -> 1 .. Len(s)] : Grows(from, m, l, s, h, k - 1)
  BY DEF Grown
<1>2. PICK from \in [1 .. m -> 1 .. Len(s)] : Grows(from, m, l, s, h, k - 1)
  BY <1>2a
<1>3. new \in Seq(CDs) /\ Len(new) = n + 1 /\ new[n + 1] = c /\ \A j \in 1 .. n : new[j] = l[j]
  BY <1>1, Appended
<1>4. m <= n
  BY <1>2 DEF Grows
<1> HIDE DEF new
<1>5. ASSUME NEW a \in 1 .. m PROVE Left(new[a], s[from[a]], h.by)
  <2>1. Left(l[a], s[from[a]], h.by) /\ a \in 1 .. n
    BY <1>1, <1>2, <1>4 DEF Grows
  <2> QED
    BY <1>3, <2>1
<1>6. ASSUME NEW a \in m + 1 .. n
      PROVE  IsNew(new[a], h, k) /\ new[a].id = l[a].id /\ new[a].id # Append(h.id, k)
  <2>1. IsNew(l[a], h, k - 1) /\ a \in 1 .. n
    BY <1>1, <1>2, <1>4 DEF Grows
  <2>2. new[a] = l[a]
    BY <1>3, <2>1
  <2>3. PICK q \in 1 .. k - 1 : l[a].id = Append(h.id, q)
    BY <2>1 DEF IsNew
  <2>4. q \in 1 .. k /\ q \in Nat /\ k \in Nat /\ q # k /\ h.id \in Seq(Nat)
    BY HeadIs
  <2>5. Append(h.id, q) # Append(h.id, k)
    BY <2>4, AppendSame
  <2> QED
    BY <2>1, <2>2, <2>3, <2>4, <2>5 DEF IsNew
<1>7. IsNew(c, h, k)
  <2>1. k \in 1 .. k
    OBVIOUS
  <2> QED
    BY <2>1 DEF IsNew
<1>8. Grows(from, m, new, s, h, k)
  <2>1. \A a, b \in m + 1 .. n + 1 : new[a].id = new[b].id => a = b
    <3> TAKE a, b \in m + 1 .. n + 1
    <3> HAVE new[a].id = new[b].id
    <3>1. CASE a # n + 1 /\ b # n + 1
      <4>1. a \in m + 1 .. n /\ b \in m + 1 .. n
        BY <1>1, <3>1, SMTT(60)
      <4> QED
        BY <1>2, <1>6, <4>1 DEF Grows
    <3>2. CASE a = n + 1 /\ b # n + 1
      <4>1. b \in m + 1 .. n
        BY <1>1, <3>2
      <4> QED
        BY <1>3, <1>6, <3>2, <4>1
    <3>3. CASE a # n + 1 /\ b = n + 1
      <4>1. a \in m + 1 .. n
        BY <1>1, <3>3
      <4> QED
        BY <1>3, <1>6, <3>3, <4>1
    <3> QED
      BY <3>1, <3>2, <3>3
  <2>2. \A a, b \in 1 .. m : a < b => from[a] < from[b]
    BY <1>2 DEF Grows
  <2>3. \A j \in 1 .. Len(s) : Stays(h, s[j]) => \E a \in 1 .. m : from[a] = j
    BY <1>2 DEF Grows
  <2>4. n + 1 > 0 /\ m <= n + 1
    BY <1>1, <1>4
  <2>5. \A a \in m + 1 .. n + 1 : IsNew(new[a], h, k)
    <3> TAKE a \in m + 1 .. n + 1
    <3>1. CASE a = n + 1
      BY <1>3, <1>7, <3>1
    <3>2. CASE a # n + 1
      <4>1. a \in m + 1 .. n
        BY <1>1, <3>2, SMTT(60)
      <4> QED
        BY <1>6, <4>1
    <3> QED
      BY <3>1, <3>2
  <2> QED
    BY <1>3, <1>5, <2>1, <2>2, <2>3, <2>4, <2>5 DEF Grows
<1> QED
  BY <1>2, <1>3, <1>8 DEF Grown, new

\* The part p of h, as the k-th CD made for h in the field nt.
PartOf(h, p, nt, k) ==
    [h EXCEPT !.id = Append(@, k), !.nt = nt, !.sub = p.sub,
              !.ns = IF h.sub = "" THEN 0 ELSE @, !.text = p.text]

LEMMA PartIs ==
    ASSUME NEW h \in Heads, NEW p \in Parts, NEW nt \in Nat \ {0}, NEW k \in Nat
    PROVE  LET c == PartOf(h, p, nt, k)
           IN  c \in CDs /\ c.id = Append(h.id, k) /\ c.by = h.by /\ c.tag = h.tag
<1> DEFINE ns == IF h.sub = "" THEN 0 ELSE h.ns
           id == Append(h.id, k)
           c == [h EXCEPT !.id = id, !.nt = nt, !.sub = p.sub, !.ns = ns, !.text = p.text]
<1>1. /\ h.id \in Seq(Nat) /\ h.by \in Seq(Nat) /\ h.tag \in Nat
      /\ h.sub \in Subs /\ h.ns \in Nat /\ h.n \in Nat
  BY HeadIs
<1>2. id \in Seq(Nat)
  BY <1>1, Appended
<1>3. ns \in Nat
  BY <1>1
<1>4. p.sub \in Subs /\ p.text \in Texts
  BY DEF Parts
<1>5. PartOf(h, p, nt, k) = c
  BY DEF PartOf, Heads
<1> HIDE DEF ns, id
<1>6. c \in CDs /\ c.id = id /\ c.by = h.by /\ c.tag = h.tag
  BY <1>1, <1>2, <1>3, <1>4 DEF Heads, CDs, Texts
<1> QED
  BY <1>5, <1>6 DEF id

LEMMA GrownNext ==
    ASSUME NEW s \in Seq(CDs), NEW h \in Heads, NEW k \in Nat \ {0}, NEW l, Grown(l, s, h, k - 1),
           NEW p \in Parts, NEW nt \in Nat \ {0}
    PROVE  Grown(InsertPart(l, PartOf(h, p, nt, k)), s, h, k)
<1> DEFINE c == PartOf(h, p, nt, k)
<1>1. c \in CDs /\ c.id = Append(h.id, k) /\ c.by = h.by /\ c.tag = h.tag
  BY PartIs
<1> HIDE DEF c
<1>2. l \in Seq(CDs)
  BY DEF Grown
<1>3. CASE \E i \in 1 .. Len(l) : InsertPart(l, c) = PutAt(l, i, c)
  BY <1>1, <1>3, GrownPut DEF c
<1>4. CASE InsertPart(l, c) = Append(l, Numbered(l, c))
  <2>1. /\ Numbered(l, c) \in CDs /\ Numbered(l, c).id = Append(h.id, k)
        /\ Numbered(l, c).by = h.by /\ Numbered(l, c).tag = h.tag
    BY <1>1, <1>2, NumberedIs
  <2> QED
    BY <1>4, <2>1, GrownAppend DEF c
<1> QED
  BY <1>1, <1>2, <1>3, <1>4, InsertPartIs

LEMMA FieldNumber ==
    ASSUME NEW s \in Seq(CDs), NEW h \in Heads
    PROVE  LET prev == SelectLastInSeq(s, LAMBDA d : d.tag = h.tag)
               nt   == IF h.nt > 0 THEN h.nt ELSE IF prev = 0 THEN 1 ELSE s[prev].nt + 1
           IN  nt \in Nat \ {0}
<1> DEFINE T == {j \in 1 .. Len(s) : s[j].tag = h.tag}
           prev == IF T # {} THEN Max(T) ELSE 0
<1>1. prev = SelectLastInSeq(s, LAMBDA d : d.tag = h.tag)
  BY DEF SelectLastInSeq
<1>2. prev # 0 => prev \in 1 .. Len(s)
  <2>1. T \subseteq 1 .. Len(s) /\ Len(s) \in Nat
    OBVIOUS
  <2> HIDE DEF T
  <2> QED
    BY <2>1, GreatestIs
<1> HIDE DEF prev
<1>3. prev # 0 => s[prev].nt \in Nat
  <2>1. prev # 0 => s[prev] \in CDs
    BY <1>2
  <2> QED
    BY <2>1, CDIs
<1>4. h.nt \in Int
  BY HeadIs
<1>5. (IF h.nt > 0 THEN h.nt ELSE IF prev = 0 THEN 1 ELSE s[prev].nt + 1) \in Nat \ {0}
  BY <1>3, <1>4
<1> QED
  BY <1>1, <1>5

LEMMA InsertCDLibIs ==
    ASSUME NEW s \in Seq(CDs), NEW h \in Heads, NEW parts \in Seq(Parts)
    PROVE  Grown(InsertCDLib(s, h, parts), s, h, Len(parts))
<1> DEFINE n == Len(parts)
           prev == SelectLastInSeq(s, LAMBDA d : d.tag = h.tag)
           nt == IF h.nt > 0 THEN h.nt ELSE IF prev = 0 THEN 1 ELSE s[prev].nt + 1
           kept == IF h.sub = "" THEN Picked(s, {i \in DOMAIN s : ~Replaces(h, s[i])}) ELSE s
           Step(v, k) == InsertPart(v, PartOf(h, parts[k], nt, k))
           A == {v \in Seq(CDs) : \E k \in 0 .. n : Grown(v, s, h, k)}
           step == [k \in 1 .. n |-> [v \in A |-> IF Grown(v, s, h, k - 1) THEN Step(v, k) ELSE v]]
           R(g) == g = [k \in 0 .. n |-> IF k = 0 THEN kept ELSE Step(g[k - 1], k)]
<1>0. n \in Nat
  OBVIOUS
<1>1. InsertCDLib(s, h, parts) = (CHOOSE g : R(g))[n]
  BY DEF InsertCDLib, PartOf
<1>1a. nt \in Nat \ {0}
  BY FieldNumber
<1>1b. Grown(kept, s, h, 0)
  BY GrownAtFirst
<1>1c. \A k \in 1 .. n : parts[k] \in Parts
  OBVIOUS
<1> HIDE DEF nt, kept
<1>2. ASSUME NEW k \in 1 .. n, NEW v, Grown(v, s, h, k - 1)
      PROVE  Grown(Step(v, k), s, h, k)
  <2>1. k \in Nat \ {0} /\ parts[k] \in Parts
    BY <1>0, <1>1c
  <2> QED
    BY <1>1a, <1>2, <2>1, GrownNext
<1> HIDE DEF n, Step
<1>2a. \A k \in 0 .. n : \A v : Grown(v, s, h, k) => v \in A
  BY DEF Grown
<1> HIDE DEF A
<1>3. step \in [1 .. n -> [A -> A]]
  <2>1. ASSUME NEW k \in 1 .. n, NEW v \in A
        PROVE  (IF Grown(v, s, h, k - 1) THEN Step(v, k) ELSE v) \in A
    <3>1. k \in 0 .. n
      BY <1>0
    <3> QED
      BY <1>2, <1>2a, <3>1
  <2> QED
    BY <2>1
<1>3a. kept \in A
  BY <1>0, <1>1b, <1>2a
<1>4. PICK g \in [0 .. n -> A] : IsFold(g, n, kept, step)
  <2> HIDE DEF step
  <2> QED
    BY <1>0, <1>3, <1>3a, FoldExists, Zenon
<1>5. /\ g[0] = kept
      /\ \A k \in 1 .. n : g[k] = IF Grown(g[k - 1], s, h, k - 1) THEN Step(g[k - 1], k) ELSE g[k - 1]
  <2>1. g[0] = kept /\ \A k \in 1 .. n : g[k] = step[k][g[k - 1]]
    BY <1>4 DEF IsFold
  <2>2. \A k \in 1 .. n : g[k - 1] \in A
    BY <1>0
  <2> QED
    BY <2>1, <2>2
<1>6. \A k \in 0 .. n : Grown(g[k], s, h, k)
  <2> DEFINE Good == {k \in 0 .. n : Grown(g[k], s, h, k)}
  <2>1. 0 \in Good
    BY <1>0, <1>1b, <1>5
  <2>2. \A k \in 1 .. n : k - 1 \in Good => k \in Good
    BY <1>0, <1>2, <1>5
  <2>3. \A k \in 0 .. n : k \in Good
    <3> HIDE DEF Good
    <3> QED
      BY <1>0, <2>1, <2>2, Induct, Zenon
  <2> QED
    BY <2>3
<1>7. R(g)
  <2>1. \A k \in 1 .. n : g[k] = Step(g[k - 1], k)
    <3> TAKE k \in 1 .. n
    <3>1. k - 1 \in 0 .. n
      BY <1>0
    <3> QED
      BY <1>5, <1>6, <3>1
  <2>2. \A k \in 0 .. n : g[k] = IF k = 0 THEN kept ELSE Step(g[k - 1], k)
    BY <1>0, <1>5, <2>1
  <2> QED
    BY <2>2
<1> DEFINE f == CHOOSE f : R(f)
<1>8. R(f)
  BY <1>7
<1> HIDE DEF f
<1>9. f[0] = kept /\ \A k \in 1 .. n : f[k] = Step(f[k - 1], k)
  BY <1>0, <1>8
<1>10. \A k \in 0 .. n : Grown(f[k], s, h, k)
  <2> DEFINE Good == {k \in 0 .. n : Grown(f[k], s, h, k)}
  <2>1. 0 \in Good
    BY <1>0, <1>1b, <1>9
  <2>2. \A k \in 1 .. n : k - 1 \in Good => k \in Good
    BY <1>0, <1>2, <1>9
  <2>3. \A k \in 0 .. n : k \in Good
    <3> HIDE DEF Good
    <3> QED
      BY <1>0, <2>1, <2>2, Induct, Zenon
  <2> QED
    BY <2>3
<1>11. Grown(f[n], s, h, n)
  BY <1>0, <1>10
<1> QED
  BY <1>1, <1>11 DEF n, f

LEMMA GrownFrom ==
    ASSUME NEW l, NEW s, NEW h, NEW k, Grown(l, s, h, k), NEW a \in 1 .. Len(l)
    PROVE  (\E i \in 1 .. Len(s) : Left(l[a], s[i], h.by)) \/ IsNew(l[a], h, k)
<1>1. PICK m \in Nat : \E from \in [1 .. m -> 1 .. Len(s)] : Grows(from, m, l, s, h, k)
  BY DEF Grown
<1>2. PICK from \in [1 .. m -> 1 .. Len(s)] : Grows(from, m, l, s, h, k)
  BY <1>1
<1>3. l \in Seq(CDs) /\ Len(l) \in Nat
  BY DEF Grown
<1>4. CASE a <= m
  <2>1. a \in 1 .. m
    BY <1>3, <1>4
  <2> QED
    BY <1>2, <2>1 DEF Grows
<1>5. CASE a > m
  <2>1. a \in m + 1 .. Len(l)
    BY <1>3, <1>5
  <2> QED
    BY <1>2, <2>1 DEF Grows
<1> QED
  BY <1>3, <1>4, <1>5

LEMMA GrownDistinct ==
    ASSUME NEW s \in Seq(CDs), Distinct(s), NEW l, NEW h, NEW k \in Nat, Grown(l, s, h, k),
           \A i \in 1 .. Len(s) : \A q \in 1 .. k : s[i].id # Append(h.id, q)
    PROVE  Distinct(l)
<1>1. PICK m \in Nat : \E from \in [1 .. m -> 1 .. Len(s)] : Grows(from, m, l, s, h, k)
  BY DEF Grown
<1>2. PICK from \in [1 .. m -> 1 .. Len(s)] : Grows(from, m, l, s, h, k)
  BY <1>1
<1>3. l \in Seq(CDs) /\ Len(l) \in Nat /\ DOMAIN l = 1 .. Len(l) /\ DOMAIN s = 1 .. Len(s)
  BY DEF Grown
<1>4. ASSUME NEW a \in 1 .. m
      PROVE  from[a] \in 1 .. Len(s) /\ l[a].id = s[from[a]].id
  BY <1>2 DEF Grows, Left
<1>5. ASSUME NEW a \in m + 1 .. Len(l)
      PROVE  \E q \in 1 .. k : l[a].id = Append(h.id, q)
  BY <1>2 DEF Grows, IsNew
<1>6. ASSUME NEW a \in 1 .. Len(l), NEW b \in 1 .. Len(l), l[a].id = l[b].id PROVE a = b
  <2>1. CASE a <= m /\ b <= m
    <3>1. a \in 1 .. m /\ b \in 1 .. m
      BY <1>3, <2>1
    <3>2. from[a] = from[b]
      BY <1>3, <1>4, <1>6, <3>1 DEF Distinct
    <3>3. ~(a < b) /\ ~(b < a)
      <4>1. from[a] \in Nat
        BY <1>4, <3>1
      <4>2. (a < b => from[a] < from[b]) /\ (b < a => from[b] < from[a])
        BY <1>2, <3>1 DEF Grows
      <4> QED
        BY <3>2, <4>1, <4>2
    <3> QED
      BY <3>1, <3>3
  <2>2. CASE a > m /\ b > m
    <3>1. a \in m + 1 .. Len(l) /\ b \in m + 1 .. Len(l)
      BY <1>3, <2>2
    <3> QED
      BY <1>2, <1>6, <3>1 DEF Grows
  <2>3. CASE a <= m /\ b > m
    <3>1. a \in 1 .. m /\ b \in m + 1 .. Len(l)
      BY <1>3, <2>3
    <3> QED
      BY <1>4, <1>5, <1>6, <3>1, SMTT(60)
  <2>4. CASE a > m /\ b <= m
    <3>1. b \in 1 .. m /\ a \in m + 1 .. Len(l)
      BY <1>3, <2>4
    <3> QED
      BY <1>4, <1>5, <1>6, <3>1
  <2>5. \/ a <= m /\ b <= m
        \/ a > m /\ b > m
        \/ a <= m /\ b > m
        \/ a > m /\ b <= m
    BY ONLY <1>3
  <2> QED
    BY <2>1, <2>2, <2>3, <2>4, <2>5, Zenon
<1> QED
  BY <1>3, <1>6 DEF Distinct

-----------------------------------------------------------------------------
(* The list of the input record                                            *)

\* Ids of fields before the f-th, and of the first j calls for that one.
Below(x, f, j) ==
    /\ x \in Seq(Nat) /\ Len(x) = 3
    /\ x[1] < f \/ (x[1] = f /\ x[2] < j)

InputCDs(l, r, f, j) ==
    /\ l \in Seq(CDs) /\ Distinct(l)
    /\ \A i \in DOMAIN l : Below(l[i].id, f, j) /\ OfRecord(r, l[i].tag)

LEMMA IdIs ==
    ASSUME NEW f \in Nat, NEW j \in Nat, NEW q \in Nat
    PROVE  LET x == Append(<<f, j>>, q)
           IN  x \in Seq(Nat) /\ Len(x) = 3 /\ x[1] = f /\ x[2] = j
OBVIOUS

LEMMA InputGrows ==
    ASSUME NEW r, NEW f \in Nat, NEW j \in Nat, NEW s, InputCDs(s, r, f, j),
           NEW h \in Heads, h.id = <<f, j>>, OfRecord(r, h.tag),
           NEW k \in Nat, k > 0, NEW l, Grown(l, s, h, k)
    PROVE  InputCDs(l, r, f, j + 1) /\ Len(l) > 0
<1>1. s \in Seq(CDs) /\ Distinct(s) /\ DOMAIN s = 1 .. Len(s)
  BY DEF InputCDs
<1>2. l \in Seq(CDs) /\ Len(l) > 0 /\ DOMAIN l = 1 .. Len(l)
  BY DEF Grown, Grows
<1>3. \A i \in 1 .. Len(s) : Below(s[i].id, f, j) /\ OfRecord(r, s[i].tag)
  BY <1>1 DEF InputCDs
<1>4. \A q \in 1 .. k : /\ Append(h.id, q) \in Seq(Nat) /\ Len(Append(h.id, q)) = 3
                        /\ Append(h.id, q)[1] = f /\ Append(h.id, q)[2] = j
  <2> TAKE q \in 1 .. k
  <2>1. q \in Nat
    OBVIOUS
  <2> QED
    BY <2>1, IdIs
<1>5. Distinct(l)
  <2>1. \A i \in 1 .. Len(s) : \A q \in 1 .. k : s[i].id # Append(h.id, q)
    <3> SUFFICES ASSUME NEW i \in 1 .. Len(s), NEW q \in 1 .. k, s[i].id = Append(h.id, q)
                 PROVE  FALSE
      OBVIOUS
    <3>1. s[i].id[1] = f /\ s[i].id[2] = j
      BY <1>4
    <3>2. Below(s[i].id, f, j)
      BY <1>3
    <3> QED
      BY <3>1, <3>2 DEF Below
  <2> QED
    BY <1>1, <2>1, GrownDistinct
<1>6. ASSUME NEW a \in 1 .. Len(l)
      PROVE  Below(l[a].id, f, j + 1) /\ OfRecord(r, l[a].tag)
  <2>1. CASE \E i \in 1 .. Len(s) : Left(l[a], s[i], h.by)
    <3>1. PICK i \in 1 .. Len(s) : l[a].id = s[i].id /\ l[a].tag = s[i].tag
      BY <2>1 DEF Left, SameField
    <3>2. Below(s[i].id, f, j) /\ OfRecord(r, s[i].tag)
      BY <1>3
    <3>3. Below(s[i].id, f, j + 1)
      <4>1. s[i].id[2] \in Nat
        BY <3>2, SMTT(60) DEF Below
      <4> QED
        BY <3>2, <4>1 DEF Below
    <3> QED
      BY <3>1, <3>2, <3>3
  <2>2. CASE IsNew(l[a], h, k)
    BY <1>4, <2>2 DEF IsNew, Below
  <2> QED
    BY <2>1, <2>2, GrownFrom
<1> QED
  BY <1>2, <1>5, <1>6 DEF InputCDs

LEMMA BelowOn ==
    ASSUME NEW r, NEW f \in Nat, NEW j \in Nat, NEW s, InputCDs(s, r, f, j),
           NEW g \in Nat, NEW i \in Nat, f < g \/ (f = g /\ j <= i)
    PROVE  InputCDs(s, r, g, i)
<1>1. ASSUME NEW x, Below(x, f, j) PROVE Below(x, g, i)
  <2>0. x \in Seq(Nat) /\ Len(x) = 3
    BY <1>1 DEF Below
  <2>1. x[1] \in Nat /\ x[2] \in Nat
    <3>1. PICK y \in Seq(Nat) : y = x
      BY <2>0
    <3>0. Len(y) = 3
      BY <2>0, <3>1
    <3>2. 1 \in 1 .. Len(y) /\ 2 \in 1 .. Len(y)
      BY ONLY <3>0
    <3>3. y[1] \in Nat /\ y[2] \in Nat
      BY ONLY <3>2, y \in Seq(Nat)
    <3> QED
      BY <3>1, <3>3
  <2> QED
    BY <1>1, <2>1 DEF Below
<1> QED
  BY <1>1 DEF InputCDs

LEMMA NewCDIs ==
    ASSUME NEW id \in Seq(Nat), NEW tag \in Nat, NEW nt \in Int, NEW sub \in Subs
    PROVE  /\ NewCD(id, tag, nt, sub) \in Heads
           /\ NewCD(id, tag, nt, sub).id = id /\ NewCD(id, tag, nt, sub).tag = tag
BY DEF NewCD, Heads, Texts

LEMMA TextIs ==
    ASSUME NEW f \in Nat, NEW k \in Nat, NEW sub \in Subs
    PROVE  [sub |-> sub, text |-> InputText(f, k)] \in Parts
BY DEF InputText, Parts, Texts

LEMMA InsertedInput ==
    ASSUME NEW r, NEW f \in Nat, NEW j \in Nat, NEW s, InputCDs(s, r, f, j),
           NEW tag \in Nat, OfRecord(r, tag), NEW nt \in Int, NEW sub \in Subs,
           NEW parts \in Seq(Parts), Len(parts) > 0,
           NEW l, l = InsertCDLib(s, NewCD(<<f, j>>, tag, nt, sub), parts)
    PROVE  InputCDs(l, r, f, j + 1) /\ Len(l) > 0
<1> DEFINE h == NewCD(<<f, j>>, tag, nt, sub)
<1>1. h \in Heads /\ h.id = <<f, j>> /\ h.tag = tag
  <2>0. <<f, j>> \in Seq(Nat)
    BY ONLY f \in Nat, j \in Nat
  <2>1. PICK id \in Seq(Nat) : id = <<f, j>>
    BY <2>0
  <2>2. /\ NewCD(id, tag, nt, sub) \in Heads
        /\ NewCD(id, tag, nt, sub).id = id /\ NewCD(id, tag, nt, sub).tag = tag
    BY NewCDIs
  <2> QED
    BY <2>1, <2>2
<1>2. s \in Seq(CDs) /\ Len(parts) \in Nat
  BY DEF InputCDs
<1> HIDE DEF h
<1>3. Grown(InsertCDLib(s, h, parts), s, h, Len(parts))
  BY <1>1, <1>2, InsertCDLibIs
<1>4. InputCDs(InsertCDLib(s, h, parts), r, f, j + 1) /\ Len(InsertCDLib(s, h, parts)) > 0
  BY <1>1, <1>2, <1>3, InputGrows
<1> QED
  BY <1>4 DEF h

LEMMA RecordIs ==
    ASSUME NEW r \in Records
    PROVE  r \in Seq(Fields) /\ Len(r) \in Nat /\ DOMAIN r = 1 .. Len(r)
<1>1. r \in Seq(Fields)
  BY RecordsAssumption
<1> QED
  BY <1>1

LEMMA FieldIs ==
    ASSUME NEW r \in Records, NEW f \in 1 .. Len(r)
    PROVE  /\ f \in Nat /\ r[f].tag \in Nat /\ OfRecord(r, r[f].tag)
           /\ r[f].subs \in Seq(Subs) /\ Len(r[f].subs) > 0
<1>1. r[f] \in Fields /\ f \in DOMAIN r /\ f \in Nat
  BY RecordIs
<1>2. r[f].subs \in {<<"">>} \cup (Seq(Codes) \ {<<>>})
  BY <1>1, ZenonT(60) DEF Fields
<1>3. r[f].tag \in Nat
  <2>1. r[f].tag \in 1 .. 999
    BY <1>1, ZenonT(60) DEF Fields
  <2>2. \A x \in 1 .. 999 : x \in Nat
    OBVIOUS
  <2> QED
    BY <2>1, <2>2, ZenonT(60)
<1> DEFINE none == ""
<1>4. none \in Subs
  BY DEF Subs
<1> HIDE DEF none
<1>5. \A s \in Seq(Codes) \ {<<>>} : s \in Seq(Subs) /\ Len(s) > 0
  <2>1. Codes \subseteq Subs
    BY Zenon DEF Subs
  <2> QED
    BY <2>1
<1>6. <<none>> \in Seq(Subs) /\ Len(<<none>>) > 0
  BY <1>4, Single
<1>7. r[f].subs \in Seq(Subs) /\ Len(r[f].subs) > 0
  <2>1. r[f].subs \in {<<none>>} \cup (Seq(Codes) \ {<<>>})
    BY <1>2 DEF none
  <2> QED
    BY <1>5, <1>6, <2>1
<1> QED
  BY <1>1, <1>3, <1>7 DEF OfRecord

\* AddField leaves the list to the next field.
LEMMA AddedField ==
    ASSUME NEW r \in Records, NEW f \in 1 .. Len(r), NEW cds, InputCDs(cds, r, f, 0)
    PROVE  InputCDs(AddField(cds, r, f), r, f, 3) /\ Len(AddField(cds, r, f)) > 0
<1> DEFINE Part(sub, k) == [sub |-> sub, text |-> InputText(f, k)]
           subs == r[f].subs
           parts == [k \in DOMAIN subs |-> Part(subs[k], k + 1)]
           tag == r[f].tag
           none == ""
           i1 == "I1"
           i2 == "I2"
           zero == 0
           p1 == <<Part(i1, 0)>>
           p2 == <<Part(i2, 1)>>
           first == InsertCDLib(cds, NewCD(<<f, 0>>, tag, zero, i1), p1)
           nt == Last(first).nt
           both == InsertCDLib(first, NewCD(<<f, 1>>, tag, nt, i2), p2)
           whole == InsertCDLib(cds, NewCD(<<f, 2>>, tag, zero, none), parts)
           rest == InsertCDLib(both, NewCD(<<f, 2>>, tag, nt, none), parts)
<1>1. AddField(cds, r, f) = IF subs = <<"">> THEN whole ELSE rest
  BY DEF AddField
<1>2. f \in Nat /\ tag \in Nat /\ OfRecord(r, tag) /\ subs \in Seq(Subs) /\ Len(subs) > 0
  BY FieldIs
<1>2a. none \in Subs /\ i1 \in Subs /\ i2 \in Subs /\ zero \in Int
  BY DEF Subs, Indicators
<1> HIDE DEF subs, tag, none, i1, i2, zero
<1>3. parts \in Seq(Parts) /\ Len(parts) > 0
  <2>1. Len(subs) \in Nat /\ DOMAIN subs = 1 .. Len(subs)
    BY <1>2
  <2>2. ASSUME NEW k \in 1 .. Len(subs) PROVE Part(subs[k], k + 1) \in Parts
    <3>1. k + 1 \in Nat /\ subs[k] \in Subs
      BY <1>2, <2>1
    <3> QED
      BY <1>2, <3>1, TextIs
  <2> HIDE DEF Part
  <2>3. parts \in [1 .. Len(subs) -> Parts]
    BY <2>1, <2>2
  <2> HIDE DEF parts
  <2> QED
    BY <1>2, <2>1, <2>3
<1>4. p1 \in Seq(Parts) /\ Len(p1) > 0 /\ p2 \in Seq(Parts) /\ Len(p2) > 0
  <2>1. ASSUME NEW k \in Nat, NEW sub \in Subs PROVE Part(sub, k) \in Parts
    BY <1>2, TextIs
  <2> HIDE DEF Part
  <2>2. Part(i1, 0) \in Parts /\ Part(i2, 1) \in Parts
    BY <1>2a, <2>1
  <2> QED
    BY <2>2
<1> HIDE DEF parts, p1, p2
<1>5. InputCDs(whole, r, f, 3) /\ Len(whole) > 0
  <2>1. InputCDs(cds, r, f, 2)
    BY <1>2, BelowOn
  <2>2. PICK j \in Nat : j = 2
    OBVIOUS
  <2>3. whole = InsertCDLib(cds, NewCD(<<f, j>>, tag, zero, none), parts)
    BY <2>2
  <2> HIDE DEF whole
  <2>4. InputCDs(whole, r, f, j + 1) /\ Len(whole) > 0
    BY <1>2, <1>2a, <1>3, <2>1, <2>2, <2>3, InsertedInput
  <2> QED
    BY <2>2, <2>4
<1>6. InputCDs(first, r, f, 1) /\ Len(first) > 0
  <2>1. PICK j \in Nat : j = 0
    OBVIOUS
  <2>2. first = InsertCDLib(cds, NewCD(<<f, j>>, tag, zero, i1), p1)
    BY <2>1
  <2> HIDE DEF first
  <2>3. InputCDs(cds, r, f, j)
    BY <2>1
  <2>4. InputCDs(first, r, f, j + 1) /\ Len(first) > 0
    BY <1>2, <1>2a, <1>4, <2>2, <2>3, InsertedInput
  <2> QED
    BY <2>1, <2>4
<1> HIDE DEF first
<1>7. nt \in Int
  <2>1. first \in Seq(CDs) /\ Len(first) \in 1 .. Len(first)
    BY <1>6 DEF InputCDs
  <2>2. first[Len(first)] \in CDs
    BY <2>1
  <2> QED
    BY <2>2, CDIs DEF Last
<1> HIDE DEF nt
<1>8. InputCDs(both, r, f, 2) /\ Len(both) > 0
  <2>1. PICK j \in Nat : j = 1
    OBVIOUS
  <2>2. both = InsertCDLib(first, NewCD(<<f, j>>, tag, nt, i2), p2)
    BY <2>1
  <2> HIDE DEF both
  <2>3. InputCDs(first, r, f, j)
    BY <1>6, <2>1
  <2>4. InputCDs(both, r, f, j + 1) /\ Len(both) > 0
    BY <1>2, <1>2a, <1>4, <1>7, <2>2, <2>3, InsertedInput
  <2> QED
    BY <2>1, <2>4
<1> HIDE DEF both
<1>9. InputCDs(rest, r, f, 3) /\ Len(rest) > 0
  <2>1. PICK j \in Nat : j = 2
    OBVIOUS
  <2>2. rest = InsertCDLib(both, NewCD(<<f, j>>, tag, nt, none), parts)
    BY <2>1
  <2> HIDE DEF rest
  <2>3. InputCDs(both, r, f, j)
    BY <1>8, <2>1
  <2>4. InputCDs(rest, r, f, j + 1) /\ Len(rest) > 0
    BY <1>2, <1>2a, <1>3, <1>7, <2>2, <2>3, InsertedInput
  <2> QED
    BY <2>1, <2>4
<1> HIDE DEF whole, rest
<1> QED
  BY <1>1, <1>5, <1>9

\* h tells how ToCD makes its list, field by field.
Leader == InsertCDLib(<<>>, NewCD(<<0, 0>>, 0, 1, ""), <<[sub |-> "", text |-> InputText(0, 0)]>>)

Lists(h, r) ==
    /\ h[0] = Leader
    /\ \A k \in 1 .. Len(r) : h[k] = AddField(h[k - 1], r, k)
    /\ \A k \in 0 .. Len(r) : InputCDs(h[k], r, k + 1, 0) /\ Len(h[k]) > 0
    /\ h[Len(r)] = ToCD(r)

LEMMA ToCDSteps ==
    ASSUME NEW r \in Records
    PROVE  \E h : Lists(h, r)
<1> DEFINE n == Len(r)
           none == ""
           first == [sub |-> none, text |-> InputText(0, 0)]
           lead == <<first>>
           leader == InsertCDLib(<<>>, NewCD(<<0, 0>>, 0, 1, none), lead)
           Step(v, k) == AddField(v, r, k)
           G(v, k) == InputCDs(v, r, k + 1, 0) /\ Len(v) > 0
           A == Seq(CDs)
           step == [k \in 1 .. n |-> [v \in A |-> IF G(v, k - 1) THEN Step(v, k) ELSE v]]
           R(g) == g = [k \in 0 .. n |-> IF k = 0 THEN leader ELSE Step(g[k - 1], k)]
<1>0. n \in Nat
  BY RecordIs
<1>1. ToCD(r) = (CHOOSE g : R(g))[n]
  BY DEF ToCD
<1>1b. leader = Leader
  BY DEF Leader
<1>1a. none \in Subs
  BY DEF Subs
<1> HIDE DEF none
<1>2. ASSUME NEW k \in 1 .. n, NEW v, G(v, k - 1)
      PROVE  G(Step(v, k), k)
  <2>1. InputCDs(v, r, k, 0)
    <3>1. k - 1 + 1 = k
      BY <1>0
    <3> QED
      BY <1>2, <3>1
  <2>2. InputCDs(AddField(v, r, k), r, k, 3) /\ Len(AddField(v, r, k)) > 0
    BY <2>1, AddedField
  <2>3. k \in Nat /\ k < k + 1
    BY <1>0
  <2>4. InputCDs(AddField(v, r, k), r, k + 1, 0)
    BY <2>2, <2>3, BelowOn
  <2> QED
    BY <2>2, <2>4
<1>2a. G(leader, 0)
  <2>1. InputCDs(<<>>, r, 0, 0)
    BY DEF InputCDs, Distinct
  <2>2. first \in Parts
    <3>1. PICK f \in Nat : f = 0
      OBVIOUS
    <3>2. [sub |-> none, text |-> InputText(f, f)] \in Parts
      BY <1>1a, TextIs
    <3> QED
      BY <3>1, <3>2
  <2> HIDE DEF first
  <2>3. lead \in Seq(Parts) /\ Len(lead) > 0
    BY <2>2
  <2>4. OfRecord(r, 0)
    BY DEF OfRecord
  <2> HIDE DEF lead
  <2>5. PICK f \in Nat : f = 0
    OBVIOUS
  <2>6. leader = InsertCDLib(<<>>, NewCD(<<f, f>>, f, 1, none), lead)
    BY <2>5
  <2> HIDE DEF leader
  <2>7. InputCDs(<<>>, r, f, f) /\ OfRecord(r, f)
    BY <2>1, <2>4, <2>5
  <2>8. InputCDs(leader, r, f, f + 1) /\ Len(leader) > 0
    BY <1>1a, <2>3, <2>6, <2>7, InsertedInput
  <2>9. InputCDs(leader, r, 1, 0)
    BY <2>5, <2>8, BelowOn
  <2> QED
    BY <2>8, <2>9
<1>2b. \A k \in Nat : \A v : G(v, k) => v \in A
  BY DEF InputCDs
<1> HIDE DEF n, A, Step, G, leader
<1>3. step \in [1 .. n -> [A -> A]]
  BY <1>0, <1>2, <1>2b
<1>3a. leader \in A
  BY <1>2a, <1>2b
<1>4. PICK g \in [0 .. n -> A] : IsFold(g, n, leader, step)
  <2> HIDE DEF step
  <2> QED
    BY <1>0, <1>3, <1>3a, FoldExists, Zenon
<1>5. /\ g[0] = leader
      /\ \A k \in 1 .. n : g[k] = IF G(g[k - 1], k - 1) THEN Step(g[k - 1], k) ELSE g[k - 1]
  <2>1. g[0] = leader /\ \A k \in 1 .. n : g[k] = step[k][g[k - 1]]
    BY <1>4 DEF IsFold
  <2>2. \A k \in 1 .. n : g[k - 1] \in A
    BY <1>0
  <2> QED
    BY <2>1, <2>2
<1>6. \A k \in 0 .. n : G(g[k], k)
  <2> DEFINE Good == {k \in 0 .. n : G(g[k], k)}
  <2>1. 0 \in Good
    BY <1>0, <1>2a, <1>5
  <2>2. \A k \in 1 .. n : k - 1 \in Good => k \in Good
    BY <1>0, <1>2, <1>5
  <2>3. \A k \in 0 .. n : k \in Good
    <3> HIDE DEF Good
    <3> QED
      BY <1>0, <2>1, <2>2, Induct, Zenon
  <2> QED
    BY <2>3
<1>7. R(g)
  <2>1. \A k \in 1 .. n : g[k] = Step(g[k - 1], k)
    <3> TAKE k \in 1 .. n
    <3>1. k - 1 \in 0 .. n
      BY <1>0
    <3> QED
      BY <1>5, <1>6, <3>1
  <2>2. \A k \in 0 .. n : g[k] = IF k = 0 THEN leader ELSE Step(g[k - 1], k)
    BY <1>0, <1>5, <2>1
  <2> QED
    BY <2>2
<1> DEFINE h == CHOOSE h : R(h)
<1>8. R(h)
  BY <1>7
<1> HIDE DEF h
<1>9. h[0] = leader /\ \A k \in 1 .. n : h[k] = Step(h[k - 1], k)
  BY <1>0, <1>8
<1>10. \A k \in 0 .. n : G(h[k], k)
  <2> DEFINE Good == {k \in 0 .. n : G(h[k], k)}
  <2>1. 0 \in Good
    BY <1>0, <1>2a, <1>9
  <2>2. \A k \in 1 .. n : k - 1 \in Good => k \in Good
    BY <1>0, <1>2, <1>9
  <2>3. \A k \in 0 .. n : k \in Good
    <3> HIDE DEF Good
    <3> QED
      BY <1>0, <2>1, <2>2, Induct, Zenon
  <2> QED
    BY <2>3
<1>11. h[n] = ToCD(r)
  BY <1>1 DEF h
<1>12. Lists(h, r)
  BY <1>1b, <1>9, <1>10, <1>11, Zenon DEF Lists, n, G, Step
<1> QED
  BY <1>12

\* The CDs of a record are told apart and belong to its fields.
LEMMA ToCDIs ==
    ASSUME NEW r \in Records
    PROVE  InputCDs(ToCD(r), r, Len(r) + 1, 0) /\ Len(ToCD(r)) > 0
<1>1. PICK h : Lists(h, r)
  BY ToCDSteps
<1>2. Len(r) \in 0 .. Len(r)
  BY RecordIs
<1> QED
  BY <1>1, <1>2 DEF Lists

-----------------------------------------------------------------------------
(* Evaluate_Rule                                                           *)

LEMMA TableIs ==
    ASSUME NEW t \in Tables
    PROVE  t \in Seq(Rules) /\ Len(t) \in Nat /\ DOMAIN t = 1 .. Len(t)
<1>1. t \in Seq(Rules)
  BY TablesAssumption
<1> QED
  BY <1>1

LEMMA RuleIs ==
    ASSUME NEW t \in Tables, NEW k \in 1 .. Len(t)
    PROVE  /\ t[k] \in Rules /\ Len(t) \in Nat /\ DOMAIN t = 1 .. Len(t)
           /\ (t[k].sub = "") = (t[k].toSub = "")
           /\ t[k].toTag = AnyTag => t[k].tag = AnyTag
           /\ t[k].toSub = AnySub => t[k].sub = AnySub
<1>1. t \in Seq(Rules)
  BY TablesAssumption
<1>2. t[k] \in Rules /\ Len(t) \in Nat /\ DOMAIN t = 1 .. Len(t)
  BY <1>1
<1>3. k \in DOMAIN t
  BY <1>2
<1> QED
  BY <1>2, <1>3, TablesAssumption, Zenon

LEMMA RuleFields ==
    ASSUME NEW r \in Rules
    PROVE  /\ r.toTag \in Nat \cup {AnyTag} /\ r.toNt \in (Nat \ {0}) \cup {CD_NT, CD_NEW}
           /\ r.toSub \in Subs
BY Zenon DEF Rules

LEMMA OutputCDIs ==
    ASSUME NEW r \in Rules, NEW c \in CDs
    PROVE  /\ OutputCD(r, c) \in Heads
           /\ OutputCD(r, c).id = c.id /\ OutputCD(r, c).by = c.id
           /\ OutputCD(r, c).tag = IF r.toTag = AnyTag THEN c.tag ELSE r.toTag
           /\ OutputCD(r, c).sub = IF r.toSub = AnySub THEN c.sub ELSE r.toSub
<1> DEFINE sub == IF r.toSub = AnySub THEN c.sub ELSE r.toSub
           tag == IF r.toTag = AnyTag THEN c.tag ELSE r.toTag
           nt == IF r.toNt = CD_NT THEN c.nt ELSE r.toNt
           ns == IF sub = "" THEN 0
                 ELSE IF r.toNt = CD_NT /\ sub \notin Indicators THEN c.ns ELSE 1
           new == NewCD(c.id, tag, nt, sub)
<1>1. OutputCD(r, c) = [new EXCEPT !.by = c.id, !.ns = ns]
  BY Zenon DEF OutputCD
<1>2. /\ c.id \in Seq(Nat) /\ c.tag \in Nat /\ c.nt \in Nat /\ c.sub \in Subs /\ c.ns \in Nat
  BY CDIs
<1>3. ns \in Nat
  <2>1. 0 \in Nat /\ 1 \in Nat
    OBVIOUS
  <2> QED
    BY <1>2, <2>1, Zenon
<1>4. sub \in Subs
  BY <1>2, RuleFields
<1>5. tag \in Nat
  BY <1>2, RuleFields
<1>6. nt \in Int
  BY <1>2, RuleFields DEF CD_NT, CD_NEW
<1>7. sub = (IF r.toSub = AnySub THEN c.sub ELSE r.toSub) /\ tag = IF r.toTag = AnyTag THEN c.tag ELSE r.toTag
  OBVIOUS
<1> HIDE DEF ns, sub, tag, nt
<1>8. new \in Heads /\ new.id = c.id /\ new.tag = tag /\ new.sub = sub
  <2>1. new.sub = sub
    BY DEF NewCD
  <2> QED
    BY <1>2, <1>4, <1>5, <1>6, <2>1, NewCDIs
<1> HIDE DEF new
<1> DEFINE made == OutputCD(r, c)
<1>9. made = [new EXCEPT !.by = c.id, !.ns = ns]
  BY <1>1
<1> HIDE DEF made
<1>10. made \in Heads /\ made.id = new.id /\ made.by = c.id /\ made.tag = new.tag /\ made.sub = new.sub
  BY <1>2, <1>3, <1>8, <1>9 DEF Heads
<1>11. made \in Heads /\ made.id = c.id /\ made.by = c.id /\ made.tag = tag /\ made.sub = sub
  BY <1>8, <1>10
<1> QED
  BY <1>7, <1>11, Zenon DEF made

LEMMA WholeFieldIs ==
    ASSUME NEW s \in Seq(CDs), NEW i
    PROVE  WholeField(s, i) \in Seq(CDs)
BY PickedIs DEF WholeField

LEMMA JoinedIs ==
    ASSUME NEW c \in CDs, NEW d \in CDs
    PROVE  [c EXCEPT !.text = Joined(d.text, @)] \in CDs
<1>1. d.text \o c.text \in Texts
  BY CDIs, Concat DEF Texts
<1> DEFINE text == d.text \o c.text
<1> HIDE DEF text
<1>2. \A x \in Texts : [c EXCEPT !.text = x] \in CDs
  BY DEF CDs, Texts
<1> QED
  BY <1>1, <1>2, Zenon DEF Joined

\* A rule writes, with one call, as the CD that its output names.
Writes(l, target, c, r, k) ==
    \E h \in Heads, parts \in Seq(Parts) :
        /\ Len(parts) > 0
        /\ l = InsertCDLib(target, h, parts)
        /\ h.id = Append(c.id, k) /\ h.by = c.id
        /\ h.tag = IF r.toTag = AnyTag THEN c.tag ELSE r.toTag
        /\ h.sub = "" => r.toSub = ""

\* What a rule reads, and the same with the CD that its output names: a rule
\* without "+" writes what it reads.
Source(i, k) == IF rules[k].sub = "" THEN WholeField(in, i) ELSE <<in[i]>>

Names(l, target, i, k) ==
    LET o == OutputCD(rules[k], in[i])
        S == Source(i, k)
    IN  \E h \in Heads, parts \in Seq(Parts) :
        /\ Len(parts) > 0
        /\ l = InsertCDLib(target, h, parts)
        /\ h.id = Append(in[i].id, k)
        /\ h.by = o.by /\ h.tag = o.tag /\ h.nt = o.nt /\ h.sub = o.sub
        /\ h.sub = "" => rules[k].toSub = ""
        /\ ~rules[k].append /\ S # <<>> =>
             /\ Len(parts) = Len(S)
             /\ \A j \in 1 .. Len(S) :
                  /\ parts[j].sub = IF o.sub = "" THEN S[j].sub ELSE o.sub
                  /\ parts[j].text = S[j].text

LEMMA FirstIs ==
    ASSUME NEW s \in Seq(CDs), Len(s) = 1
    PROVE  s[1] \in CDs
  OBVIOUS

LEMMA EvaluateNames ==
    ASSUME NEW target \in Seq(CDs), in \in Seq(CDs), rules \in Tables,
           NEW i \in 1 .. Len(in), NEW k \in 1 .. Len(rules), IsEqual(in[i], RuleCD(rules[k]))
    PROVE  Names(Evaluate_Rule(target, i, k), target, i, k)
<1> DEFINE r == rules[k]
           c == in[i]
           S == Source(i, k)
           o == OutputCD(r, c)
           found == IF o.nt = CD_NEW THEN 0
                    ELSE SelectLastInSeq(target, LAMBDA d : IsEqual(d, o))
           D == IF o.sub = "" THEN WholeField(target, FieldStart(target, found))
                ELSE <<target[found]>>
           one == [S[1] EXCEPT !.text = Joined(D[1].text, @)]
           value == IF ~r.append \/ found = 0 THEN S
                    ELSE IF o.sub = "" /\ ~BothControl(D, S) THEN Joined(D, S) ELSE <<one>>
           n == IF found = 0 \/ o.sub = "" THEN 0 ELSE target[found].n
           named == [o EXCEPT !.id = Append(@, k), !.n = n]
           none == [sub |-> "", text |-> <<>>]
           part(j) == [sub |-> IF o.sub = "" THEN value[j].sub ELSE o.sub, text |-> value[j].text]
           parts == IF value = <<>> THEN <<none>> ELSE [j \in DOMAIN value |-> part(j)]
<1>1. Evaluate_Rule(target, i, k) = InsertCDLib(target, named, parts)
  BY DEF Evaluate_Rule, Source
<1>2. r \in Rules /\ c \in CDs /\ k \in Nat
  <2>1. c \in CDs
    OBVIOUS
  <2>2. r \in Rules /\ Len(rules) \in Nat
    BY RuleIs, Zenon
  <2> QED
    BY <2>1, <2>2
<1>3. /\ o \in Heads /\ o.id = c.id /\ o.by = c.id
      /\ o.tag = IF r.toTag = AnyTag THEN c.tag ELSE r.toTag
      /\ o.sub = IF r.toSub = AnySub THEN c.sub ELSE r.toSub
  BY <1>2, OutputCDIs
<1>4. o.sub = "" => r.toSub = ""
  <2>1. r.toSub = AnySub => r.sub = AnySub
    BY RuleIs, Zenon
  <2>2. r.sub = AnySub => c.sub # ""
    <3>1. IsEqual(c, RuleCD(r))
      OBVIOUS
    <3>2. RuleCD(r).sub = r.sub
      BY DEF RuleCD
    <3> HIDE DEF c, r
    <3> QED
      BY <3>1, <3>2, Zenon DEF IsEqual, AnySub
  <2> QED
    BY <1>3, <2>1, <2>2, Zenon
<1>5. o.sub # "" => r.sub # ""
  <2>1. r.sub = "" => r.toSub = ""
    BY RuleIs, Zenon
  <2>2. "" # AnySub
    BY Zenon DEF AnySub
  <2> HIDE DEF o, r, c
  <2> QED
    BY <1>3, <2>1, <2>2, Zenon
<1>6. found = 0 \/ found \in 1 .. Len(target)
  <2> DEFINE T == {j \in 1 .. Len(target) : IsEqual(target[j], o)}
  <2>1. found = IF o.nt = CD_NEW THEN 0 ELSE IF T # {} THEN Max(T) ELSE 0
    BY Zenon DEF SelectLastInSeq
  <2>2. T \subseteq 1 .. Len(target)
    BY Zenon
  <2>3. Len(target) \in Nat
    OBVIOUS
  <2> HIDE DEF T
  <2> QED
    BY <2>1, <2>2, <2>3, GreatestIs
<1>7a. S = IF r.sub = "" THEN WholeField(in, i) ELSE <<c>>
  BY DEF Source
<1>7. S \in Seq(CDs)
  <2>1. <<c>> \in Seq(CDs) /\ WholeField(in, i) \in Seq(CDs)
    BY <1>2, Single, WholeFieldIs
  <2> HIDE DEF S
  <2> QED
    BY <1>7a, <2>1, Zenon
<1>8. o.sub # "" => S[1] = c
  <2> HIDE DEF o, c, r, S
  <2>1. <<c>>[1] = c
    OBVIOUS
  <2> QED
    BY <1>5, <1>7a, <2>1, Zenon
<1> HIDE DEF o, c, r, found
<1>9. found # 0 => D \in Seq(CDs) /\ (o.sub # "" => D[1] \in CDs)
  <2>1. found # 0 => target[found] \in CDs
    BY <1>6
  <2>2. WholeField(target, FieldStart(target, found)) \in Seq(CDs)
    BY WholeFieldIs
  <2>3. found # 0 => <<target[found]>> \in Seq(CDs) /\ <<target[found]>>[1] \in CDs
    BY <2>1, Single
  <2> QED
    BY <2>2, <2>3, Zenon
<1> HIDE DEF S, D
<1>10. value \in Seq(CDs)
  <2>1. CASE ~r.append \/ found = 0
    BY <1>7, <2>1, Zenon
  <2>2. CASE ~(~r.append \/ found = 0) /\ o.sub = "" /\ ~BothControl(D, S)
    <3>1. D \in Seq(CDs)
      BY <1>9, <2>2, Zenon
    <3>2. Joined(D, S) \in Seq(CDs)
      BY <1>7, <3>1, Concat DEF Joined
    <3> QED
      BY <2>2, <3>2, Zenon
  <2>3. CASE ~(~r.append \/ found = 0) /\ (o.sub # "" \/ BothControl(D, S))
    <3>1. D[1] \in CDs /\ S[1] \in CDs
      <4>1. CASE o.sub # ""
        BY <1>2, <1>8, <1>9, <2>3, <4>1, Zenon
      <4>2. CASE BothControl(D, S)
        <5>1. D \in Seq(CDs) /\ Len(D) = 1 /\ Len(S) = 1
          BY <1>9, <2>3, <4>2, Zenon DEF BothControl
        <5> QED
          BY <1>7, <5>1, FirstIs, Zenon
      <4> QED
        BY <2>3, <4>1, <4>2, Zenon
    <3>2. one \in CDs
      BY <3>1, JoinedIs, Zenon
    <3> HIDE DEF one
    <3>3. <<one>> \in Seq(CDs)
      BY <3>2, Single
    <3> QED
      BY <2>3, <3>3, Zenon
  <2> QED
    BY <2>1, <2>2, <2>3, Zenon
<1>10a. ~r.append => value = S
  BY Zenon
<1> HIDE DEF value
<1>11. /\ parts \in Seq(Parts) /\ Len(parts) > 0
       /\ value # <<>> =>
            /\ Len(parts) = Len(value)
            /\ \A j \in 1 .. Len(value) :
                 /\ parts[j].sub = IF o.sub = "" THEN value[j].sub ELSE o.sub
                 /\ parts[j].text = value[j].text
  <2>1. none \in Parts
    <3>1. <<>> \in Texts
      BY DEF Texts
    <3>2. "" \in Subs
      BY Zenon DEF Subs
    <3> QED
      BY <3>1, <3>2, Zenon DEF Parts
  <2>2. ASSUME NEW j \in DOMAIN value PROVE part(j) \in Parts
    <3>1. value[j] \in CDs
      BY <1>10
    <3>2. value[j].sub \in Subs /\ value[j].text \in Texts /\ o.sub \in Subs
      BY <1>3, <3>1, CDIs, HeadIs
    <3> QED
      BY <3>2, Zenon DEF Parts
  <2> HIDE DEF none, part
  <2>3. <<none>> \in Seq(Parts) /\ Len(<<none>>) > 0
    BY <2>1, Single
  <2>4. DOMAIN value = 1 .. Len(value) /\ Len(value) \in Nat /\ (value # <<>> => Len(value) > 0)
    BY <1>10
  <2>5. [j \in DOMAIN value |-> part(j)] \in [1 .. Len(value) -> Parts]
    BY <2>2, <2>4
  <2> DEFINE all == [j \in DOMAIN value |-> part(j)]
  <2> HIDE DEF all
  <2>6. all \in Seq(Parts) /\ Len(all) = Len(value)
    BY <2>4, <2>5 DEF all
  <2>7. ASSUME NEW j \in 1 .. Len(value)
        PROVE  /\ all[j].sub = IF o.sub = "" THEN value[j].sub ELSE o.sub
               /\ all[j].text = value[j].text
    <3>1. all[j] = part(j)
      BY <2>4 DEF all
    <3>2. /\ part(j).sub = IF o.sub = "" THEN value[j].sub ELSE o.sub
          /\ part(j).text = value[j].text
      BY Zenon DEF part
    <3> QED
      BY <3>1, <3>2, Zenon
  <2>8. parts = IF value = <<>> THEN <<none>> ELSE all
    BY Zenon DEF all
  <2> HIDE DEF parts
  <2> QED
    BY <2>3, <2>4, <2>6, <2>7, <2>8, Zenon
<1>12. n \in Nat
  <2>1. found # 0 => target[found] \in CDs
    BY <1>6
  <2>2. 0 \in Nat
    OBVIOUS
  <2> QED
    BY <2>1, <2>2, CDIs, Zenon
<1> HIDE DEF n, parts
<1>13. named \in Heads /\ named.id = Append(c.id, k) /\ named.by = c.id
       /\ named.tag = o.tag /\ named.sub = o.sub /\ named.nt = o.nt
  <2>1. \A x \in Seq(Nat), y \in Nat : [o EXCEPT !.id = x, !.n = y] \in Heads
    BY <1>3 DEF Heads
  <2>2. Append(o.id, k) \in Seq(Nat)
    BY <1>2, <1>3, HeadIs, Appended
  <2>3. named \in Heads
    BY <1>12, <2>1, <2>2, Zenon
  <2> QED
    BY <1>3, <2>3 DEF Heads
<1> HIDE DEF named
<1>14. ~r.append /\ S # <<>> =>
         /\ Len(parts) = Len(S)
         /\ \A j \in 1 .. Len(S) :
              /\ parts[j].sub = IF o.sub = "" THEN S[j].sub ELSE o.sub
              /\ parts[j].text = S[j].text
  <2> SUFFICES ASSUME ~r.append /\ S # <<>>
               PROVE  /\ Len(parts) = Len(S)
                      /\ \A j \in 1 .. Len(S) :
                           /\ parts[j].sub = IF o.sub = "" THEN S[j].sub ELSE o.sub
                           /\ parts[j].text = S[j].text
    BY Zenon
  <2>1. value = S
    BY <1>10a
  <2> QED
    BY <1>11, <2>1, Zenon
<1>15. /\ named \in Heads /\ parts \in Seq(Parts) /\ Len(parts) > 0
       /\ named.id = Append(c.id, k) /\ named.by = o.by /\ named.tag = o.tag
       /\ named.nt = o.nt /\ named.sub = o.sub /\ (named.sub = "" => r.toSub = "")
  BY <1>3, <1>4, <1>11, <1>13, Zenon
<1>16. Names(InsertCDLib(target, named, parts), target, i, k)
  BY <1>14, <1>15, Zenon DEF Names, o, S, c, r
<1> QED
  BY <1>1, <1>16

\* What a rule writes is what InsertCDLib makes of a CD named by the rule.
LEMMA EvaluateIs ==
    ASSUME NEW target \in Seq(CDs), in \in Seq(CDs), rules \in Tables,
           NEW i \in 1 .. Len(in), NEW k \in 1 .. Len(rules), IsEqual(in[i], RuleCD(rules[k]))
    PROVE  Writes(Evaluate_Rule(target, i, k), target, in[i], rules[k], k)
<1>1. in[i] \in CDs /\ rules[k] \in Rules
  <2>1. in[i] \in CDs
    OBVIOUS
  <2>2. rules[k] \in Rules
    BY RuleIs, Zenon
  <2> QED
    BY <2>1, <2>2
<1>2. /\ OutputCD(rules[k], in[i]).by = in[i].id
      /\ OutputCD(rules[k], in[i]).tag =
           IF rules[k].toTag = AnyTag THEN in[i].tag ELSE rules[k].toTag
  BY <1>1, OutputCDIs, Zenon
<1>3. Names(Evaluate_Rule(target, i, k), target, i, k)
  BY EvaluateNames, Zenon
<1> QED
  BY <1>2, <1>3, Zenon DEF Names, Writes

-----------------------------------------------------------------------------
(* The ids that a rule makes                                               *)

LEMMA FrontAppend ==
    ASSUME NEW x \in Seq(Nat), NEW k \in Nat
    PROVE  Front(Append(x, k)) = x /\ Last(Append(x, k)) = k
<1> DEFINE a == Append(x, k)
           n == Len(x)
           f == SubSeq(a, 1, n)
<1>1. n \in Nat /\ a \in Seq(Nat) /\ Len(a) = n + 1 /\ a[n + 1] = k /\ \A j \in 1 .. n : a[j] = x[j]
  BY Appended
<1>2. x = [j \in 1 .. n |-> x[j]]
  OBVIOUS
<1> HIDE DEF a, n
<1>3. Front(a) = f /\ Last(a) = k
  BY <1>1 DEF Front, Last
<1>4. 1 \in 1 .. Len(a) + 1 /\ n \in 1 - 1 .. Len(a)
  BY <1>1
<1>5. f \in Seq(Nat) /\ Len(f) = n /\ \A j \in 1 .. n : f[j] = a[j]
  <2>1. PICK i \in 1 .. Len(a) + 1 : i = 1
    BY <1>4
  <2>2. PICK j \in i - 1 .. Len(a) : j = n
    BY <1>4, <2>1
  <2>3. /\ SubSeq(a, i, j) \in Seq(Nat) /\ Len(SubSeq(a, i, j)) = j - i + 1
        /\ \A b \in 1 .. j - i + 1 : SubSeq(a, i, j)[b] = a[i + b - 1]
    BY <1>1, Cut
  <2>4. f = SubSeq(a, i, j) /\ j - i + 1 = n
    BY <1>1, <2>1, <2>2
  <2> HIDE DEF f
  <2>5. \A b \in 1 .. n : f[b] = a[i + b - 1] /\ i + b - 1 = b
    BY <1>1, <2>1, <2>3, <2>4
  <2> QED
    BY <2>3, <2>4, <2>5
<1> HIDE DEF f
<1>6. f = [j \in 1 .. n |-> f[j]]
  BY <1>5
<1>7. f = x
  BY <1>1, <1>2, <1>5, <1>6
<1> QED
  BY <1>3, <1>7 DEF a

\* The id of a CD tells who made it.
LEMMA NewIdIs ==
    ASSUME NEW x \in Seq(Nat), Len(x) >= 3, NEW k \in Nat, NEW q \in Nat
    PROVE  LET id == Append(Append(x, k), q)
           IN  id \in Seq(Nat) /\ Len(id) > 3 /\ Writer(id) = x /\ RuleOf(id) = k
<1> DEFINE y == Append(x, k)
           id == Append(y, q)
<1>1. y \in Seq(Nat) /\ Len(y) = Len(x) + 1 /\ Len(x) \in Nat
  BY Appended
<1>2. Front(y) = x /\ Last(y) = k
  BY FrontAppend
<1> HIDE DEF y
<1>3. id \in Seq(Nat) /\ Len(id) = Len(y) + 1 /\ Front(id) = y
  BY <1>1, Appended, FrontAppend
<1> HIDE DEF id
<1>4. id \in Seq(Nat) /\ Len(id) > 3 /\ Writer(id) = x /\ RuleOf(id) = k
  BY <1>1, <1>2, <1>3 DEF Writer, RuleOf
<1> QED
  BY <1>4 DEF id, y

\* No CD has an id the rule in process would make.
LEMMA NotNamed ==
    ASSUME cur \in Seq(Nat), Len(cur) >= 3, rule \in Nat, NEW q \in Nat
    PROVE  ~Named(Append(Append(cur, rule), q), offered, cur, rule)
<1> DEFINE id == Append(Append(cur, rule), q)
<1>1. id \in Seq(Nat) /\ Len(id) > 3 /\ Writer(id) = cur /\ RuleOf(id) = rule
  BY NewIdIs
<1> HIDE DEF id
<1>2. ~Named(id, offered, cur, rule)
  <2>1. Made(id, offered, cur, rule) => rule \in 1 .. rule - 1
    BY <1>1, Zenon DEF Made
  <2>2. rule \notin 1 .. rule - 1
    OBVIOUS
  <2>3. Len(id) # 3
    <3>1. \A x \in Nat : x > 3 => x # 3
      BY ONLY SMT
    <3>2. Len(id) \in Nat /\ Len(id) > 3
      BY <1>1
    <3> QED
      BY ONLY <3>1, <3>2, Zenon
  <2> QED
    BY <2>1, <2>2, <2>3, Zenon DEF Named
<1> QED
  BY <1>2 DEF id

-----------------------------------------------------------------------------
(* A rule's way with a list                                                *)

\* Where the CDs of t were in s, 0 for those made for h.
Moved(o, t, s, h, k) ==
    \A a \in 1 .. Len(t) :
        /\ o[a] \in 0 .. Len(s)
        /\ o[a] # 0 => Left(t[a], s[o[a]], h.by)
        /\ o[a] = 0 => IsNew(t[a], h, k)
        /\ \A b \in 1 .. Len(t) : o[a] # 0 /\ o[b] # 0 /\ a < b => o[a] < o[b]

\* The CDs that stay are found again.
AllStay(o, t, s, h) == \A i \in 1 .. Len(s) : Stays(h, s[i]) => \E a \in 1 .. Len(t) : o[a] = i

\* InsertCDLib keeps the order of the CDs it leaves.
LEMMA MovedIs ==
    ASSUME NEW l, NEW s \in Seq(CDs), NEW h, NEW k, Grown(l, s, h, k)
    PROVE  \E o : Moved(o, l, s, h, k) /\ AllStay(o, l, s, h)
<1>1. PICK m \in Nat : \E from \in [1 .. m -> 1 .. Len(s)] : Grows(from, m, l, s, h, k)
  BY DEF Grown
<1>2. PICK from \in [1 .. m -> 1 .. Len(s)] : Grows(from, m, l, s, h, k)
  BY <1>1
<1>3. Len(l) \in Nat /\ Len(s) \in Nat /\ m <= Len(l)
  BY <1>2 DEF Grown, Grows
<1> DEFINE o == [a \in 1 .. Len(l) |-> IF a <= m THEN from[a] ELSE 0]
<1>4. ASSUME NEW a \in 1 .. Len(l)
      PROVE  /\ o[a] \in 0 .. Len(s)
             /\ o[a] # 0 => a \in 1 .. m /\ o[a] = from[a]
             /\ o[a] = 0 => a \in m + 1 .. Len(l)
  <2>1. CASE a <= m
    <3>1. a \in 1 .. m
      BY <1>3, <2>1
    <3>2. from[a] \in 1 .. Len(s)
      BY <3>1
    <3> QED
      BY <1>3, <2>1, <3>1, <3>2
  <2>2. CASE ~(a <= m)
    BY <1>3, <2>2
  <2> QED
    BY <2>1, <2>2
<1>5. \A a \in 1 .. m : a \in 1 .. Len(l) /\ o[a] = from[a]
  BY <1>3
<1> HIDE DEF o
<1>6. Moved(o, l, s, h, k)
  <2> SUFFICES ASSUME NEW a \in 1 .. Len(l)
               PROVE  /\ o[a] \in 0 .. Len(s)
                      /\ o[a] # 0 => Left(l[a], s[o[a]], h.by)
                      /\ o[a] = 0 => IsNew(l[a], h, k)
                      /\ \A b \in 1 .. Len(l) : o[a] # 0 /\ o[b] # 0 /\ a < b => o[a] < o[b]
    BY DEF Moved
  <2>1. o[a] # 0 => Left(l[a], s[o[a]], h.by)
    BY <1>2, <1>4 DEF Grows
  <2>2. o[a] = 0 => IsNew(l[a], h, k)
    BY <1>2, <1>4 DEF Grows
  <2>3. ASSUME NEW b \in 1 .. Len(l), o[a] # 0, o[b] # 0, a < b
        PROVE  o[a] < o[b]
    <3>1. a \in 1 .. m /\ b \in 1 .. m /\ o[a] = from[a] /\ o[b] = from[b]
      BY <1>4, <2>3
    <3> QED
      BY <1>2, <2>3, <3>1 DEF Grows
  <2> QED
    BY <1>4, <2>1, <2>2, <2>3
<1>7. AllStay(o, l, s, h)
  <2> SUFFICES ASSUME NEW i \in 1 .. Len(s), Stays(h, s[i])
               PROVE  \E a \in 1 .. Len(l) : o[a] = i
    BY DEF AllStay
  <2>1. PICK a \in 1 .. m : from[a] = i
    BY <1>2 DEF Grows
  <2> QED
    BY <1>5, <2>1
<1> QED
  BY <1>6, <1>7

\* Sorting keeps the order of the CDs that were there, if they were in order.
LEMMA MovedOn ==
    ASSUME NEW l \in Seq(CDs), NEW t, NEW s, NEW h, NEW k, NEW i \in Nat,
           NEW o, Moved(o, l, s, h, k),
           Sorted(t, l, i, Len(l)),
           \A a, b \in 1 .. Len(l) : o[a] # 0 /\ o[b] # 0 /\ i <= a /\ a < b => ~IsLess(l[b], l[a])
    PROVE  \E p : Moved(p, t, s, h, k)
<1> DEFINE n == Len(l)
<1>1. n \in Nat
  OBVIOUS
<1>2. Len(t) = n
  BY DEF Sorted
<1>3. PICK place \in [1 .. n -> 1 .. n] : Sorts(place, t, l, i, n)
  BY DEF Sorted
<1> DEFINE q == [m \in 1 .. n |-> CHOOSE a \in 1 .. n : place[a] = m]
           p == [m \in 1 .. n |-> o[q[m]]]
<1> HIDE DEF n
<1>4. ASSUME NEW m \in 1 .. n
      PROVE  q[m] \in 1 .. n /\ place[q[m]] = m /\ t[m] = l[q[m]] /\ p[m] = o[q[m]]
  <2>1. \E a \in 1 .. n : place[a] = m
    BY <1>3 DEF Sorts
  <2>2. q[m] \in 1 .. n /\ place[q[m]] = m
    BY <2>1
  <2>3. t[place[q[m]]] = l[q[m]]
    BY <1>3, <2>2 DEF Sorts
  <2> QED
    BY <2>2, <2>3
<1> HIDE DEF p, q
<1>5. \A a \in 1 .. n : /\ o[a] \in 0 .. Len(s)
                        /\ o[a] # 0 => Left(l[a], s[o[a]], h.by)
                        /\ o[a] = 0 => IsNew(l[a], h, k)
                        /\ \A b \in 1 .. n : o[a] # 0 /\ o[b] # 0 /\ a < b => o[a] < o[b]
  BY DEF Moved, n
<1>6. ASSUME NEW a \in 1 .. n, NEW b \in 1 .. n, o[a] # 0, o[b] # 0, a < b
      PROVE  place[a] < place[b]
  <2>1. a < i \/ ~IsLess(l[b], l[a])
    <3>1. a \in Nat /\ b \in Nat
      BY <1>1
    <3> QED
      BY <1>6, <3>1 DEF n
  <2> QED
    BY <1>3, <1>6, <2>1 DEF Sorts
<1>7. ASSUME NEW x \in 1 .. n, NEW y \in 1 .. n, p[x] # 0, p[y] # 0, x < y
      PROVE  p[x] < p[y]
  <2>1. /\ q[x] \in 1 .. n /\ place[q[x]] = x /\ p[x] = o[q[x]]
        /\ q[y] \in 1 .. n /\ place[q[y]] = y /\ p[y] = o[q[y]]
    BY <1>4
  <2>2. q[x] < q[y] \/ q[x] = q[y] \/ q[y] < q[x]
    BY <1>1, <2>1, SMTT(60)
  <2>3. CASE q[x] < q[y]
    BY <1>5, <1>7, <2>1, <2>3, SMTT(60)
  <2>4. CASE q[x] = q[y]
    BY <1>1, <1>7, <2>1, <2>4
  <2>5. CASE q[y] < q[x]
    <3>1. place[q[y]] < place[q[x]]
      BY <1>6, <1>7, <2>1, <2>5
    <3> QED
      BY <1>1, <1>7, <2>1, <3>1
  <2> QED
    BY <2>2, <2>3, <2>4, <2>5
<1>8. ASSUME NEW x \in 1 .. n
      PROVE  /\ p[x] \in 0 .. Len(s)
             /\ p[x] # 0 => Left(t[x], s[p[x]], h.by)
             /\ p[x] = 0 => IsNew(t[x], h, k)
  BY <1>4, <1>5
<1> QED
  BY <1>2, <1>7, <1>8 DEF Moved

-----------------------------------------------------------------------------
(* The walk                                                                *)

\* Where ids differ, Position finds the one CD of an id.
LEMMA PositionIs ==
    ASSUME NEW s \in Seq(CDs), Distinct(s), NEW id
    PROVE  /\ Position(s, id) \in Nat
           /\ Position(s, id) # 0 =>
                Position(s, id) \in 1 .. Len(s) /\ s[Position(s, id)].id = id
           /\ \A j \in 1 .. Len(s) : s[j].id = id => Position(s, id) = j
<1> DEFINE T == {j \in 1 .. Len(s) : s[j].id = id}
           p == IF T # {} THEN Min(T) ELSE 0
<1>1. p = Position(s, id)
  BY Zenon DEF Position, SelectInSeq
<1>2. \A j \in T : j \in 1 .. Len(s) /\ s[j].id = id
  BY Zenon
<1>3. \A j \in 1 .. Len(s) : s[j].id = id => j \in T
  BY Zenon
<1> HIDE DEF T
<1>4. T # {} => p \in T
  <2>1. T \subseteq Nat
    BY <1>2
  <2> QED
    BY <2>1, LeastIs, Zenon
<1>5. p # 0 => p \in T
  BY <1>4, Zenon
<1>6. p \in Nat /\ (p # 0 => p \in 1 .. Len(s) /\ s[p].id = id)
  <2>1. p # 0 => p \in 1 .. Len(s) /\ s[p].id = id
    BY <1>2, <1>5, Zenon
  <2> HIDE DEF p
  <2> QED
    BY <2>1
<1>7. ASSUME NEW j \in 1 .. Len(s), s[j].id = id PROVE p = j
  <2>1. T # {}
    BY <1>3, <1>7, Zenon
  <2>2. p \in 1 .. Len(s) /\ s[p].id = id
    BY <1>2, <1>4, <2>1, Zenon
  <2>3. p \in DOMAIN s /\ j \in DOMAIN s
    BY <2>2
  <2> QED
    BY <1>7, <2>2, <2>3, Zenon DEF Distinct
<1> QED
  BY <1>1, <1>6, <1>7, Zenon

\* Of a list t that came of the input list.
LEMMA WalkOn ==
    ASSUME in \in Seq(CDs), Distinct(in), NEW t \in Seq(CDs), Distinct(t),
           NEW o, NEW h, NEW k \in Nat, Moved(o, t, in, h, k), h.by = cur,
           At # 0, Visited(cur),
           \A i \in 1 .. Len(in) : Visited(in[i].id) => i <= At,
           \A i \in 1 .. At : Seen(in, i),
           \A q \in 1 .. k : ~Visited(Append(h.id, q)),
           Position(t, cur) # 0
    PROVE  /\ \A i \in 1 .. Len(t) : Visited(t[i].id) => i <= Position(t, cur)
           /\ \A i \in 1 .. Position(t, cur) : Seen(t, i)
<1> DEFINE c == Position(t, cur)
<1>1. c \in 1 .. Len(t) /\ t[c].id = cur /\ Len(t) \in Nat /\ Len(in) \in Nat
  BY PositionIs
<1>2. ASSUME NEW a \in 1 .. Len(t)
      PROVE  /\ o[a] \in 0 .. Len(in)
             /\ o[a] # 0 => Left(t[a], in[o[a]], cur)
             /\ o[a] = 0 => IsNew(t[a], h, k)
             /\ \A b \in 1 .. Len(t) : o[a] # 0 /\ o[b] # 0 /\ a < b => o[a] < o[b]
  BY <1>2 DEF Moved
<1>3. ASSUME NEW a \in 1 .. Len(t), Visited(t[a].id)
      PROVE  o[a] \in 1 .. Len(in) /\ in[o[a]].id = t[a].id /\ Position(in, t[a].id) = o[a]
  <2>1. o[a] # 0
    <3> SUFFICES ASSUME o[a] = 0 PROVE FALSE
      OBVIOUS
    <3>1. PICK q \in 1 .. k : t[a].id = Append(h.id, q)
      BY <1>2 DEF IsNew
    <3> QED
      BY <1>3, <3>1, Zenon
  <2>2. o[a] \in 1 .. Len(in)
    BY <1>1, <1>2, <2>1
  <2>3. in[o[a]].id = t[a].id
    BY <1>2, <2>1 DEF Left
  <2> QED
    BY <2>2, <2>3, PositionIs
<1>4. ASSUME NEW a \in 1 .. Len(t), NEW b \in 1 .. Len(t), o[a] # 0, o[b] # 0, o[a] <= o[b]
      PROVE  a <= b
  <2>1. o[a] \in Nat /\ o[b] \in Nat /\ a \in Nat /\ b \in Nat
    BY <1>1, <1>2
  <2>2. b < a => o[b] < o[a]
    BY <1>2, <1>4
  <2> QED
    BY <1>4, <2>1, <2>2
<1>5. At = o[c] /\ o[c] \in 1 .. Len(in)
  BY <1>1, <1>3 DEF At
<1> HIDE DEF c
<1>6. ASSUME NEW i \in 1 .. Len(t), Visited(t[i].id) PROVE i <= c
  <2>1. o[i] \in 1 .. Len(in) /\ in[o[i]].id = t[i].id
    BY <1>3, <1>6
  <2>2. o[i] <= o[c]
    BY <1>5, <1>6, <2>1
  <2> QED
    BY <1>1, <1>4, <1>5, <2>1, <2>2
<1>7. ASSUME NEW i \in 1 .. c PROVE Seen(t, i)
  <2>1. i \in 1 .. Len(t) /\ i <= c /\ i \in Nat
    BY <1>1
  <2>2. CASE t[i].by = cur
    BY <2>1, <2>2, Zenon DEF Seen, c
  <2>3. CASE t[i].by # cur
    <3>1. o[i] # 0
      BY <1>2, <2>1, <2>3 DEF IsNew
    <3>2. t[i].id = in[o[i]].id /\ t[i].by = in[o[i]].by /\ t[i].text = in[o[i]].text
      BY <1>2, <2>1, <2>3, <3>1 DEF Left
    <3>3. o[i] \in 1 .. At
      <4>1. o[i] \in 1 .. Len(in)
        BY <1>1, <1>2, <2>1, <3>1
      <4>2. i = c \/ i < c
        BY <1>1, <2>1
      <4>3. i < c => o[i] < o[c]
        BY <1>1, <1>2, <1>5, <2>1, <3>1
      <4> QED
        BY <1>5, <4>1, <4>2, <4>3
    <3>4. Seen(in, o[i])
      BY <3>3
    <3>5. CASE Offered(in[o[i]])
      BY <3>2, <3>5 DEF Offered, Seen
    <3>6. CASE /\ Visited(in[o[i]].by)
               /\ Position(in, in[o[i]].by) # 0 => o[i] <= Position(in, in[o[i]].by)
      <4>1. Visited(t[i].by)
        BY <3>2, <3>6
      <4>2. ASSUME Position(t, t[i].by) # 0 PROVE i <= Position(t, t[i].by)
        <5>1. PICK b \in 1 .. Len(t) : b = Position(t, t[i].by) /\ t[b].id = t[i].by
          BY <4>2, PositionIs
        <5>2. o[b] \in 1 .. Len(in) /\ Position(in, t[i].by) = o[b]
          BY <1>3, <4>1, <5>1
        <5>3. o[i] <= o[b] /\ o[b] # 0
          BY <3>2, <3>6, <5>2
        <5> QED
          BY <1>4, <2>1, <3>1, <5>1, <5>3
      <4> QED
        BY <4>1, <4>2 DEF Seen
    <3> QED
      BY <3>4, <3>5, <3>6 DEF Seen
  <2> QED
    BY <2>2, <2>3
<1> QED
  BY <1>6, <1>7 DEF c

LEMMA InitInv == Init => Inv
<1> SUFFICES ASSUME Init PROVE Inv
  OBVIOUS
<1> DEFINE n == Len(in)
<1>1. InputCDs(in, record, Len(record) + 1, 0) /\ n > 0 /\ record \in Records /\ rules \in Tables
  BY ToCDIs DEF Init
<1>2. in \in Seq(CDs) /\ Distinct(in) /\ n \in Nat /\ DOMAIN in = 1 .. n /\ 1 \in 1 .. n /\ n \in 1 .. n
  BY <1>1 DEF InputCDs
<1>3. ASSUME NEW i \in 1 .. n
      PROVE  in[i].id \in Seq(Nat) /\ Len(in[i].id) = 3 /\ OfRecord(record, in[i].tag)
  BY <1>1, <1>2 DEF InputCDs, Below
<1>4. /\ out = <<>> /\ cur = in[1].id /\ rule = 1 /\ canTag = TRUE /\ canSub = TRUE
      /\ phase = "convert" /\ LastOf(record) = in[n].id
      /\ offered = {[id |-> in[1].id, text |-> in[1].text]}
  BY DEF Init, LastOf, Last
<1>5. Types
  <2>1. out \in Seq(CDs) /\ DOMAIN out = {}
    BY <1>4
  <2>2. rule \in 1 .. Len(rules) + 1
    <3>1. Len(rules) \in Nat
      BY <1>1, TableIs
    <3> QED
      BY <1>4, <3>1
  <2>3. cur \in Seq(Nat) /\ Len(cur) >= 3
    <3>1. \A x : x = 3 => x >= 3
      BY ONLY SMT
    <3> QED
      BY <1>2, <1>3, <1>4, <3>1
  <2> QED
    BY <1>1, <1>2, <1>4, <2>1, <2>2, <2>3 DEF Types, Distinct
<1>6. \A id : Visited(id) <=> id = in[1].id
  BY <1>4 DEF Visited
<1>7. IdsInv
  <2>1. \A i \in 1 .. n : Named(in[i].id, offered, cur, rule)
    BY <1>3 DEF Named
  <2>2. \A x \in offered : x.id = in[1].id
    BY <1>4
  <2>3. DOMAIN out = {}
    BY <1>4
  <2> QED
    BY <1>2, <2>1, <2>2, <2>3 DEF IdsInv
<1>8. At = 1 /\ Position(in, LastOf(record)) = n
  BY <1>2, <1>4, PositionIs DEF At
<1>9. WalkInv
  <2>1. Ordered(in, n)
    BY <1>2 DEF Ordered, InOrder
  <2>2. \A i \in DOMAIN in : Visited(in[i].id) => i <= At
    BY <1>2, <1>6, <1>8 DEF Distinct
  <2>3. \A i \in 1 .. At : Seen(in, i)
    <3>1. Offered(in[1])
      BY <1>4 DEF Offered
    <3>2. Seen(in, 1)
      BY <3>1 DEF Seen
    <3>3. \A i \in 1 .. At : i = 1
      BY <1>8
    <3> QED
      BY <3>2, <3>3
  <2>4. At # 0 /\ n # 0 /\ Visited(cur)
    BY <1>1, <1>2, <1>4, <1>6, <1>8
  <2> QED
    BY <1>8, <2>1, <2>2, <2>3, <2>4 DEF WalkInv
<1>10. OriginInv
  BY <1>2, <1>3 DEF OriginInv
<1>11. DoneInv /\ FreedOnlyByRewriting
  BY <1>4 DEF DoneInv, FreedOnlyByRewriting
<1> QED
  BY <1>5, <1>7, <1>9, <1>10, <1>11 DEF Inv

-----------------------------------------------------------------------------
(* The steps                                                               *)

\* The walk stays where it is and goes on to a later rule.
Later ==
    /\ UNCHANGED <<record, rules, cur, offered>>
    /\ rule' \in rule + 1 .. Len(rules) + 1
    /\ canTag' \in BOOLEAN /\ canSub' \in BOOLEAN

\* What was made by an earlier rule is still that when the walk goes on.
LEMMA LaterRule ==
    ASSUME Types, Later
    PROVE  rule \in 1 .. rule' - 1 /\ \A x \in 1 .. rule - 1 : x \in 1 .. rule' - 1
<1>1. rules \in Tables /\ rule \in 1 .. Len(rules) + 1 /\ rule' \in rule + 1 .. Len(rules) + 1
  BY DEF Types, Later
<1>2. Len(rules) \in Nat
  BY <1>1, TableIs
<1>3. PICK m \in Nat : m = Len(rules)
  BY <1>2
<1>4. PICK a \in 1 .. m + 1 : a = rule
  BY <1>1, <1>3
<1>5. PICK b \in a + 1 .. m + 1 : b = rule'
  BY <1>1, <1>3, <1>4
<1>6. a \in 1 .. b - 1
  BY ONLY m \in Nat, a \in 1 .. m + 1, b \in a + 1 .. m + 1
<1>7. \A x \in 1 .. a - 1 : x \in 1 .. b - 1
  BY ONLY m \in Nat, a \in 1 .. m + 1, b \in a + 1 .. m + 1
<1> QED
  BY <1>4, <1>5, <1>6, <1>7, Zenon

LEMMA LaterBound ==
    ASSUME Types, Later
    PROVE  rule' \in 1 .. Len(rules') + 1
<1>1. rules \in Tables /\ rule \in 1 .. Len(rules) + 1 /\ rule' \in rule + 1 .. Len(rules) + 1 /\ rules' = rules
  BY DEF Types, Later
<1>2. Len(rules) \in Nat
  BY <1>1, TableIs
<1>3. PICK m \in Nat : m = Len(rules)
  BY <1>2
<1>4. PICK a \in 1 .. m + 1 : a = rule
  BY <1>1, <1>3
<1>5. PICK b \in a + 1 .. m + 1 : b = rule'
  BY <1>1, <1>3, <1>4
<1>6. b \in 1 .. m + 1
  BY ONLY m \in Nat, a \in 1 .. m + 1, b \in a + 1 .. m + 1
<1> QED
  BY <1>1, <1>3, <1>5, <1>6, Zenon

LEMMA MadeOn ==
    ASSUME Types, Later, NEW id, Made(id, offered, cur, rule)
    PROVE  Made(id, offered', cur', rule')
<1>1. \A x \in 1 .. rule - 1 : x \in 1 .. rule' - 1
  BY LaterRule
<1> QED
  BY <1>1 DEF Made, Later

LEMMA NamedOn ==
    ASSUME Types, Later, NEW id, Named(id, offered, cur, rule)
    PROVE  Named(id, offered', cur', rule')
BY MadeOn DEF Named

LEMMA OfferedOn ==
    ASSUME Types, Later, IdsInv
    PROVE  \A o \in offered' : Named(o.id, offered', cur', rule')
<1>1. \A o \in offered : Named(o.id, offered, cur, rule)
  BY DEF IdsInv
<1> QED
  BY <1>1, NamedOn DEF Later

\* What a rule makes was not there.
LEMMA NewOne ==
    ASSUME Types, IdsInv, NEW h, h.id = Append(cur, rule), NEW q \in Nat
    PROVE  LET id == Append(h.id, q)
           IN  /\ ~Visited(id)
               /\ \A i \in 1 .. Len(in) : in[i].id # id
               /\ \A i \in 1 .. Len(out) : out[i].id # id
<1> DEFINE id == Append(h.id, q)
<1>1. ~Named(id, offered, cur, rule)
  <2>1. rule \in Nat /\ cur \in Seq(Nat) /\ Len(cur) >= 3
    BY DEF Types
  <2> QED
    BY <2>1, NotNamed
<1> HIDE DEF id
<1>2. DOMAIN in = 1 .. Len(in) /\ DOMAIN out = 1 .. Len(out)
  BY DEF Types
<1>3. ~Visited(id)
  BY <1>1 DEF Visited, IdsInv
<1>4. \A i \in 1 .. Len(in) : in[i].id # id
  BY <1>1, <1>2 DEF IdsInv
<1>5. \A i \in 1 .. Len(out) : out[i].id # id
  BY <1>1, <1>2 DEF IdsInv, Named
<1> QED
  BY <1>3, <1>4, <1>5 DEF id

\* What the rule in process makes is made by an earlier rule from then on.
LEMMA NewMade ==
    ASSUME Types, Later, Visited(cur), NEW h, h.id = Append(cur, rule), NEW q \in Nat
    PROVE  Append(h.id, q) \in Seq(Nat) /\ Made(Append(h.id, q), offered', cur', rule')
<1> DEFINE id == Append(h.id, q)
<1>1. id \in Seq(Nat) /\ Len(id) > 3 /\ Writer(id) = cur /\ RuleOf(id) = rule
  BY NewIdIs DEF Types
<1> HIDE DEF id
<1>2. rule \in 1 .. rule' - 1
  BY LaterRule
<1>3. \E x \in offered' : x.id = Writer(id)
  BY <1>1 DEF Visited, Later
<1>4. Made(id, offered', cur', rule')
  BY <1>1, <1>2, <1>3 DEF Made
<1> QED
  BY <1>1, <1>4 DEF id

LEMMA IdsOfMoved ==
    ASSUME Types, Later, Visited(cur), NEW h, h.id = Append(cur, rule), NEW k \in Nat,
           NEW o, NEW t, NEW s, Len(s) \in Nat, Moved(o, t, s, h, k), NEW a \in 1 .. Len(t)
    PROVE  \/ \E i \in 1 .. Len(s) : t[a].id = s[i].id
           \/ t[a].id \in Seq(Nat) /\ Made(t[a].id, offered', cur', rule')
<1>1. CASE o[a] # 0
  <2>1. o[a] \in 1 .. Len(s) /\ t[a].id = s[o[a]].id
    BY <1>1 DEF Moved, Left
  <2> QED
    BY <2>1
<1>2. CASE o[a] = 0
  <2>1. PICK q \in 1 .. k : t[a].id = Append(h.id, q)
    BY <1>2 DEF Moved, IsNew
  <2>2. q \in Nat
    OBVIOUS
  <2> QED
    BY <2>1, <2>2, NewMade
<1> QED
  BY <1>1, <1>2

\* What Evaluate_Rule does to one of the lists, put together.
Applied(l, s, c, r) ==
    \E h, k :
        /\ k \in Nat /\ Grown(l, s, h, k) /\ Distinct(l)
        /\ h.id = Append(cur, rule) /\ h.by = cur
        /\ h.tag = IF r.toTag = AnyTag THEN c.tag ELSE r.toTag
        /\ h.sub = "" => r.toSub = ""

LEMMA WrittenIs ==
    ASSUME Types, IdsInv, NEW s \in {in, out}, NEW l, NEW c, c.id = cur, NEW r,
           Writes(l, s, c, r, rule)
    PROVE  Applied(l, s, c, r)
<1>1. PICK h \in Heads, parts \in Seq(Parts) :
        /\ Len(parts) > 0
        /\ l = InsertCDLib(s, h, parts)
        /\ h.id = Append(c.id, rule) /\ h.by = c.id
        /\ h.tag = IF r.toTag = AnyTag THEN c.tag ELSE r.toTag
        /\ h.sub = "" => r.toSub = ""
  BY Zenon DEF Writes
<1>2. s \in Seq(CDs) /\ Distinct(s)
  BY DEF Types
<1> DEFINE k == Len(parts)
<1>3. k \in Nat
  OBVIOUS
<1>4. Grown(l, s, h, k)
  BY <1>1, <1>2, InsertCDLibIs
<1> HIDE DEF k
<1>5. h.id = Append(cur, rule) /\ h.by = cur
  BY <1>1
<1>6. \A i \in 1 .. Len(s) : \A q \in 1 .. k : s[i].id # Append(h.id, q)
  <2> SUFFICES ASSUME NEW q \in 1 .. k
               PROVE  \A i \in 1 .. Len(s) : s[i].id # Append(h.id, q)
    OBVIOUS
  <2>1. q \in Nat
    BY <1>3
  <2> QED
    BY <1>5, <2>1, NewOne
<1>7. Distinct(l)
  BY <1>2, <1>3, <1>4, <1>6, GrownDistinct
<1> QED
  BY <1>1, <1>3, <1>4, <1>5, <1>7, Zenon DEF Applied

LEMMA LaterIs ==
    ASSUME Types, SkipRule \/ SkipGroup \/ ApplyToOutput \/ ApplyToInput
    PROVE  Later /\ phase = "convert" /\ rule \in 1 .. Len(rules)
<1>1. /\ UNCHANGED <<record, rules, cur, offered>>
      /\ MarkMatched(rules[rule]) /\ phase = "convert" /\ rule \in DOMAIN rules
  BY DEF SkipRule, SkipGroup, ApplyToOutput, ApplyToInput
<1>2. rules \in Tables /\ rule \in 1 .. Len(rules) + 1 /\ canTag \in BOOLEAN /\ canSub \in BOOLEAN
  BY DEF Types
<1>3. Len(rules) \in Nat /\ DOMAIN rules = 1 .. Len(rules) /\ rule \in 1 .. Len(rules)
  BY <1>1, <1>2, TableIs
<1>4. canTag' \in BOOLEAN /\ canSub' \in BOOLEAN
  BY <1>1, <1>2, Zenon DEF MarkMatched
<1> DEFINE n == Len(rules)
           T == {j \in rule .. n : rules[j].group # rules[rule].group}
           end == IF T # {} THEN Min(T) ELSE 0
<1>5. SkipGroup => rule' = IF end = 0 THEN n + 1 ELSE end
  BY Zenon DEF SkipGroup, SelectInSubSeq
<1>6. end # 0 => end \in rule + 1 .. n
  <2>1. \A j \in T : j \in rule .. n /\ j # rule
    BY Zenon
  <2> HIDE DEF T
  <2>2. T \subseteq Nat
    BY <1>3, <2>1
  <2>3. T # {} => end \in T
    BY <2>2, LeastIs, Zenon
  <2>4. end # 0 => end \in T
    BY <2>3, Zenon
  <2> HIDE DEF end
  <2> QED
    BY <1>3, <2>1, <2>4
<1> HIDE DEF end
<1>7. rule' = rule + 1 \/ rule' = IF end = 0 THEN n + 1 ELSE end
  BY <1>5 DEF SkipRule, ApplyToOutput, ApplyToInput
<1>8. rule' \in rule + 1 .. n + 1
  BY <1>3, <1>6, <1>7
<1> QED
  BY <1>1, <1>3, <1>4, <1>8 DEF Later

\* A step that leaves the input list alone.
LEMMA StaysPut ==
    ASSUME Types, IdsInv, WalkInv, OriginInv, Later, phase = "convert", phase' = phase, in' = in
    PROVE  /\ WalkInv' /\ OriginInv'
           /\ \A i \in DOMAIN in' : Named(in'[i].id, offered', cur', rule')
<1>1. /\ in' = in /\ cur' = cur /\ record' = record /\ offered' = offered /\ phase' = phase
  BY DEF Later
<1>2. WalkInv'
  BY <1>1 DEF WalkInv, At, Visited, Seen, Offered
<1>3. OriginInv'
  BY <1>1 DEF OriginInv
<1>4. \A i \in DOMAIN in' : Named(in'[i].id, offered', cur', rule')
  <2>1. \A i \in DOMAIN in : Named(in[i].id, offered, cur, rule)
    BY DEF IdsInv
  <2> QED
    BY <1>1, <2>1, NamedOn
<1> QED
  BY <1>2, <1>3, <1>4

LEMMA SkipInv ==
    ASSUME Inv, SkipRule \/ SkipGroup
    PROVE  Inv'
<1>1. Types /\ IdsInv /\ WalkInv /\ OriginInv
  BY DEF Inv
<1>2. Later /\ phase = "convert"
  BY <1>1, LaterIs
<1>3. UNCHANGED <<record, rules, in, out, cur, offered, fields, phase>>
  BY DEF SkipRule, SkipGroup
<1>4. Types'
  <2>1. rule' \in 1 .. Len(rules') + 1
    BY <1>1, <1>2, LaterBound
  <2> QED
    BY <1>1, <1>2, <1>3, <2>1 DEF Types, Distinct, Later
<1>5. WalkInv' /\ OriginInv' /\ \A i \in DOMAIN in' : Named(in'[i].id, offered', cur', rule')
  BY <1>1, <1>2, <1>3, StaysPut
<1>6. IdsInv'
  <2>1. \A o \in offered' : Named(o.id, offered', cur', rule')
    BY <1>1, <1>2, OfferedOn
  <2>2. \A i \in DOMAIN out' : out'[i].id \in Seq(Nat) /\ Made(out'[i].id, offered', cur', rule')
    <3>1. \A i \in DOMAIN out : out[i].id \in Seq(Nat) /\ Made(out[i].id, offered, cur, rule)
      BY <1>1 DEF IdsInv
    <3> QED
      BY <1>1, <1>2, <1>3, <3>1, MadeOn
  <2> QED
    BY <1>5, <2>1, <2>2 DEF IdsInv
<1>7. DoneInv' /\ FreedOnlyByRewriting'
  BY <1>2, <1>3 DEF DoneInv, FreedOnlyByRewriting
<1> QED
  BY <1>4, <1>5, <1>6, <1>7 DEF Inv

\* The CD in process, and the rule for it.
LEMMA AtIs ==
    ASSUME Types, WalkInv, phase # "freed"
    PROVE  /\ At \in 1 .. Len(in) /\ in[At].id = cur /\ Visited(cur)
           /\ \A j \in 1 .. Len(in) : in[j].id = cur => At = j
<1>1. At # 0 /\ Visited(cur) /\ in \in Seq(CDs) /\ Distinct(in)
  BY DEF WalkInv, Types
<1> QED
  BY <1>1, PositionIs DEF At

LEMMA AppliedIs ==
    ASSUME Types, IdsInv, WalkInv, ApplyToOutput \/ ApplyToInput, NEW s \in {in, out}
    PROVE  Applied(Evaluate_Rule(s, At, rule), s, in[At], rules[rule])
<1> DEFINE l == Evaluate_Rule(s, At, rule)
<1>1. phase = "convert" /\ rule \in 1 .. Len(rules)
  BY LaterIs
<1>2. At \in 1 .. Len(in) /\ in[At].id = cur
  BY <1>1, AtIs
<1>3. IsEqual(in[At], RuleCD(rules[rule]))
  BY Zenon DEF ApplyToOutput, ApplyToInput, Accepted, Concerns
<1>4. s \in Seq(CDs) /\ in \in Seq(CDs) /\ rules \in Tables
  BY DEF Types
<1>5. Writes(l, s, in[At], rules[rule], rule)
  BY <1>1, <1>2, <1>3, <1>4, EvaluateIs
<1> HIDE DEF l
<1>6. Applied(l, s, in[At], rules[rule])
  BY <1>2, <1>5, WrittenIs
<1> QED
  BY <1>6 DEF l

LEMMA ApplyToOutputInv ==
    ASSUME Inv, ApplyToOutput
    PROVE  Inv'
<1>1. Types /\ IdsInv /\ WalkInv /\ OriginInv
  BY DEF Inv
<1>2. Later /\ phase = "convert"
  BY <1>1, LaterIs
<1>3. UNCHANGED <<record, rules, in, cur, offered, fields, phase>> /\ out' = Evaluate_Rule(out, At, rule)
  BY DEF ApplyToOutput
<1> DEFINE l == Evaluate_Rule(out, At, rule)
<1>4. PICK h, k : k \in Nat /\ Grown(l, out, h, k) /\ Distinct(l) /\ h.id = Append(cur, rule)
  BY <1>1, AppliedIs, Zenon DEF Applied
<1> HIDE DEF l
<1>5. l \in Seq(CDs) /\ out' = l /\ out \in Seq(CDs)
  BY <1>1, <1>3, <1>4 DEF Grown, l, Types
<1>6. Types'
  <2>1. rule' \in 1 .. Len(rules') + 1
    BY <1>1, <1>2, LaterBound
  <2> QED
    BY <1>1, <1>2, <1>3, <1>4, <1>5, <2>1 DEF Types, Distinct, Later
<1>7. WalkInv' /\ OriginInv' /\ \A i \in DOMAIN in' : Named(in'[i].id, offered', cur', rule')
  BY <1>1, <1>2, <1>3, StaysPut
<1>8. IdsInv'
  <2>1. \A o \in offered' : Named(o.id, offered', cur', rule')
    BY <1>1, <1>2, OfferedOn
  <2>2. ASSUME NEW a \in 1 .. Len(l)
        PROVE  l[a].id \in Seq(Nat) /\ Made(l[a].id, offered', cur', rule')
    <3>1. PICK o : Moved(o, l, out, h, k)
      BY <1>4, <1>5, MovedIs
    <3>2. Visited(cur) /\ Len(out) \in Nat
      BY <1>1, <1>2, <1>5, AtIs
    <3>3. CASE \E i \in 1 .. Len(out) : l[a].id = out[i].id
      <4>1. PICK i \in DOMAIN out : l[a].id = out[i].id
        BY <1>5, <3>3
      <4>2. out[i].id \in Seq(Nat) /\ Made(out[i].id, offered, cur, rule)
        BY <1>1 DEF IdsInv
      <4> QED
        BY <1>1, <1>2, <4>1, <4>2, MadeOn
    <3> QED
      BY <1>1, <1>2, <1>4, <3>1, <3>2, <3>3, IdsOfMoved
  <2>3. \A i \in DOMAIN out' : out'[i].id \in Seq(Nat) /\ Made(out'[i].id, offered', cur', rule')
    BY <1>5, <2>2
  <2> QED
    BY <1>7, <2>1, <2>3 DEF IdsInv
<1>9. DoneInv' /\ FreedOnlyByRewriting'
  BY <1>2, <1>3 DEF DoneInv, FreedOnlyByRewriting
<1> QED
  BY <1>6, <1>7, <1>8, <1>9 DEF Inv

LEMMA SortedKeeps ==
    ASSUME NEW l \in Seq(CDs), Distinct(l), NEW i, NEW t \in Seq(CDs), Sorted(t, l, i, Len(l))
    PROVE  /\ Distinct(t)
           /\ \A a \in 1 .. Len(l) : \E m \in 1 .. Len(t) : t[m] = l[a]
           /\ \A a \in 1 .. Len(l) : a < i => a \in 1 .. Len(t) /\ t[a] = l[a]
<1> DEFINE n == Len(l)
<1>1. n \in Nat /\ Len(t) = n /\ DOMAIN t = 1 .. n /\ DOMAIN l = 1 .. n
  BY DEF Sorted
<1>2. PICK place \in [1 .. n -> 1 .. n] : Sorts(place, t, l, i, n)
  BY DEF Sorted
<1> HIDE DEF n
<1>3. \A a \in 1 .. n : place[a] \in 1 .. n /\ t[place[a]] = l[a]
  BY <1>2 DEF Sorts
<1>4. Distinct(t)
  <2> SUFFICES ASSUME NEW x \in 1 .. n, NEW y \in 1 .. n, t[x].id = t[y].id PROVE x = y
    BY <1>1 DEF Distinct
  <2>1. PICK a \in 1 .. n : place[a] = x
    BY <1>2 DEF Sorts
  <2>2. PICK b \in 1 .. n : place[b] = y
    BY <1>2 DEF Sorts
  <2>3. l[a].id = l[b].id
    BY <1>3, <2>1, <2>2
  <2>4. a = b
    BY <1>1, <2>3 DEF Distinct
  <2> QED
    BY <2>1, <2>2, <2>4
<1>5. \A a \in 1 .. n : a < i => t[a] = l[a]
  BY <1>2 DEF Sorts
<1> QED
  BY <1>1, <1>3, <1>4, <1>5 DEF n

\* Behind its original end the input list was in order, so sorting moves only
\* what the rule added.
LEMMA InOrderBehind ==
    ASSUME Types, IdsInv, WalkInv, phase = "convert",
           NEW h, h.id = Append(cur, rule), NEW k \in Nat, NEW l \in Seq(CDs), Distinct(l),
           NEW o, Moved(o, l, in, h, k),
           NEW last \in 1 .. Len(l), l[last].id = LastOf(record)
    PROVE  \A a, b \in 1 .. Len(l) :
              o[a] # 0 /\ o[b] # 0 /\ last + 1 <= a /\ a < b => ~IsLess(l[b], l[a])
<1> DEFINE e == Position(in, LastOf(record))
<1>1. e # 0 /\ Ordered(in, e) /\ in \in Seq(CDs) /\ Distinct(in) /\ Len(in) \in Nat /\ Len(l) \in Nat
  BY DEF WalkInv, Types
<1>2. e \in 1 .. Len(in) /\ in[e].id = LastOf(record)
  BY <1>1, PositionIs
<1>3. \A a \in 1 .. Len(l) : \A b \in 1 .. Len(l) : o[a] # 0 /\ o[b] # 0 /\ a < b => o[a] < o[b]
  BY DEF Moved
<1>4. ASSUME NEW a \in 1 .. Len(l), o[a] # 0
      PROVE  o[a] \in 1 .. Len(in) /\ Left(l[a], in[o[a]], h.by)
  BY <1>1, <1>4 DEF Moved
<1>5. o[last] = e
  <2>1. o[last] # 0
    <3> SUFFICES ASSUME o[last] = 0 PROVE FALSE
      OBVIOUS
    <3>1. PICK q \in 1 .. k : l[last].id = Append(h.id, q)
      BY DEF Moved, IsNew
    <3>2. q \in Nat
      OBVIOUS
    <3> QED
      BY <1>2, <3>1, <3>2, NewOne
  <2>2. o[last] \in 1 .. Len(in) /\ in[o[last]].id = LastOf(record)
    BY <1>4, <2>1 DEF Left
  <2> QED
    BY <1>1, <2>2, PositionIs
<1> HIDE DEF e
<1> SUFFICES ASSUME NEW a \in 1 .. Len(l), NEW b \in 1 .. Len(l),
                    o[a] # 0, o[b] # 0, last + 1 <= a, a < b
             PROVE  ~IsLess(l[b], l[a])
  OBVIOUS
<1>6. o[a] \in 1 .. Len(in) /\ o[b] \in 1 .. Len(in) /\ e < o[a] /\ o[a] < o[b]
  <2>1. last < a
    BY <1>1
  <2> QED
    BY <1>2, <1>3, <1>4, <1>5, <2>1
<1>7. ~IsLess(in[o[b]], in[o[a]])
  BY <1>1, <1>6 DEF Ordered, InOrder
<1>8. SameField(l[a], in[o[a]]) /\ SameField(l[b], in[o[b]])
  BY <1>4 DEF Left
<1> QED
  BY <1>7, <1>8 DEF IsLess, SameField

\* The input list after a rule wrote it, if the walk goes on.
LEMMA WalkGoesOn ==
    ASSUME Types, IdsInv, WalkInv, OriginInv, Later, phase = "convert", phase' = phase,
           NEW h, h.id = Append(cur, rule), h.by = cur, NEW k \in Nat,
           NEW l, Grown(l, in, h, k), Distinct(l),
           NEW last, last = Position(l, LastOf(record)), last # 0, Position(l, cur) # 0,
           in' = PartialSort(l, last + 1)
    PROVE  /\ in' \in Seq(CDs) /\ Distinct(in') /\ WalkInv'
           /\ \E p : Moved(p, in', in, h, k)
<1> DEFINE t == PartialSort(l, last + 1)
<1>1. l \in Seq(CDs) /\ in \in Seq(CDs) /\ Distinct(in) /\ Len(in) \in Nat /\ Len(l) \in Nat
  BY DEF Grown, Types
<1>2. last \in 1 .. Len(l) /\ l[last].id = LastOf(record)
  BY <1>1, PositionIs
<1>3. last + 1 \in Nat /\ 1 <= last + 1 /\ (last + 1) - 1 = last /\ last < last + 1
  BY <1>1, <1>2
<1>4. t \in Seq(CDs) /\ Sorted(t, l, last + 1, Len(l))
  BY <1>1, <1>3, PartialSortIs
<1> HIDE DEF t
<1>5. PICK o : Moved(o, l, in, h, k)
  BY <1>1, MovedIs
<1>6. \A a, b \in 1 .. Len(l) : o[a] # 0 /\ o[b] # 0 /\ last + 1 <= a /\ a < b => ~IsLess(l[b], l[a])
  BY <1>1, <1>2, <1>5, InOrderBehind
<1>7. PICK p : Moved(p, t, in, h, k)
  BY <1>1, <1>3, <1>4, <1>5, <1>6, MovedOn
<1>8. Distinct(t) /\ \A a \in 1 .. Len(l) : \E m \in 1 .. Len(t) : t[m] = l[a]
  BY <1>1, <1>4, SortedKeeps
<1>9. last \in 1 .. Len(t) /\ t[last] = l[last]
  BY <1>1, <1>2, <1>3, <1>4, SortedKeeps
<1>10. Position(t, LastOf(record)) = last
  BY <1>2, <1>4, <1>8, <1>9, PositionIs
<1>11. Position(t, cur) # 0
  <2>1. PICK a \in 1 .. Len(l) : l[a].id = cur
    BY <1>1, PositionIs
  <2>2. PICK m \in 1 .. Len(t) : t[m].id = cur
    BY <1>8, <2>1
  <2>3. m # 0
    BY <1>4
  <2>4. Position(t, cur) = m
    BY <1>4, <1>8, <2>2, PositionIs, SMTT(60)
  <2> QED
    BY <2>3, <2>4, Zenon
<1>12. Ordered(t, last)
  <2>1. Ordered(t, (last + 1) - 1)
    BY <1>4, Zenon DEF Sorted
  <2> QED
    BY <1>3, <2>1
<1>13. /\ \A i \in 1 .. Len(t) : Visited(t[i].id) => i <= Position(t, cur)
       /\ \A i \in 1 .. Position(t, cur) : Seen(t, i)
  <2>1. /\ At # 0 /\ Visited(cur)
        /\ \A i \in 1 .. Len(in) : Visited(in[i].id) => i <= At
        /\ \A i \in 1 .. At : Seen(in, i)
    BY <1>1 DEF WalkInv
  <2>2. \A q \in 1 .. k : ~Visited(Append(h.id, q))
    <3> SUFFICES ASSUME NEW q \in 1 .. k PROVE ~Visited(Append(h.id, q))
      OBVIOUS
    <3>1. q \in Nat
      OBVIOUS
    <3> QED
      BY <3>1, NewOne
  <2> QED
    BY <1>1, <1>4, <1>7, <1>8, <1>11, <2>1, <2>2, WalkOn
<1>14. in' = t
  BY DEF t
<1>15. WalkInv'
  <2>1. Visited(cur) /\ DOMAIN t = 1 .. Len(t)
    BY <1>4 DEF WalkInv
  <2>2. cur' = cur /\ record' = record /\ offered' = offered
    BY DEF Later
  <2>3. At' = Position(t, cur) /\ Position(in', LastOf(record')) = last
    BY <1>10, <1>14, <2>2 DEF At
  <2>4. At' # 0 /\ Visited(cur)'
    BY <1>11, <2>1, <2>2, <2>3 DEF Visited
  <2>5. (\A i \in DOMAIN in : Visited(in[i].id) => i <= At)'
    BY <1>13, <1>14, <2>1, <2>2, <2>3 DEF Visited
  <2>6. (\A i \in 1 .. At : Seen(in, i))'
    BY <1>13, <1>14, <2>2, <2>3 DEF Seen, Offered, Visited
  <2>7. Ordered(in', Position(in', LastOf(record')))
    BY <1>12, <1>14, <2>3
  <2>8. Position(in', LastOf(record')) # 0
    BY <2>3
  <2> QED
    BY <2>4, <2>5, <2>6, <2>7, <2>8 DEF WalkInv
<1> QED
  BY <1>4, <1>7, <1>8, <1>14, <1>15

\* A CD the walk needs goes only if the rule writes the field it is in.
LEMMA FreedBy ==
    ASSUME NEW l \in Seq(CDs), Distinct(l), NEW s \in Seq(CDs), NEW h, NEW k, Grown(l, s, h, k),
           NEW j \in 1 .. Len(s), Position(l, s[j].id) = 0
    PROVE  h.sub = "" /\ h.tag = s[j].tag
<1>1. ~Stays(h, s[j])
  <2> SUFFICES ASSUME Stays(h, s[j]) PROVE FALSE
    OBVIOUS
  <2>1. PICK o : Moved(o, l, s, h, k) /\ AllStay(o, l, s, h)
    BY MovedIs
  <2>2. PICK a \in 1 .. Len(l) : o[a] = j
    BY <2>1 DEF AllStay
  <2>3. o[a] # 0 /\ a # 0
    BY <2>2
  <2>4. l[a].id = s[j].id
    BY <2>1, <2>2, <2>3 DEF Moved, Left
  <2> QED
    BY <2>3, <2>4, PositionIs
<1> QED
  BY <1>1, Zenon DEF Stays, Replaces, SameField

LEMMA ApplyToInputInv ==
    ASSUME Inv, ApplyToInput
    PROVE  Inv'
<1> DEFINE l == Evaluate_Rule(in, At, rule)
           r == rules[rule]
           c == in[At]
           last == Position(l, LastOf(record))
           goes == last # 0 /\ Position(l, cur) # 0
<1>1. Types /\ IdsInv /\ WalkInv /\ OriginInv
  BY DEF Inv
<1>2. Later /\ phase = "convert" /\ rule \in 1 .. Len(rules) /\ rules \in Tables
  BY <1>1, LaterIs DEF Types
<1>3. UNCHANGED <<record, rules, out, cur, offered, fields>>
  BY DEF ApplyToInput
<1>4. r.toIn /\ IsEqual(c, RuleCD(r))
  BY Zenon DEF ApplyToInput, Accepted, Concerns
<1>5. IF goes THEN in' = PartialSort(l, last + 1) /\ UNCHANGED phase
              ELSE in' = l /\ phase' = "freed"
  BY Zenon DEF ApplyToInput
<1>6. PICK h, k :
        /\ k \in Nat /\ Grown(l, in, h, k) /\ Distinct(l)
        /\ h.id = Append(cur, rule) /\ h.by = cur
        /\ h.tag = IF r.toTag = AnyTag THEN c.tag ELSE r.toTag
        /\ h.sub = "" => r.toSub = ""
  BY <1>1, AppliedIs, Zenon DEF Applied
<1>6a. k \in Nat /\ Grown(l, in, h, k) /\ Distinct(l) /\ h.id = Append(cur, rule) /\ h.by = cur
  BY <1>6, Zenon
<1>7. /\ At \in 1 .. Len(in) /\ c.id = cur /\ Visited(cur)
      /\ in \in Seq(CDs) /\ Distinct(in) /\ Len(in) \in Nat /\ DOMAIN in = 1 .. Len(in)
  BY <1>1, <1>2, AtIs DEF Types
<1>8. l \in Seq(CDs)
  BY <1>6a DEF Grown
<1> HIDE DEF l
<1> DEFINE Result == /\ in' \in Seq(CDs) /\ Distinct(in') /\ WalkInv' /\ FreedOnlyByRewriting'
                     /\ phase' \in {"convert", "freed"}
                     /\ \E p : Moved(p, in', in, h, k)
<1>9. ASSUME goes PROVE Result
  <2>1. last # 0 /\ Position(l, cur) # 0 /\ in' = PartialSort(l, last + 1) /\ phase' = phase
    BY <1>5, <1>9
  <2>2. PICK m : m = last
    OBVIOUS
  <2>4. /\ in' \in Seq(CDs) /\ Distinct(in') /\ WalkInv'
        /\ \E p : Moved(p, in', in, h, k)
    BY <1>1, <1>2, <1>6a, <2>1, <2>2, WalkGoesOn
  <2>5. FreedOnlyByRewriting'
    BY <1>2, <2>1 DEF FreedOnlyByRewriting
  <2>6. phase' = "convert"
    BY <1>2, <2>1
  <2> QED
    BY <2>4, <2>5, <2>6
<1>10. ASSUME ~goes PROVE Result
  <2>1. in' = l /\ phase' = "freed"
    BY <1>5, <1>10
  <2>2. \E p : Moved(p, in', in, h, k)
    BY <1>6a, <1>7, <2>1, MovedIs
  <2>3. WalkInv'
    BY <2>1 DEF WalkInv
  <2>4. \E j \in 1 .. Len(in) : /\ Position(l, in[j].id) = 0
                                /\ in[j].id = cur \/ in[j].id = LastOf(record)
    <3>1. last = 0 \/ Position(l, cur) = 0
      BY <1>10
    <3>2. CASE Position(l, cur) = 0
      BY <1>7, <3>2
    <3>3. CASE last = 0
      <4>1. Position(in, LastOf(record)) # 0
        BY <1>1, <1>2 DEF WalkInv
      <4>2. PICK j \in 1 .. Len(in) : in[j].id = LastOf(record)
        BY <1>7, <4>1, PositionIs
      <4> QED
        BY <3>3, <4>2
    <3> QED
      BY <3>1, <3>2, <3>3
  <2>5. PICK j \in 1 .. Len(in) : /\ Position(l, in[j].id) = 0
                                  /\ in[j].id = cur \/ in[j].id = LastOf(record)
    BY <2>4
  <2>6. h.sub = "" /\ h.tag = in[j].tag
    <3>1. /\ in \in Seq(CDs) /\ l \in Seq(CDs) /\ Distinct(l) /\ Grown(l, in, h, k)
          /\ Position(l, in[j].id) = 0
      BY <1>6a, <1>7, <1>8, <2>5, Zenon
    <3> QED
      BY <3>1, FreedBy, ZenonT(60)
  <2>7. r.toSub = ""
    BY <1>6, <2>6, Zenon
  <2>8. \/ r.tag \in {AnyTag, r.toTag}
        \/ r.toTag = 0
        \/ \E f \in DOMAIN record : record[f].tag = r.toTag
    <3>1. CASE r.toTag = AnyTag
      <4>1. r.toTag = AnyTag => r.tag = AnyTag
        BY <1>2, RuleIs
      <4> QED
        BY <3>1, <4>1
    <3>2. CASE r.toTag # AnyTag
      <4>1. r.toTag = in[j].tag
        BY <1>6, <2>6, <3>2, Zenon
      <4>2. CASE in[j].id = cur
        <5>1. j = At
          BY <1>1, <1>2, <4>2, AtIs
        <5>2. RuleCD(r).tag = r.tag
          BY DEF RuleCD
        <5>3. r.tag \in {AnyTag, c.tag}
          BY <1>4, <5>2, Zenon DEF IsEqual
        <5> QED
          BY <4>1, <5>1, <5>3
      <4>3. CASE in[j].id = LastOf(record)
        <5>1. OfRecord(record, in[j].tag)
          BY <1>1, <1>7, <4>3 DEF OriginInv
        <5> QED
          BY <4>1, <5>1 DEF OfRecord
      <4> QED
        BY <2>5, <4>2, <4>3
    <3> QED
      BY <3>1, <3>2
  <2>9. FreedOnlyByRewriting'
    <3>1. rule \in DOMAIN rules' /\ rules'[rule] = r /\ record' = record
      <4>1. DOMAIN rules = 1 .. Len(rules)
        BY <1>2, TableIs
      <4> QED
        BY <1>2, <1>3, <4>1
    <3> HIDE DEF r, c
    <3>2. /\ rules'[rule].toIn /\ rules'[rule].toSub = ""
          /\ \/ rules'[rule].tag \in {AnyTag, rules'[rule].toTag}
             \/ rules'[rule].toTag = 0
             \/ \E f \in DOMAIN record' : record'[f].tag = rules'[rule].toTag
      BY <1>4, <2>7, <2>8, <3>1, Zenon
    <3> QED
      BY <3>1, <3>2, Zenon DEF FreedOnlyByRewriting
  <2>10. in' \in Seq(CDs) /\ Distinct(in')
    BY <1>6a, <1>8, <2>1
  <2> QED
    BY <2>1, <2>2, <2>3, <2>9, <2>10
<1>11. Result
  BY <1>9, <1>10, Zenon
<1>12. PICK p : Moved(p, in', in, h, k)
  BY <1>11
<1>13. Types'
  <2>1. rule' \in 1 .. Len(rules') + 1
    BY <1>1, <1>2, LaterBound
  <2> QED
    BY <1>1, <1>2, <1>3, <1>11, <2>1 DEF Types, Distinct, Later
<1>14. IdsInv'
  <2>1. \A o \in offered' : Named(o.id, offered', cur', rule')
    BY <1>1, <1>2, OfferedOn
  <2>2. \A i \in DOMAIN out' : out'[i].id \in Seq(Nat) /\ Made(out'[i].id, offered', cur', rule')
    <3>1. \A i \in DOMAIN out : out[i].id \in Seq(Nat) /\ Made(out[i].id, offered, cur, rule)
      BY <1>1 DEF IdsInv
    <3> QED
      BY <1>1, <1>2, <1>3, <3>1, MadeOn
  <2>3. ASSUME NEW a \in 1 .. Len(in')
        PROVE  Named(in'[a].id, offered', cur', rule')
    <3>1. CASE \E i \in 1 .. Len(in) : in'[a].id = in[i].id
      <4>1. PICK i \in DOMAIN in : in'[a].id = in[i].id
        BY <1>7, <3>1
      <4>2. Named(in[i].id, offered, cur, rule)
        BY <1>1 DEF IdsInv
      <4> QED
        BY <1>1, <1>2, <4>1, <4>2, NamedOn
    <3>2. CASE in'[a].id \in Seq(Nat) /\ Made(in'[a].id, offered', cur', rule')
      BY <3>2 DEF Named
    <3>3. PICK t : t = in'
      OBVIOUS
    <3>4. Types /\ Later /\ Visited(cur) /\ Len(in) \in Nat /\ a \in 1 .. Len(t)
      BY <1>1, <1>2, <1>7, <3>3
    <3>5. h.id = Append(cur, rule) /\ k \in Nat /\ Moved(p, t, in, h, k)
      BY <1>6a, <1>12, <3>3
    <3>6. \/ \E i \in 1 .. Len(in) : t[a].id = in[i].id
          \/ t[a].id \in Seq(Nat) /\ Made(t[a].id, offered', cur', rule')
      BY <3>4, <3>5, IdsOfMoved, SMTT(60)
    <3> QED
      BY <3>1, <3>2, <3>3, <3>6
  <2>4. DOMAIN in' = 1 .. Len(in')
    BY <1>11
  <2> QED
    BY <2>1, <2>2, <2>3, <2>4 DEF IdsInv
<1>15. OriginInv'
  <2> SUFFICES ASSUME NEW a \in 1 .. Len(in'), in'[a].id = LastOf(record)
               PROVE  OfRecord(record, in'[a].tag)
    BY <1>3, <1>11 DEF OriginInv
  <2>1. PICK j \in 1 .. Len(in) : in[j].id = LastOf(record)
    <3>1. Position(in, LastOf(record)) # 0
      BY <1>1, <1>2 DEF WalkInv
    <3> QED
      BY <1>7, <3>1, PositionIs
  <2>2. p[a] # 0
    <3> SUFFICES ASSUME p[a] = 0 PROVE FALSE
      OBVIOUS
    <3>1. PICK q \in 1 .. k : in'[a].id = Append(h.id, q)
      BY <1>12 DEF Moved, IsNew
    <3>2. q \in Nat
      OBVIOUS
    <3> QED
      BY <1>1, <1>6a, <2>1, <3>1, <3>2, NewOne
  <2>3. p[a] \in 1 .. Len(in) /\ in'[a].id = in[p[a]].id /\ in'[a].tag = in[p[a]].tag
    BY <1>7, <1>12, <2>2 DEF Moved, Left, SameField
  <2> QED
    BY <1>1, <1>7, <2>3 DEF OriginInv
<1>16. DoneInv'
  BY <1>11 DEF DoneInv
<1> QED
  BY <1>11, <1>13, <1>14, <1>15, <1>16 DEF Inv

LEMMA NextFieldInv ==
    ASSUME Inv, NextField
    PROVE  Inv'
<1>1. Types /\ IdsInv /\ WalkInv /\ OriginInv
  BY DEF Inv
<1>2. /\ phase = "convert" /\ phase' = "convert" /\ At < Len(in) /\ cur' = in[At + 1].id
      /\ offered' = offered \cup {[id |-> in[At + 1].id, text |-> in[At + 1].text]}
      /\ rule' = 1 /\ canTag' = TRUE /\ canSub' = TRUE
      /\ UNCHANGED <<record, rules, in, out, fields>>
  BY DEF NextField
<1>3. /\ At \in 1 .. Len(in) /\ in[At].id = cur /\ Visited(cur)
      /\ in \in Seq(CDs) /\ Distinct(in) /\ Len(in) \in Nat /\ DOMAIN in = 1 .. Len(in)
  BY <1>1, <1>2, AtIs DEF Types
<1>4. PICK n \in 1 .. Len(in) : n = At + 1
  BY <1>2, <1>3
<1>4a. n \in Nat /\ ~(n <= At)
  BY <1>3, <1>4
<1>4b. PICK id : id = in[n].id
  OBVIOUS
<1>5. At' = n /\ cur' = id
  <2>1. Position(in, id) = n
    BY <1>3, <1>4b, PositionIs
  <2> QED
    BY <1>2, <1>4, <1>4b, <2>1 DEF At
<1>6. ~Visited(id)
  BY <1>1, <1>2, <1>3, <1>4a, <1>4b DEF WalkInv
<1>7. Named(id, offered, cur, rule)
  BY <1>1, <1>3, <1>4b DEF IdsInv
<1>8. offered' = offered \cup {[id |-> id, text |-> in[n].text]}
  BY <1>2, <1>4, <1>4b
<1>8a. \A x : (\E o \in offered' : o.id = x) <=> Visited(x) \/ x = id
  <2> DEFINE o == [id |-> id, text |-> in[n].text]
  <2>1. o.id = id
    OBVIOUS
  <2> HIDE DEF o
  <2>2. offered' = offered \cup {o}
    BY <1>8 DEF o
  <2> QED
    BY <2>1, <2>2, Zenon DEF Visited
<1>9. ASSUME NEW x, Made(x, offered, cur, rule) PROVE Made(x, offered', cur', rule')
  <2>1. PICK o \in offered : o.id = Writer(x)
    BY <1>9 DEF Made
  <2>2. Writer(x) # cur'
    BY <1>5, <1>6, <2>1 DEF Visited
  <2> QED
    BY <1>8, <1>9, <2>1, <2>2 DEF Made
<1>10. \A x : Named(x, offered, cur, rule) => Named(x, offered', cur', rule')
  BY <1>9 DEF Named
<1>11. IdsInv'
  <2>1. \A o \in offered : Named(o.id, offered, cur, rule)
    BY <1>1 DEF IdsInv
  <2>2. \A o \in offered' : Named(o.id, offered', cur', rule')
    <3> SUFFICES ASSUME NEW o \in offered' PROVE Named(o.id, offered', cur', rule')
      OBVIOUS
    <3>1. o \in offered \/ o.id = id
      BY <1>8
    <3> QED
      BY <1>7, <1>10, <2>1, <3>1
  <2>3. \A i \in DOMAIN in : Named(in[i].id, offered, cur, rule)
    BY <1>1 DEF IdsInv
  <2>4. \A i \in DOMAIN out : out[i].id \in Seq(Nat) /\ Made(out[i].id, offered, cur, rule)
    BY <1>1 DEF IdsInv
  <2>5. \A i \in DOMAIN in' : Named(in'[i].id, offered', cur', rule')
    BY <1>2, <1>10, <2>3
  <2>6. \A i \in DOMAIN out' : out'[i].id \in Seq(Nat) /\ Made(out'[i].id, offered', cur', rule')
    BY <1>2, <1>9, <2>4
  <2> QED
    BY <2>2, <2>5, <2>6 DEF IdsInv
<1>12. Types'
  <2>1. rule' \in 1 .. Len(rules') + 1
    <3>1. Len(rules) \in Nat
      BY <1>1, TableIs DEF Types
    <3> QED
      BY <1>2, <3>1
  <2>2. cur' \in Seq(Nat) /\ Len(cur') >= 3
    <3>1. id \in Seq(Nat) /\ (Len(id) = 3 \/ Len(id) > 3)
      BY <1>7 DEF Named, Made
    <3>2. \A m \in Nat : m = 3 \/ m > 3 => m >= 3
      BY ONLY SMT
    <3>3. Len(id) \in Nat
      BY <3>1
    <3> QED
      BY <1>5, <3>1, <3>2, <3>3
  <2> QED
    BY <1>1, <1>2, <2>1, <2>2 DEF Types, Distinct
<1>13. WalkInv'
  <2>2. /\ Position(in, LastOf(record)) # 0 /\ Ordered(in, Position(in, LastOf(record)))
        /\ \A i \in DOMAIN in : Visited(in[i].id) => i <= At
        /\ \A i \in 1 .. At : Seen(in, i)
    BY <1>1, <1>2 DEF WalkInv
  <2>3. ASSUME NEW i \in DOMAIN in, Visited(in[i].id) \/ in[i].id = id PROVE i <= n
    <3>1. i \in Nat /\ n \in Nat /\ At \in Nat /\ At <= n
      BY <1>3, <1>4, <1>4a
    <3>2. CASE Visited(in[i].id)
      BY <2>2, <3>1, <3>2
    <3>3. CASE in[i].id = id
      <4>1. i = n
        BY <1>3, <1>4b, <3>3 DEF Distinct
      <4> QED
        BY <3>1, <4>1
    <3> QED
      BY <2>3, <3>2, <3>3
  <2>4. ASSUME NEW i \in 1 .. n PROVE Seen(in, i)'
    <3>1. CASE i = n
      <4>1. Offered(in[n])'
        BY <1>2, <1>4b, <1>8 DEF Offered
      <4> QED
        BY <1>2, <3>1, <4>1 DEF Seen
    <3>2. CASE i # n
      <4>1. i \in 1 .. At
        BY <1>3, <1>4, <3>2
      <4>2. Seen(in, i)
        BY <2>2, <4>1
      <4> QED
        BY <1>2, <1>8, <1>8a, <4>2 DEF Seen, Offered, Visited
    <3> QED
      BY <3>1, <3>2
  <2>5. At' # 0 /\ Visited(cur)'
    <3>1. n # 0
      OBVIOUS
    <3>2. \E o \in offered' : o.id = cur'
      BY <1>5, <1>8a, Zenon
    <3> QED
      BY <1>5, <3>1, <3>2 DEF Visited
  <2>6. (\A i \in DOMAIN in : Visited(in[i].id) => i <= At)'
    BY <1>2, <1>5, <1>8a, <2>3 DEF Visited
  <2>7. (\A i \in 1 .. At : Seen(in, i))'
    BY <1>5, <2>4
  <2>8. (Position(in, LastOf(record)) # 0 /\ Ordered(in, Position(in, LastOf(record))))'
    BY <1>2, <2>2
  <2> QED
    BY <2>5, <2>6, <2>7, <2>8 DEF WalkInv
<1>14. OriginInv'
  BY <1>1, <1>2 DEF OriginInv
<1>15. DoneInv' /\ FreedOnlyByRewriting'
  BY <1>2 DEF DoneInv, FreedOnlyByRewriting
<1> QED
  BY <1>11, <1>12, <1>13, <1>14, <1>15 DEF Inv

LEMMA FinishInv ==
    ASSUME Inv, Finish
    PROVE  Inv'
<1>1. Types /\ IdsInv /\ WalkInv /\ OriginInv
  BY DEF Inv
<1>2. /\ phase = "convert" /\ phase' = "done" /\ At = Len(in) /\ fields' = FromCD(out)
      /\ UNCHANGED <<record, rules, in, out, cur, rule, canTag, canSub, offered>>
  BY DEF Finish
<1>3. Types'
  BY <1>1, <1>2 DEF Types, Distinct
<1>4. IdsInv'
  BY <1>1, <1>2 DEF IdsInv
<1>5. WalkInv'
  BY <1>1, <1>2 DEF WalkInv, At, Visited, Seen, Offered
<1>6. OriginInv'
  BY <1>1, <1>2 DEF OriginInv
<1>7. DoneInv' /\ FreedOnlyByRewriting'
  BY <1>2 DEF DoneInv, FreedOnlyByRewriting, At
<1> QED
  BY <1>3, <1>4, <1>5, <1>6, <1>7 DEF Inv

LEMMA NextInv ==
    ASSUME Inv, [Next]_vars
    PROVE  Inv'
<1>1. CASE Next
  BY <1>1, SkipInv, ApplyToOutputInv, ApplyToInputInv, NextFieldInv, FinishInv DEF Next
<1>2. CASE UNCHANGED vars
  BY <1>2 DEF vars, Inv, Types, Distinct, IdsInv, WalkInv, At, Visited, Seen, Offered,
              OriginInv, DoneInv, FreedOnlyByRewriting
<1> QED
  BY <1>1, <1>2

\* The induction: the walk of ConvertInFieldOrder over a list that its own
\* rules lengthen, sort and shorten.
THEOREM InvAlways == Spec => []Inv
<1>1. Init => Inv
  BY InitInv
<1>2. Inv /\ [Next]_vars => Inv'
  BY NextInv
<1> QED
  BY <1>1, <1>2, PTL DEF Spec

\* Type correctness. The CDs of either list are told apart by their ids, and
\* the CD in process is on the input list until the conversion is over or has
\* deleted it.
THEOREM TypeCorrect == Spec => []TypeOK
<1>1. Inv => TypeOK
  <2> SUFFICES ASSUME Inv PROVE TypeOK
    OBVIOUS
  <2>1. Types /\ WalkInv
    BY DEF Inv
  <2>2. phase # "freed" => At # 0
    BY <2>1 DEF WalkInv
  <2> QED
    BY <2>1, <2>2 DEF TypeOK, Types, Distinct
<1> QED
  BY <1>1, InvAlways, PTL

\* No CD is passed over: when the walk has ended, a text that no rule saw was
\* written, by a CD that was offered, to a place the walk had been at.
THEOREM UnseenTextsBehind == Spec => []UnseenOnlyBehind
<1>1. Inv => UnseenOnlyBehind
  <2> SUFFICES ASSUME Inv, Done, NEW i \in DOMAIN in
               PROVE  Seen(in, i)
    BY DEF UnseenOnlyBehind, Seen
  <2>1. phase # "freed" /\ At = Len(in) /\ WalkInv /\ DOMAIN in = 1 .. Len(in)
    BY DEF Inv, DoneInv, Done, Types
  <2> QED
    BY <2>1 DEF WalkInv
<1> QED
  BY <1>1, InvAlways, PTL

\* When the conversion deletes a CD it needs, the table has a rule with "<"
\* for a whole field that it also reads from, or that the record came with.
THEOREM FreedByRewriting == Spec => []FreedOnlyByRewriting
<1>1. Inv => FreedOnlyByRewriting
  BY DEF Inv
<1> QED
  BY <1>1, InvAlways, PTL

\* However a rule sorts the list, the walk goes on to a CD it was never at.
THEOREM WalkNeverBack == Spec => NeverBack
<1>1. Inv /\ [Next]_vars => [cur' # cur => \A o \in offered : o.id # cur']_vars
  <2> SUFFICES ASSUME Inv, Next, cur' # cur, NEW o \in offered
               PROVE  o.id # cur'
    BY DEF vars
  <2>1. Types /\ WalkInv
    BY DEF Inv
  <2>2. NextField
    BY DEF Next, SkipRule, SkipGroup, ApplyToOutput, ApplyToInput, Finish
  <2>3. phase = "convert" /\ cur' = in[At + 1].id /\ At < Len(in)
    BY <2>2 DEF NextField
  <2>4. At \in 1 .. Len(in) /\ Len(in) \in Nat /\ DOMAIN in = 1 .. Len(in)
    BY <2>1, <2>3, AtIs DEF Types
  <2>5. At + 1 \in DOMAIN in /\ ~(At + 1 <= At)
    BY <2>3, <2>4
  <2>6. ~Visited(in[At + 1].id)
    BY <2>1, <2>3, <2>5 DEF WalkInv
  <2> QED
    BY <2>3, <2>6 DEF Visited
<1> QED
  BY <1>1, InvAlways, PTL DEF Spec, NeverBack

-----------------------------------------------------------------------------
(* The output record                                                       *)

\* Between two CDs of a field, in an ordered list, are only CDs of it.
LEMMA Between ==
    ASSUME NEW b \in CDs, NEW c \in CDs, NEW d \in CDs,
           ~IsLess(c, b), ~IsLess(d, c), SameField(b, d)
    PROVE  SameField(c, d) /\ SameField(c, b)
<1>1. /\ b.tag \in Nat /\ c.tag \in Nat /\ d.tag \in Nat
      /\ b.nt \in Nat /\ c.nt \in Nat /\ d.nt \in Nat
  BY DEF CDs
<1> QED
  BY <1>1 DEF IsLess, SameField

\* A list in order: the CDs of a field stand together.
InField(l) == \A j, k \in 1 .. Len(l) : j < k => ~IsLess(l[k], l[j])

LEMMA Together ==
    ASSUME NEW l \in Seq(CDs), InField(l), NEW i \in 1 .. Len(l), NEW k \in 1 .. Len(l),
           SameField(l[i], l[k]), NEW j \in i .. k
    PROVE  j \in 1 .. Len(l) /\ SameField(l[j], l[i]) /\ SameField(l[j], l[k])
<1>1. j \in 1 .. Len(l) /\ i <= j /\ j <= k
  OBVIOUS
<1>2. l[i] \in CDs /\ l[j] \in CDs /\ l[k] \in CDs
  BY <1>1
<1>3. CASE j = i \/ j = k
  BY <1>3 DEF SameField
<1>4. CASE i < j /\ j < k
  <2>1. ~IsLess(l[j], l[i]) /\ ~IsLess(l[k], l[j])
    BY <1>1, <1>4 DEF InField
  <2> QED
    BY <1>1, <1>2, <2>1, Between
<1>5. j = i \/ j = k \/ (i < j /\ j < k)
  BY <1>1
<1> QED
  BY <1>1, <1>3, <1>4, <1>5

\* A field begins once.
LEMMA FirstIsOne ==
    ASSUME NEW l \in Seq(CDs), InField(l), NEW i \in 1 .. Len(l), NEW k \in 1 .. Len(l),
           i < k, FirstOfField(l, k)
    PROVE  ~SameField(l[i], l[k])
<1> SUFFICES ASSUME SameField(l[i], l[k]) PROVE FALSE
  OBVIOUS
<1>1. k - 1 \in i .. k /\ k > 1
  OBVIOUS
<1>2. SameField(l[k - 1], l[k])
  BY <1>1, Together
<1> QED
  BY <1>1, <1>2 DEF FirstOfField

\* Every CD belongs to a field that begins at or before it.
LEMMA StartOf ==
    ASSUME NEW l \in Seq(CDs), InField(l), NEW m \in 1 .. Len(l)
    PROVE  \E i \in 1 .. m : FirstOfField(l, i) /\ SameField(l[i], l[m])
<1> DEFINE T == {i \in 1 .. m : SameField(l[i], l[m])}
<1>1. T \subseteq Nat /\ T # {}
  <2>1. m \in T
    BY DEF SameField
  <2> QED
    BY <2>1
<1>2. PICK i \in T : \A j \in T : i <= j
  <2> HIDE DEF T
  <2> QED
    BY <1>1, Least
<1>3. FirstOfField(l, i)
  <2> SUFFICES ASSUME i > 1, SameField(l[i - 1], l[i]) PROVE FALSE
    BY DEF FirstOfField
  <2>1. i - 1 \in T
    BY DEF SameField
  <2> QED
    BY <1>2, <2>1
<1> QED
  BY <1>3

\* The field that begins at i has all the CDs of it that follow.
LEMMA PartFound ==
    ASSUME NEW l \in Seq(CDs), InField(l), NEW m \in 1 .. Len(l), NEW i \in 1 .. m,
           SameField(l[i], l[m]), l[m].sub \notin Indicators
    PROVE  \E a \in DOMAIN WholeField(l, i) : WholeField(l, i)[a] = l[m]
<1> DEFINE T == {j \in i .. Len(l) : ~SameField(l[j], l[i])}
           end == IF T # {} THEN Min(T) ELSE 0
           I == {j \in i .. (IF end = 0 THEN Len(l) ELSE end - 1) : l[j].sub \notin Indicators}
           w == Picked(l, I)
<1>1. WholeField(l, i) = w
  BY Zenon DEF WholeField, SelectInSubSeq
<1>2. \A j \in T : j \in Nat /\ m < j
  <2> SUFFICES ASSUME NEW j \in i .. Len(l), ~SameField(l[j], l[i]) PROVE j \in Nat /\ m < j
    OBVIOUS
  <2>1. j <= m => j \in i .. m
    OBVIOUS
  <2>2. j \in i .. m => SameField(l[j], l[i])
    BY Together
  <2> QED
    BY <2>1, <2>2
<1> HIDE DEF T
<1>3. end # 0 => end \in Nat /\ m < end
  <2>1. T # {} => end \in T
    <3>1. T \subseteq Nat
      BY <1>2
    <3> QED
      BY <3>1, LeastIs, Zenon
  <2>2. end # 0 => end \in T
    BY <2>1, Zenon
  <2> HIDE DEF end
  <2> QED
    BY <1>2, <2>2
<1> HIDE DEF end
<1>4. m \in I
  BY <1>3
<1> HIDE DEF I
<1>5. w \in Seq(CDs) /\ Selected(w, l, I, Len(l))
  BY PickedIs
<1> HIDE DEF w
<1>6. PICK place \in [1 .. Len(w) -> I \cap (1 .. Len(l))] : Selects(place, w, l, I, Len(l))
  BY <1>5 DEF Selected
<1>7. m \in I \cap (1 .. Len(l))
  BY <1>4
<1>8. PICK a \in 1 .. Len(w) : place[a] = m
  BY <1>6, <1>7 DEF Selects
<1>9. w[a] = l[m] /\ a \in DOMAIN w
  BY <1>5, <1>6, <1>8 DEF Selects
<1> QED
  BY <1>1, <1>9

HasText(f) == \E k \in DOMAIN f.parts : f.parts[k].sub # "" \/ f.parts[k].text # <<>>

\* What FromCD makes of the CDs of a field bears its tag and occurrence.
LEMMA FieldAtIs ==
    ASSUME NEW l, NEW i
    PROVE  /\ SameField(FieldAt(l, i), l[i])
           /\ \A c : SameField(FieldAt(l, i), c) <=> SameField(l[i], c)
           /\ DOMAIN FieldAt(l, i).parts = DOMAIN WholeField(l, i)
           /\ \A k \in DOMAIN WholeField(l, i) : FieldAt(l, i).parts[k] =
                [sub |-> WholeField(l, i)[k].sub, text |-> WholeField(l, i)[k].text]
BY DEF FieldAt, SameField

\* What FromCD makes of a sorted list.
LEMMA Rebuilt ==
    ASSUME NEW list \in Seq(CDs), InField(list), NEW made, NEW I,
           I = {i \in DOMAIN list : /\ list[i].tag # 0
                                    /\ FirstOfField(list, i)
                                    /\ HasText(FieldAt(list, i))},
           made = Picked([i \in DOMAIN list |-> FieldAt(list, i)], I)
    PROVE  /\ \A i, j \in DOMAIN made : SameField(made[i], made[j]) => i = j
           /\ \A m \in 1 .. Len(list) :
                list[m].tag # 0 /\ list[m].sub \notin Indicators /\ list[m].text # <<>> =>
                  \E a \in DOMAIN made :
                     /\ SameField(made[a], list[m])
                     /\ [sub |-> list[m].sub, text |-> list[m].text] \in ToSet(made[a].parts)
<1> DEFINE n == Len(list)
           F(i) == FieldAt(list, i)
           all == [i \in DOMAIN list |-> F(i)]
           S == {F(i) : i \in 1 .. n}
<1>1. n \in Nat /\ DOMAIN list = 1 .. n
  OBVIOUS
<1>2. all \in Seq(S) /\ Len(all) = n /\ \A i \in 1 .. n : all[i] = F(i)
  <2> HIDE DEF F, n
  <2>1. all \in [1 .. n -> S]
    BY <1>1
  <2> QED
    BY <1>1, <2>1
<1>3. made = Picked(all, I)
  OBVIOUS
<1> HIDE DEF all, S
<1>4. made \in Seq(S) /\ Selected(made, all, I, n)
  BY <1>2, <1>3, PickedIs
<1>5. PICK place \in [1 .. Len(made) -> I \cap (1 .. n)] : Selects(place, made, all, I, n)
  BY <1>2, <1>4 DEF Selected
<1>6. DOMAIN made = 1 .. Len(made) /\ Len(made) \in Nat
  BY <1>4
<1>7. ASSUME NEW a \in 1 .. Len(made)
      PROVE  place[a] \in 1 .. n /\ made[a] = F(place[a]) /\ FirstOfField(list, place[a])
  <2>1. place[a] \in I \cap (1 .. n) /\ made[a] = all[place[a]]
    BY <1>5 DEF Selects
  <2>2. \A i \in I : FirstOfField(list, i)
    BY Zenon
  <2> QED
    BY <1>2, <2>1, <2>2
<1>8. ASSUME NEW a \in 1 .. Len(made), NEW b \in 1 .. Len(made), a < b
      PROVE  ~SameField(made[a], made[b]) /\ ~SameField(made[b], made[a])
  <2>1. place[a] < place[b]
    BY <1>5, <1>8 DEF Selects
  <2>2. ~SameField(list[place[a]], list[place[b]])
    BY <1>7, <2>1, FirstIsOne
  <2>3. made[a] = F(place[a]) /\ made[b] = F(place[b])
    BY <1>7
  <2>4. F(place[a]).tag = list[place[a]].tag /\ F(place[a]).nt = list[place[a]].nt
    BY FieldAtIs DEF SameField
  <2>5. F(place[b]).tag = list[place[b]].tag /\ F(place[b]).nt = list[place[b]].nt
    BY FieldAtIs DEF SameField
  <2> QED
    BY <2>2, <2>3, <2>4, <2>5 DEF SameField
<1>9. \A i, j \in DOMAIN made : SameField(made[i], made[j]) => i = j
  <2> SUFFICES ASSUME NEW i \in 1 .. Len(made), NEW j \in 1 .. Len(made), SameField(made[i], made[j])
               PROVE  i = j
    BY <1>6, SMTT(60)
  <2>1. ~(i < j) /\ ~(j < i)
    BY <1>8
  <2>2. i \in Nat /\ j \in Nat
    BY <1>6
  <2> QED
    BY ONLY <2>1, <2>2
<1>10. ASSUME NEW m \in 1 .. n,
              list[m].tag # 0, list[m].sub \notin Indicators, list[m].text # <<>>
       PROVE  \E a \in DOMAIN made :
                 /\ SameField(made[a], list[m])
                 /\ [sub |-> list[m].sub, text |-> list[m].text] \in ToSet(made[a].parts)
  <2>1. PICK i \in 1 .. m : FirstOfField(list, i) /\ SameField(list[i], list[m])
    BY StartOf
  <2>2. PICK k \in DOMAIN WholeField(list, i) : WholeField(list, i)[k] = list[m]
    BY <1>10, <2>1, PartFound
  <2> DEFINE p == [sub |-> list[m].sub, text |-> list[m].text]
  <2>3. k \in DOMAIN F(i).parts /\ F(i).parts[k] = p
    BY <2>2, FieldAtIs
  <2>4. p.text # <<>>
    BY <1>10
  <2>5. i \in 1 .. n /\ list[i].tag # 0 /\ SameField(F(i), list[m])
    <3>1. i \in 1 .. n
      BY <1>1
    <3> QED
      BY <1>10, <2>1, <3>1, FieldAtIs DEF SameField
  <2> HIDE DEF p, F
  <2>6. HasText(F(i))
    BY <2>3, <2>4, Zenon DEF HasText
  <2>7. i \in I
    BY <1>1, <2>1, <2>5, <2>6, Zenon DEF F
  <2>8. PICK a \in 1 .. Len(made) : place[a] = i
    <3>1. i \in I \cap (1 .. n)
      BY <2>5, <2>7
    <3> QED
      BY <1>5, <3>1 DEF Selects
  <2>9. made[a] = F(i)
    BY <1>7, <2>8
  <2>10. p \in ToSet(made[a].parts)
    BY <2>3, <2>9 DEF ToSet
  <2> QED
    BY <1>6, <2>5, <2>9, <2>10 DEF p
<1> QED
  BY <1>9, <1>10

\* The output record, sorted, has every field the rules wrote to once and whole.
THEOREM FieldsTogether == Spec => []FieldsRebuilt
<1>1. Inv => FieldsRebuilt
  <2> SUFFICES ASSUME Inv, Done, SortRecord PROVE
         /\ \A i, j \in DOMAIN fields : SameField(fields[i], fields[j]) => i = j
         /\ \A c \in ToSet(out) : c.tag # 0 /\ c.sub \notin Indicators /\ c.text # <<>> =>
              \E f \in ToSet(fields) :
                 SameField(f, c) /\ [sub |-> c.sub, text |-> c.text] \in ToSet(f.parts)
    BY DEF FieldsRebuilt
  <2>1. fields = FromCD(out) /\ out \in Seq(CDs) /\ Distinct(out)
    BY DEF Inv, DoneInv, Done, Types
  <2> DEFINE list == PartialSort(out, 1)
             I == {i \in DOMAIN list : /\ list[i].tag # 0
                                       /\ FirstOfField(list, i)
                                       /\ HasText(FieldAt(list, i))}
  <2>2. fields = Picked([i \in DOMAIN list |-> FieldAt(list, i)], I)
    BY <2>1, Zenon DEF FromCD, HasText
  <2>3. PICK one \in Nat : one = 1
    OBVIOUS
  <2>4. list = PartialSort(out, one)
    BY <2>3
  <2> HIDE DEF list
  <2>5. list \in Seq(CDs) /\ Sorted(list, out, one, Len(out))
    <3>1. 1 <= one
      BY <2>3
    <3> QED
      BY <2>1, <2>4, <3>1, PartialSortIs
  <2>6. \A a \in 1 .. Len(out) : \E m \in 1 .. Len(list) : list[m] = out[a]
    BY <2>1, <2>5, SortedKeeps
  <2>7. InField(list)
    <3>1. Ordered(list, one - 1)
      BY <2>5 DEF Sorted
    <3>2. one - 1 = 0 /\ \A j \in 1 .. Len(list) : 0 < j
      BY <2>3
    <3> QED
      BY <3>1, <3>2 DEF Ordered, InOrder, InField
  <2>8. PICK J : J = I
    OBVIOUS
  <2>9. /\ \A i, j \in DOMAIN fields : SameField(fields[i], fields[j]) => i = j
        /\ \A m \in 1 .. Len(list) :
             list[m].tag # 0 /\ list[m].sub \notin Indicators /\ list[m].text # <<>> =>
               \E a \in DOMAIN fields :
                  /\ SameField(fields[a], list[m])
                  /\ [sub |-> list[m].sub, text |-> list[m].text] \in ToSet(fields[a].parts)
    BY <2>2, <2>5, <2>7, <2>8, Rebuilt
  <2>10. ASSUME NEW c \in ToSet(out), c.tag # 0, c.sub \notin Indicators, c.text # <<>>
         PROVE  \E f \in ToSet(fields) :
                   SameField(f, c) /\ [sub |-> c.sub, text |-> c.text] \in ToSet(f.parts)
    <3>1. PICK a \in 1 .. Len(out) : out[a] = c
      BY <2>1 DEF ToSet
    <3>2. PICK m \in 1 .. Len(list) : list[m] = c
      BY <2>6, <3>1
    <3>3. PICK b \in DOMAIN fields :
             /\ SameField(fields[b], c)
             /\ [sub |-> c.sub, text |-> c.text] \in ToSet(fields[b].parts)
      BY <2>9, <2>10, <3>2
    <3>4. fields[b] \in ToSet(fields)
      BY DEF ToSet
    <3> QED
      BY <3>3, <3>4, Zenon
  <2> QED
    BY <2>9, <2>10
<1> QED
  BY <1>1, InvAlways, PTL

-----------------------------------------------------------------------------
(* The elements of a list that are in a set                                *)

\* Two lists of the same numbers, each in order, are one.
Rising(f, m, X) ==
    /\ \A a \in 1 .. m : f[a] \in X
    /\ \A a, b \in 1 .. m : a < b => f[a] < f[b]
    /\ \A x \in X : \E a \in 1 .. m : f[a] = x

Agree(f, g, m, k) == m <= k /\ \A a \in 1 .. m : f[a] = g[a]

\* Of two lists of the same numbers, the first is not longer and has the
\* same.
LEMMA RisingBelow ==
    ASSUME NEW X, X \subseteq Nat, NEW m \in Nat, NEW k \in Nat, NEW f, NEW g,
           Rising(f, m, X), Rising(g, k, X)
    PROVE  Agree(f, g, m, k)
<1> DEFINE T == {a \in 1 .. m : a > k \/ f[a] # g[a]}
<1> SUFFICES T = {}
  <2>1. ASSUME T = {} PROVE Agree(f, g, m, k)
    <3>1. \A a \in 1 .. m : a <= k /\ f[a] = g[a]
      BY <2>1
    <3> QED
      BY <3>1 DEF Agree
  <2> QED
    BY <2>1
<1>1. ASSUME NEW a \in T, \A b \in T : a <= b PROVE FALSE
  <2>1. a \in 1 .. m /\ (a > k \/ f[a] # g[a]) /\ f[a] \in X /\ f[a] \in Nat
    BY DEF Rising
  <2>2. ASSUME NEW b \in 1 .. m, b < a PROVE b \in 1 .. k /\ f[b] = g[b]
    <3>1. b \notin T
      BY <1>1, <2>1, <2>2
    <3> QED
      BY <3>1
  <2>3. PICK c \in 1 .. k : g[c] = f[a]
    BY <2>1 DEF Rising
  <2>4. ~(c < a)
    <3> SUFFICES ASSUME c < a PROVE FALSE
      OBVIOUS
    <3>1. c \in 1 .. m
      BY <2>1
    <3>2. f[c] = f[a] /\ f[c] < f[a] /\ f[c] \in Nat
      BY <2>1, <2>2, <2>3, <3>1 DEF Rising
    <3> QED
      BY <2>1, <3>2
  <2>5. a \in 1 .. k /\ f[a] # g[a] /\ g[a] \in X /\ g[a] \in Nat
    <3>1. a \in 1 .. k
      BY <2>1, <2>4
    <3>2. g[a] \in X /\ g[a] \in Nat
      BY <3>1 DEF Rising
    <3>3. f[a] # g[a]
      BY <2>1, <3>1
    <3> QED
      BY <3>1, <3>2, <3>3
  <2>6. a < c /\ g[a] < f[a]
    <3>1. c # a
      BY <2>3, <2>5
    <3>2. a < c
      BY <2>1, <2>4, <3>1
    <3> QED
      BY <2>3, <2>5, <3>2 DEF Rising
  <2>7. PICK d \in 1 .. m : f[d] = g[a]
    BY <2>5 DEF Rising
  <2>8. d < a
    <3>1. ~(a < d) /\ d # a
      <4>1. a < d => f[a] < f[d]
        BY <2>1 DEF Rising
      <4> QED
        BY <2>1, <2>5, <2>6, <2>7, <4>1
    <3> QED
      BY <2>1, <3>1
  <2>9. d \in 1 .. k /\ g[d] = g[a]
    BY <2>2, <2>7, <2>8
  <2>10. g[d] < g[a]
    BY <2>5, <2>8, <2>9 DEF Rising
  <2> QED
    BY <2>5, <2>9, <2>10
<1> QED
  <2>1. T \subseteq Nat
    OBVIOUS
  <2> HIDE DEF T
  <2> QED
    BY <1>1, <2>1, Least

\* What is selected by a set of places is selected in one way.
LEMMA SameSelection ==
    ASSUME NEW S, NEW p \in Seq(S), NEW q \in Seq(S), NEW s, NEW I, NEW n \in Nat,
           NEW f, Selects(f, p, s, I, n), NEW g, Selects(g, q, s, I, n)
    PROVE  p = q
<1> DEFINE X == I \cap (1 .. n)
<1>1. Len(p) \in Nat /\ Len(q) \in Nat /\ X \subseteq Nat
  OBVIOUS
<1>2. Rising(f, Len(p), X) /\ Rising(g, Len(q), X)
  BY DEF Selects, Rising
<1> HIDE DEF X
<1>3a. Agree(f, g, Len(p), Len(q))
  BY <1>1, <1>2, RisingBelow, Zenon
<1>3b. Agree(g, f, Len(q), Len(p))
  BY <1>1, <1>2, RisingBelow, Zenon
<1>3. Len(p) <= Len(q) /\ Len(q) <= Len(p) /\ \A a \in 1 .. Len(p) : f[a] = g[a]
  BY <1>3a, <1>3b DEF Agree
<1>4. Len(p) = Len(q)
  BY <1>1, <1>3
<1>5. \A a \in 1 .. Len(p) : p[a] = q[a]
  BY <1>3, <1>4 DEF Selects
<1> QED
  BY <1>4, <1>5

\* The elements of l that are in A, in their order.
Of(l, A) == Picked(l, {i \in DOMAIN l : l[i] \in A})

\* Of(l, A) selects the elements of l that are in A.
LEMMA OfIs ==
    ASSUME NEW S, NEW l \in Seq(S), NEW A
    PROVE  /\ Of(l, A) \in Seq(S) /\ Len(Of(l, A)) \in Nat
           /\ \E f : Selects(f, Of(l, A), l, {i \in DOMAIN l : l[i] \in A}, Len(l))
           /\ \A e : e \in ToSet(Of(l, A)) <=> e \in A /\ e \in ToSet(l)
<1> DEFINE I == {i \in DOMAIN l : l[i] \in A}
           p == Picked(l, I)
<1>1. p \in Seq(S) /\ Selected(p, l, I, Len(l)) /\ Of(l, A) = p
  BY PickedIs DEF Of
<1>2. DOMAIN l = 1 .. Len(l) /\ \A i : i \in I \cap (1 .. Len(l)) <=> i \in DOMAIN l /\ l[i] \in A
  OBVIOUS
<1> HIDE DEF I, p
<1>3. PICK f : Selects(f, p, l, I, Len(l))
  BY <1>1 DEF Selected
<1>4. \A a \in 1 .. Len(p) : p[a] = l[f[a]] /\ f[a] \in I \cap (1 .. Len(l))
  BY <1>3 DEF Selects
<1>5. DOMAIN p = 1 .. Len(p) /\ Len(p) \in Nat
  BY <1>1
<1>6. ASSUME NEW e \in ToSet(p) PROVE e \in A /\ e \in ToSet(l)
  <2>1. PICK a \in 1 .. Len(p) : p[a] = e
    BY <1>5 DEF ToSet
  <2> QED
    BY <1>2, <1>4, <2>1 DEF ToSet
<1>7. ASSUME NEW e \in ToSet(l), e \in A PROVE e \in ToSet(p)
  <2>1. PICK i \in DOMAIN l : l[i] = e
    BY DEF ToSet
  <2>2. i \in I \cap (1 .. Len(l))
    BY <1>2, <1>7, <2>1
  <2>3. PICK a \in 1 .. Len(p) : f[a] = i
    BY <1>3, <2>2 DEF Selects
  <2>4. p[a] = e /\ a \in DOMAIN p
    BY <1>4, <1>5, <2>1, <2>3
  <2> QED
    BY <2>4 DEF ToSet
<1> QED
  BY <1>1, <1>3, <1>5, <1>6, <1>7 DEF I

\* o tells where the elements of t that are in A were in l.
Same(o, t, l, A) ==
    /\ \A a \in 1 .. Len(t) : t[a] \in A => o[a] \in 1 .. Len(l) /\ l[o[a]] = t[a]
    /\ \A a, b \in 1 .. Len(t) : t[a] \in A /\ t[b] \in A /\ a < b => o[a] < o[b]
    /\ \A i \in 1 .. Len(l) : l[i] \in A => \E a \in 1 .. Len(t) : t[a] \in A /\ o[a] = i

\* Two lists whose elements in A stand in the same order have one selection.
LEMMA OfSame ==
    ASSUME NEW S, NEW l \in Seq(S), NEW t \in Seq(S), NEW A, NEW o, Same(o, t, l, A)
    PROVE  Of(t, A) = Of(l, A)
<1> DEFINE p == Of(t, A)
           q == Of(l, A)
           I == {i \in DOMAIN l : l[i] \in A}
           J == {i \in DOMAIN t : t[i] \in A}
<1>1. p \in Seq(S) /\ q \in Seq(S) /\ Len(p) \in Nat
  BY OfIs
<1>2. PICK f : Selects(f, p, t, J, Len(t))
  BY OfIs
<1>3. PICK g : Selects(g, q, l, I, Len(l))
  BY OfIs
<1>4. /\ \A i : i \in I \cap (1 .. Len(l)) <=> i \in 1 .. Len(l) /\ l[i] \in A
      /\ \A i : i \in J \cap (1 .. Len(t)) <=> i \in 1 .. Len(t) /\ t[i] \in A
  OBVIOUS
<1> HIDE DEF p, q, I, J
<1> DEFINE h == [a \in 1 .. Len(p) |-> o[f[a]]]
<1>5. ASSUME NEW a \in 1 .. Len(p)
      PROVE  /\ f[a] \in 1 .. Len(t) /\ t[f[a]] \in A /\ p[a] = t[f[a]]
             /\ h[a] = o[f[a]] /\ h[a] \in I \cap (1 .. Len(l)) /\ p[a] = l[h[a]]
  <2>1. f[a] \in 1 .. Len(t) /\ t[f[a]] \in A /\ p[a] = t[f[a]]
    BY <1>2, <1>4 DEF Selects
  <2>2. o[f[a]] \in 1 .. Len(l) /\ l[o[f[a]]] = t[f[a]]
    BY <2>1 DEF Same
  <2> QED
    BY <1>4, <2>1, <2>2
<1>6. ASSUME NEW a \in 1 .. Len(p), NEW b \in 1 .. Len(p), a < b PROVE h[a] < h[b]
  <2>1. f[a] < f[b]
    BY <1>2, <1>6 DEF Selects
  <2> QED
    BY <1>5, <2>1 DEF Same
<1>7. ASSUME NEW i \in I \cap (1 .. Len(l)) PROVE \E a \in 1 .. Len(p) : h[a] = i
  <2>1. i \in 1 .. Len(l) /\ l[i] \in A
    BY <1>4
  <2>2. PICK b \in 1 .. Len(t) : t[b] \in A /\ o[b] = i
    BY <2>1 DEF Same
  <2>3. PICK a \in 1 .. Len(p) : f[a] = b
    BY <1>2, <1>4, <2>2 DEF Selects
  <2> QED
    BY <2>2, <2>3
<1>8. h \in [1 .. Len(p) -> I \cap (1 .. Len(l))]
  BY <1>5
<1> HIDE DEF h
<1>9. Selects(h, p, l, I, Len(l))
  BY <1>5, <1>6, <1>7, <1>8 DEF Selects
<1>10. Len(l) \in Nat
  OBVIOUS
<1>11. p = q
  BY <1>1, <1>3, <1>9, <1>10, SameSelection
<1> QED
  BY <1>11 DEF p, q

\* An element at the end is selected last.
LEMMA OfAppend ==
    ASSUME NEW S, NEW l \in Seq(S), NEW e \in S, NEW A
    PROVE  Of(Append(l, e), A) = IF e \in A THEN Append(Of(l, A), e) ELSE Of(l, A)
<1> DEFINE t == Append(l, e)
           n == Len(l)
<1>1. /\ t \in Seq(S) /\ n \in Nat /\ Len(t) = n + 1 /\ t[n + 1] = e
      /\ \A j \in 1 .. n : t[j] = l[j]
  BY Appended
<1> HIDE DEF t
<1>2. CASE e \notin A
  <2> DEFINE o == [a \in 1 .. n + 1 |-> a]
  <2>1. \A a \in 1 .. n + 1 : o[a] = a
    OBVIOUS
  <2> HIDE DEF o
  <2>2. \A a \in 1 .. n + 1 : t[a] \in A => a \in 1 .. n
    BY <1>1, <1>2
  <2>3. Same(o, t, l, A)
    <3>1. \A a \in 1 .. Len(t) : t[a] \in A => o[a] \in 1 .. Len(l) /\ l[o[a]] = t[a]
      BY <1>1, <2>1, <2>2
    <3>2. \A a, b \in 1 .. Len(t) : t[a] \in A /\ t[b] \in A /\ a < b => o[a] < o[b]
      BY <1>1, <2>1
    <3>3. \A i \in 1 .. Len(l) : i \in 1 .. Len(t) /\ o[i] = i /\ t[i] = l[i]
      BY <1>1, <2>1
    <3> QED
      BY <3>1, <3>2, <3>3 DEF Same
  <2>4. Of(t, A) = Of(l, A)
    BY <1>1, <2>3, OfSame
  <2> QED
    BY <1>2, <2>4 DEF t
<1>3. CASE e \in A
  <2> DEFINE q == Of(l, A)
             I == {i \in DOMAIN l : l[i] \in A}
             J == {i \in DOMAIN t : t[i] \in A}
             m == Len(q)
             p == Append(q, e)
  <2>1. q \in Seq(S) /\ m \in Nat
    BY OfIs
  <2>2. PICK g : Selects(g, q, l, I, n)
    BY OfIs
  <2>3. Of(t, A) \in Seq(S)
    BY <1>1, OfIs
  <2>4. PICK f : Selects(f, Of(t, A), t, J, Len(t))
    BY <1>1, OfIs
  <2>5. /\ \A i : i \in I \cap (1 .. n) <=> i \in 1 .. n /\ l[i] \in A
        /\ \A i : i \in J \cap (1 .. n + 1) <=> i \in 1 .. n + 1 /\ t[i] \in A
    BY <1>1
  <2>6. p \in Seq(S) /\ Len(p) = m + 1 /\ p[m + 1] = e /\ \A j \in 1 .. m : p[j] = q[j]
    BY <2>1, Appended
  <2> HIDE DEF q, I, J, p, m
  <2>m. m = Len(q)
    BY DEF m
  <2> DEFINE h == [a \in 1 .. m + 1 |-> IF a = m + 1 THEN n + 1 ELSE g[a]]
  <2>7. h[m + 1] = n + 1 /\ \A a \in 1 .. m : h[a] = g[a]
    BY <2>1
  <2>8. ASSUME NEW a \in 1 .. m PROVE h[a] \in J /\ h[a] \in 1 .. n /\ p[a] = t[h[a]]
    <3>1. g[a] \in 1 .. n /\ l[g[a]] \in A /\ q[a] = l[g[a]]
      BY <2>2, <2>5, <2>m DEF Selects
    <3>2. t[g[a]] = l[g[a]] /\ g[a] \in 1 .. n + 1
      BY <1>1, <3>1
    <3> QED
      BY <2>5, <2>6, <2>7, <3>1, <3>2
  <2>9. n + 1 \in J /\ n + 1 \in 1 .. n + 1
    BY <1>1, <1>3, <2>5
  <2>10. h \in [1 .. m + 1 -> J \cap (1 .. n + 1)]
    <3>1. ASSUME NEW a \in 1 .. m + 1 PROVE h[a] \in J \cap (1 .. n + 1)
      <4>1. CASE a = m + 1
        BY <2>7, <2>9, <4>1
      <4>2. CASE a \in 1 .. m
        <5>1. h[a] \in J /\ h[a] \in 1 .. n
          BY <2>8, <4>2
        <5>2. h[a] \in 1 .. n + 1
          BY <1>1, <5>1
        <5> QED
          BY <5>1, <5>2
      <4> QED
        BY <2>1, <4>1, <4>2
    <3>2. h = [a \in 1 .. m + 1 |-> h[a]]
      OBVIOUS
    <3> HIDE DEF h
    <3> QED
      BY <3>1, <3>2
  <2> HIDE DEF h
  <2>11. ASSUME NEW a \in 1 .. m + 1, NEW b \in 1 .. m + 1, a < b PROVE h[a] < h[b]
    <3>1. a \in 1 .. m
      BY <2>1, <2>11
    <3>2. CASE b = m + 1
      BY <1>1, <2>7, <2>8, <3>1, <3>2
    <3>3. CASE b \in 1 .. m
      <4>1. g[a] < g[b]
        BY <2>2, <2>11, <2>m, <3>1, <3>3 DEF Selects
      <4> QED
        BY <2>7, <3>1, <3>3, <4>1
    <3> QED
      BY <2>1, <3>2, <3>3
  <2>12. ASSUME NEW i \in J \cap (1 .. n + 1) PROVE \E a \in 1 .. m + 1 : h[a] = i
    <3>1. CASE i = n + 1
      BY <2>1, <2>7, <3>1
    <3>2. CASE i # n + 1
      <4>1. i \in 1 .. n /\ l[i] \in A
        BY <1>1, <2>5, <3>2
      <4>2. PICK a \in 1 .. m : g[a] = i
        BY <2>2, <2>5, <2>m, <4>1 DEF Selects
      <4> QED
        BY <2>1, <2>7, <4>2
    <3> QED
      BY <3>1, <3>2
  <2>13. \A a \in 1 .. m + 1 : p[a] = t[h[a]]
    BY <1>1, <2>1, <2>6, <2>7, <2>8
  <2>14. Selects(h, p, t, J, Len(t))
    BY <1>1, <2>6, <2>10, <2>11, <2>12, <2>13 DEF Selects
  <2>15. Len(t) \in Nat
    BY <1>1
  <2>16. Of(t, A) = p
    BY <2>3, <2>4, <2>6, <2>14, <2>15, SameSelection
  <2> QED
    BY <1>3, <2>16 DEF p, q, t
<1> QED
  BY <1>2, <1>3

\* A text put into a CD outside A changes nothing in A.
LEMMA OfPut ==
    ASSUME NEW l \in Seq(CDs), NEW i \in 1 .. Len(l), NEW c \in CDs, NEW A,
           l[i] \notin A, Written(l[i], c) \notin A
    PROVE  Of(PutAt(l, i, c), A) = Of(l, A)
<1> DEFINE t == PutAt(l, i, c)
           o == [a \in 1 .. Len(l) |-> a]
<1>1. /\ t \in Seq(CDs) /\ Len(t) = Len(l)
      /\ \A j \in 1 .. Len(l) : t[j] = IF j = i THEN Written(l[i], c) ELSE l[j]
  BY PutIs
<1>2. \A a \in 1 .. Len(l) : o[a] = a
  OBVIOUS
<1> HIDE DEF t, o
<1>3. \A a \in 1 .. Len(l) : (t[a] \in A <=> l[a] \in A) /\ (t[a] \in A => t[a] = l[a])
  BY <1>1
<1>4. Same(o, t, l, A)
  BY <1>1, <1>2, <1>3 DEF Same
<1> QED
  BY <1>1, <1>4, OfSame DEF t

\* Elements taken out that are not in A change nothing in A.
LEMMA OfPicked ==
    ASSUME NEW S, NEW l \in Seq(S), NEW J, NEW A, \A i \in DOMAIN l : l[i] \in A => i \in J
    PROVE  Of(Picked(l, J), A) = Of(l, A)
<1> DEFINE t == Picked(l, J)
<1>1. t \in Seq(S) /\ Selected(t, l, J, Len(l)) /\ DOMAIN l = 1 .. Len(l)
  BY PickedIs
<1> HIDE DEF t
<1>2. PICK o : Selects(o, t, l, J, Len(l))
  BY <1>1 DEF Selected
<1>3. \A a \in 1 .. Len(t) : o[a] \in 1 .. Len(l) /\ l[o[a]] = t[a]
  BY <1>2 DEF Selects
<1>4. \A a, b \in 1 .. Len(t) : a < b => o[a] < o[b]
  BY <1>2 DEF Selects
<1>5. ASSUME NEW i \in 1 .. Len(l), l[i] \in A PROVE \E a \in 1 .. Len(t) : t[a] \in A /\ o[a] = i
  <2>1. i \in J \cap (1 .. Len(l))
    BY <1>1, <1>5
  <2>2. PICK a \in 1 .. Len(t) : o[a] = i
    BY <1>2, <2>1 DEF Selects
  <2> QED
    BY <1>3, <1>5, <2>2
<1>6. Same(o, t, l, A)
  BY <1>3, <1>4, <1>5 DEF Same
<1> QED
  BY <1>1, <1>6, OfSame DEF t

\* Sorting keeps the order of those that are alike.
LEMMA OfSorted ==
    ASSUME NEW l \in Seq(CDs), NEW t \in Seq(CDs), NEW i \in Nat, 1 <= i, Sorted(t, l, i, Len(l)),
           NEW A, \A c, d \in A : ~IsLess(d, c)
    PROVE  Of(t, A) = Of(l, A)
<1> DEFINE n == Len(l)
<1>1. n \in Nat /\ Len(t) = n
  BY DEF Sorted
<1>2. PICK place \in [1 .. n -> 1 .. n] : Sorts(place, t, l, i, n)
  BY DEF Sorted
<1> HIDE DEF n
<1> DEFINE o == [m \in 1 .. n |-> CHOOSE a \in 1 .. n : place[a] = m]
<1>3. ASSUME NEW m \in 1 .. n PROVE o[m] \in 1 .. n /\ place[o[m]] = m /\ l[o[m]] = t[m]
  <2>1. \E a \in 1 .. n : place[a] = m
    BY <1>2 DEF Sorts
  <2>2. o[m] \in 1 .. n /\ place[o[m]] = m
    BY <2>1
  <2> HIDE DEF o
  <2> QED
    BY <1>2, <2>2 DEF Sorts
<1> HIDE DEF o
<1>4. ASSUME NEW a \in 1 .. n, NEW b \in 1 .. n, t[a] \in A, t[b] \in A, a < b PROVE o[a] < o[b]
  <2>1. /\ o[a] \in 1 .. n /\ o[b] \in 1 .. n /\ place[o[a]] = a /\ place[o[b]] = b
        /\ l[o[a]] = t[a] /\ l[o[b]] = t[b]
    BY <1>3
  <2>2. ~(o[b] < o[a])
    <3> SUFFICES ASSUME o[b] < o[a] PROVE FALSE
      OBVIOUS
    <3>1. ~IsLess(l[o[a]], l[o[b]])
      BY <1>4, <2>1
    <3>2. place[o[b]] < place[o[a]]
      BY <1>2, <2>1, <3>1 DEF Sorts
    <3> QED
      BY <1>4, <2>1, <3>2
  <2>3. o[a] # o[b]
    BY <1>4, <2>1
  <2> QED
    BY <2>1, <2>2, <2>3
<1>5. ASSUME NEW j \in 1 .. n, l[j] \in A PROVE \E a \in 1 .. n : t[a] \in A /\ o[a] = j
  <2>1. place[j] \in 1 .. n /\ t[place[j]] = l[j]
    BY <1>2 DEF Sorts
  <2>2. o[place[j]] = j
    <3>1. o[place[j]] \in 1 .. n /\ place[o[place[j]]] = place[j]
      BY <1>3, <2>1
    <3> QED
      BY <1>2, <3>1 DEF Sorts
  <2> QED
    BY <1>5, <2>1, <2>2
<1>6. Same(o, t, l, A)
  BY <1>1, <1>3, <1>4, <1>5 DEF Same, n
<1> QED
  BY <1>6, OfSame

-----------------------------------------------------------------------------
(* InsertCDLib, part by part                                               *)

LastOfTag(s, tag) == SelectLastInSeq(s, LAMBDA d : d.tag = tag)

\* The occurrence of the field that is written.
NtOf(s, h) == IF h.nt > 0 THEN h.nt
              ELSE IF LastOfTag(s, h.tag) = 0 THEN 1 ELSE s[LastOfTag(s, h.tag)].nt + 1

KeptBy(s, h) == IF h.sub = "" THEN Picked(s, {i \in DOMAIN s : ~Replaces(h, s[i])}) ELSE s

\* g tells how InsertCDLib makes its list.
Puts(g, s, h, parts) ==
    /\ g[0] = KeptBy(s, h)
    /\ \A k \in 1 .. Len(parts) : g[k] = InsertPart(g[k - 1], PartOf(h, parts[k], NtOf(s, h), k))
    /\ \A k \in 0 .. Len(parts) : g[k] \in Seq(CDs)
    /\ g[Len(parts)] = InsertCDLib(s, h, parts)

\* InsertPart makes a list of CDs.
LEMMA PartInserted ==
    ASSUME NEW l \in Seq(CDs), NEW c \in CDs
    PROVE  InsertPart(l, c) \in Seq(CDs)
<1>1. CASE \E i \in 1 .. Len(l) : InsertPart(l, c) = PutAt(l, i, c)
  BY <1>1, PutIs
<1>2. CASE InsertPart(l, c) = Append(l, Numbered(l, c))
  <2>1. Numbered(l, c) \in CDs
    BY NumberedIs
  <2> QED
    BY <1>2, <2>1, Appended
<1> QED
  BY <1>1, <1>2, InsertPartIs

\* InsertCDLib keeps what it does not replace, then puts in the parts.
LEMMA PutsOf ==
    ASSUME NEW s \in Seq(CDs), NEW h \in Heads, NEW parts \in Seq(Parts)
    PROVE  NtOf(s, h) \in Nat \ {0} /\ \E g : Puts(g, s, h, parts)
<1> DEFINE n == Len(parts)
           nt == NtOf(s, h)
           kept == KeptBy(s, h)
           Step(v, k) == InsertPart(v, PartOf(h, parts[k], nt, k))
           A == Seq(CDs)
           step == [k \in 1 .. n |-> [v \in A |-> Step(v, k)]]
           R(g) == g = [k \in 0 .. n |-> IF k = 0 THEN kept ELSE Step(g[k - 1], k)]
<1>0. n \in Nat
  OBVIOUS
<1>1. InsertCDLib(s, h, parts) = (CHOOSE g : R(g))[n]
  BY DEF InsertCDLib, PartOf, NtOf, KeptBy, LastOfTag
<1>1a. nt \in Nat \ {0}
  BY FieldNumber DEF NtOf, LastOfTag
<1>1b. kept \in A
  BY PickedIs DEF KeptBy
<1>1c. \A k \in 1 .. n : parts[k] \in Parts
  OBVIOUS
<1> HIDE DEF nt, kept
<1>2. ASSUME NEW k \in 1 .. n, NEW v \in A PROVE Step(v, k) \in A
  <2>1. k \in Nat /\ parts[k] \in Parts
    BY <1>0, <1>1c
  <2>2. PartOf(h, parts[k], nt, k) \in CDs
    BY <1>1a, <2>1, PartIs
  <2> QED
    BY <2>2, PartInserted
<1> HIDE DEF n, Step, A
<1>3. step \in [1 .. n -> [A -> A]]
  BY <1>2
<1>4. PICK g \in [0 .. n -> A] : IsFold(g, n, kept, step)
  <2> HIDE DEF step
  <2> QED
    BY <1>0, <1>1b, <1>3, FoldExists, Zenon
<1>7. R(g)
  <2>1. ASSUME NEW k \in 1 .. n PROVE g[k] = Step(g[k - 1], k)
    <3>1. g[k - 1] \in A
      BY <1>0
    <3>2. g[k] = step[k][g[k - 1]]
      BY <1>4 DEF IsFold
    <3> QED
      BY <3>1, <3>2
  <2>2. \A k \in 0 .. n : g[k] = IF k = 0 THEN kept ELSE Step(g[k - 1], k)
    BY <1>0, <1>4, <2>1 DEF IsFold
  <2> QED
    BY <2>2
<1> DEFINE f == CHOOSE f : R(f)
<1>8. R(f)
  BY <1>7
<1> HIDE DEF f
<1>9. f[0] = kept /\ \A k \in 1 .. n : f[k] = Step(f[k - 1], k)
  BY <1>0, <1>8
<1>10. \A k \in 0 .. n : f[k] \in A
  <2>1. \A k \in 1 .. n : f[k - 1] \in A => f[k] \in A
    BY <1>2, <1>9
  <2>2. f[0] \in A
    BY <1>1b, <1>9
  <2> QED
    BY <1>0, <2>1, <2>2, Reaches, Zenon
<1>11. f[n] = InsertCDLib(s, h, parts)
  BY <1>1 DEF f
<1>12. Puts(f, s, h, parts)
  BY <1>9, <1>10, <1>11, Zenon DEF Puts, n, Step, nt, kept, A
<1> QED
  BY <1>1a, <1>12 DEF nt

IsPart(c, h, p, nt) ==
    /\ c \in CDs /\ c.by = h.by /\ c.tag = h.tag /\ c.nt = nt
    /\ c.sub = p.sub /\ c.text = p.text
    /\ c.ns = IF h.sub = "" THEN 0 ELSE h.ns

\* A part written as the field or subfield h bears its tag and occurrence.
LEMMA PartFields ==
    ASSUME NEW h \in Heads, NEW p \in Parts, NEW nt \in Nat \ {0}, NEW k \in Nat
    PROVE  IsPart(PartOf(h, p, nt, k), h, p, nt)
<1> DEFINE ns == IF h.sub = "" THEN 0 ELSE h.ns
           id == Append(h.id, k)
           c == [h EXCEPT !.id = id, !.nt = nt, !.sub = p.sub, !.ns = ns, !.text = p.text]
<1>1. PartOf(h, p, nt, k) = c
  BY DEF PartOf, Heads
<1>2. PartOf(h, p, nt, k) \in CDs
  BY PartIs
<1>3. ns = IF h.sub = "" THEN 0 ELSE h.ns
  OBVIOUS
<1> HIDE DEF ns, id
<1>4. /\ c.by = h.by /\ c.tag = h.tag /\ c.nt = nt
      /\ c.sub = p.sub /\ c.text = p.text /\ c.ns = ns
  BY DEF Heads
<1> HIDE DEF c
<1> QED
  BY <1>1, <1>2, <1>3, <1>4 DEF IsPart

\* Numbered changes the occurrences n and ns only.
LEMMA NumberedSame ==
    ASSUME NEW l \in Seq(CDs), NEW c \in CDs
    PROVE  /\ Numbered(l, c) \in CDs /\ Numbered(l, c).by = c.by
           /\ Numbered(l, c).tag = c.tag /\ Numbered(l, c).nt = c.nt
           /\ Numbered(l, c).sub = c.sub /\ Numbered(l, c).text = c.text
<1>1. \A x, y : LET d == [c EXCEPT !.n = x, !.ns = y] IN d.sub = c.sub /\ d.text = c.text
  BY DEF CDs
<1>2. \E x, y : Numbered(l, c) = [c EXCEPT !.n = x, !.ns = y]
  BY DEF Numbered
<1>3. Numbered(l, c).sub = c.sub /\ Numbered(l, c).text = c.text
  BY <1>1, <1>2
<1> QED
  BY <1>3, NumberedIs

\* Where a part is written that is not new.
Found(l, c, i) ==
    /\ i \in 1 .. Len(l) /\ InsertPart(l, c) = PutAt(l, i, c)
    /\ l[i].tag = c.tag /\ l[i].nt = c.nt
    /\ c.sub # AnySub => l[i].sub = c.sub
    /\ c.sub # "" => c.ns # 0

\* InsertPart finds a CD of the same field and subfield, or appends.
LEMMA PartAt ==
    ASSUME NEW l \in Seq(CDs), NEW c \in CDs
    PROVE  \/ \E i : Found(l, c, i)
           \/ InsertPart(l, c) = Append(l, Numbered(l, c))
<1> DEFINE T == {j \in 1 .. Len(l) : IsEqual(l[j], c) /\ (c.sub = "" => l[j].sub = "")}
           p == IF T # {} THEN Min(T) ELSE 0
           i == IF c.sub = "" \/ c.ns # 0 THEN p ELSE 0
<1>1. InsertPart(l, c) = IF i # 0 THEN PutAt(l, i, c) ELSE Append(l, Numbered(l, c))
  BY DEF InsertPart, SelectInSeq, PutAt
<1>2. \A j \in T : j \in 1 .. Len(l) /\ IsEqual(l[j], c) /\ (c.sub = "" => l[j].sub = "")
  BY Zenon
<1> HIDE DEF T
<1>3. p # 0 => p \in T
  <2>1. T # {} => p \in T
    <3>0. \A j \in 1 .. Len(l) : j \in Nat
      OBVIOUS
    <3>1. T \subseteq Nat
      BY <1>2, <3>0, Zenon
    <3> QED
      BY <3>1, LeastIs, Zenon
  <2> QED
    BY <2>1, Zenon
<1>3a. i # 0 => i = p /\ (c.sub # "" => c.ns # 0)
  BY Zenon
<1> HIDE DEF p
<1>4. ASSUME i # 0 PROVE Found(l, c, i)
  <2>1. /\ i \in 1 .. Len(l) /\ IsEqual(l[i], c) /\ (c.sub = "" => l[i].sub = "")
        /\ (c.sub # "" => c.ns # 0)
    BY <1>2, <1>3, <1>3a, <1>4
  <2> HIDE DEF i
  <2>2. c.tag # AnyTag /\ c.nt > 0
    BY CDIs DEF AnyTag
  <2>3. l[i].tag = c.tag /\ l[i].nt = c.nt /\ (c.sub # "" => c.sub = l[i].sub \/ c.sub = AnySub)
    BY <2>1, <2>2 DEF IsEqual
  <2> QED
    BY <1>1, <1>4, <2>1, <2>3 DEF Found, AnySub
<1> QED
  BY <1>1, <1>4

\* l is s, and behind it CDs of a field for the parts ps.
Adds(l, s, tag, nt, by, ps) ==
    /\ l \in Seq(CDs) /\ Len(l) = Len(s) + Len(ps)
    /\ \A j \in 1 .. Len(s) : l[j] = s[j]
    /\ \A j \in 1 .. Len(ps) : LET e == l[Len(s) + j]
                               IN  /\ e.tag = tag /\ e.nt = nt /\ e.by = by
                                   /\ e.sub = ps[j].sub /\ e.text = ps[j].text

\* Parts that are not looked for, or not found, are added.
NewParts(s, h, parts) ==
    \/ (h.sub = "" \/ h.ns = 0) /\ \A j \in 1 .. Len(parts) : parts[j].sub # ""
    \/ /\ Len(parts) = 1 /\ parts[1].sub = ""
       /\ \A i \in 1 .. Len(KeptBy(s, h)) : LET d == KeptBy(s, h)[i]
                                            IN  d.tag = h.tag /\ d.nt = NtOf(s, h) => d.sub # ""

\* Parts that are not found come to the end, in their order.
LEMMA PartsAdded ==
    ASSUME NEW s \in Seq(CDs), NEW h \in Heads, NEW parts \in Seq(Parts), NewParts(s, h, parts)
    PROVE  Adds(InsertCDLib(s, h, parts), KeptBy(s, h), h.tag, NtOf(s, h), h.by, parts)
<1> DEFINE n == Len(parts)
           nt == NtOf(s, h)
           kept == KeptBy(s, h)
           P(k) == PartOf(h, parts[k], nt, k)
           q == Len(kept)
<1>0. n \in Nat /\ nt \in Nat \ {0} /\ \A k \in 1 .. n : parts[k] \in Parts /\ k \in Nat
  BY PutsOf
<1>1. PICK g : Puts(g, s, h, parts)
  BY PutsOf
<1>2. /\ g[0] = kept /\ g[n] = InsertCDLib(s, h, parts)
      /\ \A k \in 1 .. n : g[k] = InsertPart(g[k - 1], P(k))
      /\ \A k \in 0 .. n : g[k] \in Seq(CDs)
  BY <1>1 DEF Puts
<1>3. kept \in Seq(CDs) /\ q \in Nat
  <2>1. kept \in Seq(CDs)
    BY <1>0, <1>2
  <2> QED
    BY <2>1
<1>4. ASSUME NEW k \in 1 .. n
      PROVE  /\ P(k) \in CDs /\ P(k).by = h.by /\ P(k).tag = h.tag /\ P(k).nt = nt
             /\ P(k).sub = parts[k].sub /\ P(k).text = parts[k].text
             /\ P(k).ns = IF h.sub = "" THEN 0 ELSE h.ns
  <2>1. parts[k] \in Parts /\ k \in Nat
    BY <1>0
  <2>2. IsPart(P(k), h, parts[k], nt)
    BY <1>0, <2>1, PartFields
  <2> QED
    BY <2>2 DEF IsPart
<1>5. \/ (h.sub = "" \/ h.ns = 0) /\ \A j \in 1 .. n : parts[j].sub # ""
      \/ /\ n = 1 /\ parts[1].sub = ""
         /\ \A i \in 1 .. q : kept[i].tag = h.tag /\ kept[i].nt = nt => kept[i].sub # ""
  BY DEF NewParts
<1> HIDE DEF n, nt, kept, P, q
<1>6. ASSUME NEW k \in 1 .. n PROVE g[k] = Append(g[k - 1], Numbered(g[k - 1], P(k)))
  <2>1. g[k - 1] \in Seq(CDs)
    BY <1>0, <1>2
  <2>2. ASSUME NEW i, Found(g[k - 1], P(k), i) PROVE FALSE
    <3>1. CASE (h.sub = "" \/ h.ns = 0) /\ \A j \in 1 .. n : parts[j].sub # ""
      BY <1>4, <2>2, <3>1 DEF Found
    <3>2. CASE n = 1 /\ parts[1].sub = ""
               /\ \A j \in 1 .. q : kept[j].tag = h.tag /\ kept[j].nt = nt => kept[j].sub # ""
      <4>n. n = 1
        BY <3>2, Zenon
      <4>0. k = 1 /\ k - 1 = 0
        BY <4>n
      <4>1. k = 1 /\ g[k - 1] = kept
        BY <1>2, <4>0
      <4>2. P(k).sub = ""
        BY <1>4, <3>2, <4>1
      <4>3. i \in 1 .. q /\ kept[i].tag = h.tag /\ kept[i].nt = nt /\ kept[i].sub = ""
        BY <1>4, <2>2, <4>1, <4>2 DEF Found, q, AnySub
      <4> QED
        BY <3>2, <4>3
    <3> QED
      BY <1>5, <3>1, <3>2
  <2> QED
    BY <1>2, <1>4, <2>1, <2>2, PartAt
<1> DEFINE Good == {k \in 0 .. n :
               /\ Len(g[k]) = q + k
               /\ \A j \in 1 .. q : g[k][j] = kept[j]
               /\ \A j \in 1 .. k : LET e == g[k][q + j]
                                    IN  /\ e.tag = h.tag /\ e.nt = nt /\ e.by = h.by
                                        /\ e.sub = parts[j].sub /\ e.text = parts[j].text}
<1>7. 0 \in Good
  BY <1>0, <1>2, <1>3 DEF q
<1>8. ASSUME NEW k \in 1 .. n, k - 1 \in Good PROVE k \in Good
  <2> DEFINE l == g[k - 1]
             e == Numbered(g[k - 1], P(k))
             t == g[k]
  <2>0. k \in Nat /\ k \in 0 .. n
    BY <1>0
  <2>1. l \in Seq(CDs)
    BY <1>0, <1>2
  <2>2. e \in CDs /\ e.by = h.by /\ e.tag = h.tag /\ e.nt = nt /\ e.sub = parts[k].sub /\ e.text = parts[k].text
    <3>1. PICK c \in CDs : c = P(k)
      BY <1>4, Zenon
    <3>3. c.by = h.by /\ c.tag = h.tag /\ c.nt = nt /\ c.sub = parts[k].sub /\ c.text = parts[k].text
      BY <1>4, <3>1, Zenon
    <3>2. \A v \in Seq(CDs) :
             /\ Numbered(v, c) \in CDs /\ Numbered(v, c).by = c.by
             /\ Numbered(v, c).tag = c.tag /\ Numbered(v, c).nt = c.nt
             /\ Numbered(v, c).sub = c.sub /\ Numbered(v, c).text = c.text
      BY NumberedSame
    <3>4. e = Numbered(l, c)
      BY <3>1
    <3> HIDE DEF l, e
    <3> QED
      BY <2>1, <3>2, <3>3, <3>4, Zenon
  <2>3. t = Append(l, e)
    BY <1>6
  <2>4. /\ Len(l) = q + k - 1
        /\ \A j \in 1 .. q : l[j] = kept[j]
        /\ \A j \in 1 .. k - 1 : LET x == l[q + j]
                                 IN  /\ x.tag = h.tag /\ x.nt = nt /\ x.by = h.by
                                     /\ x.sub = parts[j].sub /\ x.text = parts[j].text
    BY <1>3, <1>8, <2>0
  <2> HIDE DEF l, e, t, Good
  <2>5. Len(t) = Len(l) + 1 /\ t[Len(l) + 1] = e /\ \A j \in 1 .. Len(l) : t[j] = l[j]
    BY <2>1, <2>2, <2>3, Appended
  <2>6. Len(t) = q + k /\ t[q + k] = e /\ \A j \in 1 .. q + k - 1 : t[j] = l[j]
    BY <1>3, <2>0, <2>4, <2>5
  <2>7. \A j \in 1 .. q : t[j] = kept[j]
    BY <1>3, <2>0, <2>4, <2>6
  <2>8. ASSUME NEW j \in 1 .. k
        PROVE  /\ t[q + j].tag = h.tag /\ t[q + j].nt = nt /\ t[q + j].by = h.by
               /\ t[q + j].sub = parts[j].sub /\ t[q + j].text = parts[j].text
    <3>1. CASE j = k
      BY <2>2, <2>6, <3>1
    <3>2. CASE j # k
      <4>1. j \in 1 .. k - 1 /\ q + j \in 1 .. q + k - 1
        BY <1>3, <2>0, <3>2
      <4> QED
        BY <2>4, <2>6, <4>1
    <3> QED
      BY <3>1, <3>2
  <2> QED
    BY <2>0, <2>6, <2>7, <2>8 DEF Good, t
<1>9. n \in Good
  <2> HIDE DEF Good
  <2>1. \A k \in 0 .. n : k \in Good
    BY <1>0, <1>7, <1>8, Induct
  <2> QED
    BY <1>0, <2>1
<1>10. g[n] \in Seq(CDs) /\ n \in Nat
  BY <1>0, <1>2
<1>11. Adds(g[n], kept, h.tag, nt, h.by, parts)
  BY <1>9, <1>10 DEF Adds, q, n
<1> QED
  BY <1>2, <1>11 DEF kept, nt

\* All of a list.
LEMMA PickedAll ==
    ASSUME NEW S, NEW s \in Seq(S), NEW I, DOMAIN s \subseteq I
    PROVE  Picked(s, I) = s
<1> DEFINE f == [a \in 1 .. Len(s) |-> a]
           t == Picked(s, I)
<1>1. t \in Seq(S) /\ Selected(t, s, I, Len(s))
  BY PickedIs
<1> HIDE DEF t
<1>2. PICK g : Selects(g, t, s, I, Len(s))
  BY <1>1 DEF Selected
<1>3. DOMAIN s = 1 .. Len(s) /\ Len(s) \in Nat
  OBVIOUS
<1>4. f \in [1 .. Len(s) -> I \cap (1 .. Len(s))] /\ \A a \in 1 .. Len(s) : f[a] = a
  BY <1>3
<1> HIDE DEF f
<1>5. Selects(f, s, s, I, Len(s))
  BY <1>3, <1>4 DEF Selects
<1>6. t = s
  BY <1>1, <1>2, <1>3, <1>5, SameSelection
<1> QED
  BY <1>6 DEF t

\* A selection of what was added, and of nothing else.
Behind(l, q, m, A) ==
    /\ Len(l) = q + m
    /\ \A j \in 1 .. q : l[j] \notin A
    /\ \A j \in 1 .. m : l[q + j] \in A

IsTail(t, l, q, m) == Len(t) = m /\ \A j \in 1 .. m : t[j] = l[q + j]

\* If all that follows the q-th is in A, and nothing before, it is what A
\* selects.
LEMMA OfAdds ==
    ASSUME NEW q \in Nat, NEW l \in Seq(CDs), NEW m \in Nat, NEW A, Behind(l, q, m, A)
    PROVE  IsTail(Of(l, A), l, q, m)
<1> USE DEF Behind
<1> DEFINE t == [j \in 1 .. m |-> l[q + j]]
           f == [j \in 1 .. m |-> q + j]
           I == {i \in DOMAIN l : l[i] \in A}
<1>1. q \in Nat /\ Len(l) = q + m
  OBVIOUS
<1>2. t \in Seq(CDs) /\ Len(t) = m /\ \A j \in 1 .. m : t[j] = l[q + j]
  <2>1. \A j \in 1 .. m : l[q + j] \in CDs
    BY <1>1
  <2> QED
    BY <2>1
<1>3. \A i : i \in I \cap (1 .. Len(l)) <=> i \in 1 .. q + m /\ l[i] \in A
  BY <1>1
<1>4. \A j \in 1 .. m : f[j] = q + j
  OBVIOUS
<1>5. /\ \A j \in 1 .. q : l[j] \notin A
      /\ \A j \in 1 .. m : l[q + j] \in A
  OBVIOUS
<1>6. f \in [1 .. m -> I \cap (1 .. Len(l))]
  <2>1. \A j \in 1 .. m : q + j \in I \cap (1 .. Len(l))
    BY <1>1, <1>3, <1>5
  <2> HIDE DEF I
  <2> QED
    BY <2>1
<1>7. ASSUME NEW i \in I \cap (1 .. Len(l)) PROVE \E j \in 1 .. m : f[j] = i
  <2>1. i \in 1 .. q + m /\ ~(i \in 1 .. q)
    BY <1>3, <1>5
  <2>2. i - q \in 1 .. m /\ q + (i - q) = i
    BY <1>1, <2>1
  <2> QED
    BY <1>4, <2>2
<1>8. \A a, b \in 1 .. m : a < b => f[a] < f[b]
  BY <1>1, <1>4
<1>9. \A j \in 1 .. m : t[j] = l[f[j]]
  BY <1>2, <1>4
<1>10. PICK g : Selects(g, Of(l, A), l, I, Len(l))
  BY OfIs
<1>11. Of(l, A) \in Seq(CDs) /\ Len(l) \in Nat
  BY OfIs
<1> HIDE DEF t, f, I
<1>12. Selects(f, t, l, I, Len(l))
  BY <1>2, <1>6, <1>7, <1>8, <1>9 DEF Selects
<1>13. Of(l, A) = t
  BY <1>2, <1>10, <1>11, <1>12, SameSelection
<1> QED
  BY <1>2, <1>13 DEF IsTail

\* What InsertCDLib leaves alone: CDs of other fields and, when an indicator
\* is written, what is not an indicator.
Elsewhere(A, h, nt, parts) ==
    \A c \in A :
        /\ c \in CDs
        /\ c.tag = h.tag /\ c.nt = nt =>
              /\ h.sub \in Indicators /\ c.sub \notin Indicators
              /\ \A k \in 1 .. Len(parts) : parts[k].sub = h.sub

\* Writing a field leaves alone the CDs of other fields, and writing an
\* indicator those of the subfields.
LEMMA OfElsewhere ==
    ASSUME NEW s \in Seq(CDs), NEW h \in Heads, NEW parts \in Seq(Parts),
           NEW A, Elsewhere(A, h, NtOf(s, h), parts)
    PROVE  Of(InsertCDLib(s, h, parts), A) = Of(s, A)
<1> DEFINE n == Len(parts)
           nt == NtOf(s, h)
           P(k) == PartOf(h, parts[k], nt, k)
<1>0. n \in Nat /\ nt \in Nat \ {0} /\ \A k \in 1 .. n : parts[k] \in Parts /\ k \in Nat
  BY PutsOf
<1>1. PICK g : Puts(g, s, h, parts)
  BY PutsOf
<1>2. /\ g[0] = KeptBy(s, h) /\ g[n] = InsertCDLib(s, h, parts)
      /\ \A k \in 1 .. n : g[k] = InsertPart(g[k - 1], P(k))
      /\ \A k \in 0 .. n : g[k] \in Seq(CDs)
  BY <1>1 DEF Puts
<1>3. ASSUME NEW k \in 1 .. n PROVE P(k) \in CDs /\ P(k).tag = h.tag /\ P(k).nt = nt /\ P(k).sub = parts[k].sub
  <2>1. parts[k] \in Parts /\ k \in Nat
    BY <1>0
  <2>2. IsPart(P(k), h, parts[k], nt)
    BY <1>0, <2>1, PartFields
  <2> QED
    BY <2>2 DEF IsPart
<1>4. \A c \in A : /\ c \in CDs
                   /\ c.tag = h.tag /\ c.nt = nt => h.sub \in Indicators /\ c.sub \notin Indicators
  BY DEF Elsewhere
<1>4a. \A c \in A : c.tag = h.tag /\ c.nt = nt => \A k \in 1 .. n : parts[k].sub = h.sub
  BY DEF Elsewhere
<1>4b. "" \notin Indicators /\ AnySub \notin Indicators
  BY DEF Indicators, AnySub
<1>5. Of(KeptBy(s, h), A) = Of(s, A)
  <2>1. CASE h.sub = ""
    <3>1. ASSUME NEW i \in DOMAIN s, s[i] \in A PROVE ~Replaces(h, s[i])
      <4>1. h.nt > 0 => nt = h.nt
        BY DEF NtOf
      <4>2. s[i].nt \in Nat \ {0} /\ h.nt \in Int
        BY <1>4, <3>1, CDIs, HeadIs
      <4>3. ~(s[i].tag = h.tag /\ s[i].nt = nt)
        BY <1>4, <1>4b, <2>1, <3>1, Zenon
      <4> HIDE DEF nt
      <4> QED
        BY <4>1, <4>2, <4>3 DEF Replaces, SameField
    <3>2. \A i \in DOMAIN s : s[i] \in A => i \in {j \in DOMAIN s : ~Replaces(h, s[j])}
      BY <3>1
    <3>3. PICK J : J = {j \in DOMAIN s : ~Replaces(h, s[j])}
      OBVIOUS
    <3>4. Of(Picked(s, J), A) = Of(s, A)
      BY <3>2, <3>3, OfPicked
    <3> QED
      BY <2>1, <3>3, <3>4 DEF KeptBy
  <2>2. CASE h.sub # ""
    BY <2>2 DEF KeptBy
  <2> QED
    BY <2>1, <2>2
<1> HIDE DEF n, nt, P
<1> DEFINE Good == {k \in 0 .. n : Of(g[k], A) = Of(s, A)}
<1>6. 0 \in Good
  BY <1>0, <1>2, <1>5
<1>7. ASSUME NEW k \in 1 .. n, k - 1 \in Good PROVE k \in Good
  <2>1. g[k - 1] \in Seq(CDs) /\ k \in 0 .. n
    BY <1>0, <1>2
  <2>2. CASE \E i : Found(g[k - 1], P(k), i)
    <3>1. PICK i : Found(g[k - 1], P(k), i)
      BY <2>2
    <3> DEFINE d == g[k - 1][i]
    <3>2. i \in 1 .. Len(g[k - 1]) /\ d.tag = h.tag /\ d.nt = nt /\ g[k] = PutAt(g[k - 1], i, P(k))
      BY <1>2, <1>3, <3>1 DEF Found
    <3>2a. parts[k].sub \in Indicators => d.sub = parts[k].sub
      BY <1>3, <1>4b, <3>1 DEF Found
    <3>w. ASSUME NEW w \in A, w.tag = h.tag, w.nt = nt, w.sub = d.sub PROVE FALSE
      <4>1. h.sub \in Indicators /\ w.sub \notin Indicators /\ parts[k].sub = h.sub
        BY <1>4, <1>4a, <3>w
      <4> QED
        BY <3>2a, <3>w, <4>1
    <3>3. d \notin A
      BY <3>2, <3>w
    <3>4. SameField(Written(d, P(k)), d) /\ Written(d, P(k)).sub = d.sub
      BY <1>3, <2>1, <3>2, PutIs
    <3>5. Written(d, P(k)) \notin A
      BY <3>2, <3>4, <3>w, Zenon DEF SameField
    <3>6. Of(g[k], A) = Of(g[k - 1], A)
      BY <1>3, <2>1, <3>2, <3>3, <3>5, OfPut
    <3> QED
      BY <1>7, <2>1, <3>6
  <2>3. CASE g[k] = Append(g[k - 1], Numbered(g[k - 1], P(k)))
    <3>1. /\ Numbered(g[k - 1], P(k)) \in CDs
          /\ Numbered(g[k - 1], P(k)).tag = h.tag /\ Numbered(g[k - 1], P(k)).nt = nt
          /\ Numbered(g[k - 1], P(k)).sub = parts[k].sub
      BY <1>3, <2>1, NumberedSame
    <3>2. Numbered(g[k - 1], P(k)) \notin A
      BY <1>4, <1>4a, <3>1
    <3>3. Of(g[k], A) = Of(g[k - 1], A)
      BY <2>1, <2>3, <3>1, <3>2, OfAppend
    <3> QED
      BY <1>7, <2>1, <3>3
  <2> QED
    BY <1>2, <1>3, <2>1, <2>2, <2>3, PartAt
<1>8. n \in Good
  <2> HIDE DEF Good
  <2>1. \A k \in 0 .. n : k \in Good
    BY <1>0, <1>6, <1>7, Induct
  <2> QED
    BY <1>0, <2>1
<1> QED
  BY <1>2, <1>8

\* A CD of a list that InsertCDLib made was there before or has a part.
HasPart(e, h, nt, parts) ==
    \E j \in 1 .. Len(parts) : /\ e.tag = h.tag /\ e.nt = nt
                               /\ e.sub = parts[j].sub /\ e.text = parts[j].text

\* What is on the list after InsertCDLib was there before or is a part.
LEMMA InsertedFrom ==
    ASSUME NEW s \in Seq(CDs), NEW h \in Heads, NEW parts \in Seq(Parts),
           \A j \in 1 .. Len(parts) : parts[j].sub # AnySub,
           NEW e \in ToSet(InsertCDLib(s, h, parts))
    PROVE  e \in ToSet(s) \/ HasPart(e, h, NtOf(s, h), parts)
<1> DEFINE n == Len(parts)
           nt == NtOf(s, h)
           P(k) == PartOf(h, parts[k], nt, k)
           Was(x) == x \in ToSet(s) \/ HasPart(x, h, nt, parts)
<1>0. n \in Nat /\ nt \in Nat \ {0} /\ \A k \in 1 .. n : parts[k] \in Parts /\ k \in Nat
  BY PutsOf
<1>1. PICK g : Puts(g, s, h, parts)
  BY PutsOf
<1>2. /\ g[0] = KeptBy(s, h) /\ g[n] = InsertCDLib(s, h, parts)
      /\ \A k \in 1 .. n : g[k] = InsertPart(g[k - 1], P(k))
      /\ \A k \in 0 .. n : g[k] \in Seq(CDs)
  BY <1>1 DEF Puts
<1>3. ASSUME NEW k \in 1 .. n
      PROVE  /\ P(k) \in CDs /\ P(k).tag = h.tag /\ P(k).nt = nt
             /\ P(k).sub = parts[k].sub /\ P(k).text = parts[k].text /\ P(k).sub # AnySub
  <2>1. parts[k] \in Parts /\ k \in Nat
    BY <1>0
  <2>2. IsPart(P(k), h, parts[k], nt)
    BY <1>0, <2>1, PartFields
  <2> QED
    BY <2>2 DEF IsPart
<1>4. \A i \in 1 .. Len(KeptBy(s, h)) : KeptBy(s, h)[i] \in ToSet(s)
  <2>1. CASE h.sub = ""
    <3>1. PICK J : J = {j \in DOMAIN s : ~Replaces(h, s[j])}
      OBVIOUS
    <3>2. Selected(Picked(s, J), s, J, Len(s))
      BY PickedIs
    <3>3. PICK o : Selects(o, Picked(s, J), s, J, Len(s))
      BY <3>2 DEF Selected
    <3>4. \A a \in 1 .. Len(Picked(s, J)) : Picked(s, J)[a] \in ToSet(s)
      BY <3>3 DEF Selects, ToSet
    <3> QED
      BY <2>1, <3>1, <3>4 DEF KeptBy
  <2>2. CASE h.sub # ""
    <3>1. KeptBy(s, h) = s
      BY <2>2 DEF KeptBy
    <3>2. \A i \in 1 .. Len(s) : s[i] \in ToSet(s)
      BY DEF ToSet
    <3> QED
      BY <3>1, <3>2
  <2> QED
    BY <2>1, <2>2
<1>5. \A k \in 1 .. n : \A x : x.tag = h.tag /\ x.nt = nt /\ x.sub = parts[k].sub /\ x.text = parts[k].text
                                => Was(x)
  BY DEF HasPart
<1> HIDE DEF n, nt, P
<1> DEFINE Good == {k \in 0 .. n : \A i \in 1 .. Len(g[k]) : Was(g[k][i])}
<1>6. 0 \in Good
  BY <1>0, <1>2, <1>4
<1> HIDE DEF Was
<1>7. ASSUME NEW k \in 1 .. n, k - 1 \in Good PROVE k \in Good
  <2>1. g[k - 1] \in Seq(CDs) /\ k \in 0 .. n
    BY <1>0, <1>2
  <2>0. \A i \in 1 .. Len(g[k - 1]) : Was(g[k - 1][i])
    BY <1>7
  <2>2. CASE \E i : Found(g[k - 1], P(k), i)
    <3>1. PICK i : Found(g[k - 1], P(k), i)
      BY <2>2
    <3> DEFINE d == g[k - 1][i]
               w == Written(d, P(k))
    <3>2. /\ i \in 1 .. Len(g[k - 1]) /\ d.tag = h.tag /\ d.nt = nt /\ d.sub = parts[k].sub
          /\ g[k] = PutAt(g[k - 1], i, P(k))
      BY <1>2, <1>3, <3>1 DEF Found
    <3>3. SameField(w, d) /\ w.sub = d.sub
      BY <1>3, <2>1, <3>2, PutIs
    <3>4. d \in CDs
      BY <2>1, <3>2
    <3>5. w.text = parts[k].text
      BY <1>3, <3>4 DEF Written, CDs
    <3>6. Was(w)
      BY <1>5, <3>2, <3>3, <3>5 DEF SameField
    <3>7. Len(g[k]) = Len(g[k - 1]) /\ \A j \in 1 .. Len(g[k - 1]) : g[k][j] = IF j = i THEN w ELSE g[k - 1][j]
      <4>1. PICK c \in CDs : c = P(k)
        BY <1>3
      <4>2. /\ Len(PutAt(g[k - 1], i, c)) = Len(g[k - 1])
            /\ \A j \in 1 .. Len(g[k - 1]) :
                  PutAt(g[k - 1], i, c)[j] = IF j = i THEN Written(g[k - 1][i], c) ELSE g[k - 1][j]
        BY <2>1, <3>2, PutIs
      <4> QED
        BY <3>2, <4>1, <4>2
    <3> HIDE DEF d, w
    <3> QED
      BY <2>0, <2>1, <3>6, <3>7
  <2>3. CASE g[k] = Append(g[k - 1], Numbered(g[k - 1], P(k)))
    <3> DEFINE x == Numbered(g[k - 1], P(k))
    <3>1. /\ x \in CDs /\ x.tag = h.tag /\ x.nt = nt
          /\ x.sub = parts[k].sub /\ x.text = parts[k].text
      BY <1>3, <2>1, NumberedSame
    <3>2. Was(x)
      BY <1>5, <3>1
    <3> HIDE DEF x
    <3>3. /\ Len(g[k]) = Len(g[k - 1]) + 1 /\ g[k][Len(g[k - 1]) + 1] = x
          /\ \A j \in 1 .. Len(g[k - 1]) : g[k][j] = g[k - 1][j]
      BY <2>1, <2>3, <3>1, Appended DEF x
    <3>4. Len(g[k - 1]) \in Nat
      BY <2>1
    <3> QED
      BY <2>0, <2>1, <3>2, <3>3, <3>4
  <2> QED
    BY <1>2, <1>3, <2>1, <2>2, <2>3, PartAt
<1>8. n \in Good
  <2> HIDE DEF Good
  <2>1. \A k \in 0 .. n : k \in Good
    BY <1>0, <1>6, <1>7, Induct
  <2> QED
    BY <1>0, <2>1
<1>9. \A i \in 1 .. Len(g[n]) : Was(g[n][i])
  BY <1>8
<1>10. g[n] \in Seq(CDs)
  BY <1>0, <1>2
<1>11. \E i \in 1 .. Len(g[n]) : g[n][i] = e
  BY <1>2, <1>10 DEF ToSet
<1> QED
  BY <1>9, <1>11 DEF Was, nt

\* An indicator of a field stays one when something is written.
LEMMA IndicatorStays ==
    ASSUME NEW s \in Seq(CDs), NEW h \in Heads, NEW parts \in Seq(Parts),
           NEW d \in ToSet(s), d.sub \in Indicators
    PROVE  \E e \in ToSet(InsertCDLib(s, h, parts)) : SameField(e, d) /\ e.sub = d.sub
<1> DEFINE l == InsertCDLib(s, h, parts)
<1>1. Grown(l, s, h, Len(parts))
  BY InsertCDLibIs
<1> HIDE DEF l
<1>2. PICK i \in 1 .. Len(s) : s[i] = d
  BY DEF ToSet
<1>3. Stays(h, s[i])
  BY <1>2 DEF Stays, Replaces
<1>4. PICK o : Moved(o, l, s, h, Len(parts)) /\ AllStay(o, l, s, h)
  BY <1>1, MovedIs
<1>5. PICK a \in 1 .. Len(l) : o[a] = i
  BY <1>3, <1>4 DEF AllStay
<1>6. o[a] # 0
  BY <1>5
<1>7. Left(l[a], s[i], h.by)
  BY <1>4, <1>5, <1>6 DEF Moved
<1>8. l \in Seq(CDs)
  BY <1>1 DEF Grown
<1>9. l[a] \in ToSet(l)
  BY <1>8 DEF ToSet
<1> QED
  BY <1>2, <1>7, <1>9 DEF Left, l

\* What is written with one part is there.
LEMMA PartIsThere ==
    ASSUME NEW s \in Seq(CDs), NEW h \in Heads, NEW parts \in Seq(Parts),
           Len(parts) = 1, parts[1].sub # AnySub
    PROVE  \E e \in ToSet(InsertCDLib(s, h, parts)) :
              e.tag = h.tag /\ e.nt = NtOf(s, h) /\ e.sub = parts[1].sub
<1> DEFINE nt == NtOf(s, h)
           c == PartOf(h, parts[1], nt, 1)
<1>0. nt \in Nat \ {0}
  BY PutsOf
<1>1. PICK g : Puts(g, s, h, parts)
  BY PutsOf
<1>2. 1 \in 1 .. Len(parts) /\ 1 - 1 = 0 /\ 0 \in 0 .. Len(parts) /\ parts[1] \in Parts
  OBVIOUS
<1>3. g[1] = InsertPart(g[0], c) /\ g[0] \in Seq(CDs) /\ g[1] = InsertCDLib(s, h, parts)
  BY <1>1, <1>2 DEF Puts
<1>4. /\ c \in CDs /\ c.tag = h.tag /\ c.nt = nt
      /\ c.sub = parts[1].sub /\ c.sub # AnySub
  <2>1. IsPart(c, h, parts[1], nt)
    BY <1>0, <1>2, PartFields
  <2> QED
    BY <2>1 DEF IsPart
<1> HIDE DEF nt, c
<1>5. CASE \E i : Found(g[0], c, i)
  <2>1. PICK i : Found(g[0], c, i)
    BY <1>5
  <2> DEFINE d == g[0][i]
  <2>2. /\ i \in 1 .. Len(g[0]) /\ d.tag = h.tag /\ d.nt = nt /\ d.sub = parts[1].sub
        /\ g[1] = PutAt(g[0], i, c)
    BY <1>3, <1>4, <2>1 DEF Found
  <2>3. /\ Len(g[1]) = Len(g[0]) /\ g[1] \in Seq(CDs) /\ g[1][i] = Written(d, c)
        /\ SameField(Written(d, c), d) /\ Written(d, c).sub = d.sub
    <3>1. /\ Len(PutAt(g[0], i, c)) = Len(g[0]) /\ PutAt(g[0], i, c) \in Seq(CDs)
          /\ PutAt(g[0], i, c)[i] = Written(g[0][i], c)
          /\ SameField(Written(g[0][i], c), g[0][i]) /\ Written(g[0][i], c).sub = g[0][i].sub
      BY <1>3, <1>4, <2>2, PutIs
    <3> QED
      BY <2>2, <3>1
  <2>4. Written(d, c) \in ToSet(g[1])
    BY <2>2, <2>3 DEF ToSet
  <2> QED
    BY <1>3, <2>2, <2>3, <2>4 DEF SameField, nt
<1>6. CASE g[1] = Append(g[0], Numbered(g[0], c))
  <2> DEFINE x == Numbered(g[0], c)
  <2>1. x \in CDs /\ x.tag = h.tag /\ x.nt = nt /\ x.sub = parts[1].sub
    BY <1>3, <1>4, NumberedSame
  <2> HIDE DEF x
  <2>2. g[1] \in Seq(CDs) /\ Len(g[1]) = Len(g[0]) + 1 /\ g[1][Len(g[0]) + 1] = x
    BY <1>3, <1>6, <2>1, Appended DEF x
  <2>3. Len(g[0]) + 1 \in DOMAIN g[1]
    BY <1>3, <2>2
  <2>4. x \in ToSet(g[1])
    BY <2>2, <2>3 DEF ToSet
  <2> QED
    BY <1>3, <2>1, <2>4 DEF nt
<1> QED
  BY <1>3, <1>4, <1>5, <1>6, PartAt

None == ""      \* no subfield code

-----------------------------------------------------------------------------
(* What ToCD makes of a field                                              *)

IsControl(r, f) == r[f].subs = <<"">>

Inds(r, f) == IF IsControl(r, f) THEN <<>>
              ELSE <<[sub |-> "I1", text |-> InputText(f, 0)],
                     [sub |-> "I2", text |-> InputText(f, 1)]>>

Rest(r, f) == [k \in DOMAIN r[f].subs |-> [sub |-> r[f].subs[k], text |-> InputText(f, k + 1)]]

\* Within a tag the occurrences go up.
Climbs(l) == \A i, j \in 1 .. Len(l) : i < j /\ l[i].tag = l[j].tag => l[i].nt <= l[j].nt

\* The occurrence of a new field is one more than the last.
IsNext(s, tag, nt) ==
    /\ nt \in Nat \ {0}
    /\ \A i \in 1 .. Len(s) : s[i].tag = tag => s[i].nt < nt
    /\ \/ nt = 1 /\ \A i \in 1 .. Len(s) : s[i].tag # tag
       \/ \E i \in 1 .. Len(s) : s[i].tag = tag /\ nt = s[i].nt + 1

\* A field without an occurrence becomes the next of its tag.
LEMMA NextNumber ==
    ASSUME NEW s \in Seq(CDs), Climbs(s), NEW h \in Heads, h.nt = 0
    PROVE  IsNext(s, h.tag, NtOf(s, h))
<1> DEFINE T == {j \in 1 .. Len(s) : s[j].tag = h.tag}
           prev == IF T # {} THEN Max(T) ELSE 0
           nt == NtOf(s, h)
<1>1. prev = LastOfTag(s, h.tag)
  BY DEF LastOfTag, SelectLastInSeq
<1>2. nt = IF prev = 0 THEN 1 ELSE s[prev].nt + 1
  BY <1>1 DEF NtOf
<1>3. Len(s) \in Nat /\ T \subseteq 1 .. Len(s)
  OBVIOUS
<1>4. \A j : j \in T <=> j \in 1 .. Len(s) /\ s[j].tag = h.tag
  OBVIOUS
<1> HIDE DEF T, nt
<1>5. \A j \in 1 .. Len(s) : s[j].nt \in Nat /\ s[j].nt > 0
  <2>1. \A c \in CDs : c.nt \in Nat /\ c.nt > 0
    BY CDIs
  <2> QED
    BY <2>1
<1>6. CASE T = {}
  <2>1. nt = 1 /\ \A i \in 1 .. Len(s) : s[i].tag # h.tag
    BY <1>2, <1>4, <1>6
  <2> QED
    BY <2>1 DEF IsNext, nt
<1>7. CASE T # {}
  <2>1. prev \in T /\ \A j \in T : j <= prev
    BY <1>3, <1>7, GreatestIs
  <2>2. prev \in 1 .. Len(s) /\ s[prev].tag = h.tag /\ nt = s[prev].nt + 1
    BY <1>2, <1>3, <1>4, <2>1
  <2> HIDE DEF prev
  <2>3. ASSUME NEW i \in 1 .. Len(s), s[i].tag = h.tag PROVE s[i].nt < nt
    <3>1. i <= prev
      BY <1>4, <2>1, <2>3
    <3>2. i = prev \/ s[i].nt <= s[prev].nt
      BY <1>3, <2>2, <2>3, <3>1 DEF Climbs
    <3> QED
      BY <1>5, <2>2, <3>2
  <2>4. nt \in Nat \ {0}
    BY <1>5, <2>2
  <2> QED
    BY <2>2, <2>3, <2>4 DEF IsNext, nt
<1> QED
  BY <1>6, <1>7

\* What AddField makes of l: s, and behind it the CDs of the field.
IndicatorOf(c, r, f) ==
    c.sub \in Indicators =>
        /\ ~IsControl(r, f)
        /\ c.text = InputText(f, IF c.sub = "I1" THEN 0 ELSE 1)

Body(tag, nt) == {c \in CDs : c.tag = tag /\ c.nt = nt /\ c.sub \notin Indicators}

Alike(s, t) == /\ Len(s) = Len(t)
               /\ \A j \in 1 .. Len(t) : s[j].sub = t[j].sub /\ s[j].text = t[j].text

AddsField(l, s, tag, nt, r, f) ==
    /\ l \in Seq(CDs) /\ Len(s) <= Len(l)
    /\ \A i \in 1 .. Len(s) : l[i] = s[i]
    /\ \A i \in Len(s) + 1 .. Len(l) : /\ l[i].tag = tag /\ l[i].nt = nt /\ l[i].by = <<>>
                                       /\ IndicatorOf(l[i], r, f)
    /\ Alike(Of(l, Body(tag, nt)), Rest(r, f))
    /\ ~IsControl(r, f) => \A x \in Indicators : \E i \in Len(s) + 1 .. Len(l) : l[i].sub = x

\* The parts of an input field: one without a code, or all with one.
LEMMA RestIs ==
    ASSUME NEW r \in Records, NEW f \in 1 .. Len(r)
    PROVE  /\ Rest(r, f) \in Seq(Parts) /\ Len(Rest(r, f)) > 0
           /\ \A j \in 1 .. Len(Rest(r, f)) : Rest(r, f)[j].sub \notin Indicators \cup {AnySub}
           /\ IF IsControl(r, f) THEN Len(Rest(r, f)) = 1 /\ Rest(r, f)[1].sub = None
              ELSE \A j \in 1 .. Len(Rest(r, f)) : Rest(r, f)[j].sub # None
<1> DEFINE subs == r[f].subs
           part(k) == [sub |-> subs[k], text |-> InputText(f, k + 1)]
           rest == [k \in DOMAIN subs |-> part(k)]
<1>1. f \in Nat /\ subs \in Seq(Subs) /\ Len(subs) > 0
  BY FieldIs
<1>2. rest = Rest(r, f)
  BY DEF Rest
<1>3. subs \in {<<"">>} \cup (Seq(Codes) \ {<<>>})
  <2>1. r[f] \in Fields
    BY RecordIs
  <2> QED
    BY <2>1, ZenonT(60) DEF Fields
<1>4. IsControl(r, f) <=> subs = <<"">>
  BY DEF IsControl
<1> HIDE DEF subs
<1>5. Len(subs) \in Nat /\ DOMAIN subs = 1 .. Len(subs)
  BY <1>1
<1>6. ASSUME NEW k \in 1 .. Len(subs) PROVE part(k) \in Parts /\ part(k).sub = subs[k]
  <2>1. k + 1 \in Nat /\ subs[k] \in Subs
    BY <1>1, <1>5
  <2> QED
    BY <1>1, <2>1, TextIs
<1> HIDE DEF part
<1>7. rest \in Seq(Parts) /\ Len(rest) = Len(subs) /\ \A k \in 1 .. Len(subs) : rest[k].sub = subs[k]
  <2>1. rest \in [1 .. Len(subs) -> Parts] /\ \A k \in 1 .. Len(subs) : rest[k] = part(k)
    BY <1>5, <1>6
  <2> HIDE DEF rest
  <2> QED
    BY <1>5, <1>6, <2>1
<1> HIDE DEF rest
<1>8. CASE IsControl(r, f)
  <2>0. subs = <<None>>
    BY <1>4, <1>8, Zenon DEF None
  <2>1. Len(subs) = 1 /\ subs[1] = None
    BY <2>0
  <2>2. None \notin Indicators \cup {AnySub}
    BY DEF Indicators, AnySub, None
  <2>3. Len(rest) = 1 /\ 1 \in 1 .. Len(subs)
    BY <1>7, <2>1
  <2>4. rest[1].sub = None
    BY <1>7, <2>1, <2>3, Zenon
  <2>5. \A j \in 1 .. Len(rest) : j = 1
    BY <2>3
  <2>6. \A j \in 1 .. Len(rest) : rest[j].sub \notin Indicators \cup {AnySub}
    BY <2>2, <2>4, <2>5, Zenon
  <2>7. rest \in Seq(Parts) /\ Len(rest) > 0
    BY <1>7, <2>3
  <2> QED
    BY <1>2, <1>8, <2>3, <2>4, <2>6, <2>7, Zenon
<1>9. CASE ~IsControl(r, f)
  <2>1. subs \in Seq(Codes)
    BY <1>3, <1>4, <1>9
  <2>2. \A k \in 1 .. Len(subs) : subs[k] \in Codes
    BY <2>1
  <2>3. \A c \in Codes : c \notin Indicators \cup {None, AnySub}
    BY CodesAssumption DEF None
  <2> QED
    BY <1>1, <1>2, <1>7, <1>9, <2>2, <2>3
<1> QED
  BY <1>8, <1>9

\* NewCD has what it is given and nothing else.
LEMMA NewHead ==
    ASSUME NEW f \in Nat, NEW j \in Nat, NEW tag \in Nat, NEW nt \in Int, NEW sub \in Subs
    PROVE  \E h \in Heads : /\ h = NewCD(<<f, j>>, tag, nt, sub)
                            /\ h.tag = tag /\ h.nt = nt /\ h.sub = sub /\ h.by = <<>> /\ h.ns = 0
<1>1. <<f, j>> \in Seq(Nat)
  BY ONLY f \in Nat, j \in Nat
<1>2. PICK id \in Seq(Nat) : id = <<f, j>>
  BY <1>1
<1>3. NewCD(id, tag, nt, sub) \in Heads
  BY NewCDIs
<1>4. /\ NewCD(id, tag, nt, sub).tag = tag /\ NewCD(id, tag, nt, sub).nt = nt
      /\ NewCD(id, tag, nt, sub).sub = sub /\ NewCD(id, tag, nt, sub).by = <<>>
      /\ NewCD(id, tag, nt, sub).ns = 0
  BY DEF NewCD
<1> QED
  BY <1>2, <1>3, <1>4

\* If no CD is of the field that is written, all are kept.
LEMMA KeptWhole ==
    ASSUME NEW s \in Seq(CDs), NEW h \in Heads, h.sub = None => \A i \in 1 .. Len(s) : ~Replaces(h, s[i])
    PROVE  KeptBy(s, h) = s
<1>1. CASE h.sub = None
  <2>1. PICK J : J = {i \in DOMAIN s : ~Replaces(h, s[i])}
    OBVIOUS
  <2>2. DOMAIN s \subseteq J
    BY <1>1, <2>1
  <2>3. Picked(s, J) = s
    BY <2>2, PickedAll
  <2> QED
    BY <1>1, <2>1, <2>3, Zenon DEF KeptBy, None
<1>2. CASE h.sub # None
  BY <1>2, Zenon DEF KeptBy, None
<1> QED
  BY <1>1, <1>2

\* The body of a field that was added behind s and, b, its indicators.
LEMMA BodyAdded ==
    ASSUME NEW b \in Seq(CDs), NEW tag, NEW nt, NEW by, NEW parts \in Seq(Parts), NEW l,
           Adds(l, b, tag, nt, by, parts),
           \A i \in 1 .. Len(b) : b[i] \notin Body(tag, nt),
           \A j \in 1 .. Len(parts) : parts[j].sub \notin Indicators
    PROVE  Alike(Of(l, Body(tag, nt)), parts)
<1> DEFINE A == Body(tag, nt)
           q == Len(b)
           m == Len(parts)
<1>1. /\ l \in Seq(CDs) /\ Len(l) = q + m /\ q \in Nat /\ m \in Nat
      /\ \A j \in 1 .. q : l[j] = b[j]
      /\ \A j \in 1 .. m : /\ l[q + j].tag = tag /\ l[q + j].nt = nt
                           /\ l[q + j].sub = parts[j].sub /\ l[q + j].text = parts[j].text
  BY DEF Adds
<1>2. \A c : c \in A <=> c \in CDs /\ c.tag = tag /\ c.nt = nt /\ c.sub \notin Indicators
  BY DEF Body
<1> HIDE DEF A, q, m
<1>3. \A j \in 1 .. q : l[j] \notin A
  BY <1>1 DEF q, A
<1>4. ASSUME NEW j \in 1 .. m PROVE l[q + j] \in A
  <2>1. q + j \in 1 .. Len(l)
    BY <1>1
  <2>2. l[q + j] \in CDs
    BY <1>1, <2>1
  <2> QED
    BY <1>1, <1>2, <2>2 DEF m
<1>5. Len(Of(l, A)) = m /\ \A j \in 1 .. m : Of(l, A)[j] = l[q + j]
  <2>1. l \in Seq(CDs) /\ Len(l) = q + m /\ q \in Nat /\ m \in Nat
    BY <1>1, Zenon
  <2>2. \A j \in 1 .. m : l[q + j] \in A
    BY <1>4
  <2>3. Behind(l, q, m, A)
    BY <1>3, <2>1, <2>2, Zenon DEF Behind
  <2>4. IsTail(Of(l, A), l, q, m)
    BY <2>1, <2>3, OfAdds, Zenon
  <2> QED
    BY <2>4, Zenon DEF IsTail
<1> QED
  BY <1>1, <1>5 DEF Alike, A, m

\* AddField adds a control field as the next of its tag.
LEMMA ControlAdded ==
    ASSUME NEW r \in Records, NEW f \in 1 .. Len(r), IsControl(r, f),
           NEW s \in Seq(CDs), Climbs(s)
    PROVE  \E nt : IsNext(s, r[f].tag, nt) /\ AddsField(AddField(s, r, f), s, r[f].tag, nt, r, f)
<1> DEFINE tag == r[f].tag
           parts == Rest(r, f)
           none == None
           zero == 0
           two == 2
<1>1. f \in Nat /\ tag \in Nat /\ none \in Subs /\ zero \in Int /\ two \in Nat
  <2>1. none \in Subs
    BY Zenon DEF Subs, None
  <2>2. f \in Nat /\ tag \in Nat
    BY FieldIs, Zenon
  <2>3. zero \in Int /\ two \in Nat
    OBVIOUS
  <2> QED
    BY <2>1, <2>2, <2>3, Zenon
<1>2. AddField(s, r, f) = InsertCDLib(s, NewCD(<<f, two>>, tag, zero, none), parts)
  BY Zenon DEF AddField, IsControl, Rest, None
<1>3. /\ parts \in Seq(Parts) /\ Len(parts) = 1 /\ parts[1].sub = None
      /\ \A j \in 1 .. Len(parts) : parts[j].sub \notin Indicators
  BY RestIs
<1> HIDE DEF tag, parts, zero, two, none
<1>4. PICK h \in Heads : /\ h = NewCD(<<f, two>>, tag, zero, none)
                         /\ h.tag = tag /\ h.nt = zero /\ h.sub = none /\ h.by = <<>>
  BY <1>1, NewHead
<1>5. h.nt = 0 /\ h.sub = None /\ h.tag = tag
  BY <1>4 DEF zero, none
<1> DEFINE nt == NtOf(s, h)
           l == InsertCDLib(s, h, parts)
<1>6. IsNext(s, tag, nt)
  BY <1>5, NextNumber
<1>7. KeptBy(s, h) = s
  <2>1. \A i \in 1 .. Len(s) : s[i].nt # 0
    <3>1. \A c \in CDs : c.nt # 0
      BY CDIs
    <3> QED
      BY <3>1
  <2>2. \A i \in 1 .. Len(s) : ~Replaces(h, s[i])
    BY <1>5, <2>1 DEF Replaces, SameField
  <2> QED
    BY <2>2, KeptWhole
<1> HIDE DEF nt, l
<1>8. \A i \in 1 .. Len(s) : s[i].tag = tag => s[i].nt # nt
  <2>1. \A i \in 1 .. Len(s) : s[i].tag = tag => s[i].nt < nt
    BY <1>6 DEF IsNext
  <2>2. nt \in Nat
    BY <1>6 DEF IsNext
  <2> QED
    BY <2>1, <2>2
<1>9. NewParts(s, h, parts)
  BY <1>3, <1>5, <1>7, <1>8 DEF NewParts, nt, None
<1>10. Adds(l, s, tag, nt, <<>>, parts)
  BY <1>3, <1>4, <1>7, <1>9, PartsAdded DEF l, nt
<1>11. \A i \in 1 .. Len(s) : s[i] \notin Body(tag, nt)
  BY <1>8 DEF Body
<1>12. Alike(Of(l, Body(tag, nt)), parts)
  BY <1>3, <1>10, <1>11, BodyAdded
<1>13. /\ l \in Seq(CDs) /\ Len(l) = Len(s) + 1 /\ Len(s) \in Nat
       /\ \A i \in 1 .. Len(s) : l[i] = s[i]
       /\ l[Len(s) + 1].tag = tag /\ l[Len(s) + 1].nt = nt /\ l[Len(s) + 1].by = <<>>
       /\ l[Len(s) + 1].sub = None
  <2>1. l \in Seq(CDs) /\ Len(l) = Len(s) + Len(parts) /\ \A i \in 1 .. Len(s) : l[i] = s[i]
    BY <1>10 DEF Adds
  <2>2. 1 \in 1 .. Len(parts) /\ Len(s) \in Nat
    BY <1>3
  <2>3. LET e == l[Len(s) + 1]
        IN  e.tag = tag /\ e.nt = nt /\ e.by = <<>> /\ e.sub = parts[1].sub
    BY <1>10, <2>2, Zenon DEF Adds
  <2> QED
    BY <1>3, <2>1, <2>2, <2>3, Zenon
<1>13a. Len(l) = Len(s) + 1 /\ Len(s) \in Nat
  BY <1>13, Zenon
<1>14. IndicatorOf(l[Len(s) + 1], r, f)
  BY <1>13 DEF IndicatorOf, Indicators, None
<1>15. \A i \in Len(s) + 1 .. Len(l) : i = Len(s) + 1
  BY <1>13a
<1>16. Len(s) <= Len(l)
  BY <1>13a
<1>17. AddsField(l, s, tag, nt, r, f)
  BY <1>12, <1>13, <1>14, <1>15, <1>16, Zenon DEF AddsField, parts
<1> QED
  BY <1>2, <1>4, <1>6, <1>17 DEF l, tag
\* AddField adds a data field, indicators first, as the next of its tag.
LEMMA DataAdded ==
    ASSUME NEW r \in Records, NEW f \in 1 .. Len(r), ~IsControl(r, f),
           NEW s \in Seq(CDs), Climbs(s)
    PROVE  \E nt, b : /\ IsNext(s, r[f].tag, nt)
                      /\ Adds(b, s, r[f].tag, nt, <<>>, Inds(r, f))
                      /\ Adds(AddField(s, r, f), b, r[f].tag, nt, <<>>, Rest(r, f))
<1> DEFINE tag == r[f].tag
           rest == Rest(r, f)
           i1 == "I1"
           i2 == "I2"
           zero == 0
           one == 1
           two == 2
           a1 == [sub |-> i1, text |-> InputText(f, 0)]
           a2 == [sub |-> i2, text |-> InputText(f, 1)]
           p1 == <<a1>>
           p2 == <<a2>>
           both == <<a1, a2>>
<1>1. /\ f \in Nat /\ tag \in Nat /\ zero \in Int /\ zero \in Nat /\ one \in Nat /\ two \in Nat
      /\ None \in Subs /\ i1 \in Subs /\ i2 \in Subs
  <2>1. None \in Subs /\ i1 \in Subs /\ i2 \in Subs
    BY Zenon DEF Subs, None, Indicators
  <2>2. f \in Nat /\ tag \in Nat
    BY FieldIs, Zenon
  <2>3. zero \in Int /\ zero \in Nat /\ one \in Nat /\ two \in Nat
    OBVIOUS
  <2> QED
    BY <2>1, <2>2, <2>3, Zenon
<1>2. /\ rest \in Seq(Parts)
      /\ \A j \in 1 .. Len(rest) : rest[j].sub # None
  BY RestIs
<1>3. /\ i1 # None /\ i2 # None /\ i1 \in Indicators /\ i2 \in Indicators
      /\ Inds(r, f) = both
  BY DEF None, Indicators, Inds
<1>4. /\ p1 \in Seq(Parts) /\ Len(p1) = 1 /\ p1[1] = a1
      /\ p2 \in Seq(Parts) /\ Len(p2) = 1 /\ p2[1] = a2
      /\ Len(both) = 2 /\ both[1] = a1 /\ both[2] = a2 /\ a1.sub = i1 /\ a2.sub = i2
  <2>1. a1 \in Parts /\ a2 \in Parts
    BY <1>1, TextIs
  <2>2. a1.sub = i1 /\ a2.sub = i2
    OBVIOUS
  <2> HIDE DEF a1, a2
  <2> QED
    BY <2>1, <2>2
<1> DEFINE first == InsertCDLib(s, NewCD(<<f, zero>>, tag, zero, i1), p1)
           last == Last(first).nt
           b == InsertCDLib(first, NewCD(<<f, one>>, tag, last, i2), p2)
           l == InsertCDLib(b, NewCD(<<f, two>>, tag, last, None), rest)
<1>5. AddField(s, r, f) = l
  BY Zenon DEF AddField, IsControl, Rest, None
<1> HIDE DEF tag, rest, i1, i2, zero, one, two, a1, a2, p1, p2, both
<1>6. PICK h1 \in Heads : /\ h1 = NewCD(<<f, zero>>, tag, zero, i1)
                          /\ h1.tag = tag /\ h1.nt = zero /\ h1.sub = i1 /\ h1.by = <<>> /\ h1.ns = 0
  BY <1>1, NewHead
<1> DEFINE nt == NtOf(s, h1)
<1>7. IsNext(s, tag, nt)
  <2>1. h1.nt = 0
    BY <1>6 DEF zero
  <2> QED
    BY <1>6, <2>1, NextNumber
<1>8. Adds(first, s, tag, nt, <<>>, p1)
  <2>1. KeptBy(s, h1) = s
    BY <1>3, <1>6, KeptWhole
  <2>2. \A j \in 1 .. Len(p1) : p1[j].sub # None
    BY <1>3, <1>4
  <2>3. NewParts(s, h1, p1)
    BY <1>6, <2>2, Zenon DEF NewParts, None
  <2>4. Adds(InsertCDLib(s, h1, p1), s, tag, nt, <<>>, p1)
    BY <1>4, <1>6, <2>1, <2>3, PartsAdded
  <2> QED
    BY <1>6, <2>4
<1> HIDE DEF nt, first
<1>8a. nt \in Nat \ {0}
  BY <1>7 DEF IsNext
<1>9. first \in Seq(CDs) /\ last = nt /\ Len(first) = Len(s) + 1
  <2>1. /\ first \in Seq(CDs) /\ Len(first) = Len(s) + Len(p1) /\ 1 \in 1 .. Len(p1)
    BY <1>4, <1>8 DEF Adds
  <2>2. first[Len(s) + 1].nt = nt
    BY <1>8, <2>1, Zenon DEF Adds
  <2>3. Len(first) = Len(s) + 1
    BY <1>4, <2>1
  <2> QED
    BY <2>1, <2>2, <2>3, Zenon DEF Last
<1> HIDE DEF last
<1>10. PICK h2 \in Heads : /\ h2 = NewCD(<<f, one>>, tag, last, i2)
                           /\ h2.tag = tag /\ h2.nt = last /\ h2.sub = i2 /\ h2.by = <<>> /\ h2.ns = 0
  <2>1. last \in Int
    BY <1>8a, <1>9
  <2> QED
    BY <1>1, <2>1, NewHead
<1>11. Adds(b, first, tag, nt, <<>>, p2)
  <2>1. KeptBy(first, h2) = first
    BY <1>3, <1>9, <1>10, KeptWhole
  <2>2. \A j \in 1 .. Len(p2) : p2[j].sub # None
    BY <1>3, <1>4
  <2>3. NewParts(first, h2, p2)
    BY <1>10, <2>2, Zenon DEF NewParts, None
  <2>4. NtOf(first, h2) = nt
    BY <1>8a, <1>9, <1>10 DEF NtOf
  <2>5. Adds(InsertCDLib(first, h2, p2), first, tag, nt, <<>>, p2)
    BY <1>4, <1>9, <1>10, <2>1, <2>3, <2>4, PartsAdded
  <2> QED
    BY <1>10, <2>5
<1> HIDE DEF b
<1>12. Adds(b, s, tag, nt, <<>>, both)
  <2>1. /\ b \in Seq(CDs) /\ Len(b) = Len(first) + Len(p2) /\ \A j \in 1 .. Len(first) : b[j] = first[j]
        /\ 1 \in 1 .. Len(p1) /\ 1 \in 1 .. Len(p2)
    BY <1>4, <1>11 DEF Adds
  <2>2. \A j \in 1 .. Len(s) : first[j] = s[j]
    BY <1>8 DEF Adds
  <2>3. LET e == first[Len(s) + 1]
        IN  e.tag = tag /\ e.nt = nt /\ e.by = <<>> /\ e.sub = a1.sub /\ e.text = a1.text
    BY <1>4, <1>8, <2>1, Zenon DEF Adds
  <2>4. LET e == b[Len(first) + 1]
        IN  e.tag = tag /\ e.nt = nt /\ e.by = <<>> /\ e.sub = a2.sub /\ e.text = a2.text
    BY <1>4, <1>11, <2>1, Zenon DEF Adds
  <2>5. Len(s) \in Nat /\ Len(b) = Len(s) + 2
    BY <1>4, <1>9, <2>1
  <2>6. \A j \in 1 .. Len(s) : b[j] = s[j]
    <3> TAKE j \in 1 .. Len(s)
    <3>1. j \in 1 .. Len(first)
      BY <1>9, <2>5
    <3> QED
      BY <2>1, <2>2, <3>1, Zenon
  <2>7. b[Len(s) + 1] = first[Len(s) + 1] /\ b[Len(s) + 2] = b[Len(first) + 1]
    <3>1. Len(s) + 1 \in 1 .. Len(first) /\ Len(first) + 1 = Len(s) + 2
      BY <1>9, <2>5
    <3> QED
      BY <2>1, <3>1, Zenon
  <2>8. ASSUME NEW j \in 1 .. 2
        PROVE  LET e == b[Len(s) + j]
               IN  /\ e.tag = tag /\ e.nt = nt /\ e.by = <<>>
                   /\ e.sub = both[j].sub /\ e.text = both[j].text
    <3>1. CASE j = 1
      BY <1>4, <2>3, <2>7, <3>1, Zenon
    <3>2. CASE j = 2
      BY <1>4, <2>4, <2>7, <3>2, Zenon
    <3> QED
      BY <3>1, <3>2
  <2> QED
    BY <1>4, <2>1, <2>5, <2>6, <2>8, Zenon DEF Adds
<1>13. PICK h3 \in Heads : /\ h3 = NewCD(<<f, two>>, tag, last, None)
                           /\ h3.tag = tag /\ h3.nt = last /\ h3.sub = None /\ h3.by = <<>>
  <2>1. last \in Int
    BY <1>8a, <1>9
  <2> QED
    BY <1>1, <2>1, NewHead
<1>14. b \in Seq(CDs) /\ Len(b) = Len(s) + 2 /\ Len(s) \in Nat
  BY <1>4, <1>12 DEF Adds
<1>15. ASSUME NEW i \in 1 .. Len(b) PROVE ~Replaces(h3, b[i])
  <2>1. CASE i \in 1 .. Len(s)
    <3>1. b[i] = s[i] /\ s[i] \in CDs
      BY <1>12, <2>1 DEF Adds
    <3>2. s[i].tag = tag => s[i].nt < nt
      BY <1>7, <2>1 DEF IsNext
    <3>3. s[i].nt \in Nat
      BY <3>1, CDIs
    <3>4. s[i].tag = tag => s[i].nt # nt
      BY <1>8a, <3>2, <3>3
    <3> QED
      BY <1>9, <1>13, <3>1, <3>4, Zenon DEF Replaces, SameField
  <2>2. CASE i \notin 1 .. Len(s)
    <3>1. PICK j \in 1 .. 2 : i = Len(s) + j
      <4>1. i - Len(s) \in 1 .. 2 /\ i = Len(s) + (i - Len(s))
        BY <1>14, <2>2
      <4> QED
        BY <4>1
    <3>2. b[i].sub = both[j].sub
      BY <1>4, <1>12, <3>1, Zenon DEF Adds
    <3>3. both[j].sub \in Indicators
      BY <1>3, <1>4, <3>1
    <3> QED
      BY <3>2, <3>3 DEF Replaces
  <2> QED
    BY <2>1, <2>2
<1>16. Adds(l, b, tag, nt, <<>>, rest)
  <2>1. KeptBy(b, h3) = b
    BY <1>14, <1>15, KeptWhole
  <2>2. NewParts(b, h3, rest)
    BY <1>2, <1>13, Zenon DEF NewParts, None
  <2>3. NtOf(b, h3) = nt
    BY <1>8a, <1>9, <1>13 DEF NtOf
  <2>4. Adds(InsertCDLib(b, h3, rest), b, tag, nt, <<>>, rest)
    BY <1>2, <1>13, <1>14, <2>1, <2>2, <2>3, PartsAdded
  <2> QED
    BY <1>13, <2>4
<1> HIDE DEF l
<1> QED
  BY <1>3, <1>5, <1>7, <1>12, <1>16 DEF tag, rest

\* AddField adds a field as the next of its tag.
LEMMA FieldAdded ==
    ASSUME NEW r \in Records, NEW f \in 1 .. Len(r), NEW s \in Seq(CDs), Climbs(s)
    PROVE  \E nt : IsNext(s, r[f].tag, nt) /\ AddsField(AddField(s, r, f), s, r[f].tag, nt, r, f)
<1>1. CASE IsControl(r, f)
  BY <1>1, ControlAdded
<1>2. CASE ~IsControl(r, f)
  <2> DEFINE tag == r[f].tag
             rest == Rest(r, f)
             l == AddField(s, r, f)
             i1 == "I1"
             i2 == "I2"
             both == Inds(r, f)
  <2>1. PICK nt, b : /\ IsNext(s, tag, nt)
                     /\ Adds(b, s, tag, nt, <<>>, both)
                     /\ Adds(l, b, tag, nt, <<>>, rest)
    BY <1>2, DataAdded
  <2>2. /\ rest \in Seq(Parts) /\ Len(rest) > 0 /\ Len(rest) \in Nat
        /\ \A j \in 1 .. Len(rest) : rest[j].sub \notin Indicators
    BY RestIs
  <2>3. /\ Len(both) = 2 /\ both[1].sub = i1 /\ both[2].sub = i2
        /\ both[1].text = InputText(f, 0) /\ both[2].text = InputText(f, 1)
    BY <1>2 DEF Inds
  <2>4. /\ i1 # i2 /\ Indicators = {i1, i2}
        /\ \A c : IndicatorOf(c, r, f) <=>
              (c.sub \in Indicators =>
                 ~IsControl(r, f) /\ c.text = InputText(f, IF c.sub = i1 THEN 0 ELSE 1))
    BY Zenon DEF Indicators, IndicatorOf
  <2> HIDE DEF tag, rest, l, i1, i2, both
  <2>5. nt \in Nat /\ \A i \in 1 .. Len(s) : s[i].tag = tag => s[i].nt < nt
    BY <2>1 DEF IsNext
  <2>6. /\ b \in Seq(CDs) /\ Len(b) = Len(s) + 2 /\ Len(s) \in Nat
        /\ \A j \in 1 .. Len(s) : b[j] = s[j]
    BY <2>1, <2>3 DEF Adds
  <2>7. ASSUME NEW j \in 1 .. 2
        PROVE  /\ b[Len(s) + j].tag = tag /\ b[Len(s) + j].nt = nt /\ b[Len(s) + j].by = <<>>
               /\ b[Len(s) + j].sub = both[j].sub /\ b[Len(s) + j].text = both[j].text
    BY <2>1, <2>3, Zenon DEF Adds
  <2>8. /\ l \in Seq(CDs) /\ Len(l) = Len(b) + Len(rest)
        /\ \A j \in 1 .. Len(b) : l[j] = b[j]
    BY <2>1 DEF Adds
  <2>9. ASSUME NEW j \in 1 .. Len(rest)
        PROVE  /\ l[Len(b) + j].tag = tag /\ l[Len(b) + j].nt = nt /\ l[Len(b) + j].by = <<>>
               /\ l[Len(b) + j].sub = rest[j].sub
    BY <2>1, Zenon DEF Adds
  <2>10. ASSUME NEW i \in Len(s) + 1 .. Len(b)
         PROVE  /\ b[i].tag = tag /\ b[i].nt = nt /\ b[i].by = <<>> /\ b[i].sub \in Indicators
                /\ IndicatorOf(b[i], r, f)
    <3>1. i = Len(s) + 1 \/ i = Len(s) + 2
      BY <2>6
    <3>2. CASE i = Len(s) + 1
      <4>1. b[i].tag = tag /\ b[i].nt = nt /\ b[i].by = <<>> /\ b[i].sub = i1 /\ b[i].text = InputText(f, 0)
        BY <2>3, <2>7, <3>2
      <4> QED
        BY <1>2, <2>4, <4>1
    <3>3. CASE i = Len(s) + 2
      <4>1. b[i].tag = tag /\ b[i].nt = nt /\ b[i].by = <<>> /\ b[i].sub = i2 /\ b[i].text = InputText(f, 1)
        BY <2>3, <2>7, <3>3
      <4> QED
        BY <1>2, <2>4, <4>1
    <3> QED
      BY <3>1, <3>2, <3>3
  <2>11. \A i \in 1 .. Len(b) : b[i] \notin Body(tag, nt)
    <3> TAKE i \in 1 .. Len(b)
    <3>1. CASE i \in 1 .. Len(s)
      <4>1. b[i] \in CDs /\ (b[i].tag = tag => b[i].nt < nt)
        BY <2>5, <2>6, <3>1
      <4>2. b[i].nt \in Nat
        BY <4>1, CDIs
      <4>3. ~(b[i].tag = tag /\ b[i].nt = nt)
        BY <2>5, <4>1, <4>2
      <4> QED
        BY <4>3 DEF Body
    <3>2. CASE i \notin 1 .. Len(s)
      <4>1. i \in Len(s) + 1 .. Len(b)
        BY <2>6, <3>2
      <4> QED
        BY <2>10, <4>1 DEF Body
    <3> QED
      BY <3>1, <3>2
  <2>12. Alike(Of(l, Body(tag, nt)), rest)
    BY <2>1, <2>2, <2>6, <2>11, BodyAdded
  <2>13. ASSUME NEW i \in Len(s) + 1 .. Len(l)
         PROVE  l[i].tag = tag /\ l[i].nt = nt /\ l[i].by = <<>> /\ IndicatorOf(l[i], r, f)
    <3>1. CASE i <= Len(b)
      <4>1. i \in Len(s) + 1 .. Len(b) /\ i \in 1 .. Len(b)
        BY <2>6, <3>1
      <4> QED
        BY <2>8, <2>10, <4>1
    <3>2. CASE ~(i <= Len(b))
      <4>1. PICK j \in 1 .. Len(rest) : i = Len(b) + j
        <5>1. i - Len(b) \in 1 .. Len(rest) /\ i = Len(b) + (i - Len(b))
          BY <2>2, <2>6, <2>8, <3>2
        <5> QED
          BY <5>1
      <4>2. l[i].tag = tag /\ l[i].nt = nt /\ l[i].by = <<>> /\ l[i].sub \notin Indicators
        BY <2>2, <2>9, <4>1
      <4> QED
        BY <2>4, <4>2
    <3> QED
      BY <3>1, <3>2
  <2>14. Len(s) <= Len(l) /\ \A i \in 1 .. Len(s) : l[i] = s[i]
    <3>1. Len(s) <= Len(l) /\ \A i \in 1 .. Len(s) : i \in 1 .. Len(b)
      BY <2>2, <2>6, <2>8
    <3> QED
      BY <2>6, <2>8, <3>1
  <2>15. \A x \in Indicators : \E i \in Len(s) + 1 .. Len(l) : l[i].sub = x
    <3>1. Len(s) + 1 \in Len(s) + 1 .. Len(l) /\ Len(s) + 2 \in Len(s) + 1 .. Len(l)
          /\ Len(s) + 1 \in 1 .. Len(b) /\ Len(s) + 2 \in 1 .. Len(b)
      BY <2>2, <2>6, <2>8
    <3>2. l[Len(s) + 1].sub = i1 /\ l[Len(s) + 2].sub = i2
      BY <2>3, <2>7, <2>8, <3>1
    <3> QED
      BY <2>4, <3>1, <3>2
  <2>16. AddsField(l, s, tag, nt, r, f)
    BY <2>8, <2>12, <2>13, <2>14, <2>15, Zenon DEF AddsField, rest
  <2> QED
    BY <2>1, <2>16 DEF tag, l
<1> QED
  BY <1>1, <1>2

-----------------------------------------------------------------------------
(* What ToCD makes of the fields of a tag                                  *)

\* A CD between two of a field is one of it.
Convex(l, tag) ==
    \A i, j, k \in 1 .. Len(l) :
        i < j /\ j < k /\ l[i].tag = tag /\ SameField(l[i], l[k]) => SameField(l[i], l[j])

RowOf(l, r, tag, k, f) ==
    /\ Alike(Of(l, Body(tag, k)), Rest(r, f))
    /\ ~IsControl(r, f) => \A x \in Indicators :
          \E i \in 1 .. Len(l) : l[i].tag = tag /\ l[i].nt = k /\ l[i].sub = x

\* F counts the fields of a tag among the first f fields of r, and l has them.
Rows(l, r, f, tag, m, F) ==
    /\ l \in Seq(CDs) /\ Climbs(l) /\ Convex(l, tag)
    /\ m \in Nat /\ Rising(F, m, {g \in 1 .. f : r[g].tag = tag})
    /\ \A i \in 1 .. Len(l) : l[i].tag = tag =>
          l[i].nt \in 1 .. m /\ l[i].by = <<>> /\ IndicatorOf(l[i], r, F[l[i].nt])
    /\ \A k \in 1 .. m : RowOf(l, r, tag, k, F[k])

\* Elements added outside A change nothing in A.
LEMMA OfMore ==
    ASSUME NEW s \in Seq(CDs), NEW l \in Seq(CDs), Len(s) <= Len(l), NEW A,
           \A i \in 1 .. Len(s) : l[i] = s[i],
           \A i \in Len(s) + 1 .. Len(l) : l[i] \notin A
    PROVE  Of(l, A) = Of(s, A)
<1> DEFINE o == [a \in 1 .. Len(l) |-> a]
<1>1. Len(s) \in Nat /\ Len(l) \in Nat
  OBVIOUS
<1>2. \A a \in 1 .. Len(l) : o[a] = a
  OBVIOUS
<1> HIDE DEF o
<1>3. \A a \in 1 .. Len(l) : l[a] \in A => a \in 1 .. Len(s) /\ l[a] = s[a]
  BY <1>1
<1>4. \A i \in 1 .. Len(s) : i \in 1 .. Len(l) /\ l[i] = s[i]
  BY <1>1
<1>5. Same(o, l, s, A)
  BY <1>1, <1>2, <1>3, <1>4 DEF Same
<1> QED
  BY <1>5, OfSame

Longer(F, m, f) == [a \in 1 .. m + 1 |-> IF a = m + 1 THEN f ELSE F[a]]

AllBelow(X, f) == X \subseteq Nat /\ \A x \in X : x < f

IsLonger(G, F, m, f, X) ==
    Rising(G, m + 1, X \cup {f}) /\ G[m + 1] = f /\ \A a \in 1 .. m : G[a] = F[a]

\* A greater number comes to the end of a list of rising numbers.
LEMMA RisingNext ==
    ASSUME NEW m \in Nat, NEW F, NEW X, Rising(F, m, X), NEW f \in Nat, AllBelow(X, f)
    PROVE  IsLonger(Longer(F, m, f), F, m, f, X)
<1> DEFINE G == Longer(F, m, f)
<1>1. G[m + 1] = f /\ \A a \in 1 .. m : G[a] = F[a] /\ a \in 1 .. m + 1
  BY DEF Longer
<1>2. \A a \in 1 .. m + 1 : a \in 1 .. m \/ a = m + 1
  OBVIOUS
<1> HIDE DEF G
<1>3. /\ \A a \in 1 .. m : F[a] \in X
      /\ \A a, b \in 1 .. m : a < b => F[a] < F[b]
      /\ \A x \in X : \E a \in 1 .. m : F[a] = x
  BY DEF Rising
<1>4. \A a \in 1 .. m + 1 : G[a] \in X \cup {f}
  BY <1>1, <1>2, <1>3
<1>5. ASSUME NEW a \in 1 .. m + 1, NEW b \in 1 .. m + 1, a < b PROVE G[a] < G[b]
  <2>1. a \in 1 .. m
    BY <1>2, <1>5
  <2>2. CASE b = m + 1
    BY <1>1, <1>3, <2>1, <2>2 DEF AllBelow
  <2>3. CASE b \in 1 .. m
    BY <1>1, <1>3, <1>5, <2>1, <2>3
  <2> QED
    BY <1>2, <2>2, <2>3
<1>6. \A x \in X \cup {f} : \E a \in 1 .. m + 1 : G[a] = x
  <2>1. m + 1 \in 1 .. m + 1
    OBVIOUS
  <2> QED
    BY <1>1, <1>3, <2>1
<1>7. Rising(G, m + 1, X \cup {f})
  BY <1>4, <1>5, <1>6 DEF Rising
<1> QED
  BY <1>1, <1>7 DEF G, IsLonger

\* With a field added, the occurrences still go up and fields stay in one
\* piece.
LEMMA RowsShape ==
    ASSUME NEW r \in Records, NEW f, NEW s \in Seq(CDs), Climbs(s), NEW tag, Convex(s, tag),
           NEW t, NEW nt, IsNext(s, t, nt), NEW l, AddsField(l, s, t, nt, r, f)
    PROVE  Climbs(l) /\ Convex(l, tag)
<1>1. /\ l \in Seq(CDs) /\ Len(s) <= Len(l)
      /\ \A i \in 1 .. Len(s) : l[i] = s[i]
      /\ \A i \in Len(s) + 1 .. Len(l) : l[i].tag = t /\ l[i].nt = nt
  BY DEF AddsField
<1>2. Len(s) \in Nat /\ Len(l) \in Nat
  BY <1>1
<1>3. \A i \in 1 .. Len(s) : s[i].tag = t => s[i].nt < nt
  BY DEF IsNext
<1>4. nt \in Nat /\ \A i \in 1 .. Len(s) : s[i].nt \in Nat
  <2>1. \A c \in CDs : c.nt \in Nat
    BY CDIs
  <2> QED
    BY <2>1 DEF IsNext
<1>5. \A i \in 1 .. Len(l) : i \in 1 .. Len(s) \/ i \in Len(s) + 1 .. Len(l)
  BY <1>2
<1>6. \A i, j \in 1 .. Len(l) : i < j /\ j \in 1 .. Len(s) => i \in 1 .. Len(s)
  BY <1>2
<1>7. Climbs(l)
  <2> SUFFICES ASSUME NEW i \in 1 .. Len(l), NEW j \in 1 .. Len(l), i < j, l[i].tag = l[j].tag
               PROVE  l[i].nt <= l[j].nt
    BY DEF Climbs
  <2>1. CASE j \in 1 .. Len(s)
    <3>1. i \in 1 .. Len(s)
      BY <1>6, <2>1
    <3> QED
      BY <1>1, <2>1, <3>1 DEF Climbs
  <2>2. CASE j \in Len(s) + 1 .. Len(l)
    <3>1. CASE i \in 1 .. Len(s)
      BY <1>1, <1>3, <1>4, <2>2, <3>1
    <3>2. CASE i \in Len(s) + 1 .. Len(l)
      BY <1>1, <1>4, <2>2, <3>2
    <3> QED
      BY <1>5, <3>1, <3>2
  <2> QED
    BY <1>5, <2>1, <2>2
<1>8. Convex(l, tag)
  <2> SUFFICES ASSUME NEW i \in 1 .. Len(l), NEW j \in 1 .. Len(l), NEW k \in 1 .. Len(l),
                      i < j, j < k, l[i].tag = tag, SameField(l[i], l[k])
               PROVE  SameField(l[i], l[j])
    BY DEF Convex
  <2>1. CASE k \in 1 .. Len(s)
    <3>1. j \in 1 .. Len(s) /\ i \in 1 .. Len(s)
      BY <1>6, <2>1
    <3> QED
      BY <1>1, <2>1, <3>1 DEF Convex
  <2>2. CASE k \in Len(s) + 1 .. Len(l)
    <3>1. CASE i \in 1 .. Len(s)
      BY <1>1, <1>3, <1>4, <2>2, <3>1 DEF SameField
    <3>2. CASE i \in Len(s) + 1 .. Len(l)
      <4>1. j \in Len(s) + 1 .. Len(l)
        BY <1>2, <3>2
      <4> QED
        BY <1>1, <3>2, <4>1 DEF SameField
    <3> QED
      BY <1>5, <3>1, <3>2
  <2> QED
    BY <1>5, <2>1, <2>2
<1> QED
  BY <1>7, <1>8

\* A field that is added leaves the others of the list alone.
LEMMA RowStays ==
    ASSUME NEW r \in Records, NEW f, NEW s \in Seq(CDs), NEW t, NEW nt, NEW l,
           AddsField(l, s, t, nt, r, f),
           NEW tag, NEW k, NEW g, RowOf(s, r, tag, k, g), tag # t \/ k # nt
    PROVE  RowOf(l, r, tag, k, g)
<1>1. /\ l \in Seq(CDs) /\ Len(s) <= Len(l)
      /\ \A i \in 1 .. Len(s) : l[i] = s[i]
      /\ \A i \in Len(s) + 1 .. Len(l) : l[i].tag = t /\ l[i].nt = nt
  BY DEF AddsField
<1>2. \A i \in Len(s) + 1 .. Len(l) : l[i] \notin Body(tag, k)
  BY <1>1 DEF Body
<1>3. Of(l, Body(tag, k)) = Of(s, Body(tag, k))
  BY <1>1, <1>2, OfMore
<1>4. \A i \in 1 .. Len(s) : i \in 1 .. Len(l)
  BY <1>1
<1>5. Alike(Of(l, Body(tag, k)), Rest(r, g))
  BY <1>3 DEF RowOf
<1>6. ASSUME ~IsControl(r, g), NEW x \in Indicators
      PROVE  \E i \in 1 .. Len(l) : l[i].tag = tag /\ l[i].nt = k /\ l[i].sub = x
  <2>1. PICK i \in 1 .. Len(s) : s[i].tag = tag /\ s[i].nt = k /\ s[i].sub = x
    BY <1>6 DEF RowOf
  <2> QED
    BY <1>1, <1>4, <2>1
<1> QED
  BY <1>5, <1>6 DEF RowOf

\* AddField gives the record's next field its place among those of its tag.
LEMMA RowsNext ==
    ASSUME NEW r \in Records, NEW f \in 1 .. Len(r), NEW s, NEW tag, NEW m, NEW F,
           Rows(s, r, f - 1, tag, m, F),
           NEW nt, IsNext(s, r[f].tag, nt), NEW l, AddsField(l, s, r[f].tag, nt, r, f)
    PROVE  \E p, G : Rows(l, r, f, tag, p, G)
<1> DEFINE t == r[f].tag
           X == {g \in 1 .. f - 1 : r[g].tag = tag}
           Y == {g \in 1 .. f : r[g].tag = tag}
<1>1. /\ s \in Seq(CDs) /\ Climbs(s) /\ Convex(s, tag) /\ m \in Nat /\ Rising(F, m, X)
      /\ \A i \in 1 .. Len(s) : s[i].tag = tag =>
            s[i].nt \in 1 .. m /\ s[i].by = <<>> /\ IndicatorOf(s[i], r, F[s[i].nt])
      /\ \A k \in 1 .. m : RowOf(s, r, tag, k, F[k])
  BY DEF Rows
<1>2. Climbs(l) /\ Convex(l, tag)
  BY <1>1, RowsShape
<1>3. /\ l \in Seq(CDs) /\ Len(s) <= Len(l)
      /\ \A i \in 1 .. Len(s) : l[i] = s[i]
      /\ \A i \in Len(s) + 1 .. Len(l) : /\ l[i].tag = t /\ l[i].nt = nt /\ l[i].by = <<>>
                                         /\ IndicatorOf(l[i], r, f)
  BY DEF AddsField
<1>4. Len(s) \in Nat /\ Len(l) \in Nat /\ f \in Nat /\ f > 0
  BY <1>1, <1>3, RecordIs
<1>5. \A i \in 1 .. Len(l) : i \in 1 .. Len(s) \/ i \in Len(s) + 1 .. Len(l)
  BY <1>4
<1>6. CASE t # tag
  <2>1. Y = X
    <3>1. \A g \in 1 .. f : g \in 1 .. f - 1 \/ g = f
      BY <1>4
    <3>2. \A g \in 1 .. f - 1 : g \in 1 .. f
      BY <1>4
    <3> QED
      BY <1>6, <3>1, <3>2
  <2>2. \A i \in 1 .. Len(l) : l[i].tag = tag =>
            l[i].nt \in 1 .. m /\ l[i].by = <<>> /\ IndicatorOf(l[i], r, F[l[i].nt])
    BY <1>1, <1>3, <1>5, <1>6
  <2>3. \A k \in 1 .. m : RowOf(l, r, tag, k, F[k])
    BY <1>1, <1>6, RowStays
  <2> HIDE DEF X, Y
  <2>4. Rows(l, r, f, tag, m, F)
    BY <1>1, <1>2, <1>3, <2>1, <2>2, <2>3, Zenon DEF Rows, Y
  <2> QED
    BY <2>4
<1>7. CASE t = tag
  <2> DEFINE G == Longer(F, m, f)
  <2>1. nt = m + 1
    <3>1. /\ nt \in Nat \ {0}
          /\ \A i \in 1 .. Len(s) : s[i].tag = tag => s[i].nt < nt
          /\ \/ nt = 1 /\ \A i \in 1 .. Len(s) : s[i].tag # tag
             \/ \E i \in 1 .. Len(s) : s[i].tag = tag /\ nt = s[i].nt + 1
      BY <1>7 DEF IsNext
    <3>2. ASSUME m > 0 PROVE \E i \in 1 .. Len(s) : s[i].tag = tag /\ s[i].nt = m
      <4>1. m \in 1 .. m
        BY <1>1, <3>2
      <4>2. F[m] \in 1 .. f - 1
        BY <1>1, <4>1 DEF Rising
      <4>3. F[m] \in 1 .. Len(r)
        BY <1>4, <4>2, RecordIs
      <4>4. Len(Rest(r, F[m])) > 0 /\ Len(Rest(r, F[m])) \in Nat
        BY <4>3, RestIs
      <4>5. Alike(Of(s, Body(tag, m)), Rest(r, F[m]))
        BY <1>1, <4>1 DEF RowOf
      <4>6. Of(s, Body(tag, m)) \in Seq(CDs) /\ Len(Of(s, Body(tag, m))) > 0
        BY <1>1, <4>4, <4>5, OfIs DEF Alike
      <4>7. Of(s, Body(tag, m))[1] \in ToSet(Of(s, Body(tag, m)))
        BY <4>6 DEF ToSet
      <4>8. PICK c : c \in Body(tag, m) /\ c \in ToSet(s)
        BY <1>1, <4>7, OfIs
      <4>9. \E i \in 1 .. Len(s) : s[i] = c
        BY <1>1, <4>8 DEF ToSet
      <4> QED
        BY <4>8, <4>9 DEF Body
    <3>3. m = 0 => \A i \in 1 .. Len(s) : s[i].tag # tag
      BY <1>1
    <3>4. CASE m = 0
      BY <3>1, <3>3, <3>4
    <3>5. CASE m > 0
      <4>1. PICK i \in 1 .. Len(s) : s[i].tag = tag /\ s[i].nt = m
        BY <3>2, <3>5
      <4>2. m < nt
        BY <3>1, <4>1
      <4>3. PICK j \in 1 .. Len(s) : s[j].tag = tag /\ nt = s[j].nt + 1
        BY <3>1, <4>1
      <4>4. s[j].nt \in 1 .. m
        BY <1>1, <4>3
      <4> QED
        BY <1>1, <3>1, <4>2, <4>3, <4>4
    <3> QED
      BY <1>1, <3>4, <3>5
  <2>2. X \subseteq Nat /\ \A x \in X : x < f
    BY <1>4
  <2>3. Y = X \cup {f}
    <3>1. \A g \in 1 .. f : g \in 1 .. f - 1 \/ g = f
      BY <1>4
    <3>2. f \in 1 .. f /\ \A g \in 1 .. f - 1 : g \in 1 .. f
      BY <1>4
    <3> QED
      BY <1>7, <3>1, <3>2
  <2> HIDE DEF X, Y
  <2>4. Rising(G, m + 1, Y) /\ G[m + 1] = f /\ \A a \in 1 .. m : G[a] = F[a]
    <3>1. m \in Nat /\ f \in Nat /\ Rising(F, m, X)
      BY <1>1, <1>4
    <3>2. IsLonger(Longer(F, m, f), F, m, f, X)
      <4>1. AllBelow(X, f)
        BY <2>2 DEF AllBelow
      <4> QED
        BY <3>1, <4>1, RisingNext
    <3> QED
      BY <2>3, <3>2 DEF IsLonger
  <2> HIDE DEF G
  <2>5. ASSUME NEW i \in 1 .. Len(l), l[i].tag = tag
        PROVE  l[i].nt \in 1 .. m + 1 /\ l[i].by = <<>> /\ IndicatorOf(l[i], r, G[l[i].nt])
    <3>1. CASE i \in 1 .. Len(s)
      <4>1. s[i].nt \in 1 .. m /\ s[i].by = <<>> /\ IndicatorOf(s[i], r, F[s[i].nt]) /\ l[i] = s[i]
        BY <1>1, <1>3, <2>5, <3>1
      <4>2. s[i].nt \in 1 .. m + 1 /\ G[s[i].nt] = F[s[i].nt]
        BY <1>1, <2>4, <4>1
      <4> QED
        BY <4>1, <4>2
    <3>2. CASE i \in Len(s) + 1 .. Len(l)
      <4>1. l[i].nt = m + 1 /\ l[i].by = <<>> /\ IndicatorOf(l[i], r, f)
        BY <1>3, <2>1, <3>2
      <4> QED
        BY <1>1, <2>4, <4>1
    <3> QED
      BY <1>5, <3>1, <3>2
  <2>6. ASSUME NEW k \in 1 .. m + 1 PROVE RowOf(l, r, tag, k, G[k])
    <3>1. CASE k = m + 1
      <4>1. Alike(Of(l, Body(tag, k)), Rest(r, f))
        BY <1>7, <2>1, <3>1 DEF AddsField
      <4>2. ASSUME ~IsControl(r, f), NEW x \in Indicators
            PROVE  \E i \in 1 .. Len(l) : l[i].tag = tag /\ l[i].nt = k /\ l[i].sub = x
        <5>1. PICK i \in Len(s) + 1 .. Len(l) : l[i].sub = x
          BY <4>2 DEF AddsField
        <5>2. i \in 1 .. Len(l)
          BY <1>4
        <5> QED
          BY <1>3, <1>7, <2>1, <3>1, <5>1, <5>2
      <4>3. RowOf(l, r, tag, k, f)
        BY <4>1, <4>2 DEF RowOf
      <4> QED
        BY <2>4, <3>1, <4>3
    <3>2. CASE k # m + 1
      <4>1. k \in 1 .. m /\ k # nt
        BY <1>1, <2>1, <3>2
      <4>2. RowOf(s, r, tag, k, F[k])
        BY <1>1, <4>1
      <4>3. RowOf(l, r, tag, k, F[k])
        BY <1>1, <4>1, <4>2, RowStays
      <4> QED
        BY <2>4, <4>1, <4>3
    <3> QED
      BY <3>1, <3>2
  <2>7. m + 1 \in Nat
    BY <1>1
  <2>8. Rows(l, r, f, tag, m + 1, G)
    BY <1>2, <1>3, <2>4, <2>5, <2>6, <2>7, Zenon DEF Rows, Y
  <2> QED
    BY <2>8
<1> QED
  BY <1>6, <1>7

\* The leader alone has no field of another tag.
LEMMA LeaderRows ==
    ASSUME NEW r \in Records, NEW tag, tag # 0
    PROVE  \E p, G : Rows(Leader, r, 0, tag, p, G)
<1> DEFINE zero == 0
           part == [sub |-> None, text |-> InputText(zero, zero)]
           parts == <<part>>
           empty == <<>>
<1>1. None \in Subs /\ zero \in Nat /\ 1 \in Int
  <2>1. None \in Subs
    BY Zenon DEF Subs, None
  <2> QED
    BY <2>1
<1>2. part \in Parts /\ part.sub = None
  BY <1>1, TextIs
<1>3. Leader = InsertCDLib(empty, NewCD(<<zero, zero>>, zero, 1, None), parts)
  BY Zenon DEF Leader, None
<1>4. empty \in Seq(CDs) /\ Len(empty) = 0
  OBVIOUS
<1> HIDE DEF part, empty
<1>5. parts \in Seq(Parts) /\ Len(parts) = 1 /\ parts[1].sub = None
  BY <1>2
<1> HIDE DEF zero, parts
<1>6. PICK h \in Heads : /\ h = NewCD(<<zero, zero>>, zero, 1, None)
                         /\ h.tag = zero /\ h.nt = 1 /\ h.sub = None /\ h.by = <<>>
  BY <1>1, NewHead
<1>7. KeptBy(empty, h) = empty
  <2>1. \A i \in 1 .. Len(empty) : ~Replaces(h, empty[i])
    BY <1>4
  <2> QED
    BY <1>4, <2>1, KeptWhole
<1>8. NewParts(empty, h, parts)
  <2>1. \A i \in 1 .. Len(KeptBy(empty, h)) : FALSE
    BY <1>4, <1>7
  <2> QED
    BY <1>5, <2>1, Zenon DEF NewParts, None
<1>9. Adds(Leader, empty, zero, NtOf(empty, h), <<>>, parts)
  BY <1>3, <1>4, <1>5, <1>6, <1>7, <1>8, PartsAdded
<1>10. Leader \in Seq(CDs) /\ Len(Leader) = 1
  BY <1>4, <1>5, <1>9 DEF Adds
<1>11. Leader[1].tag = zero
  <2>1. 1 \in 1 .. Len(parts) /\ 0 + 1 = 1
    BY <1>5
  <2> QED
    BY <1>4, <1>9, <2>1, Zenon DEF Adds
<1>12. \A i \in 1 .. Len(Leader) : i = 1 /\ Leader[i].tag # tag
  BY <1>10, <1>11 DEF zero
<1>13. Climbs(Leader) /\ Convex(Leader, tag)
  BY <1>12 DEF Climbs, Convex
<1> DEFINE G == [a \in {} |-> a]
<1>14. Rising(G, 0, {g \in 1 .. 0 : r[g].tag = tag})
  BY DEF Rising
<1>15. Rows(Leader, r, 0, tag, 0, G)
  BY <1>10, <1>12, <1>13, <1>14 DEF Rows
<1> QED
  BY <1>15

\* ToCD makes of the fields of a tag what it should.
LEMMA RowsOfToCD ==
    ASSUME NEW r \in Records, NEW tag, tag # 0
    PROVE  \E m, F : Rows(ToCD(r), r, Len(r), tag, m, F)
<1> DEFINE n == Len(r)
<1>1. PICK h : Lists(h, r)
  BY ToCDSteps
<1> DEFINE G == {k \in 0 .. n : \E m, F : Rows(h[k], r, k, tag, m, F)}
<1>2. n \in Nat
  BY RecordIs
<1>3. /\ h[0] = Leader /\ h[n] = ToCD(r)
      /\ \A k \in 1 .. n : h[k] = AddField(h[k - 1], r, k)
  BY <1>1 DEF Lists
<1>4. 0 \in G
  <2>1. \E m, F : Rows(h[0], r, 0, tag, m, F)
    BY <1>3, LeaderRows
  <2> QED
    BY <1>2, <2>1
<1>5. ASSUME NEW k \in 1 .. n, k - 1 \in G PROVE k \in G
  <2>1. PICK m, F : Rows(h[k - 1], r, k - 1, tag, m, F)
    BY <1>5
  <2>2. h[k - 1] \in Seq(CDs) /\ Climbs(h[k - 1])
    BY <2>1 DEF Rows
  <2>3. PICK nt : /\ IsNext(h[k - 1], r[k].tag, nt)
                  /\ AddsField(h[k], h[k - 1], r[k].tag, nt, r, k)
    BY <1>3, <2>2, FieldAdded
  <2>4. \E p, D : Rows(h[k], r, k, tag, p, D)
    BY <2>1, <2>3, RowsNext
  <2>5. k \in 0 .. n
    BY <1>2
  <2> QED
    BY <2>4, <2>5
<1>6. n \in G
  <2> HIDE DEF G
  <2>1. \A k \in 0 .. n : k \in G
    BY <1>2, <1>4, <1>5, Induct
  <2> QED
    BY <1>2, <2>1
<1> QED
  BY <1>3, <1>6

-----------------------------------------------------------------------------
(* What a copying table does to a tag its own rules do not speak of        *)

Copied == {"I1", "I2", None}

\* The rule that copies the indicator sub or, without one, the field.
Copier(sub) == IF sub = "I1" THEN Len(rules) - 2
               ELSE IF sub = "I2" THEN Len(rules) - 1 ELSE Len(rules)

CopyRule(x, sub) ==
    /\ rules[x].tag = AnyTag /\ rules[x].toTag = AnyTag
    /\ rules[x].sub = sub /\ rules[x].toSub = sub
    /\ rules[x].toNt = CD_NT /\ ~rules[x].toIn
    /\ ~rules[x].append /\ rules[x].group = 0

Unspoken(tag) ==
    /\ tag \in Nat \ {0} /\ Copying
    /\ \A k \in Own : rules[k].tag \notin {AnyTag, tag} /\ rules[k].toTag # tag

\* Every rule of a copying table is one of its own or copies.
LEMMA CopyRules ==
    ASSUME rules \in Tables, Copying
    PROVE  /\ Len(rules) \in Nat /\ Len(rules) >= 3 /\ DOMAIN rules = 1 .. Len(rules)
           /\ \A sub \in Copied : Copier(sub) \in 1 .. Len(rules) /\ CopyRule(Copier(sub), sub)
           /\ \A k \in 1 .. Len(rules) : k \in Own \/ \E sub \in Copied : k = Copier(sub)
           /\ \A k \in Own : \A sub \in Copied : k < Copier(sub)
           /\ \A a, b \in Copied : Copier(a) = Copier(b) => a = b
<1> DEFINE n == Len(rules)
           i1 == "I1"
           i2 == "I2"
<1>1. n \in Nat /\ DOMAIN rules = 1 .. n
  BY TableIs
<1>2. n >= 3 /\ CopyRule(n - 2, i1) /\ CopyRule(n - 1, i2) /\ CopyRule(n, None)
  BY Zenon DEF Copying, CopyRule, None
<1>3. Copier(i1) = n - 2 /\ Copier(i2) = n - 1 /\ Copier(None) = n
  <2>1. None # "I1" /\ None # "I2"
    BY Zenon DEF None
  <2> QED
    BY <2>1 DEF Copier
<1>4. \A sub \in Copied : sub = i1 \/ sub = i2 \/ sub = None
  BY DEF Copied
<1>5. i1 \in Copied /\ i2 \in Copied /\ None \in Copied
  BY DEF Copied
<1> HIDE DEF n, i1, i2
<1>6. \A sub \in Copied : Copier(sub) \in 1 .. n /\ CopyRule(Copier(sub), sub)
  <2>1. n - 2 \in 1 .. n /\ n - 1 \in 1 .. n /\ n \in 1 .. n
    BY <1>1, <1>2
  <2> QED
    BY <1>2, <1>3, <1>4, <2>1, Zenon
<1>7. \A k \in 1 .. n : k \in 1 .. n - 3 \/ k = n - 2 \/ k = n - 1 \/ k = n
  BY <1>1, <1>2
<1>8. \A k \in 1 .. n - 3 : k < n - 2 /\ k < n - 1 /\ k < n
  BY <1>1, <1>2
<1>9. Own = 1 .. n - 3
  BY DEF Own, n
<1>10. n - 2 # n - 1 /\ n - 2 # n /\ n - 1 # n
  BY <1>1
<1>11. \A a, b \in Copied : Copier(a) = Copier(b) => a = b
  BY <1>3, <1>4, <1>10
<1>12. \A k \in Own : \A sub \in Copied : k < Copier(sub)
  BY <1>3, <1>4, <1>8, <1>9
<1>13. \A k \in 1 .. n : k \in Own \/ \E sub \in Copied : k = Copier(sub)
  BY <1>3, <1>5, <1>7, <1>9
<1> QED
  BY <1>1, <1>2, <1>6, <1>11, <1>12, <1>13 DEF n

\* The CDs of a tag.
TagCDs(tag) == {c \in CDs : c.tag = tag}

\* A selection from a selection is one.
LEMMA OfOf ==
    ASSUME NEW S, NEW l \in Seq(S), NEW A, NEW B, B \subseteq A
    PROVE  Of(Of(l, A), B) = Of(l, B)
<1> DEFINE J == {i \in DOMAIN l : l[i] \in A}
<1>1. \A i \in DOMAIN l : l[i] \in B => i \in J
  OBVIOUS
<1>2. Of(l, A) = Picked(l, J)
  BY DEF Of
<1> HIDE DEF J
<1> QED
  BY <1>1, <1>2, OfPicked

\* Two lists that differ only behind their last CD of A have the same of A.
LEMMA OfPrefix ==
    ASSUME NEW l \in Seq(CDs), NEW t \in Seq(CDs), NEW A, NEW q \in Nat, q <= Len(l), q <= Len(t),
           \A i \in 1 .. q : t[i] = l[i],
           \A i \in q + 1 .. Len(l) : l[i] \notin A,
           \A i \in q + 1 .. Len(t) : t[i] \notin A
    PROVE  Of(t, A) = Of(l, A)
<1> DEFINE s == SubSeq(l, 1, q)
<1>1. Len(l) \in Nat /\ Len(t) \in Nat
  OBVIOUS
<1>2. 1 \in 1 .. Len(l) + 1 /\ q \in 1 - 1 .. Len(l) /\ q - 1 + 1 = q
  BY <1>1
<1>3. s \in Seq(CDs) /\ Len(s) = q /\ \A i \in 1 .. q : s[i] = l[1 + i - 1]
  BY <1>2, Cut
<1> HIDE DEF s
<1>4. \A i \in 1 .. q : s[i] = l[i] /\ s[i] = t[i]
  <2> SUFFICES ASSUME NEW i \in 1 .. q PROVE s[i] = l[i] /\ s[i] = t[i]
    OBVIOUS
  <2>1. 1 + i - 1 = i
    OBVIOUS
  <2> QED
    BY <1>3, <2>1
<1>5. Of(l, A) = Of(s, A)
  BY <1>3, <1>4, OfMore
<1>6. Of(t, A) = Of(s, A)
  BY <1>3, <1>4, OfMore
<1> QED
  BY <1>5, <1>6

-----------------------------------------------------------------------------
(* Which rules are for a CD of the tag                                     *)

\* What a rule matches: its tag or ???, and the subfield it names.
LEMMA MatchIs ==
    ASSUME NEW c, NEW r
    PROVE  /\ IsEqual(c, RuleCD(r)) => r.tag \in {AnyTag, c.tag}
           /\ r.tag = AnyTag /\ r.sub = None => IsEqual(c, RuleCD(r))
           /\ r.tag = AnyTag /\ r.sub = c.sub => IsEqual(c, RuleCD(r))
           /\ r.sub \in Indicators /\ IsEqual(c, RuleCD(r)) => c.sub = r.sub
<1>1. /\ RuleCD(r).tag = r.tag /\ RuleCD(r).sub = r.sub
      /\ RuleCD(r).nt = 0 /\ RuleCD(r).ns = 0 /\ RuleCD(r).n = 0
  BY DEF RuleCD
<1>2. ~(0 > 0)
  OBVIOUS
<1>3. \A x \in Indicators : x # "" /\ x # AnySub
  BY Zenon DEF Indicators, AnySub
<1>4. IsEqual(c, RuleCD(r)) => r.tag \in {AnyTag, c.tag}
  BY <1>1, Zenon DEF IsEqual
<1>5. r.tag = AnyTag /\ r.sub = None => IsEqual(c, RuleCD(r))
  BY <1>1, <1>2, Zenon DEF IsEqual, None
<1>6. r.tag = AnyTag /\ r.sub = c.sub => IsEqual(c, RuleCD(r))
  BY <1>1, <1>2, Zenon DEF IsEqual
<1>7. r.sub \in Indicators /\ IsEqual(c, RuleCD(r)) => c.sub = r.sub
  BY <1>1, <1>3, Zenon DEF IsEqual
<1> QED
  BY <1>4, <1>5, <1>6, <1>7

\* The rules of the table's own pass over the tag's CDs.
LEMMA OwnPasses ==
    ASSUME NEW tag, Unspoken(tag), NEW k \in Own, in[At].tag = tag
    PROVE  ~Concerns(rules[k])
<1>1. rules[k].tag \notin {AnyTag, tag}
  BY DEF Unspoken
<1> QED
  BY <1>1, MatchIs, Zenon DEF Concerns

\* A copying rule takes what it is for, while no rule has matched the tag.
LEMMA CopierTakes ==
    ASSUME NEW sub \in Copied, CopyRule(Copier(sub), sub), canTag
    PROVE  /\ Passes(rules[Copier(sub)])
           /\ sub \in Indicators => (Accepted(rules[Copier(sub)]) <=> in[At].sub = sub)
           /\ sub = None => (Accepted(rules[Copier(sub)]) <=> FirstOfField(in, At))
<1> DEFINE r == rules[Copier(sub)]
<1>1. r.tag = AnyTag /\ r.sub = sub /\ r.group = 0
  BY DEF CopyRule
<1> HIDE DEF r
<1>2. Passes(r)
  BY <1>1 DEF Passes
<1>3. sub # AnySub
  BY Zenon DEF Copied, AnySub, None
<1>4. Accepted(r) <=> Concerns(r)
  BY <1>1, <1>3 DEF Accepted, TagAllowed
<1>5. ASSUME sub \in Indicators PROVE Concerns(r) <=> in[At].sub = sub
  <2>1. sub # ""
    BY <1>5, Zenon DEF Indicators
  <2>2. Concerns(r) <=> IsEqual(in[At], RuleCD(r))
    BY <1>1, <2>1, Zenon DEF Concerns
  <2> QED
    BY <1>1, <1>5, <2>2, MatchIs
<1>6. ASSUME sub = None PROVE Concerns(r) <=> FirstOfField(in, At)
  <2>1. IsEqual(in[At], RuleCD(r))
    BY <1>1, <1>6, MatchIs
  <2>2. r.sub = ""
    BY <1>1, <1>6, Zenon DEF None
  <2> QED
    BY <2>1, <2>2, Zenon DEF Concerns
<1> QED
  BY <1>2, <1>4, <1>5, <1>6 DEF r

-----------------------------------------------------------------------------
(* A field that is found in one piece                                      *)

\* The i-th CD is the first of its field, and nothing is between its CDs.
Run(l, i) ==
    \A k \in 1 .. Len(l) : SameField(l[k], l[i]) =>
        i <= k /\ \A j \in i .. k : j \in 1 .. Len(l) /\ SameField(l[j], l[i])

\* Sets that agree on the places of a list pick the same from it.
LEMMA PickedSame ==
    ASSUME NEW S, NEW l \in Seq(S), NEW I, NEW J, \A i \in 1 .. Len(l) : i \in I <=> i \in J
    PROVE  Picked(l, I) = Picked(l, J)
<1> DEFINE p == Picked(l, I)
           q == Picked(l, J)
<1>1. p \in Seq(S) /\ Selected(p, l, I, Len(l)) /\ q \in Seq(S) /\ Selected(q, l, J, Len(l))
  BY PickedIs
<1> HIDE DEF p, q
<1>2. I \cap (1 .. Len(l)) = J \cap (1 .. Len(l))
  OBVIOUS
<1>3. PICK f \in [1 .. Len(p) -> I \cap (1 .. Len(l))] : Selects(f, p, l, I, Len(l))
  BY <1>1 DEF Selected
<1>4. PICK g \in [1 .. Len(q) -> J \cap (1 .. Len(l))] : Selects(g, q, l, J, Len(l))
  BY <1>1 DEF Selected
<1>5. Selects(g, q, l, I, Len(l))
  BY <1>2, <1>4, Zenon DEF Selects
<1>6. Len(l) \in Nat
  OBVIOUS
<1>7. p = q
  BY <1>1, <1>3, <1>5, <1>6, SameSelection
<1> QED
  BY <1>7 DEF p, q

\* Read from its first CD, a field is all its parts.
LEMMA WholeIs ==
    ASSUME NEW l \in Seq(CDs), NEW i \in 1 .. Len(l), Run(l, i)
    PROVE  WholeField(l, i) = Of(l, Body(l[i].tag, l[i].nt))
<1> DEFINE T == {j \in i .. Len(l) : ~SameField(l[j], l[i])}
           end == IF T # {} THEN Min(T) ELSE 0
           to == IF end = 0 THEN Len(l) ELSE end - 1
           I == {j \in i .. to : l[j].sub \notin Indicators}
           J == {j \in DOMAIN l : l[j] \in Body(l[i].tag, l[i].nt)}
<1>1. WholeField(l, i) = Picked(l, I)
  BY Zenon DEF WholeField, SelectInSubSeq
<1>2. Of(l, Body(l[i].tag, l[i].nt)) = Picked(l, J)
  BY DEF Of
<1>3. Len(l) \in Nat /\ i \in Nat /\ 1 <= i /\ T \subseteq Nat
  OBVIOUS
<1>4. \A j \in 1 .. Len(l) : j \in J <=> SameField(l[j], l[i]) /\ l[j].sub \notin Indicators
  BY DEF Body, SameField
<1> HIDE DEF J
<1>5. \A j \in T : j \in 1 .. Len(l) /\ i <= j /\ ~SameField(l[j], l[i])
  OBVIOUS
<1>6. \A j \in i .. Len(l) : ~SameField(l[j], l[i]) => j \in T
  OBVIOUS
<1> HIDE DEF T
<1>7. end # 0 => end \in T /\ \A j \in T : end <= j
  BY <1>3, LeastIs, Zenon
<1>7a. end # 0 => T # {}
  BY Zenon
<1>8. end = 0 => T = {}
  <2>1. T # {} => Min(T) \in T
    BY <1>3, LeastIs, Zenon
  <2> QED
    BY <1>5, <1>3, <2>1
<1> HIDE DEF end
<1>9. ASSUME NEW j \in 1 .. Len(l) PROVE j \in I <=> SameField(l[j], l[i]) /\ l[j].sub \notin Indicators
  <2>1. ASSUME SameField(l[j], l[i]) PROVE j \in i .. to
    <3>1. i <= j /\ \A k \in i .. j : SameField(l[k], l[i])
      BY <2>1 DEF Run
    <3>2. CASE end = 0
      BY <1>3, <3>1, <3>2
    <3>3. CASE end # 0
      <4>1. end \in 1 .. Len(l) /\ i <= end /\ ~SameField(l[end], l[i])
        BY <1>5, <1>7, <3>3
      <4>2. ~(end <= j)
        BY <1>3, <3>1, <4>1
      <4> QED
        BY <1>3, <3>1, <3>3, <4>1, <4>2
    <3> QED
      BY <3>2, <3>3
  <2>2. ASSUME j \in i .. to PROVE SameField(l[j], l[i])
    <3> SUFFICES ASSUME ~SameField(l[j], l[i]) PROVE FALSE
      OBVIOUS
    <3>1. j \in i .. Len(l)
      BY <1>3, <2>2
    <3>2. j \in T
      BY <1>6, <3>1
    <3>3. end # 0 /\ end <= j /\ end \in 1 .. Len(l)
      BY <1>5, <1>7, <1>8, <3>2
    <3> QED
      BY <1>3, <2>2, <3>3
  <2> QED
    BY <2>1, <2>2
<1> HIDE DEF I, to
<1>10. Picked(l, I) = Picked(l, J)
  BY <1>4, <1>9, PickedSame
<1> QED
  BY <1>1, <1>2, <1>10

\* Where fields are in one piece, a field begins a run.
LEMMA RunOfConvex ==
    ASSUME NEW l \in Seq(CDs), NEW i \in 1 .. Len(l), Convex(l, l[i].tag), FirstOfField(l, i)
    PROVE  Run(l, i)
<1> SUFFICES ASSUME NEW k \in 1 .. Len(l), SameField(l[k], l[i])
             PROVE  i <= k /\ \A j \in i .. k : j \in 1 .. Len(l) /\ SameField(l[j], l[i])
  BY DEF Run
<1>0. Len(l) \in Nat
  OBVIOUS
<1>1. ASSUME NEW a \in 1 .. Len(l), NEW b \in 1 .. Len(l), NEW c \in 1 .. Len(l),
             a < b, b < c, l[a].tag = l[i].tag, SameField(l[a], l[c])
      PROVE  SameField(l[a], l[b])
  BY <1>1 DEF Convex
<1>2. i <= k
  <2> SUFFICES ASSUME k < i PROVE FALSE
    OBVIOUS
  <2>1. i > 1 /\ i - 1 \in 1 .. Len(l)
    OBVIOUS
  <2>2. ~SameField(l[i - 1], l[i])
    BY <2>1 DEF FirstOfField
  <2>3. k # i - 1
    BY <2>2
  <2>4. k < i - 1 /\ i - 1 < i
    BY <2>3
  <2>5. SameField(l[k], l[i - 1])
    BY <1>1, <2>1, <2>4 DEF SameField
  <2> QED
    BY <2>2, <2>5 DEF SameField
<1>3. ASSUME NEW j \in i .. k PROVE j \in 1 .. Len(l) /\ SameField(l[j], l[i])
  <2>1. j \in 1 .. Len(l)
    OBVIOUS
  <2>2. CASE j = i \/ j = k
    BY <2>1, <2>2 DEF SameField
  <2>3. CASE i < j /\ j < k
    BY <1>1, <2>1, <2>3 DEF SameField
  <2> QED
    BY <2>1, <2>2, <2>3
<1> QED
  BY <1>2, <1>3

\* On a sorted list a field begins a run.
LEMMA RunOfInField ==
    ASSUME NEW l \in Seq(CDs), NEW i \in 1 .. Len(l), InField(l), FirstOfField(l, i)
    PROVE  Run(l, i)
<1> SUFFICES ASSUME NEW k \in 1 .. Len(l), SameField(l[k], l[i])
             PROVE  i <= k /\ \A j \in i .. k : j \in 1 .. Len(l) /\ SameField(l[j], l[i])
  BY DEF Run
<1>1. i <= k
  <2> SUFFICES ASSUME k < i PROVE FALSE
    OBVIOUS
  <2> QED
    BY FirstIsOne
<1>2. SameField(l[i], l[k])
  BY DEF SameField
<1> QED
  BY <1>1, <1>2, Together

-----------------------------------------------------------------------------
(* What the output has of a tag the table's own rules do not speak of      *)

\* The CDs of the tag in the input record.
Sources(tag) == Of(ToCD(record), TagCDs(tag))

\* The rule that copies what sub names has had its turn with the CD.
Past(id, sub) == Visited(id) /\ (id = cur => rule > Copier(sub))

FirstOf(l, i) == \A j \in 1 .. i - 1 : ~SameField(l[j], l[i])

FromSource(M, L) ==
    \A e \in ToSet(M) : \E c \in ToSet(L) :
        SameField(e, c) /\ (e.sub \in Indicators => e.sub = c.sub /\ e.text = c.text)

HasIndicator(M, c) == \E e \in ToSet(M) : SameField(e, c) /\ e.sub = c.sub

BodyKept(M, L, i) == Alike(Of(M, Body(L[i].tag, L[i].nt)), Of(L, Body(L[i].tag, L[i].nt)))

\* The output M comes from the CDs L, and has the indicators and the fields
\* of those whose rule has had its turn.
OutputKept(M, L) ==
    /\ FromSource(M, L)
    /\ \A i \in 1 .. Len(L) :
         L[i].sub \in Indicators /\ Past(L[i].id, L[i].sub) => HasIndicator(M, L[i])
    /\ \A i \in 1 .. Len(L) : FirstOf(L, i) /\ Past(L[i].id, None) => BodyKept(M, L, i)

\* The input list keeps the CDs of the tag, before its original end.
InputKept(tag) ==
    /\ Of(in, TagCDs(tag)) = Sources(tag)
    /\ Convex(in, tag)
    /\ \A i \in 1 .. Len(in) : in[i].tag = tag => i <= Position(in, LastOf(record))

OutputInv(tag) ==
    \E M, L : M = Of(out, TagCDs(tag)) /\ L = Sources(tag) /\ OutputKept(M, L)

Others(tag) ==
    Unspoken(tag) /\ phase # "freed" =>
        /\ InputKept(tag)
        /\ OutputInv(tag)
        /\ phase = "convert" /\ in[At].tag = tag => canTag
        /\ phase = "done" => rule \notin DOMAIN rules

\* The turn of the rule comes with this step.
Turn(id, sub) == id = cur /\ rule <= Copier(sub) /\ Copier(sub) < rule'

\* A turn that is past after a step was past before it or came with it.
LEMMA PastLater ==
    ASSUME Types, Later, Copying, NEW id, NEW sub \in Copied, Past(id, sub)'
    PROVE  Past(id, sub) \/ Turn(id, sub)
<1>1. UNCHANGED <<record, rules, cur, offered>>
  BY DEF Later
<1>2. Copier(sub)' = Copier(sub)
  BY <1>1 DEF Copier
<1>3. Visited(id)' = Visited(id)
  BY <1>1 DEF Visited
<1>4. rule \in Nat /\ rule' \in Int /\ Copier(sub) \in Nat
  <2>1. rules \in Tables
    BY DEF Types
  <2>2. Copier(sub) \in 1 .. Len(rules) /\ Len(rules) \in Nat
    BY <2>1, CopyRules
  <2>3. rule \in 1 .. Len(rules) + 1 /\ rule' \in rule + 1 .. Len(rules) + 1
    BY DEF Types, Later
  <2> QED
    BY <2>2, <2>3
<1>5. Visited(id) /\ (id = cur => rule' > Copier(sub))
  BY <1>1, <1>2, <1>3 DEF Past
<1> QED
  BY <1>4, <1>5 DEF Past, Turn

\* A step keeps what the output has, if it keeps it for the rules that had
\* their turn and brings it about for those whose turn it is.
Brings(P, M, L) ==
    /\ FromSource(P, L)
    /\ \A i \in 1 .. Len(L) :
         L[i].sub \in Indicators /\ (HasIndicator(M, L[i]) \/ Turn(L[i].id, L[i].sub)) =>
            HasIndicator(P, L[i])
    /\ \A i \in 1 .. Len(L) :
         FirstOf(L, i) /\ (BodyKept(M, L, i) \/ Turn(L[i].id, None)) => BodyKept(P, L, i)

\* What the step's turn brings is what the invariant asks for.
LEMMA OutputOn ==
    ASSUME Types, Later, Copying, NEW L, NEW M, NEW P, OutputKept(M, L), Brings(P, M, L)
    PROVE  OutputKept(P, L)'
<1>1. \A x \in Indicators : x \in Copied
  BY DEF Indicators, Copied
<1>2. None \in Copied
  BY DEF Copied
<1>3. ASSUME NEW i \in 1 .. Len(L), L[i].sub \in Indicators, Past(L[i].id, L[i].sub)'
      PROVE  HasIndicator(P, L[i])
  <2>1. L[i].sub \in Copied
    BY <1>1, <1>3
  <2>2. Past(L[i].id, L[i].sub) \/ Turn(L[i].id, L[i].sub)
    BY <1>3, <2>1, PastLater
  <2>3. Past(L[i].id, L[i].sub) => HasIndicator(M, L[i])
    BY <1>3, Zenon DEF OutputKept
  <2> QED
    BY <1>3, <2>2, <2>3, Zenon DEF Brings
<1>4. ASSUME NEW i \in 1 .. Len(L), FirstOf(L, i), Past(L[i].id, None)'
      PROVE  BodyKept(P, L, i)
  <2>1. Past(L[i].id, None) \/ Turn(L[i].id, None)
    BY <1>2, <1>4, PastLater
  <2>2. Past(L[i].id, None) => BodyKept(M, L, i)
    BY <1>4, Zenon DEF OutputKept
  <2> QED
    BY <1>4, <2>1, <2>2, Zenon DEF Brings
<1>5. FromSource(P, L)
  BY DEF Brings
<1>6. FromSource(P, L)' /\ \A i : (HasIndicator(P, L[i])' <=> HasIndicator(P, L[i]))
                                  /\ (BodyKept(P, L, i)' <=> BodyKept(P, L, i))
                                  /\ (FirstOf(L, i)' <=> FirstOf(L, i))
  BY <1>5 DEF FromSource, HasIndicator, BodyKept, FirstOf
<1> QED
  BY <1>3, <1>4, <1>6, Zenon DEF OutputKept

\* The parts B of a field can be written to another list as they are.
Whole(B) ==
    /\ B \in Seq(CDs) /\ Len(B) > 0
    /\ \A j \in 1 .. Len(B) : B[j].sub \notin Indicators \cup {AnySub}
    /\ \/ Len(B) = 1 /\ B[1].sub = None
       \/ \A j \in 1 .. Len(B) : B[j].sub # None

SourceCD(c, tag) == c \in CDs /\ c.tag = tag /\ c.by = <<>>

\* The CDs of the record were written by no rule, and their fields are whole.
LEMMA SourceIs ==
    ASSUME record \in Records, NEW tag \in Nat \ {0}, NEW L, L = Sources(tag)
    PROVE  /\ L \in Seq(CDs)
           /\ \A i \in 1 .. Len(L) : /\ SourceCD(L[i], tag)
                                     /\ Whole(Of(L, Body(tag, L[i].nt)))
<1> DEFINE t == ToCD(record)
<1>1. PICK m, F : Rows(t, record, Len(record), tag, m, F)
  BY RowsOfToCD
<1>2. /\ t \in Seq(CDs) /\ m \in Nat
      /\ Rising(F, m, {g \in 1 .. Len(record) : record[g].tag = tag})
      /\ \A i \in 1 .. Len(t) : t[i].tag = tag => t[i].nt \in 1 .. m /\ t[i].by = <<>>
      /\ \A k \in 1 .. m : RowOf(t, record, tag, k, F[k])
  BY <1>1, Zenon DEF Rows
<1> HIDE DEF t
<1>3. L = Of(t, TagCDs(tag))
  BY DEF Sources, t
<1>4. L \in Seq(CDs) /\ \A e : e \in ToSet(L) <=> e \in TagCDs(tag) /\ e \in ToSet(t)
  BY <1>2, <1>3, OfIs
<1>5. ASSUME NEW i \in 1 .. Len(L)
      PROVE  SourceCD(L[i], tag) /\ Whole(Of(L, Body(tag, L[i].nt)))
  <2> DEFINE k == L[i].nt
             B == Of(L, Body(tag, k))
             R == Rest(record, F[k])
  <2>1. L[i] \in ToSet(L)
    BY <1>4 DEF ToSet
  <2>2. L[i] \in CDs /\ L[i].tag = tag /\ L[i] \in ToSet(t)
    BY <1>4, <2>1 DEF TagCDs
  <2>3. PICK j \in 1 .. Len(t) : t[j] = L[i]
    BY <1>2, <2>2 DEF ToSet
  <2>4. k \in 1 .. m /\ L[i].by = <<>>
    BY <1>2, <2>2, <2>3
  <2>5. RowOf(t, record, tag, k, F[k])
    BY <1>2, <2>4
  <2>6. F[k] \in 1 .. Len(record)
    BY <1>2, <2>4 DEF Rising
  <2> HIDE DEF k
  <2>7. Body(tag, k) \subseteq TagCDs(tag)
    BY DEF Body, TagCDs
  <2>8. B = Of(t, Body(tag, k))
    BY <1>2, <1>3, <2>7, OfOf
  <2>9. Alike(B, R)
    BY <2>5, <2>8 DEF RowOf
  <2>10. /\ R \in Seq(Parts) /\ Len(R) > 0
         /\ \A x \in 1 .. Len(R) : R[x].sub \notin Indicators \cup {AnySub}
         /\ IF IsControl(record, F[k]) THEN Len(R) = 1 /\ R[1].sub = None
            ELSE \A x \in 1 .. Len(R) : R[x].sub # None
    BY <2>6, RestIs
  <2>11. B \in Seq(CDs)
    BY <1>4, OfIs
  <2> HIDE DEF B, R
  <2>12. Len(B) = Len(R) /\ \A x \in 1 .. Len(R) : B[x].sub = R[x].sub
    BY <2>9 DEF Alike
  <2>13. 1 \in 1 .. Len(R)
    BY <2>10
  <2>14. Len(B) > 0 /\ \A x \in 1 .. Len(B) : B[x].sub \notin Indicators \cup {AnySub}
    BY <2>10, <2>12
  <2>15. (Len(B) = 1 /\ B[1].sub = None) \/ \A x \in 1 .. Len(B) : B[x].sub # None
    BY <2>10, <2>12, <2>13
  <2>16. Whole(B)
    BY <2>11, <2>14, <2>15 DEF Whole
  <2> QED
    BY <2>2, <2>4, <2>16 DEF SourceCD, B, k
<1> QED
  BY <1>4, <1>5

\* The CDs of the tag on the input list are those of the record.
LEMMA OnInput ==
    ASSUME Types, NEW tag, InputKept(tag), NEW L, L = Sources(tag)
    PROVE  /\ L \in Seq(CDs)
           /\ \A c : c \in ToSet(L) <=> c \in CDs /\ c.tag = tag /\ c \in ToSet(in)
<1>1. in \in Seq(CDs) /\ L = Of(in, TagCDs(tag))
  BY DEF Types, InputKept
<1> QED
  BY <1>1, OfIs DEF TagCDs

\* The CD in process, of the tag, is one of the record.
LEMMA AtSource ==
    ASSUME Types, WalkInv, phase # "freed", NEW tag, InputKept(tag), NEW L, L = Sources(tag)
    PROVE  /\ in[At].tag = tag => \E i \in 1 .. Len(L) : L[i] = in[At]
           /\ \A i \in 1 .. Len(L) : L[i].id = cur => L[i] = in[At] /\ in[At].tag = tag
<1>1. in \in Seq(CDs) /\ Distinct(in) /\ At \in 1 .. Len(in) /\ in[At].id = cur
  BY AtIs DEF Types
<1>2. L \in Seq(CDs) /\ \A c : c \in ToSet(L) <=> c \in CDs /\ c.tag = tag /\ c \in ToSet(in)
  BY OnInput
<1>3. ASSUME in[At].tag = tag PROVE \E i \in 1 .. Len(L) : L[i] = in[At]
  <2>1. in[At] \in CDs /\ in[At] \in ToSet(in)
    BY <1>1 DEF ToSet
  <2>2. in[At] \in ToSet(L)
    BY <1>2, <1>3, <2>1
  <2> QED
    BY <1>2, <2>2 DEF ToSet
<1>4. ASSUME NEW i \in 1 .. Len(L), L[i].id = cur PROVE L[i] = in[At] /\ in[At].tag = tag
  <2>1. L[i] \in ToSet(L)
    BY <1>2 DEF ToSet
  <2>2. L[i].tag = tag /\ L[i] \in ToSet(in)
    BY <1>2, <2>1
  <2>3. PICK j \in 1 .. Len(in) : in[j] = L[i]
    BY <1>1, <2>2 DEF ToSet
  <2>4. At = j
    BY <1>4, <2>3, AtIs
  <2> QED
    BY <2>2, <2>3, <2>4
<1> QED
  BY <1>3, <1>4

\* The first CD of a field of the record is its first on the list.
LEMMA FirstOnInput ==
    ASSUME Types, WalkInv, phase # "freed", NEW tag, InputKept(tag), NEW L, L = Sources(tag),
           NEW i \in 1 .. Len(L), L[i].id = cur, FirstOf(L, i)
    PROVE  FirstOfField(in, At)
<1> SUFFICES ASSUME At > 1, SameField(in[At - 1], in[At]) PROVE FALSE
  BY DEF FirstOfField
<1>1. /\ in \in Seq(CDs) /\ Distinct(in) /\ At \in 1 .. Len(in) /\ in[At].id = cur
      /\ \A j \in 1 .. Len(in) : in[j].id = cur => At = j
  BY AtIs DEF Types
<1>2. L[i] = in[At] /\ in[At].tag = tag
  BY AtSource
<1>3. L = Of(in, TagCDs(tag))
  BY DEF InputKept
<1> DEFINE I == {j \in DOMAIN in : in[j] \in TagCDs(tag)}
<1>4. L \in Seq(CDs) /\ \E f : Selects(f, L, in, I, Len(in))
  <2>1. in \in Seq(CDs)
    BY <1>1
  <2>2. \E f : Selects(f, Of(in, TagCDs(tag)), in, I, Len(in))
    BY <2>1, OfIs, Zenon
  <2>3. Of(in, TagCDs(tag)) \in Seq(CDs)
    BY <2>1, OfIs
  <2> QED
    BY <1>3, <2>2, <2>3
<1>5. PICK f : Selects(f, L, in, I, Len(in))
  BY <1>4
<1>6. At - 1 \in 1 .. Len(in) /\ At - 1 < At /\ At \in Nat /\ Len(in) \in Nat
  BY <1>1
<1>7. At - 1 \in I
  <2>1. in[At - 1] \in CDs /\ in[At - 1].tag = tag /\ At - 1 \in DOMAIN in
    BY <1>1, <1>2, <1>6 DEF SameField
  <2> QED
    BY <2>1 DEF TagCDs
<1>8. /\ \A a \in 1 .. Len(L) : f[a] \in I \cap (1 .. Len(in)) /\ L[a] = in[f[a]]
      /\ \A a, b \in 1 .. Len(L) : a < b => f[a] < f[b]
      /\ \A j \in I \cap (1 .. Len(in)) : \E a \in 1 .. Len(L) : f[a] = j
  BY <1>5 DEF Selects
<1> HIDE DEF I
<1>9. PICK a \in 1 .. Len(L) : f[a] = At - 1
  BY <1>6, <1>7, <1>8
<1>10. f[i] = At
  <2>1. f[i] \in 1 .. Len(in) /\ L[i] = in[f[i]]
    BY <1>8
  <2> QED
    BY <1>1, <2>1
<1>11. a < i
  <2> SUFFICES ASSUME ~(a < i) PROVE FALSE
    OBVIOUS
  <2>1. a = i \/ i < a
    BY <1>4
  <2>2. f[a] = f[i] \/ f[i] < f[a]
    BY <1>8, <2>1
  <2> QED
    BY <1>6, <1>9, <1>10, <2>2
<1>12. a \in 1 .. i - 1
  BY <1>4, <1>11
<1>13. L[a] = in[At - 1]
  BY <1>8, <1>9
<1> QED
  BY <1>2, <1>12, <1>13 DEF FirstOf

\* A rule for another tag that writes the input list leaves the tag alone:
\* its CDs stand before the part of the list that is sorted.
KeptOn(t, tag) ==
    /\ Of(t, TagCDs(tag)) = Of(in, TagCDs(tag))
    /\ Convex(t, tag)
    /\ \A i \in 1 .. Len(t) : t[i].tag = tag => i <= Position(t, LastOf(record))

\* A rule that writes the input list for another tag keeps those of this one.
LEMMA InputStays ==
    ASSUME Types, IdsInv, WalkInv, phase = "convert", NEW tag, InputKept(tag),
           NEW h, NEW k \in Nat, h.id = Append(cur, rule), h.tag # tag,
           NEW l \in Seq(CDs), Grown(l, in, h, k), Distinct(l),
           Of(l, TagCDs(tag)) = Of(in, TagCDs(tag)),
           NEW last, last = Position(l, LastOf(record)), last # 0,
           NEW t \in Seq(CDs), Sorted(t, l, last + 1, Len(l))
    PROVE  KeptOn(t, tag)
<1> DEFINE A == TagCDs(tag)
           z == LastOf(record)
           P == Position(in, z)
<1>1. /\ in \in Seq(CDs) /\ Distinct(in) /\ Len(in) \in Nat
      /\ P # 0 /\ Convex(in, tag)
      /\ \A i \in 1 .. Len(in) : in[i].tag = tag => i <= P
  BY DEF Types, InputKept, WalkInv
<1>2. P \in 1 .. Len(in) /\ in[P].id = z /\ \A j \in 1 .. Len(in) : in[j].id = z => P = j
  BY <1>1, PositionIs
<1>3. Len(l) \in Nat /\ Len(t) \in Nat
  OBVIOUS
<1> HIDE DEF P
<1>4. PICK m \in Nat : \E from \in [1 .. m -> 1 .. Len(in)] : Grows(from, m, l, in, h, k)
  BY DEF Grown
<1>5. PICK from \in [1 .. m -> 1 .. Len(in)] : Grows(from, m, l, in, h, k)
  BY <1>4
<1>6. /\ m <= Len(l) /\ Len(l) \in Nat
      /\ \A a, b \in 1 .. m : a < b => from[a] < from[b]
      /\ \A a \in 1 .. m : /\ from[a] \in 1 .. Len(in)
                           /\ l[a].id = in[from[a]].id /\ SameField(l[a], in[from[a]])
      /\ \A a \in m + 1 .. Len(l) : l[a].tag = h.tag /\ \E q \in 1 .. k : l[a].id = Append(h.id, q)
  <2>1. /\ m <= Len(l)
        /\ \A a, b \in 1 .. m : a < b => from[a] < from[b]
        /\ \A a \in 1 .. m : Left(l[a], in[from[a]], h.by)
        /\ \A a \in m + 1 .. Len(l) : IsNew(l[a], h, k)
    BY <1>5, Zenon DEF Grows
  <2>2. \A a \in 1 .. m : from[a] \in 1 .. Len(in)
    BY <1>5
  <2>3. \A a \in 1 .. m : l[a].id = in[from[a]].id /\ SameField(l[a], in[from[a]])
    BY <2>1, Zenon DEF Left
  <2>4. \A a \in m + 1 .. Len(l) : l[a].tag = h.tag /\ \E q \in 1 .. k : l[a].id = Append(h.id, q)
    BY <2>1, Zenon DEF IsNew
  <2> QED
    BY <1>3, <2>1, <2>2, <2>3, <2>4
<1>7. last \in 1 .. Len(l) /\ l[last].id = z
  BY PositionIs
<1>8. \A a \in 1 .. Len(l) : a \in 1 .. m \/ a \in m + 1 .. Len(l)
  BY <1>6
<1>9. last \in 1 .. m
  <2> SUFFICES ASSUME last \in m + 1 .. Len(l) PROVE FALSE
    BY <1>7, <1>8
  <2>1. PICK q \in 1 .. k : l[last].id = Append(h.id, q)
    BY <1>6
  <2>2. q \in Nat
    BY <1>1
  <2> QED
    BY <1>2, <1>7, <2>1, <2>2, NewOne
<1>10. from[last] = P
  BY <1>2, <1>6, <1>7, <1>9
<1>11. ASSUME NEW a \in 1 .. Len(l), l[a].tag = tag PROVE a \in 1 .. m /\ a <= last
  <2>1. a \in 1 .. m
    BY <1>6, <1>8, <1>11
  <2>2. from[a] <= P
    BY <1>1, <1>6, <1>11, <2>1 DEF SameField
  <2>3. ~(last < a)
    <3> SUFFICES ASSUME last < a PROVE FALSE
      OBVIOUS
    <3>1. P < from[a]
      BY <1>6, <1>9, <1>10, <2>1
    <3> QED
      BY <1>2, <1>6, <2>1, <2>2, <3>1
  <2> QED
    BY <1>7, <2>1, <2>3
<1>13. last + 1 \in Nat /\ 1 <= last + 1
  BY <1>7
<1>15. /\ Distinct(t) /\ Len(t) = Len(l)
       /\ \A a \in 1 .. Len(l) : a < last + 1 => a \in 1 .. Len(t) /\ t[a] = l[a]
  <2>1. Len(t) = Len(l)
    BY DEF Sorted
  <2> QED
    BY <2>1, SortedKeeps
<1>16. \A a \in 1 .. last : a \in 1 .. Len(l) /\ a \in 1 .. Len(t) /\ t[a] = l[a]
  BY <1>7, <1>15
<1>17. ASSUME NEW i \in 1 .. Len(t), t[i].tag = tag PROVE i <= last
  <2>1. \A x \in 1 .. Len(l) : \E a \in 1 .. Len(l) : t[x] = l[a]
    <3>1. PICK place : Sorts(place, t, l, last + 1, Len(l))
      BY DEF Sorted
    <3>2. /\ \A a \in 1 .. Len(l) : t[place[a]] = l[a]
          /\ \A x \in 1 .. Len(l) : \E a \in 1 .. Len(l) : place[a] = x
      BY <3>1, Zenon DEF Sorts
    <3> SUFFICES ASSUME NEW x \in 1 .. Len(l) PROVE \E a \in 1 .. Len(l) : t[x] = l[a]
      OBVIOUS
    <3>3. PICK a \in 1 .. Len(l) : place[a] = x
      BY <3>2
    <3>4. t[place[a]] = l[a]
      BY <3>2
    <3> QED
      BY <3>3, <3>4, Zenon
  <2>2. PICK a \in 1 .. Len(l) : t[i] = l[a]
    BY <1>15, <2>1
  <2>3. a \in 1 .. last
    BY <1>7, <1>11, <1>17, <2>2
  <2>4. t[a] = t[i] /\ a \in 1 .. Len(t)
    BY <1>16, <2>2, <2>3
  <2>5. a = i
    BY <1>15, <2>4 DEF Distinct
  <2> QED
    BY <2>3, <2>5
<1>18. Position(t, z) = last
  <2>1. last \in 1 .. Len(t) /\ t[last].id = z
    BY <1>7, <1>16
  <2> QED
    BY <1>15, <2>1, PositionIs
<1>19. Of(t, A) = Of(l, A)
  <2>1. last \in Nat /\ last <= Len(l) /\ last <= Len(t)
    BY <1>7, <1>15
  <2>2. \A i \in last + 1 .. Len(l) : l[i] \notin A
    <3> SUFFICES ASSUME NEW i \in last + 1 .. Len(l) PROVE l[i].tag # tag
      BY DEF TagCDs
    <3>1. i \in 1 .. Len(l) /\ ~(i <= last)
      BY <1>6, <1>7
    <3> QED
      BY <1>11, <3>1
  <2>3. \A i \in last + 1 .. Len(t) : t[i] \notin A
    <3> SUFFICES ASSUME NEW i \in last + 1 .. Len(t) PROVE t[i].tag # tag
      BY DEF TagCDs
    <3>1. i \in 1 .. Len(t) /\ ~(i <= last)
      BY <1>6, <1>7, <1>15
    <3> QED
      BY <1>17, <3>1
  <2> HIDE DEF A
  <2>4. \A i \in 1 .. last : t[i] = l[i]
    BY <1>16
  <2> QED
    BY <1>3, <2>1, <2>2, <2>3, <2>4, OfPrefix
<1>20. Convex(t, tag)
  <2> SUFFICES ASSUME NEW i \in 1 .. Len(t), NEW j \in 1 .. Len(t), NEW b \in 1 .. Len(t),
                      i < j, j < b, t[i].tag = tag, SameField(t[i], t[b])
               PROVE  SameField(t[i], t[j])
    BY DEF Convex
  <2>1. b <= last
    BY <1>17 DEF SameField
  <2>2. i \in 1 .. last /\ j \in 1 .. last /\ b \in 1 .. last
    BY <1>7, <1>15, <2>1
  <2>3. i \in 1 .. m /\ j \in 1 .. m /\ b \in 1 .. m
    BY <1>9, <2>2
  <2>4. t[i] = l[i] /\ t[j] = l[j] /\ t[b] = l[b]
    BY <1>16, <2>2
  <2>5. from[i] < from[j] /\ from[j] < from[b]
    BY <1>6, <2>3
  <2>6. SameField(l[i], in[from[i]]) /\ SameField(l[j], in[from[j]]) /\ SameField(l[b], in[from[b]])
    BY <1>6, <2>3
  <2>7. in[from[i]].tag = tag /\ SameField(in[from[i]], in[from[b]])
    BY <2>4, <2>6 DEF SameField
  <2>8. from[i] \in 1 .. Len(in) /\ from[j] \in 1 .. Len(in) /\ from[b] \in 1 .. Len(in)
    BY <1>6, <2>3
  <2>9. SameField(in[from[i]], in[from[j]])
    BY <1>1, <2>5, <2>7, <2>8 DEF Convex
  <2> QED
    BY <2>4, <2>6, <2>9 DEF SameField
<1> QED
  BY <1>17, <1>18, <1>19, <1>20, Zenon DEF KeptOn

-----------------------------------------------------------------------------
(* What a rule that copies writes                                          *)

\* n in the rule's output: the occurrence of the input.
LEMMA OutputNt ==
    ASSUME NEW r, NEW c, r.toNt = CD_NT
    PROVE  OutputCD(r, c).nt = c.nt
<1> DEFINE sub == IF r.toSub = AnySub THEN c.sub ELSE r.toSub
           tag == IF r.toTag = AnyTag THEN c.tag ELSE r.toTag
           nt == IF r.toNt = CD_NT THEN c.nt ELSE r.toNt
           ns == IF sub = "" THEN 0
                 ELSE IF r.toNt = CD_NT /\ sub \notin Indicators THEN c.ns ELSE 1
           new == NewCD(c.id, tag, nt, sub)
<1>1. OutputCD(r, c) = [new EXCEPT !.by = c.id, !.ns = ns]
  BY Zenon DEF OutputCD
<1> HIDE DEF ns, sub, tag
<1>2. nt = c.nt
  OBVIOUS
<1> HIDE DEF nt
<1>3. [new EXCEPT !.by = c.id, !.ns = ns].nt = nt
  BY DEF NewCD
<1> QED
  BY <1>1, <1>2, <1>3

\* l is the list s with the parts S of the CD c written as sub.
Copies(l, s, h, parts, c, sub, S) ==
    /\ l = InsertCDLib(s, h, parts)
    /\ h.tag = c.tag /\ h.nt = c.nt /\ h.sub = sub /\ Len(parts) = Len(S)
    /\ \A j \in 1 .. Len(S) : /\ parts[j].sub = IF sub = None THEN S[j].sub ELSE sub
                              /\ parts[j].text = S[j].text

\* A rule that copies writes the parts it reads under the tag and occurrence
\* they have.
LEMMA CopierWrites ==
    ASSUME rules \in Tables, in \in Seq(CDs), out \in Seq(CDs), NEW i \in 1 .. Len(in),
           NEW sub \in Copied, NEW k \in 1 .. Len(rules), CopyRule(k, sub),
           IsEqual(in[i], RuleCD(rules[k])), Source(i, k) # <<>>
    PROVE  \E h \in Heads, parts \in Seq(Parts) :
              Copies(Evaluate_Rule(out, i, k), out, h, parts, in[i], sub, Source(i, k))
<1> DEFINE r == rules[k]
           c == in[i]
           o == OutputCD(r, c)
           S == Source(i, k)
           l == Evaluate_Rule(out, i, k)
<1>1. Names(l, out, i, k)
  BY EvaluateNames
<1>2. r.toTag = AnyTag /\ r.toSub = sub /\ r.toNt = CD_NT /\ ~r.append
  BY DEF CopyRule
<1>3. sub # AnySub
  BY Zenon DEF Copied, AnySub, None
<1>4. r \in Rules /\ c \in CDs
  <2>1. r \in Rules
    BY RuleIs
  <2>2. c \in CDs
    OBVIOUS
  <2> QED
    BY <2>1, <2>2
<1> HIDE DEF r, c
<1>5. o.tag = c.tag /\ o.sub = sub /\ o.nt = c.nt
  BY <1>2, <1>3, <1>4, OutputCDIs, OutputNt
<1> HIDE DEF o, l, S
<1>6. PICK h \in Heads, parts \in Seq(Parts) :
        /\ l = InsertCDLib(out, h, parts)
        /\ h.tag = o.tag /\ h.nt = o.nt /\ h.sub = o.sub
        /\ ~r.append /\ S # <<>> =>
             /\ Len(parts) = Len(S)
             /\ \A j \in 1 .. Len(S) :
                  /\ parts[j].sub = IF o.sub = "" THEN S[j].sub ELSE o.sub
                  /\ parts[j].text = S[j].text
  BY <1>1, Zenon DEF Names, o, S, r, c
<1>7. Copies(l, out, h, parts, c, sub, S)
  <2>1. S # <<>>
    BY DEF S
  <2>2. /\ Len(parts) = Len(S)
        /\ \A j \in 1 .. Len(S) :
                  /\ parts[j].sub = IF sub = "" THEN S[j].sub ELSE sub
                  /\ parts[j].text = S[j].text
    BY <1>2, <1>5, <1>6, <2>1, Zenon
  <2> QED
    BY <1>5, <1>6, <2>2, Zenon DEF Copies, None
<1> QED
  BY <1>7 DEF l, S, c

-----------------------------------------------------------------------------
(* What becomes of the output's CDs of a tag                               *)

\* InsertCDLib makes a list of CDs.
LEMMA ListInserted ==
    ASSUME NEW s \in Seq(CDs), NEW h \in Heads, NEW parts \in Seq(Parts)
    PROVE  InsertCDLib(s, h, parts) \in Seq(CDs)
BY InsertCDLibIs DEF Grown

\* TagCDs selects the CDs of the tag.
LEMMA InTag ==
    ASSUME NEW l \in Seq(CDs), NEW tag
    PROVE  /\ Of(l, TagCDs(tag)) \in Seq(CDs)
           /\ \A e : e \in ToSet(Of(l, TagCDs(tag))) <=> e \in ToSet(l) /\ e.tag = tag
           /\ \A e \in ToSet(l) : e \in CDs
<1>1. \A e \in ToSet(l) : e \in CDs
  BY DEF ToSet
<1> QED
  BY <1>1, OfIs DEF TagCDs

\* What is written comes from a CD of the record, if its indicators do.
LEMMA FromPut ==
    ASSUME NEW s \in Seq(CDs), NEW h \in Heads, NEW parts \in Seq(Parts),
           NEW l, l = InsertCDLib(s, h, parts), NEW tag, NEW L,
           FromSource(Of(s, TagCDs(tag)), L),
           \A j \in 1 .. Len(parts) : parts[j].sub # AnySub,
           NEW c \in ToSet(L), c.tag = h.tag, c.nt = NtOf(s, h),
           \A j \in 1 .. Len(parts) : parts[j].sub \in Indicators =>
              parts[j].sub = c.sub /\ parts[j].text = c.text
    PROVE  FromSource(Of(l, TagCDs(tag)), L)
<1> SUFFICES ASSUME NEW e \in ToSet(Of(l, TagCDs(tag)))
             PROVE  \E b \in ToSet(L) :
                SameField(e, b) /\ (e.sub \in Indicators => e.sub = b.sub /\ e.text = b.text)
  BY DEF FromSource
<1>1. l \in Seq(CDs)
  BY ListInserted
<1>2. e \in ToSet(l) /\ e.tag = tag
  BY <1>1, InTag
<1>3. e \in ToSet(s) \/ HasPart(e, h, NtOf(s, h), parts)
  BY <1>2, InsertedFrom
<1>4. CASE e \in ToSet(s)
  <2>1. e \in ToSet(Of(s, TagCDs(tag)))
    BY <1>2, <1>4, InTag
  <2> QED
    BY <2>1 DEF FromSource
<1>5. CASE HasPart(e, h, NtOf(s, h), parts)
  <2>1. PICK j \in 1 .. Len(parts) :
          e.tag = h.tag /\ e.nt = NtOf(s, h) /\ e.sub = parts[j].sub /\ e.text = parts[j].text
    BY <1>5 DEF HasPart
  <2>2. SameField(e, c)
    BY <2>1 DEF SameField
  <2> QED
    BY <2>1, <2>2
<1> QED
  BY <1>3, <1>4, <1>5

\* An indicator that is there stays there.
LEMMA IndicatorOn ==
    ASSUME NEW s \in Seq(CDs), NEW h \in Heads, NEW parts \in Seq(Parts),
           NEW l, l = InsertCDLib(s, h, parts), NEW tag,
           NEW c, c.tag = tag, c.sub \in Indicators, HasIndicator(Of(s, TagCDs(tag)), c)
    PROVE  HasIndicator(Of(l, TagCDs(tag)), c)
<1>1. l \in Seq(CDs)
  BY ListInserted
<1>2. PICK d \in ToSet(Of(s, TagCDs(tag))) : SameField(d, c) /\ d.sub = c.sub
  BY DEF HasIndicator
<1>3. d \in ToSet(s)
  BY InTag
<1>4. PICK e \in ToSet(l) : SameField(e, d) /\ e.sub = d.sub
  BY <1>2, <1>3, IndicatorStays
<1>5. e.tag = tag /\ SameField(e, c) /\ e.sub = c.sub
  BY <1>2, <1>4 DEF SameField
<1>6. e \in ToSet(Of(l, TagCDs(tag)))
  BY <1>1, <1>4, <1>5, InTag
<1> QED
  BY <1>5, <1>6 DEF HasIndicator

\* The parts of a field are among the CDs of its tag.
LEMMA BodyOf ==
    ASSUME NEW l \in Seq(CDs), NEW tag, NEW nt
    PROVE  Of(Of(l, TagCDs(tag)), Body(tag, nt)) = Of(l, Body(tag, nt))
<1>1. Body(tag, nt) \subseteq TagCDs(tag)
  BY DEF Body, TagCDs
<1> QED
  BY <1>1, OfOf

\* A field that is kept stays so if what is written is elsewhere.
LEMMA BodyOn ==
    ASSUME NEW s \in Seq(CDs), NEW h \in Heads, NEW parts \in Seq(Parts),
           NEW l, l = InsertCDLib(s, h, parts), NEW tag, NEW L, NEW i, L[i].tag = tag,
           Elsewhere(Body(tag, L[i].nt), h, NtOf(s, h), parts),
           BodyKept(Of(s, TagCDs(tag)), L, i)
    PROVE  BodyKept(Of(l, TagCDs(tag)), L, i)
<1> DEFINE B == Body(tag, L[i].nt)
<1>1. l \in Seq(CDs)
  BY ListInserted
<1>2. Of(l, B) = Of(s, B)
  BY OfElsewhere
<1>3. Of(Of(l, TagCDs(tag)), B) = Of(l, B) /\ Of(Of(s, TagCDs(tag)), B) = Of(s, B)
  BY <1>1, BodyOf
<1> QED
  BY <1>2, <1>3, Zenon DEF BodyKept

\* What the field's rule leaves is of other fields, or an indicator.
LEMMA KeptIs ==
    ASSUME NEW s \in Seq(CDs), NEW h, h.sub = None
    PROVE  /\ KeptBy(s, h) \in Seq(CDs)
           /\ \A i \in 1 .. Len(KeptBy(s, h)) : ~Replaces(h, KeptBy(s, h)[i])
<1> DEFINE I == {i \in DOMAIN s : ~Replaces(h, s[i])}
           l == Picked(s, I)
<1>1. KeptBy(s, h) = l
  BY Zenon DEF KeptBy, None
<1>2. l \in Seq(CDs) /\ Selected(l, s, I, Len(s))
  BY PickedIs
<1>3. \A i \in I : ~Replaces(h, s[i])
  OBVIOUS
<1> HIDE DEF I, l
<1>4. PICK f \in [1 .. Len(l) -> I \cap (1 .. Len(s))] : Selects(f, l, s, I, Len(s))
  BY <1>2 DEF Selected
<1>5. \A a \in 1 .. Len(l) : f[a] \in I /\ l[a] = s[f[a]]
  BY <1>4 DEF Selects
<1>6. \A a \in 1 .. Len(l) : ~Replaces(h, l[a])
  BY <1>3, <1>5
<1> QED
  BY <1>1, <1>2, <1>6

\* After a whole field is written, its parts are those that were written.
LEMMA FieldWritten ==
    ASSUME NEW s \in Seq(CDs), NEW h \in Heads, NEW parts \in Seq(Parts), NEW c \in CDs,
           NEW S, Whole(S), NEW l, Copies(l, s, h, parts, c, None, S)
    PROVE  Alike(Of(l, Body(c.tag, c.nt)), S)
<1> DEFINE b == KeptBy(s, h)
<1>1. /\ l = InsertCDLib(s, h, parts) /\ h.tag = c.tag /\ h.nt = c.nt /\ h.sub = None
      /\ Len(parts) = Len(S)
      /\ \A j \in 1 .. Len(S) : parts[j].sub = S[j].sub /\ parts[j].text = S[j].text
  BY Zenon DEF Copies
<1>2. NtOf(s, h) = c.nt
  <2>1. c.nt \in Nat \ {0}
    BY CDIs
  <2>2. h.nt > 0
    BY <1>1, <2>1
  <2> QED
    BY <1>1, <2>2, Zenon DEF NtOf
<1>3. b \in Seq(CDs) /\ \A i \in 1 .. Len(b) : ~Replaces(h, b[i])
  BY <1>1, KeptIs
<1> HIDE DEF b
<1>4. /\ S \in Seq(CDs) /\ Len(S) > 0
      /\ \A j \in 1 .. Len(S) : S[j].sub \notin Indicators \cup {AnySub}
      /\ (Len(S) = 1 /\ S[1].sub = None) \/ \A j \in 1 .. Len(S) : S[j].sub # None
  BY DEF Whole
<1>5. \A x \in Indicators : x # None
  BY Zenon DEF Indicators, None
<1>6. \A i \in 1 .. Len(b) : b[i].tag = h.tag /\ b[i].nt = c.nt => b[i].sub \in Indicators
  BY <1>1, <1>3 DEF Replaces, SameField
<1>7. NewParts(s, h, parts)
  <2>1. CASE \A j \in 1 .. Len(S) : S[j].sub # None
    <3>1. \A j \in 1 .. Len(parts) : parts[j].sub # None
      BY <1>1, <2>1
    <3> QED
      BY <1>1, <3>1, Zenon DEF NewParts, None
  <2>2. CASE Len(S) = 1 /\ S[1].sub = None
    <3>1. 1 \in 1 .. Len(S)
      BY <2>2
    <3>2. Len(parts) = 1 /\ parts[1].sub = None
      BY <1>1, <2>2, <3>1
    <3>3. \A i \in 1 .. Len(b) : b[i].tag = h.tag /\ b[i].nt = NtOf(s, h) => b[i].sub # None
      BY <1>2, <1>5, <1>6
    <3> QED
      BY <3>2, <3>3, Zenon DEF NewParts, None, b
  <2> QED
    BY <1>4, <2>1, <2>2
<1>8. Adds(l, b, c.tag, c.nt, h.by, parts)
  BY <1>1, <1>2, <1>7, PartsAdded DEF b
<1>9. \A i \in 1 .. Len(b) : b[i] \notin Body(c.tag, c.nt)
  BY <1>1, <1>3 DEF Body, Replaces, SameField
<1>10. \A j \in 1 .. Len(parts) : parts[j].sub \notin Indicators
  BY <1>1, <1>4
<1>11. Alike(Of(l, Body(c.tag, c.nt)), parts)
  BY <1>3, <1>8, <1>9, <1>10, BodyAdded
<1> QED
  BY <1>1, <1>11 DEF Alike

\* Of what list, and from what CDs.
OfField(L, tag) == \A i \in 1 .. Len(L) : L[i].tag = tag

FieldBrings(P, M, L, c) ==
    /\ FromSource(P, L)
    /\ \A i \in 1 .. Len(L) : L[i].sub \in Indicators /\ HasIndicator(M, L[i]) => HasIndicator(P, L[i])
    /\ \A i \in 1 .. Len(L) : BodyKept(M, L, i) \/ L[i].nt = c.nt => BodyKept(P, L, i)

IndicatorBrings(P, M, L, c) ==
    /\ FromSource(P, L)
    /\ \A i \in 1 .. Len(L) :
         L[i].sub \in Indicators /\ (HasIndicator(M, L[i]) \/ L[i] = c) => HasIndicator(P, L[i])
    /\ \A i \in 1 .. Len(L) : BodyKept(M, L, i) => BodyKept(P, L, i)

\* The field's rule brings the field and leaves the indicators and other
\* fields.
LEMMA FieldBrought ==
    ASSUME NEW s \in Seq(CDs), NEW h \in Heads, NEW parts \in Seq(Parts), NEW c \in CDs,
           NEW S, Whole(S), NEW l, Copies(l, s, h, parts, c, None, S),
           NEW tag, c.tag = tag, NEW L, c \in ToSet(L), OfField(L, tag),
           S = Of(L, Body(tag, c.nt)), FromSource(Of(s, TagCDs(tag)), L)
    PROVE  FieldBrings(Of(l, TagCDs(tag)), Of(s, TagCDs(tag)), L, c)
<1> DEFINE M == Of(s, TagCDs(tag))
           P == Of(l, TagCDs(tag))
<1>1. /\ l = InsertCDLib(s, h, parts) /\ h.tag = tag /\ h.nt = c.nt /\ h.sub = None
      /\ Len(parts) = Len(S)
      /\ \A j \in 1 .. Len(S) : parts[j].sub = S[j].sub
  BY Zenon DEF Copies
<1>2. NtOf(s, h) = c.nt
  <2>1. c.nt \in Nat \ {0}
    BY CDIs
  <2>2. h.nt > 0
    BY <1>1, <2>1
  <2> QED
    BY <1>1, <2>2, Zenon DEF NtOf
<1>3. \A j \in 1 .. Len(parts) : parts[j].sub \notin Indicators \cup {AnySub}
  BY <1>1 DEF Whole
<1>4. FromSource(P, L)
  BY <1>1, <1>2, <1>3, FromPut
<1>5. ASSUME NEW i \in 1 .. Len(L), L[i].sub \in Indicators, HasIndicator(M, L[i])
      PROVE  HasIndicator(P, L[i])
  <2>1. L[i].tag = tag
    BY DEF OfField
  <2> QED
    BY <1>1, <1>5, <2>1, IndicatorOn
<1>6. l \in Seq(CDs)
  BY <1>1, ListInserted
<1>7. ASSUME NEW i \in 1 .. Len(L), L[i].nt = c.nt PROVE BodyKept(P, L, i)
  <2>1. L[i].tag = tag
    BY DEF OfField
  <2>2. Alike(Of(l, Body(tag, c.nt)), S)
    BY FieldWritten
  <2>3. Of(P, Body(tag, c.nt)) = Of(l, Body(tag, c.nt))
    BY <1>6, BodyOf
  <2> QED
    BY <1>7, <2>1, <2>2, <2>3, Zenon DEF BodyKept
<1>8. ASSUME NEW i \in 1 .. Len(L), L[i].nt # c.nt, BodyKept(M, L, i) PROVE BodyKept(P, L, i)
  <2>1. L[i].tag = tag
    BY DEF OfField
  <2>2. Elsewhere(Body(tag, L[i].nt), h, NtOf(s, h), parts)
    BY <1>2, <1>8 DEF Elsewhere, Body
  <2> QED
    BY <1>1, <1>8, <2>1, <2>2, BodyOn
<1> QED
  BY <1>4, <1>5, <1>7, <1>8 DEF FieldBrings

\* The indicator's rule brings the indicator and leaves the fields.
LEMMA IndicatorBrought ==
    ASSUME NEW s \in Seq(CDs), NEW h \in Heads, NEW parts \in Seq(Parts), NEW c \in CDs,
           NEW sub \in Indicators, c.sub = sub, NEW l, Copies(l, s, h, parts, c, sub, <<c>>),
           NEW tag, c.tag = tag, NEW L, c \in ToSet(L), OfField(L, tag),
           FromSource(Of(s, TagCDs(tag)), L)
    PROVE  IndicatorBrings(Of(l, TagCDs(tag)), Of(s, TagCDs(tag)), L, c)
<1> DEFINE M == Of(s, TagCDs(tag))
           P == Of(l, TagCDs(tag))
           S == <<c>>
<1>1. S \in Seq(CDs) /\ Len(S) = 1 /\ S[1] = c
  BY Single
<1> HIDE DEF S
<1>2. sub # None /\ sub # AnySub
  BY Zenon DEF Indicators, None, AnySub
<1>3. /\ l = InsertCDLib(s, h, parts) /\ h.tag = tag /\ h.nt = c.nt /\ h.sub = sub
      /\ Len(parts) = Len(S)
      /\ \A j \in 1 .. Len(S) : parts[j].sub = sub /\ parts[j].text = S[j].text
  BY <1>2, Zenon DEF Copies, S
<1>4. NtOf(s, h) = c.nt
  <2>1. c.nt \in Nat \ {0}
    BY CDIs
  <2>2. h.nt > 0
    BY <1>3, <2>1
  <2> QED
    BY <1>3, <2>2, Zenon DEF NtOf
<1>5. Len(parts) = 1 /\ \A j \in 1 .. Len(parts) : parts[j].sub = sub /\ parts[j].text = c.text
  <2>1. \A j \in 1 .. Len(S) : j = 1
    BY <1>1
  <2> QED
    BY <1>1, <1>3, <2>1
<1>6. FromSource(P, L)
  BY <1>2, <1>3, <1>4, <1>5, FromPut
<1>7. l \in Seq(CDs)
  BY <1>3, ListInserted
<1>8. HasIndicator(P, c)
  <2>1. 1 \in 1 .. Len(parts)
    BY <1>5
  <2>2. PICK e \in ToSet(l) : e.tag = h.tag /\ e.nt = NtOf(s, h) /\ e.sub = sub
    BY <1>2, <1>3, <1>5, <2>1, PartIsThere
  <2>3. e \in ToSet(P)
    BY <1>3, <1>7, <2>2, InTag
  <2> QED
    BY <1>3, <1>4, <2>2, <2>3 DEF HasIndicator, SameField
<1>9. ASSUME NEW i \in 1 .. Len(L), L[i].sub \in Indicators, HasIndicator(M, L[i])
      PROVE  HasIndicator(P, L[i])
  <2>1. L[i].tag = tag
    BY DEF OfField
  <2> QED
    BY <1>3, <1>9, <2>1, IndicatorOn
<1>10. ASSUME NEW i \in 1 .. Len(L), BodyKept(M, L, i) PROVE BodyKept(P, L, i)
  <2>1. L[i].tag = tag
    BY DEF OfField
  <2>2. Elsewhere(Body(tag, L[i].nt), h, NtOf(s, h), parts)
    BY <1>3, <1>5 DEF Elsewhere, Body
  <2> QED
    BY <1>3, <1>10, <2>1, <2>2, BodyOn
<1> QED
  BY <1>6, <1>8, <1>9, <1>10 DEF IndicatorBrings

\* Only the three rules that copy are for a CD of the tag.
LEMMA AcceptedAt ==
    ASSUME rules \in Tables, NEW tag, Unspoken(tag), in[At].tag = tag,
           rule \in 1 .. Len(rules), Concerns(rules[rule])
    PROVE  \E sub \in Copied : rule = Copier(sub) /\ CopyRule(rule, sub)
<1>1. Copying
  BY DEF Unspoken
<1>2. rule \in Own \/ \E sub \in Copied : rule = Copier(sub)
  BY <1>1, CopyRules
<1>3. rule \notin Own
  BY OwnPasses
<1>4. PICK sub \in Copied : rule = Copier(sub)
  BY <1>2, <1>3
<1>5. CopyRule(Copier(sub), sub)
  BY <1>1, CopyRules
<1> QED
  BY <1>4, <1>5

\* What a step has to do for the tag.
LEMMA OthersOn ==
    ASSUME Inv, Inv', Later, phase = "convert", phase' = "convert",
           NEW tag, Unspoken(tag), Others(tag), MarkMatched(rules[rule]), InputKept(tag)',
           \A M, P, L : /\ M = Of(out, TagCDs(tag)) /\ P = Of(out', TagCDs(tag))
                        /\ L = Sources(tag) /\ OutputKept(M, L)
                        => Brings(P, M, L)
    PROVE  Others(tag)'
<1>1. Types /\ WalkInv /\ Types' /\ WalkInv'
  BY DEF Inv
<1>2. UNCHANGED <<record, rules, cur, offered>>
  BY DEF Later
<1>3. InputKept(tag) /\ OutputInv(tag) /\ (in[At].tag = tag => canTag)
  BY DEF Others
<1>4. PICK M, L : M = Of(out, TagCDs(tag)) /\ L = Sources(tag) /\ OutputKept(M, L)
  BY <1>3 DEF OutputInv
<1>5. PICK P : P = Of(out', TagCDs(tag))
  OBVIOUS
<1>6. Brings(P, M, L)
  BY <1>4, <1>5, Zenon
<1>7. Copying /\ rules \in Tables
  BY <1>1 DEF Unspoken, Types
<1>8. OutputKept(P, L)'
  BY <1>1, <1>4, <1>6, <1>7, OutputOn
<1>9. L = Sources(tag)'
  BY <1>2, <1>4 DEF Sources
<1>10. OutputInv(tag)'
  BY <1>5, <1>8, <1>9, Zenon DEF OutputInv
<1>11. ASSUME (in[At].tag = tag)' PROVE canTag'
  <2> DEFINE c == in'[At']
  <2>1. At' \in 1 .. Len(in') /\ c.id = cur /\ in' \in Seq(CDs) /\ Distinct(in')
    <3>1. in' \in Seq(CDs) /\ Distinct(in') /\ At' # 0
      BY <1>1 DEF Types, WalkInv
    <3>2. At' = Position(in', cur')
      BY DEF At
    <3> QED
      BY <1>2, <3>1, <3>2, PositionIs
  <2>2. c \in ToSet(in') /\ c \in CDs
    BY <2>1 DEF ToSet
  <2>3. c.tag = tag
    BY <1>11
  <2> HIDE DEF c
  <2>4. L = Of(in', TagCDs(tag))
    BY <1>9 DEF InputKept
  <2>5. c \in ToSet(L) /\ L \in Seq(CDs)
    BY <2>1, <2>2, <2>3, <2>4, InTag
  <2>6. PICK i \in 1 .. Len(L) : L[i] = c
    BY <2>5 DEF ToSet
  <2>7. L[i].id = cur
    BY <2>1, <2>6 DEF c
  <2>8. in[At].tag = tag
    BY <1>1, <1>3, <1>4, <2>7, AtSource
  <2>9. ~(Concerns(rules[rule]) /\ rules[rule].tag # AnyTag)
    <3> SUFFICES ASSUME Concerns(rules[rule]) PROVE rules[rule].tag = AnyTag
      OBVIOUS
    <3>1. rule \in 1 .. Len(rules)
      <4>1. rule \in 1 .. Len(rules) + 1 /\ rule' \in rule + 1 .. Len(rules) + 1
        BY <1>1 DEF Types, Later
      <4>2. Len(rules) \in Nat
        BY <1>7, TableIs
      <4> QED
        BY <4>1, <4>2
    <3>2. \E sub \in Copied : CopyRule(rule, sub)
      BY <1>7, <2>8, <3>1, AcceptedAt
    <3> QED
      BY <3>2 DEF CopyRule
  <2> QED
    BY <1>3, <2>8, <2>9 DEF MarkMatched
<1> QED
  BY <1>10, <1>11 DEF Others

\* Where it is the turn of a rule.
LEMMA TurnIs ==
    ASSUME rules \in Tables, Copying, rule \in Nat, rule' = rule + 1, NEW sub \in Copied,
           NEW id, Turn(id, sub)
    PROVE  id = cur /\ rule = Copier(sub) /\ CopyRule(rule, sub)
<1>1. id = cur /\ rule <= Copier(sub) /\ Copier(sub) < rule + 1
  BY DEF Turn
<1>2. Copier(sub) \in 1 .. Len(rules) /\ Len(rules) \in Nat /\ CopyRule(Copier(sub), sub)
  BY CopyRules
<1>3. rule = Copier(sub)
  BY <1>1, <1>2
<1> QED
  BY <1>1, <1>2, <1>3

\* A rule that is skipped is not one that copies the CD in process.
LEMMA SkipOthers ==
    ASSUME Inv, Inv', SkipRule \/ SkipGroup, NEW tag, Others(tag)
    PROVE  Others(tag)'
<1>1. Types /\ WalkInv
  BY DEF Inv
<1>2. Later /\ phase = "convert" /\ rule \in 1 .. Len(rules) /\ rules \in Tables
  BY <1>1, LaterIs DEF Types
<1>3. UNCHANGED <<record, rules, in, out, cur, offered, fields, phase>> /\ MarkMatched(rules[rule])
  BY DEF SkipRule, SkipGroup
<1> SUFFICES ASSUME Unspoken(tag) PROVE Others(tag)'
  <2>1. Unspoken(tag)' => Unspoken(tag)
    BY <1>3, Zenon DEF Unspoken, Copying, Own
  <2> QED
    BY <2>1 DEF Others
<1>4. InputKept(tag) /\ (in[At].tag = tag => canTag)
  BY <1>2 DEF Others
<1>5. InputKept(tag)'
  BY <1>3, <1>4 DEF InputKept, Sources
<1>6. Copying
  BY DEF Unspoken
<1>7. ASSUME NEW M, NEW L, L = Sources(tag), OutputKept(M, L) PROVE Brings(M, M, L)
  <2>1. ASSUME NEW i \in 1 .. Len(L), NEW sub \in Copied, Turn(L[i].id, sub),
               sub \in Indicators => L[i].sub = sub, sub = None => FirstOf(L, i)
        PROVE  FALSE
    <3>1. L[i].id = cur
      BY <2>1 DEF Turn
    <3>2. L[i] = in[At] /\ in[At].tag = tag /\ canTag
      BY <1>1, <1>2, <1>4, <1>7, <3>1, AtSource
    <3>3. CASE SkipRule
      <4>1. rule' = rule + 1 /\ ~Accepted(rules[rule])
        BY <3>3 DEF SkipRule
      <4>2. rule = Copier(sub) /\ CopyRule(Copier(sub), sub)
        BY <1>2, <1>6, <2>1, <4>1, TurnIs
      <4>3. sub \in Indicators \/ sub = None
        BY <2>1 DEF Copied, Indicators
      <4>4. CASE sub \in Indicators
        BY <2>1, <3>2, <4>1, <4>2, <4>4, CopierTakes
      <4>5. CASE sub = None
        <5>1. FirstOfField(in, At)
          BY <1>1, <1>2, <1>4, <1>7, <2>1, <3>1, <4>5, FirstOnInput
        <5> QED
          BY <2>1, <3>2, <4>1, <4>2, <4>5, <5>1, CopierTakes
      <4> QED
        BY <4>3, <4>4, <4>5
    <3>4. CASE SkipGroup
      <4>1. Accepted(rules[rule]) /\ ~Passes(rules[rule])
        BY <3>4 DEF SkipGroup
      <4>2. Concerns(rules[rule])
        BY <4>1 DEF Accepted
      <4>3. PICK x \in Copied : rule = Copier(x) /\ CopyRule(rule, x)
        BY <1>2, <3>2, <4>2, AcceptedAt
      <4>4. Passes(rules[rule])
        BY <3>2, <4>3, CopierTakes
      <4> QED
        BY <4>1, <4>4
    <3> QED
      BY <3>3, <3>4
  <2>2. \A x \in Indicators : x \in Copied /\ x # None
    BY Zenon DEF Indicators, Copied, None
  <2>3. None \in Copied /\ None \notin Indicators
    BY <2>2 DEF Copied
  <2>4. \A i \in 1 .. Len(L) : L[i].sub \in Indicators => ~Turn(L[i].id, L[i].sub)
    BY <2>1, <2>2
  <2>5. \A i \in 1 .. Len(L) : FirstOf(L, i) => ~Turn(L[i].id, None)
    BY <2>1, <2>3
  <2>6. FromSource(M, L)
    BY <1>7 DEF OutputKept
  <2> QED
    BY <2>4, <2>5, <2>6, Zenon DEF Brings
<1>8. \A M, P, L : /\ M = Of(out, TagCDs(tag)) /\ P = Of(out', TagCDs(tag))
                   /\ L = Sources(tag) /\ OutputKept(M, L)
                   => Brings(P, M, L)
  BY <1>3, <1>7
<1>9. phase' = "convert"
  BY <1>2, <1>3
<1> QED
  BY <1>2, <1>3, <1>5, <1>8, <1>9, OthersOn

\* A rule for a CD of another tag does not write this tag.
LEMMA OtherTag ==
    ASSUME rules \in Tables, NEW tag, Unspoken(tag), rule \in 1 .. Len(rules), in[At].tag # tag
    PROVE  (IF rules[rule].toTag = AnyTag THEN in[At].tag ELSE rules[rule].toTag) # tag
<1>1. Copying /\ \A k \in Own : rules[k].toTag # tag
  BY DEF Unspoken
<1>2. rule \in Own \/ \E sub \in Copied : rule = Copier(sub) /\ CopyRule(Copier(sub), sub)
  BY <1>1, CopyRules
<1>3. CASE rule \in Own
  BY <1>1, <1>3
<1>4. CASE \E sub \in Copied : rule = Copier(sub) /\ CopyRule(Copier(sub), sub)
  BY <1>4 DEF CopyRule
<1> QED
  BY <1>2, <1>3, <1>4

\* A rule for a CD of another tag writes elsewhere.
LEMMA WritesElsewhere ==
    ASSUME Types, WalkInv, phase = "convert", rule \in 1 .. Len(rules), Concerns(rules[rule]),
           NEW tag, Unspoken(tag), in[At].tag # tag, NEW s \in {in, out}
    PROVE  Of(Evaluate_Rule(s, At, rule), TagCDs(tag)) = Of(s, TagCDs(tag))
<1> DEFINE l == Evaluate_Rule(s, At, rule)
           A == TagCDs(tag)
           r == rules[rule]
           c == in[At]
<1>1. s \in Seq(CDs) /\ in \in Seq(CDs) /\ rules \in Tables
  BY DEF Types
<1>2. At \in 1 .. Len(in)
  BY AtIs
<1>3. IsEqual(in[At], RuleCD(rules[rule]))
  BY Zenon DEF Concerns
<1>4. Writes(l, s, c, r, rule)
  BY <1>1, <1>2, <1>3, EvaluateIs
<1>5. (IF r.toTag = AnyTag THEN c.tag ELSE r.toTag) # tag
  BY <1>1, OtherTag
<1> HIDE DEF l, r, c
<1>6. PICK h \in Heads, parts \in Seq(Parts) : l = InsertCDLib(s, h, parts) /\ h.tag # tag
  BY <1>4, <1>5, Zenon DEF Writes
<1>7. Elsewhere(A, h, NtOf(s, h), parts)
  BY <1>6 DEF Elsewhere, TagCDs
<1> HIDE DEF A
<1>8. Of(l, A) = Of(s, A)
  BY <1>1, <1>6, <1>7, OfElsewhere
<1> QED
  BY <1>8 DEF l, A

\* The copying rule for the field takes all of it from the list.
LEMMA SourceWhole ==
    ASSUME Types, WalkInv, phase = "convert", NEW tag \in Nat \ {0}, InputKept(tag),
           NEW L, L = Sources(tag), in[At].tag = tag, FirstOfField(in, At)
    PROVE  /\ WholeField(in, At) = Of(L, Body(tag, in[At].nt))
           /\ Whole(WholeField(in, At))
<1>1. in \in Seq(CDs) /\ record \in Records /\ At \in 1 .. Len(in)
  BY AtIs DEF Types
<1>2. L = Of(in, TagCDs(tag)) /\ Convex(in, in[At].tag)
  BY DEF InputKept
<1>3. Run(in, At)
  BY <1>1, <1>2, RunOfConvex
<1>4. WholeField(in, At) = Of(in, Body(tag, in[At].nt))
  BY <1>1, <1>3, WholeIs
<1>5. Of(L, Body(tag, in[At].nt)) = Of(in, Body(tag, in[At].nt))
  BY <1>1, <1>2, BodyOf
<1>6. PICK i \in 1 .. Len(L) : L[i] = in[At]
  BY AtSource
<1>7. Whole(Of(L, Body(tag, L[i].nt)))
  BY <1>1, SourceIs
<1> QED
  BY <1>4, <1>5, <1>6, <1>7

\* At a CD of the tag the copying rule writes what it should.
LEMMA CopierBrings ==
    ASSUME Types, WalkInv, phase = "convert", NEW tag, Unspoken(tag), InputKept(tag),
           NEW M, M = Of(out, TagCDs(tag)), NEW P, P = Of(out', TagCDs(tag)),
           NEW L, L = Sources(tag), FromSource(M, L),
           in[At].tag = tag, canTag, rule \in 1 .. Len(rules), Accepted(rules[rule]),
           rule' = rule + 1, out' = Evaluate_Rule(out, At, rule)
    PROVE  Brings(P, M, L)
<1> DEFINE c == in[At]
           S == Source(At, rule)
           l == Evaluate_Rule(out, At, rule)
<1>1. /\ rules \in Tables /\ record \in Records /\ in \in Seq(CDs) /\ out \in Seq(CDs)
      /\ At \in 1 .. Len(in) /\ c \in CDs
  BY AtIs DEF Types
<1>2. Copying /\ tag \in Nat \ {0}
  BY DEF Unspoken
<1>3. Concerns(rules[rule]) /\ IsEqual(c, RuleCD(rules[rule]))
  BY Zenon DEF Accepted, Concerns
<1>4. PICK sub \in Copied : rule = Copier(sub) /\ CopyRule(rule, sub)
  BY <1>1, <1>3, AcceptedAt
<1>5. /\ sub \in Indicators => c.sub = sub
      /\ sub = None => FirstOfField(in, At)
  BY <1>4, CopierTakes
<1>6. \A x \in Indicators : x \in Copied /\ x # None
  BY Zenon DEF Indicators, Copied, None
<1>7. None \in Copied
  BY DEF Copied
<1>8. L \in Seq(CDs) /\ OfField(L, tag) /\ \A i \in 1 .. Len(L) : L[i].id = cur => L[i] = c
  <2>1. \A i \in 1 .. Len(L) : L[i].id = cur => L[i] = c
    BY AtSource
  <2> QED
    BY <1>1, <1>2, <2>1, SourceIs DEF OfField, SourceCD
<1>9. c \in ToSet(L)
  <2>1. \E i \in 1 .. Len(L) : L[i] = c
    BY AtSource
  <2> QED
    BY <1>8, <2>1 DEF ToSet
<1>10. ASSUME NEW i \in 1 .. Len(L), NEW x \in Copied, Turn(L[i].id, x)
       PROVE  L[i] = c /\ x = sub
  <2>1. rule \in Nat
    BY <1>1, TableIs
  <2>2. L[i].id = cur /\ rule = Copier(x)
    BY <1>1, <1>2, <1>10, <2>1, TurnIs
  <2>3. Copier(x) = Copier(sub)
    BY <1>4, <2>2
  <2> QED
    BY <1>1, <1>2, <1>8, <2>2, <2>3, CopyRules
<1>11. CASE sub = None
  <2>1. S = WholeField(in, At)
    <3>1. rules[rule].sub = ""
      BY <1>4, <1>11, Zenon DEF CopyRule, None
    <3> QED
      BY <3>1, Zenon DEF Source
  <2>2. S = Of(L, Body(tag, c.nt)) /\ Whole(S)
    BY <1>2, <1>5, <1>11, <2>1, SourceWhole
  <2>3. S # <<>>
    BY <2>2 DEF Whole
  <2>4. PICK h \in Heads, parts \in Seq(Parts) : Copies(l, out, h, parts, c, sub, S)
    BY <1>1, <1>3, <1>4, <2>3, CopierWrites
  <2>5. l = out' /\ Copies(out', out, h, parts, c, None, S)
    BY <1>11, <2>4
  <2> HIDE DEF S, c, l
  <2>6. PICK t : t = out'
    OBVIOUS
  <2>7. Copies(t, out, h, parts, c, None, S) /\ P = Of(t, TagCDs(tag))
    BY <2>5, <2>6
  <2>8. c.tag = tag
    BY DEF c
  <2>8a. FromSource(Of(out, TagCDs(tag)), L)
    OBVIOUS
  <2>9. FieldBrings(Of(t, TagCDs(tag)), Of(out, TagCDs(tag)), L, c)
    BY <1>1, <1>8, <1>9, <2>2, <2>7, <2>8, <2>8a, FieldBrought
  <2>9a. FieldBrings(P, M, L, c)
    BY <2>7, <2>9
  <2>10. \A i \in 1 .. Len(L) : Turn(L[i].id, None) => L[i] = c
    BY <1>7, <1>10
  <2>11. \A i \in 1 .. Len(L) : L[i].sub \in Indicators => ~Turn(L[i].id, L[i].sub)
    BY <1>6, <1>10, <1>11
  <2> QED
    BY <2>9a, <2>10, <2>11, Zenon DEF Brings, FieldBrings, IndicatorBrings
<1>12. CASE sub \in Indicators
  <2>1. S = <<c>>
    <3>1. rules[rule].sub # ""
      BY <1>4, <1>6, <1>12, Zenon DEF CopyRule, None
    <3> QED
      BY <3>1, Zenon DEF Source
  <2>3. S # <<>>
    BY <2>1
  <2>4. PICK h \in Heads, parts \in Seq(Parts) : Copies(l, out, h, parts, c, sub, S)
    BY <1>1, <1>3, <1>4, <2>3, CopierWrites
  <2>5. l = out' /\ Copies(out', out, h, parts, c, sub, <<c>>)
    BY <2>1, <2>4
  <2>6. PICK t : t = out'
    OBVIOUS
  <2> HIDE DEF S, c, l
  <2>7. Copies(t, out, h, parts, c, sub, <<c>>) /\ P = Of(t, TagCDs(tag))
    BY <2>5, <2>6
  <2>8. c.tag = tag /\ c.sub = sub
    BY <1>5, <1>12 DEF c
  <2>8a. FromSource(Of(out, TagCDs(tag)), L)
    OBVIOUS
  <2>9. IndicatorBrings(Of(t, TagCDs(tag)), Of(out, TagCDs(tag)), L, c)
    BY <1>1, <1>8, <1>9, <1>12, <2>7, <2>8, <2>8a, IndicatorBrought
  <2>9a. IndicatorBrings(P, M, L, c)
    BY <2>7, <2>9
  <2>10. \A i \in 1 .. Len(L) : ~Turn(L[i].id, None)
    BY <1>6, <1>7, <1>10, <1>12
  <2>11. \A i \in 1 .. Len(L) : L[i].sub \in Indicators /\ Turn(L[i].id, L[i].sub) => L[i] = c
    BY <1>6, <1>10
  <2> QED
    BY <2>9a, <2>10, <2>11, Zenon DEF Brings, FieldBrings, IndicatorBrings
<1> QED
  BY <1>11, <1>12 DEF Copied, Indicators

\* The table stays what it is.
LEMMA UnspokenSame ==
    ASSUME rules' = rules, NEW tag
    PROVE  Unspoken(tag)' <=> Unspoken(tag)
BY Zenon DEF Unspoken, Copying, Own

\* A rule that writes the output keeps the invariant.
LEMMA OutputOthers ==
    ASSUME Inv, Inv', ApplyToOutput, NEW tag, Others(tag)
    PROVE  Others(tag)'
<1>1. Types /\ WalkInv
  BY DEF Inv
<1>2. Later /\ phase = "convert" /\ rule \in 1 .. Len(rules) /\ rules \in Tables
  BY <1>1, LaterIs DEF Types
<1>3. /\ UNCHANGED <<record, rules, in, cur, offered, fields, phase>> /\ MarkMatched(rules[rule])
      /\ Accepted(rules[rule]) /\ rule' = rule + 1 /\ out' = Evaluate_Rule(out, At, rule)
  BY DEF ApplyToOutput
<1> SUFFICES ASSUME Unspoken(tag) PROVE Others(tag)'
  BY <1>3, UnspokenSame DEF Others
<1>4. InputKept(tag) /\ (in[At].tag = tag => canTag)
  BY <1>2 DEF Others
<1>5. InputKept(tag)'
  BY <1>3, <1>4 DEF InputKept, Sources
<1>6. ASSUME NEW M, NEW P, NEW L, M = Of(out, TagCDs(tag)), P = Of(out', TagCDs(tag)),
             L = Sources(tag), OutputKept(M, L)
      PROVE  Brings(P, M, L)
  <2>1. FromSource(M, L)
    BY <1>6 DEF OutputKept
  <2>2. CASE in[At].tag = tag
    BY <1>1, <1>2, <1>3, <1>4, <1>6, <2>1, <2>2, CopierBrings
  <2>3. CASE in[At].tag # tag
    <3>1. Concerns(rules[rule])
      BY <1>3 DEF Accepted
    <3>2. P = M
      BY <1>1, <1>2, <1>3, <1>6, <2>3, <3>1, WritesElsewhere
    <3>3. \A i \in 1 .. Len(L) : L[i].id # cur
      BY <1>1, <1>2, <1>4, <1>6, <2>3, AtSource
    <3> QED
      BY <2>1, <3>2, <3>3 DEF Brings, Turn
  <2> QED
    BY <2>2, <2>3
<1>7. \A M, P, L : /\ M = Of(out, TagCDs(tag)) /\ P = Of(out', TagCDs(tag))
                   /\ L = Sources(tag) /\ OutputKept(M, L)
                   => Brings(P, M, L)
  BY <1>6
<1>8. phase' = "convert"
  BY <1>2, <1>3
<1> QED
  BY <1>2, <1>3, <1>5, <1>7, <1>8, OthersOn

\* A rule that writes the input list keeps the invariant.
LEMMA InputOthers ==
    ASSUME Inv, Inv', ApplyToInput, NEW tag, Others(tag)
    PROVE  Others(tag)'
<1> DEFINE l == Evaluate_Rule(in, At, rule)
           last == Position(l, LastOf(record))
<1>1. Types /\ WalkInv /\ IdsInv
  BY DEF Inv
<1>2. Later /\ phase = "convert" /\ rule \in 1 .. Len(rules) /\ rules \in Tables
  BY <1>1, LaterIs DEF Types
<1>3. /\ UNCHANGED <<record, rules, out, cur, offered, fields>> /\ MarkMatched(rules[rule])
      /\ Accepted(rules[rule]) /\ rules[rule].toIn
  BY DEF ApplyToInput
<1>3a. phase' # "freed" => last # 0 /\ in' = PartialSort(l, last + 1) /\ phase' = phase
  BY Zenon DEF ApplyToInput
<1> SUFFICES ASSUME Unspoken(tag), phase' # "freed" PROVE Others(tag)'
  BY <1>3, UnspokenSame DEF Others
<1>4. InputKept(tag) /\ (in[At].tag = tag => canTag)
  BY <1>2 DEF Others
<1>5. Concerns(rules[rule])
  BY <1>3 DEF Accepted
<1>6. in[At].tag # tag
  <2> SUFFICES ASSUME in[At].tag = tag PROVE FALSE
    OBVIOUS
  <2>1. \E sub \in Copied : CopyRule(rule, sub)
    BY <1>2, <1>5, AcceptedAt
  <2> QED
    BY <1>3, <2>1 DEF CopyRule
<1>7. InputKept(tag)'
  <2> DEFINE r == rules[rule]
             c == in[At]
  <2>1. Applied(l, in, c, r)
    BY <1>1, AppliedIs
  <2>2. (IF r.toTag = AnyTag THEN c.tag ELSE r.toTag) # tag
    BY <1>2, <1>6, OtherTag
  <2>3. Of(l, TagCDs(tag)) = Of(in, TagCDs(tag))
    BY <1>1, <1>2, <1>5, <1>6, WritesElsewhere
  <2> HIDE DEF l, r, c
  <2>4. PICK h, k : k \in Nat /\ Grown(l, in, h, k) /\ Distinct(l) /\ h.id = Append(cur, rule) /\ h.tag # tag
    BY <2>1, <2>2, Zenon DEF Applied
  <2>5. PICK s, t : s = l /\ t = in'
    OBVIOUS
  <2>6. s \in Seq(CDs)
    BY <2>4, <2>5 DEF Grown
  <2>7. PICK p : p = last
    OBVIOUS
  <2>7a. p = Position(s, LastOf(record)) /\ p # 0 /\ t = PartialSort(s, p + 1)
    BY <1>3a, <2>5, <2>7
  <2>8. p + 1 \in Nat /\ 1 <= p + 1
    <3>1. p \in Nat
      BY <2>4, <2>5, <2>6, <2>7a, PositionIs
    <3> QED
      BY <3>1
  <2>9. t \in Seq(CDs) /\ Sorted(t, s, p + 1, Len(s))
    BY <2>6, <2>7a, <2>8, PartialSortIs
  <2>10. KeptOn(t, tag)
    BY <1>1, <1>2, <1>4, <2>3, <2>4, <2>5, <2>6, <2>7a, <2>9, InputStays
  <2> QED
    BY <1>3, <1>4, <2>5, <2>10, Zenon DEF InputKept, KeptOn, Sources
<1>8. ASSUME NEW M, NEW P, NEW L, M = Of(out, TagCDs(tag)), P = Of(out', TagCDs(tag)),
             L = Sources(tag), OutputKept(M, L)
      PROVE  Brings(P, M, L)
  <2>1. FromSource(M, L)
    BY <1>8 DEF OutputKept
  <2>2. P = M
    BY <1>3, <1>8
  <2>3. \A i \in 1 .. Len(L) : L[i].id # cur
    BY <1>1, <1>2, <1>4, <1>6, <1>8, AtSource
  <2> QED
    BY <2>1, <2>2, <2>3 DEF Brings, Turn
<1>9. \A M, P, L : /\ M = Of(out, TagCDs(tag)) /\ P = Of(out', TagCDs(tag))
                   /\ L = Sources(tag) /\ OutputKept(M, L)
                   => Brings(P, M, L)
  BY <1>8
<1>10. phase' = "convert"
  BY <1>2, <1>3a
<1> HIDE DEF l
<1> QED
  BY <1>2, <1>3, <1>7, <1>9, <1>10, OthersOn

\* If no rule's turn comes with a step, what the output has is as it was.
LEMMA OutputStill ==
    ASSUME UNCHANGED <<record, rules, out>>, Copying, NEW tag, OutputInv(tag),
           \A id : \A sub \in Copied : Past(id, sub)' => Past(id, sub)
    PROVE  OutputInv(tag)'
<1>1. PICK M, L : M = Of(out, TagCDs(tag)) /\ L = Sources(tag) /\ OutputKept(M, L)
  BY DEF OutputInv
<1>2. M = Of(out, TagCDs(tag))' /\ L = Sources(tag)'
  BY <1>1 DEF Sources
<1>3. \A x \in Indicators : x \in Copied
  BY DEF Indicators, Copied
<1>4. None \in Copied
  BY DEF Copied
<1>5. /\ FromSource(M, L)
      /\ \A i \in 1 .. Len(L) : L[i].sub \in Indicators /\ Past(L[i].id, L[i].sub) => HasIndicator(M, L[i])
      /\ \A i \in 1 .. Len(L) : FirstOf(L, i) /\ Past(L[i].id, None) => BodyKept(M, L, i)
  BY <1>1 DEF OutputKept
<1>6. OutputKept(M, L)'
  BY <1>3, <1>4, <1>5, Zenon DEF OutputKept
<1> QED
  BY <1>2, <1>6, Zenon DEF OutputInv

\* The step to the next CD keeps the invariant.
LEMMA NextFieldOthers ==
    ASSUME Inv, NextField, NEW tag, Others(tag)
    PROVE  Others(tag)'
<1>1. Types
  BY DEF Inv
<1>2. /\ phase = "convert" /\ phase' = "convert" /\ rule \notin DOMAIN rules /\ cur' = in[At + 1].id
      /\ offered' = offered \cup {[id |-> in[At + 1].id, text |-> in[At + 1].text]}
      /\ rule' = 1 /\ canTag' = TRUE
      /\ UNCHANGED <<record, rules, in, out, fields>>
  BY DEF NextField
<1> SUFFICES ASSUME Unspoken(tag) PROVE Others(tag)'
  BY <1>2, UnspokenSame DEF Others
<1>3. InputKept(tag) /\ OutputInv(tag)
  BY <1>2 DEF Others
<1>4. InputKept(tag)'
  BY <1>2, <1>3 DEF InputKept, Sources
<1>5. Copying /\ rules \in Tables
  BY <1>1 DEF Unspoken, Types
<1>6. \A sub \in Copied : /\ Copier(sub) \in Nat /\ Copier(sub)' = Copier(sub)
                          /\ rule > Copier(sub) /\ ~(1 > Copier(sub))
  <2> SUFFICES ASSUME NEW sub \in Copied
               PROVE  /\ Copier(sub) \in Nat /\ Copier(sub)' = Copier(sub)
                      /\ rule > Copier(sub) /\ ~(1 > Copier(sub))
    OBVIOUS
  <2>1. /\ Copier(sub) \in 1 .. Len(rules) /\ Len(rules) \in Nat
        /\ DOMAIN rules = 1 .. Len(rules)
    BY <1>5, CopyRules
  <2>2. rule \in 1 .. Len(rules) + 1 /\ rule \notin 1 .. Len(rules)
    BY <1>1, <1>2, <2>1 DEF Types
  <2>3. Copier(sub)' = Copier(sub)
    BY <1>2 DEF Copier
  <2>4. rule > Copier(sub) /\ ~(1 > Copier(sub)) /\ Copier(sub) \in Nat
    BY <2>1, <2>2
  <2> QED
    BY <2>3, <2>4
<1>7. ASSUME NEW id, NEW sub \in Copied, Past(id, sub)' PROVE Past(id, sub)
  <2> DEFINE o == [id |-> in[At + 1].id, text |-> in[At + 1].text]
  <2>1. (\E x \in offered' : x.id = id) /\ (id = cur' => 1 > Copier(sub)')
    BY <1>2, <1>7, Zenon DEF Past, Visited
  <2>2. id # cur'
    BY <1>6, <2>1
  <2>3. o.id # id
    BY <1>2, <2>2
  <2> HIDE DEF o
  <2>4. offered' = offered \cup {o}
    BY <1>2 DEF o
  <2>5. \E x \in offered : x.id = id
    BY <2>1, <2>3, <2>4
  <2> QED
    BY <1>6, <2>5 DEF Past, Visited
<1>8. OutputInv(tag)'
  BY <1>2, <1>3, <1>5, <1>7, OutputStill
<1> QED
  BY <1>2, <1>4, <1>8 DEF Others

\* The end of the conversion keeps the invariant.
LEMMA FinishOthers ==
    ASSUME Inv, Finish, NEW tag, Others(tag)
    PROVE  Others(tag)'
<1>1. /\ phase = "convert" /\ phase' = "done" /\ rule \notin DOMAIN rules
      /\ UNCHANGED <<record, rules, in, out, cur, rule, canTag, canSub, offered>>
  BY DEF Finish
<1> SUFFICES ASSUME Unspoken(tag) PROVE Others(tag)'
  BY <1>1, UnspokenSame DEF Others
<1>2. InputKept(tag) /\ OutputInv(tag)
  BY <1>1 DEF Others
<1>3. InputKept(tag)'
  BY <1>1, <1>2 DEF InputKept, Sources
<1>4. \A id : \A sub \in Copied : Past(id, sub)' => Past(id, sub)
  BY <1>1 DEF Past, Visited, Copier
<1>5. OutputInv(tag)'
  BY <1>1, <1>2, <1>4, OutputStill DEF Unspoken
<1>6. rule' \notin DOMAIN rules'
  BY <1>1
<1> QED
  BY <1>1, <1>3, <1>5, <1>6 DEF Others

\* The invariant holds when nothing has been copied yet.
LEMMA InitOthers ==
    ASSUME Init, NEW tag
    PROVE  Others(tag)
<1>1. /\ record \in Records /\ rules \in Tables /\ in = ToCD(record) /\ out = <<>>
      /\ cur = in[1].id /\ rule = 1 /\ canTag = TRUE /\ phase = "convert"
      /\ offered = {[id |-> in[1].id, text |-> in[1].text]}
  BY DEF Init
<1> SUFFICES ASSUME Unspoken(tag) PROVE Others(tag)
  BY DEF Others
<1>2. tag \in Nat \ {0} /\ Copying
  BY DEF Unspoken
<1>3. Types
  BY InitInv DEF Inv
<1>4. in \in Seq(CDs) /\ Distinct(in) /\ Len(in) \in Nat /\ Len(in) > 0
  BY <1>1, <1>3, ToCDIs DEF Types
<1>5. InputKept(tag)
  <2>1. Of(in, TagCDs(tag)) = Sources(tag)
    BY <1>1 DEF Sources
  <2>2. Convex(in, tag)
    BY <1>1, <1>2, RowsOfToCD DEF Rows
  <2>3. Len(in) \in 1 .. Len(in) /\ in[Len(in)].id = LastOf(record)
    BY <1>1, <1>4 DEF LastOf, Last
  <2>4. Position(in, LastOf(record)) = Len(in)
    BY <1>4, <2>3, PositionIs
  <2>5. \A i \in 1 .. Len(in) : i <= Len(in)
    BY <1>4
  <2> QED
    BY <2>1, <2>2, <2>4, <2>5 DEF InputKept
<1>6. ASSUME NEW id, NEW sub \in Copied PROVE ~Past(id, sub)
  <2> DEFINE o == [id |-> in[1].id, text |-> in[1].text]
  <2>1. Copier(sub) \in 1 .. Len(rules) /\ Len(rules) \in Nat
    BY <1>1, <1>2, CopyRules
  <2>2. ~(rule > Copier(sub))
    BY <1>1, <2>1
  <2>3. o.id = cur
    BY <1>1
  <2> HIDE DEF o
  <2>4. Visited(id) => id = cur
    BY <1>1, <2>3 DEF Visited, o
  <2> QED
    BY <2>2, <2>4 DEF Past
<1>7. OutputInv(tag)
  <2>1. PICK M, L : M = Of(out, TagCDs(tag)) /\ L = Sources(tag)
    OBVIOUS
  <2>2. out \in Seq(CDs) /\ ToSet(out) = {}
    BY <1>1 DEF ToSet
  <2>3. \A e : e \notin ToSet(M)
    BY <2>1, <2>2, InTag
  <2>4. FromSource(M, L)
    BY <2>3 DEF FromSource
  <2>5. \A x \in Indicators : x \in Copied
    BY DEF Indicators, Copied
  <2>6. None \in Copied
    BY DEF Copied
  <2>7. OutputKept(M, L)
    BY <1>6, <2>4, <2>5, <2>6, Zenon DEF OutputKept
  <2> QED
    BY <2>1, <2>7, Zenon DEF OutputInv
<1> QED
  BY <1>1, <1>5, <1>7 DEF Others

\* Every step keeps the invariant.
LEMMA NextOthers ==
    ASSUME Inv, Inv', [Next]_vars, NEW tag, Others(tag)
    PROVE  Others(tag)'
<1>1. CASE SkipRule \/ SkipGroup
  BY <1>1, SkipOthers
<1>2. CASE ApplyToOutput
  BY <1>2, OutputOthers
<1>3. CASE ApplyToInput
  BY <1>3, InputOthers
<1>4. CASE NextField
  BY <1>4, NextFieldOthers
<1>5. CASE Finish
  BY <1>5, FinishOthers
<1>6. CASE UNCHANGED vars
  BY <1>6 DEF vars, Others, Unspoken, Copying, Own, InputKept, OutputInv, OutputKept, Sources, Past,
              Visited, Copier, At
<1> QED
  BY <1>1, <1>2, <1>3, <1>4, <1>5, <1>6 DEF Next

\* The copying table's invariant, for every tag.
AllOthers == \A tag \in Nat : Others(tag)

\* What the three rules have had their turn with is on the output list, at
\* all times.
LEMMA OthersAlways == Spec => []AllOthers
<1>1. Init => AllOthers
  BY InitOthers DEF AllOthers
<1>2. Inv /\ Inv' /\ AllOthers /\ [Next]_vars => AllOthers'
  BY NextOthers DEF AllOthers
<1> QED
  BY <1>1, <1>2, InvAlways, PTL DEF Spec

-----------------------------------------------------------------------------
(* The copied fields in the output record                                  *)

\* When the conversion is over, every rule has had its turn with every CD of
\* the record.
LEMMA AllPast ==
    ASSUME Inv, Done, NEW tag, Unspoken(tag), Others(tag), NEW L, L = Sources(tag),
           NEW i \in 1 .. Len(L), NEW sub \in Copied
    PROVE  Past(L[i].id, sub)
<1>1. /\ phase = "done" /\ At = Len(in) /\ rule \notin DOMAIN rules /\ Types /\ WalkInv /\ IdsInv
      /\ InputKept(tag)
  BY DEF Inv, Done, DoneInv, Others
<1>2. /\ in \in Seq(CDs) /\ record \in Records /\ rules \in Tables
      /\ rule \in 1 .. Len(rules) + 1
  BY <1>1 DEF Types
<1>3. tag \in Nat \ {0} /\ Copying
  BY DEF Unspoken
<1>4. L \in Seq(CDs) /\ \A c : c \in ToSet(L) <=> c \in CDs /\ c.tag = tag /\ c \in ToSet(in)
  BY <1>1, OnInput
<1>5. L[i] \in ToSet(L)
  BY <1>4 DEF ToSet
<1>6. L[i] \in ToSet(in)
  BY <1>4, <1>5
<1>7. PICK j \in 1 .. Len(in) : in[j] = L[i]
  BY <1>2, <1>6 DEF ToSet
<1>8. Seen(in, j)
  <2>1. phase # "freed" /\ j \in 1 .. At
    BY <1>1
  <2> QED
    BY <1>1, <2>1 DEF WalkInv
<1>9. L[i].by = <<>>
  BY <1>2, <1>3, SourceIs DEF SourceCD
<1>10. ~Visited(<<>>)
  <2> SUFFICES ASSUME NEW o \in offered, o.id = <<>> PROVE FALSE
    BY DEF Visited
  <2>1. Named(o.id, offered, cur, rule)
    BY <1>1 DEF IdsInv
  <2>2. Len(o.id) = 0
    OBVIOUS
  <2> QED
    BY <2>1, <2>2 DEF Named, Made
<1>11. Offered(L[i])
  BY <1>7, <1>8, <1>9, <1>10 DEF Seen
<1>12. Visited(L[i].id)
  BY <1>11 DEF Offered, Visited
<1>13. rule > Copier(sub)
  <2>1. Len(rules) \in Nat /\ DOMAIN rules = 1 .. Len(rules) /\ Copier(sub) \in 1 .. Len(rules)
    BY <1>2, <1>3, CopyRules
  <2> QED
    BY <1>1, <1>2, <2>1
<1> QED
  BY <1>12, <1>13 DEF Past

\* Every field on a list has a first CD there.
LEMMA FirstExists ==
    ASSUME NEW S, NEW l \in Seq(S), NEW i \in 1 .. Len(l)
    PROVE  \E j \in 1 .. Len(l) : FirstOf(l, j) /\ SameField(l[j], l[i])
<1> DEFINE T == {j \in 1 .. Len(l) : SameField(l[j], l[i])}
<1>1. T \subseteq Nat /\ i \in T
  BY DEF SameField
<1>2. PICK j \in T : \A k \in T : j <= k
  <2> HIDE DEF T
  <2> QED
    BY <1>1, Least
<1>3. j \in 1 .. Len(l) /\ SameField(l[j], l[i])
  OBVIOUS
<1>4. ASSUME NEW k \in 1 .. j - 1, SameField(l[k], l[j]) PROVE FALSE
  <2>1. k \in 1 .. Len(l) /\ ~(j <= k)
    BY <1>3
  <2>2. k \in T
    BY <1>3, <1>4, <2>1 DEF SameField
  <2> QED
    BY <1>2, <2>1, <2>2
<1> QED
  BY <1>3, <1>4 DEF FirstOf

\* Sorting a list neither adds nor drops a CD.
LEMMA SortedHas ==
    ASSUME NEW l \in Seq(CDs), NEW t \in Seq(CDs), NEW i, Sorted(t, l, i, Len(l))
    PROVE  ToSet(t) = ToSet(l)
<1>1. Len(t) = Len(l) /\ DOMAIN t = 1 .. Len(t) /\ DOMAIN l = 1 .. Len(l)
  BY DEF Sorted
<1>2. PICK place : Sorts(place, t, l, i, Len(l))
  BY DEF Sorted
<1>3. /\ \A a \in 1 .. Len(l) : place[a] \in 1 .. Len(l) /\ t[place[a]] = l[a]
      /\ \A m \in 1 .. Len(l) : \E a \in 1 .. Len(l) : place[a] = m
  BY <1>2 DEF Sorts
<1>4. ASSUME NEW m \in 1 .. Len(t) PROVE \E a \in 1 .. Len(l) : l[a] = t[m]
  BY <1>1, <1>3
<1>5. ASSUME NEW a \in 1 .. Len(l) PROVE \E m \in 1 .. Len(t) : t[m] = l[a]
  BY <1>1, <1>3
<1>6. ToSet(t) = {t[m] : m \in 1 .. Len(t)} /\ ToSet(l) = {l[a] : a \in 1 .. Len(l)}
  BY <1>1, Zenon DEF ToSet
<1> QED
  BY <1>4, <1>5, <1>6, Zenon

\* The list l has the fields of the tag that F counts, and no others.
Arrived(l, r, tag, m, F) ==
    /\ l \in Seq(CDs) /\ InField(l)
    /\ \A e \in ToSet(l) : e.tag = tag => e.nt \in 1 .. m /\ IndicatorOf(e, r, F[e.nt])
    /\ \A k \in 1 .. m : RowOf(l, r, tag, k, F[k])

\* Alike is transitive.
LEMMA AlikeOn ==
    ASSUME NEW s, NEW t, NEW u, Alike(s, t), Alike(t, u)
    PROVE  Alike(s, u)
BY DEF Alike

\* A field of the tag on the list of the record has a first CD in L.
LEMMA FirstOfRow ==
    ASSUME NEW r \in Records, NEW tag, NEW m, NEW F, NEW t, Rows(t, r, Len(r), tag, m, F),
           NEW L, L = Of(t, TagCDs(tag)), NEW k \in 1 .. m
    PROVE  \E j \in 1 .. Len(L) : FirstOf(L, j) /\ L[j].tag = tag /\ L[j].nt = k
<1>1. /\ t \in Seq(CDs) /\ RowOf(t, r, tag, k, F[k])
      /\ Rising(F, m, {g \in 1 .. Len(r) : r[g].tag = tag})
  BY Zenon DEF Rows
<1>2. F[k] \in 1 .. Len(r)
  BY <1>1 DEF Rising
<1> DEFINE B == Of(t, Body(tag, k))
<1>3. Len(B) > 0
  BY <1>1, <1>2, RestIs DEF RowOf, Alike
<1>4. B \in Seq(CDs) /\ \A e : e \in ToSet(B) <=> e \in Body(tag, k) /\ e \in ToSet(t)
  BY <1>1, OfIs
<1> HIDE DEF B
<1>5. PICK e : e \in ToSet(B)
  BY <1>3, <1>4 DEF ToSet
<1>6. e \in ToSet(t) /\ e.tag = tag /\ e.nt = k
  BY <1>4, <1>5 DEF Body
<1>7. L \in Seq(CDs) /\ e \in ToSet(L)
  BY <1>1, <1>6, InTag
<1>8. PICK i \in 1 .. Len(L) : L[i] = e
  BY <1>7 DEF ToSet
<1>9. PICK j \in 1 .. Len(L) : FirstOf(L, j) /\ SameField(L[j], L[i])
  BY <1>7, FirstExists
<1> QED
  BY <1>6, <1>8, <1>9 DEF SameField

\* At the end every field of the tag is on the sorted output list.
LEMMA Arrives ==
    ASSUME Inv, Done, NEW tag, Unspoken(tag), Others(tag),
           NEW t, t = ToCD(record), NEW m, NEW F, Rows(t, record, Len(record), tag, m, F),
           NEW list \in Seq(CDs), InField(list), NEW one \in Nat, one = 1,
           Sorted(list, out, one, Len(out))
    PROVE  Arrived(list, record, tag, m, F)
<1>1. /\ phase = "done" /\ out \in Seq(CDs) /\ record \in Records
      /\ tag \in Nat \ {0}
  BY DEF Inv, Done, Types, Unspoken
<1>2. PICK M, L : M = Of(out, TagCDs(tag)) /\ L = Sources(tag) /\ OutputKept(M, L)
  <2>1. OutputInv(tag)
    BY <1>1 DEF Others
  <2> QED
    BY <2>1, Zenon DEF OutputInv
<1>3. /\ t \in Seq(CDs) /\ m \in Nat
      /\ \A i \in 1 .. Len(t) : t[i].tag = tag =>
            t[i].nt \in 1 .. m /\ IndicatorOf(t[i], record, F[t[i].nt])
      /\ \A k \in 1 .. m : RowOf(t, record, tag, k, F[k])
  BY Zenon DEF Rows
<1>4. L = Of(t, TagCDs(tag))
  BY <1>2 DEF Sources
<1>5. /\ L \in Seq(CDs) /\ \A e : e \in ToSet(L) <=> e \in ToSet(t) /\ e.tag = tag
  BY <1>3, <1>4, InTag
<1>6. /\ M \in Seq(CDs) /\ \A e : e \in ToSet(M) <=> e \in ToSet(list) /\ e.tag = tag
  <2>1. ToSet(list) = ToSet(out)
    BY <1>1, SortedHas
  <2> QED
    BY <1>1, <1>2, <2>1, InTag
<1>6a. DOMAIN t = 1 .. Len(t) /\ DOMAIN L = 1 .. Len(L)
  BY <1>3, <1>5
<1>7. ASSUME NEW e \in ToSet(list), e.tag = tag
      PROVE  e.nt \in 1 .. m /\ IndicatorOf(e, record, F[e.nt])
  <2>1. PICK c \in ToSet(L) :
           SameField(e, c) /\ (e.sub \in Indicators => e.sub = c.sub /\ e.text = c.text)
    BY <1>2, <1>6, <1>7, Zenon DEF OutputKept, FromSource
  <2>2. PICK i \in 1 .. Len(t) : t[i] = c
    <3>1. c \in ToSet(t)
      BY <1>5, <2>1
    <3> QED
      BY <1>6a, <3>1, Zenon DEF ToSet
  <2>3. c.nt \in 1 .. m /\ IndicatorOf(c, record, F[c.nt])
    BY <1>3, <1>5, <2>1, <2>2
  <2>4. e.nt = c.nt
    BY <2>1 DEF SameField
  <2> QED
    BY <2>1, <2>3, <2>4 DEF IndicatorOf
<1>8. ASSUME NEW k \in 1 .. m PROVE RowOf(list, record, tag, k, F[k])
  <2> DEFINE f == F[k]
  <2>1. RowOf(t, record, tag, k, f)
    BY <1>3
  <2>2. PICK j \in 1 .. Len(L) : FirstOf(L, j) /\ L[j].tag = tag /\ L[j].nt = k
    BY <1>1, <1>4, FirstOfRow
  <2> HIDE DEF f
  <2>3. Alike(Of(list, Body(tag, k)), Rest(record, f))
    <3>1. Past(L[j].id, None)
      <4>1. None \in Copied
        BY DEF Copied
      <4> QED
        BY <1>2, <4>1, AllPast
    <3>2. BodyKept(M, L, j)
      BY <1>2, <2>2, <3>1, Zenon DEF OutputKept
    <3>3. Alike(Of(M, Body(tag, k)), Of(L, Body(tag, k)))
      BY <2>2, <3>2 DEF BodyKept
    <3>4. Of(L, Body(tag, k)) = Of(t, Body(tag, k))
      BY <1>3, <1>4, BodyOf
    <3>5. Of(M, Body(tag, k)) = Of(out, Body(tag, k))
      BY <1>1, <1>2, BodyOf
    <3>6. Of(list, Body(tag, k)) = Of(out, Body(tag, k))
      <4>1. \A c, d \in Body(tag, k) : ~IsLess(d, c)
        <5> SUFFICES ASSUME NEW c \in Body(tag, k), NEW d \in Body(tag, k) PROVE ~IsLess(d, c)
          OBVIOUS
        <5>1. c.tag = d.tag /\ c.nt = d.nt /\ c \in CDs /\ d \in CDs
          BY DEF Body
        <5>2. SameField(d, c)
          BY <5>1 DEF SameField
        <5> QED
          BY <5>1, <5>2, OrderIs
      <4>2. 1 <= one
        OBVIOUS
      <4> QED
        BY <1>1, <4>1, <4>2, OfSorted
    <3>7. Alike(Of(t, Body(tag, k)), Rest(record, f))
      BY <2>1 DEF RowOf
    <3>8. Alike(Of(list, Body(tag, k)), Of(t, Body(tag, k)))
      BY <3>3, <3>4, <3>5, <3>6
    <3> QED
      BY <3>7, <3>8, AlikeOn
  <2>4. ASSUME ~IsControl(record, f), NEW x \in Indicators
        PROVE  \E i \in 1 .. Len(list) : list[i].tag = tag /\ list[i].nt = k /\ list[i].sub = x
    <3>1. PICK a \in 1 .. Len(t) : t[a].tag = tag /\ t[a].nt = k /\ t[a].sub = x
      BY <2>1, <2>4, Zenon DEF RowOf
    <3>2. t[a] \in ToSet(t)
      BY <1>3 DEF ToSet
    <3>3. t[a] \in ToSet(L)
      BY <1>5, <3>1, <3>2
    <3>4. PICK b \in 1 .. Len(L) : L[b] = t[a]
      BY <1>6a, <3>3, Zenon DEF ToSet
    <3>5. L[b].tag = tag /\ L[b].nt = k /\ L[b].sub = x
      BY <3>1, <3>4
    <3>6. x \in Copied
      BY DEF Copied, Indicators
    <3>7. Past(L[b].id, x)
      BY <1>2, <3>6, AllPast
    <3>8. HasIndicator(M, L[b])
      BY <1>2, <3>5, <3>7, Zenon DEF OutputKept
    <3>9. PICK e \in ToSet(M) : SameField(e, L[b]) /\ e.sub = L[b].sub
      BY <3>8, Zenon DEF HasIndicator
    <3>10. e \in ToSet(list)
      BY <1>6, <3>9
    <3>11. PICK i \in 1 .. Len(list) : list[i] = e
      BY <3>10 DEF ToSet
    <3> QED
      BY <3>5, <3>9, <3>11 DEF SameField
  <2> QED
    BY <2>3, <2>4 DEF RowOf, f
<1> QED
  BY <1>7, <1>8 DEF Arrived

\* The field that FromCD makes of the f-th field of r, the k-th of its tag.
RowField(r, tag, k, f) ==
    [tag |-> tag, nt |-> k,
     i1 |-> IF IsControl(r, f) THEN <<>> ELSE InputText(f, 0),
     i2 |-> IF IsControl(r, f) THEN <<>> ELSE InputText(f, 1),
     parts |-> Rest(r, f)]

\* The indicators FromCD finds are the input field's.
LEMMA IndIs ==
    ASSUME NEW l, NEW r, NEW tag, NEW m, NEW F, Arrived(l, r, tag, m, F),
           NEW i \in 1 .. Len(l), l[i].tag = tag, FirstOfField(l, i),
           NEW k, k = l[i].nt, NEW x \in Indicators
    PROVE  Ind(l, i, x) = IF IsControl(r, F[k]) THEN <<>>
                          ELSE InputText(F[k], IF x = "I1" THEN 0 ELSE 1)
<1> DEFINE T == {j \in i .. Len(l) : SameField(l[j], l[i]) /\ l[j].sub = x}
           j == IF T # {} THEN Min(T) ELSE 0
<1>1. Ind(l, i, x) = IF j = 0 THEN <<>> ELSE l[j].text
  BY Zenon DEF Ind, SelectInSubSeq
<1>2. /\ l \in Seq(CDs) /\ InField(l) /\ k \in 1 .. m
      /\ \A e \in ToSet(l) : e.tag = tag => IndicatorOf(e, r, F[e.nt])
      /\ RowOf(l, r, tag, k, F[k])
  <2>1. l \in Seq(CDs)
    BY DEF Arrived
  <2>2. l[i] \in ToSet(l)
    BY <2>1 DEF ToSet
  <2> QED
    BY <2>1, <2>2 DEF Arrived
<1>3. T \subseteq Nat /\ \A a \in T : a \in 1 .. Len(l) /\ SameField(l[a], l[i]) /\ l[a].sub = x
  OBVIOUS
<1>4. \A a \in i .. Len(l) : SameField(l[a], l[i]) /\ l[a].sub = x => a \in T
  OBVIOUS
<1> HIDE DEF T
<1>5. T # {} => j \in T
  BY <1>3, LeastIs, Zenon
<1>6. T = {} => j = 0
  BY Zenon
<1> HIDE DEF j
<1>7. CASE T = {}
  <2>1. IsControl(r, F[k])
    <3> SUFFICES ASSUME ~IsControl(r, F[k]) PROVE FALSE
      OBVIOUS
    <3>1. PICK a \in 1 .. Len(l) : l[a].tag = tag /\ l[a].nt = k /\ l[a].sub = x
      BY <1>2, Zenon DEF RowOf
    <3>2. SameField(l[a], l[i])
      BY <3>1 DEF SameField
    <3>3. Run(l, i)
      BY <1>2, RunOfInField
    <3>4. i <= a
      BY <3>2, <3>3 DEF Run
    <3>5. a \in T
      BY <1>4, <3>1, <3>2, <3>4
    <3> QED
      BY <1>7, <3>5
  <2> QED
    BY <1>1, <1>6, <1>7, <2>1, Zenon
<1>8. CASE T # {}
  <2>1. j \in 1 .. Len(l) /\ SameField(l[j], l[i]) /\ l[j].sub = x
    BY <1>3, <1>5, <1>8
  <2>2. l[j].tag = tag /\ l[j].nt = k /\ l[j] \in ToSet(l) /\ j # 0
    BY <1>2, <2>1 DEF SameField, ToSet
  <2>3. IndicatorOf(l[j], r, F[k])
    BY <1>2, <2>2
  <2>4. ~IsControl(r, F[k]) /\ l[j].text = InputText(F[k], IF x = "I1" THEN 0 ELSE 1)
    BY <2>1, <2>3 DEF IndicatorOf
  <2> QED
    BY <1>1, <2>2, <2>4, Zenon
<1> QED
  BY <1>7, <1>8

\* Parts that are alike are the same.
LEMMA PartsOf ==
    ASSUME NEW w \in Seq(CDs), NEW R \in Seq(Parts), Alike(w, R)
    PROVE  [k \in DOMAIN w |-> [sub |-> w[k].sub, text |-> w[k].text]] = R
<1>1. /\ DOMAIN w = 1 .. Len(w) /\ DOMAIN R = 1 .. Len(R) /\ Len(w) = Len(R)
      /\ \A j \in 1 .. Len(R) : w[j].sub = R[j].sub /\ w[j].text = R[j].text
  BY DEF Alike
<1>2. \A j \in 1 .. Len(R) : R[j] = [sub |-> R[j].sub, text |-> R[j].text]
  <2> SUFFICES ASSUME NEW j \in 1 .. Len(R) PROVE R[j] = [sub |-> R[j].sub, text |-> R[j].text]
    OBVIOUS
  <2>1. R[j] \in Parts
    OBVIOUS
  <2> QED
    BY <2>1 DEF Parts
<1>3. R = [j \in DOMAIN R |-> R[j]]
  OBVIOUS
<1> DEFINE p == [k \in DOMAIN w |-> [sub |-> w[k].sub, text |-> w[k].text]]
<1>4. DOMAIN p = DOMAIN R /\ \A j \in 1 .. Len(R) : p[j] = R[j]
  BY <1>1, <1>2
<1>5. p = [j \in DOMAIN p |-> p[j]]
  OBVIOUS
<1> HIDE DEF p
<1>6. p = R
  BY <1>1, <1>3, <1>4, <1>5
<1> QED
  BY <1>6 DEF p

\* What FromCD makes of a field's first CD is the input field.
LEMMA FieldAtRow ==
    ASSUME NEW l, NEW r \in Records, NEW tag, NEW m, NEW F, Arrived(l, r, tag, m, F),
           \A a \in 1 .. m : F[a] \in 1 .. Len(r),
           NEW i \in 1 .. Len(l), l[i].tag = tag, FirstOfField(l, i)
    PROVE  /\ l[i].nt \in 1 .. m
           /\ FieldAt(l, i) = RowField(r, tag, l[i].nt, F[l[i].nt])
<1> DEFINE w == WholeField(l, i)
           k == l[i].nt
           f == F[k]
           R == Rest(r, f)
           B == Of(l, Body(tag, k))
<1>1. l \in Seq(CDs) /\ InField(l)
  BY DEF Arrived
<1>2. k \in 1 .. m /\ Alike(B, R)
  <2>1. l[i] \in ToSet(l)
    BY <1>1 DEF ToSet
  <2>2. k \in 1 .. m
    BY <2>1 DEF Arrived
  <2>3. RowOf(l, r, tag, k, F[k])
    BY <2>2 DEF Arrived
  <2> QED
    BY <2>2, <2>3 DEF RowOf
<1>3. w = B /\ B \in Seq(CDs)
  BY <1>1, RunOfInField, WholeIs, OfIs
<1>4. R \in Seq(Parts)
  BY <1>2, RestIs
<1>5. /\ Ind(l, i, "I1") = IF IsControl(r, f) THEN <<>> ELSE InputText(f, 0)
      /\ Ind(l, i, "I2") = IF IsControl(r, f) THEN <<>> ELSE InputText(f, 1)
  <2>1. "I1" \in Indicators /\ "I2" \in Indicators /\ "I2" # "I1"
    BY DEF Indicators
  <2>2. \A x \in Indicators : Ind(l, i, x) = IF IsControl(r, f) THEN <<>>
                                            ELSE InputText(f, IF x = "I1" THEN 0 ELSE 1)
    BY IndIs
  <2> HIDE DEF f
  <2>3. Ind(l, i, "I1") = IF IsControl(r, f) THEN <<>>
                          ELSE InputText(f, IF "I1" = "I1" THEN 0 ELSE 1)
    BY <2>1, <2>2, Zenon
  <2>4. Ind(l, i, "I2") = IF IsControl(r, f) THEN <<>>
                          ELSE InputText(f, IF "I2" = "I1" THEN 0 ELSE 1)
    BY <2>1, <2>2, Zenon
  <2>5. (IF "I1" = "I1" THEN 0 ELSE 1) = 0 /\ (IF "I2" = "I1" THEN 0 ELSE 1) = 1
    BY <2>1
  <2> QED
    BY <2>3, <2>4, <2>5
<1> HIDE DEF w, B, R, f
<1>6. [j \in DOMAIN w |-> [sub |-> w[j].sub, text |-> w[j].text]] = R
  BY <1>2, <1>3, <1>4, PartsOf
<1>7. FieldAt(l, i) =
        [tag |-> l[i].tag, nt |-> k, i1 |-> Ind(l, i, "I1"), i2 |-> Ind(l, i, "I2"),
         parts |-> [j \in DOMAIN w |-> [sub |-> w[j].sub, text |-> w[j].text]]]
  BY DEF FieldAt, w
<1>8. FieldAt(l, i) =
        [tag |-> tag, nt |-> k, i1 |-> Ind(l, i, "I1"), i2 |-> Ind(l, i, "I2"), parts |-> R]
  BY <1>6, <1>7, Zenon
<1>9. FieldAt(l, i) = RowField(r, tag, k, f)
  BY <1>5, <1>8, Zenon DEF RowField, R
<1> QED
  BY <1>2, <1>9 DEF f

\* The fields made of the tag, in the list made of fields.
Tagged(made, tag) == Picked(made, {i \in DOMAIN made : made[i].tag = tag})

\* The i-th CD of l is the first of the b-th field of the tag.
From(g, R, l, tag) ==
    /\ \A b \in 1 .. Len(R) : /\ g[b] \in 1 .. Len(l) /\ l[g[b]].tag = tag
                              /\ FirstOfField(l, g[b]) /\ R[b] = FieldAt(l, g[b])
    /\ \A b, c \in 1 .. Len(R) : b < c => g[b] < g[c]

Starts(l) == {i \in DOMAIN l : l[i].tag # 0 /\ FirstOfField(l, i) /\ HasText(FieldAt(l, i))}

IsAFunction(f) == f = [x \in DOMAIN f |-> f[x]]

FieldsFrom(R, l, tag) ==
    \E g : /\ From(g, R, l, tag)
           /\ \A i \in Starts(l) : l[i].tag = tag => \E b \in 1 .. Len(R) : g[b] = i

\* The fields of the tag are made of the first CDs of its fields, in their
\* order.
LEMMA TaggedFrom ==
    ASSUME NEW l \in Seq(CDs), NEW tag, tag # 0, NEW I, I = Starts(l),
           NEW made, made = Picked([i \in DOMAIN l |-> FieldAt(l, i)], I),
           NEW R, R = Tagged(made, tag)
    PROVE  /\ Len(R) \in Nat /\ DOMAIN R = 1 .. Len(R) /\ IsAFunction(R)
           /\ FieldsFrom(R, l, tag)
<1> DEFINE n == Len(l)
           P(i) == FieldAt(l, i)
           all == [i \in DOMAIN l |-> P(i)]
           S == {P(i) : i \in 1 .. n}
           J == {i \in DOMAIN made : made[i].tag = tag}
<1>1. n \in Nat /\ DOMAIN l = 1 .. n
  OBVIOUS
<1>2. all \in Seq(S) /\ Len(all) = n /\ \A i \in 1 .. n : all[i] = P(i)
  <2> HIDE DEF P, n
  <2>1. all \in [1 .. n -> S]
    BY <1>1
  <2>2. \A i \in 1 .. n : all[i] = P(i)
    BY <1>1
  <2> HIDE DEF all, S
  <2>3. all \in Seq(S) /\ Len(all) = n
    BY <1>1, <2>1
  <2> QED
    BY <2>2, <2>3
<1>3. made = Picked(all, I)
  OBVIOUS
<1> HIDE DEF all, S
<1>4. made \in Seq(S) /\ Selected(made, all, I, n)
  BY <1>2, <1>3, PickedIs
<1>5. PICK place \in [1 .. Len(made) -> I \cap (1 .. n)] : Selects(place, made, all, I, n)
  BY <1>2, <1>4 DEF Selected
<1>6. DOMAIN made = 1 .. Len(made) /\ Len(made) \in Nat
  BY <1>4
<1>7. R = Picked(made, J)
  BY DEF Tagged
<1>8. R \in Seq(S) /\ Selected(R, made, J, Len(made))
  BY <1>4, <1>7, PickedIs
<1>9. PICK to \in [1 .. Len(R) -> J \cap (1 .. Len(made))] : Selects(to, R, made, J, Len(made))
  BY <1>8 DEF Selected
<1>10. Len(R) \in Nat /\ DOMAIN R = 1 .. Len(R) /\ IsAFunction(R)
  BY <1>8 DEF IsAFunction
<1>11. I \subseteq 1 .. n /\ \A i \in I : FirstOfField(l, i)
  BY <1>1 DEF Starts
<1>12. \A i \in 1 .. Len(made) : i \in J <=> made[i].tag = tag
  BY <1>6
<1> HIDE DEF J
<1>13. \A i : P(i).tag = l[i].tag
  BY FieldAtIs DEF SameField
<1>14. /\ \A a \in 1 .. Len(made) : place[a] \in I /\ made[a] = all[place[a]]
       /\ \A a, b \in 1 .. Len(made) : a < b => place[a] < place[b]
       /\ \A i \in I \cap (1 .. n) : \E a \in 1 .. Len(made) : place[a] = i
  BY <1>5 DEF Selects
<1>15. /\ \A b \in 1 .. Len(R) : to[b] \in J /\ to[b] \in 1 .. Len(made) /\ R[b] = made[to[b]]
       /\ \A a, b \in 1 .. Len(R) : a < b => to[a] < to[b]
       /\ \A i \in J \cap (1 .. Len(made)) : \E b \in 1 .. Len(R) : to[b] = i
  BY <1>9 DEF Selects
<1> HIDE DEF P
<1> DEFINE g == [b \in 1 .. Len(R) |-> place[to[b]]]
<1>16. \A b \in 1 .. Len(R) : g[b] = place[to[b]]
  OBVIOUS
<1> HIDE DEF g
<1>17. ASSUME NEW b \in 1 .. Len(R)
       PROVE  g[b] \in 1 .. n /\ l[g[b]].tag = tag /\ FirstOfField(l, g[b]) /\ R[b] = P(g[b])
  <2>1. to[b] \in 1 .. Len(made) /\ R[b] = made[to[b]] /\ made[to[b]].tag = tag
    BY <1>12, <1>15
  <2>2. g[b] \in I /\ R[b] = all[g[b]]
    BY <1>14, <1>16, <2>1
  <2>3. g[b] \in 1 .. n /\ FirstOfField(l, g[b])
    BY <1>11, <2>2
  <2>4. R[b] = P(g[b])
    BY <1>2, <2>2, <2>3
  <2>5. l[g[b]].tag = tag
    BY <1>13, <2>1, <2>4
  <2> QED
    BY <2>3, <2>4, <2>5
<1>18. \A b, c \in 1 .. Len(R) : b < c => g[b] < g[c]
  BY <1>14, <1>15, <1>16
<1>19. From(g, R, l, tag)
  BY <1>17, <1>18, Zenon DEF From, P
<1>20. ASSUME NEW i \in I, l[i].tag = tag PROVE \E b \in 1 .. Len(R) : g[b] = i
  <2>1. PICK a \in 1 .. Len(made) : place[a] = i
    BY <1>11, <1>14
  <2>2. made[a].tag = tag
    BY <1>2, <1>11, <1>13, <1>14, <1>20, <2>1
  <2>3. PICK b \in 1 .. Len(R) : to[b] = a
    BY <1>12, <1>15, <2>2
  <2> QED
    BY <1>16, <2>1, <2>3
<1>21. FieldsFrom(R, l, tag)
  BY <1>19, <1>20, Zenon DEF FieldsFrom
<1> QED
  BY <1>10, <1>21

\* R has the field of every row.
AreRows(R, r, tag, m, F) ==
    DOMAIN R = 1 .. m /\ \A k \in 1 .. m : R[k] = RowField(r, tag, k, F[k])

Numbers(r, tag) == {f \in 1 .. Len(r) : r[f].tag = tag}

\* A field of the record has a text.
LEMMA RowHasText ==
    ASSUME NEW r \in Records, NEW f \in 1 .. Len(r), NEW tag, NEW k
    PROVE  HasText(RowField(r, tag, k, f))
<1>1. Rest(r, f) \in Seq(Parts) /\ Len(Rest(r, f)) > 0
  BY RestIs
<1>2. RowField(r, tag, k, f).parts = Rest(r, f)
  BY DEF RowField
<1>3. 1 \in DOMAIN Rest(r, f)
  BY <1>1
<1>4. Rest(r, f)[1].text = InputText(f, 1 + 1)
  BY <1>3 DEF Rest
<1>5. InputText(f, 1 + 1) # <<>>
  BY DEF InputText
<1> QED
  BY <1>2, <1>3, <1>4, <1>5, Zenon DEF HasText

Begins(l, tag, k) == \E i \in Starts(l) : l[i].tag = tag /\ l[i].nt = k

\* The field of every row begins on the list.
LEMMA RowStarts ==
    ASSUME NEW l, NEW r \in Records, NEW tag, tag # 0, NEW m, NEW F, Arrived(l, r, tag, m, F),
           \A a \in 1 .. m : F[a] \in 1 .. Len(r), NEW k \in 1 .. m
    PROVE  Begins(l, tag, k)
<1> DEFINE B == Of(l, Body(tag, k))
<1>1. l \in Seq(CDs) /\ InField(l) /\ RowOf(l, r, tag, k, F[k])
  BY DEF Arrived
<1>2. Len(B) > 0
  BY <1>1, RestIs DEF RowOf, Alike
<1>3. B \in Seq(CDs) /\ \A e : e \in ToSet(B) <=> e \in Body(tag, k) /\ e \in ToSet(l)
  BY <1>1, OfIs
<1> HIDE DEF B
<1>3a. 1 \in DOMAIN B
  BY <1>2, <1>3
<1>4. PICK e : e \in ToSet(B)
  BY <1>3a DEF ToSet
<1>5. e \in ToSet(l) /\ e.tag = tag /\ e.nt = k
  BY <1>3, <1>4 DEF Body
<1>6. DOMAIN l = 1 .. Len(l) /\ Len(l) \in Nat
  BY <1>1
<1>7. PICK a \in 1 .. Len(l) : l[a] = e
  BY <1>5, <1>6, Zenon DEF ToSet
<1>8. PICK i \in 1 .. a : FirstOfField(l, i) /\ SameField(l[i], l[a])
  BY <1>1, StartOf
<1>9. i \in 1 .. Len(l) /\ l[i].tag = tag /\ l[i].nt = k
  BY <1>5, <1>6, <1>7, <1>8 DEF SameField
<1>10. FieldAt(l, i) = RowField(r, tag, k, F[k])
  BY <1>8, <1>9, FieldAtRow
<1>11. HasText(FieldAt(l, i))
  BY <1>10, RowHasText
<1>12. i \in Starts(l)
  BY <1>6, <1>8, <1>9, <1>11 DEF Starts
<1> QED
  BY <1>9, <1>12 DEF Begins

\* The numbers from 1 to m, in order.
LEMMA Identity ==
    ASSUME NEW m \in Nat
    PROVE  \E id : Rising(id, m, 1 .. m) /\ \A a \in 1 .. m : id[a] = a
<1> DEFINE id == [a \in 1 .. m |-> a]
<1>1. \A a \in 1 .. m : id[a] = a
  OBVIOUS
<1> HIDE DEF id
<1>2. Rising(id, m, 1 .. m)
  BY <1>1 DEF Rising
<1> QED
  BY <1>1, <1>2

\* So the fields of the tag are those of the rows, one after the other.
LEMMA RowsFrom ==
    ASSUME NEW r \in Records, NEW tag, tag # 0, NEW m \in Nat, NEW F,
           Rising(F, m, Numbers(r, tag)), NEW l, Arrived(l, r, tag, m, F),
           NEW R, Len(R) \in Nat, DOMAIN R = 1 .. Len(R), FieldsFrom(R, l, tag)
    PROVE  AreRows(R, r, tag, m, F)
<1>1. l \in Seq(CDs) /\ InField(l)
  BY DEF Arrived
<1>2. \A a \in 1 .. m : F[a] \in 1 .. Len(r)
  BY DEF Rising, Numbers
<1>3. Len(R) \in Nat /\ DOMAIN R = 1 .. Len(R)
  OBVIOUS
<1>4. PICK g : /\ From(g, R, l, tag)
               /\ \A i \in Starts(l) : l[i].tag = tag => \E b \in 1 .. Len(R) : g[b] = i
  BY Zenon DEF FieldsFrom
<1> DEFINE nts == [b \in 1 .. Len(R) |-> l[g[b]].nt]
<1>5. \A b \in 1 .. Len(R) : nts[b] = l[g[b]].nt
  OBVIOUS
<1> HIDE DEF nts
<1>6. ASSUME NEW b \in 1 .. Len(R)
      PROVE  nts[b] \in 1 .. m /\ R[b] = RowField(r, tag, nts[b], F[nts[b]])
  <2>1. /\ g[b] \in 1 .. Len(l) /\ l[g[b]].tag = tag /\ FirstOfField(l, g[b])
        /\ R[b] = FieldAt(l, g[b])
    BY <1>4 DEF From
  <2> QED
    BY <1>2, <1>5, <2>1, FieldAtRow
<1>7. ASSUME NEW b \in 1 .. Len(R), NEW c \in 1 .. Len(R), b < c
      PROVE  nts[b] < nts[c]
  <2>1. /\ g[b] \in 1 .. Len(l) /\ g[c] \in 1 .. Len(l) /\ g[b] < g[c]
        /\ l[g[b]].tag = tag /\ l[g[c]].tag = tag /\ FirstOfField(l, g[c])
    BY <1>4, <1>7 DEF From
  <2>2. ~IsLess(l[g[c]], l[g[b]])
    BY <1>1, <2>1 DEF InField
  <2>3. ~SameField(l[g[b]], l[g[c]])
    BY <1>1, <2>1, FirstIsOne
  <2>4. ~(nts[c] < nts[b]) /\ nts[b] # nts[c]
    BY <1>5, <2>1, <2>2, <2>3 DEF IsLess, SameField
  <2>5. nts[b] \in Nat /\ nts[c] \in Nat
    BY <1>6
  <2> QED
    BY <2>4, <2>5
<1>8. ASSUME NEW k \in 1 .. m PROVE \E b \in 1 .. Len(R) : nts[b] = k
  <2>0. Begins(l, tag, k)
    BY <1>2, RowStarts
  <2>1. PICK i \in Starts(l) : l[i].tag = tag /\ l[i].nt = k
    BY <2>0, Zenon DEF Begins
  <2>2. PICK b \in 1 .. Len(R) : g[b] = i
    BY <1>4, <2>1
  <2> QED
    BY <1>5, <2>1, <2>2
<1>9. Rising(nts, Len(R), 1 .. m)
  BY <1>6, <1>7, <1>8, Zenon DEF Rising
<1>10. PICK id : Rising(id, m, 1 .. m) /\ \A a \in 1 .. m : id[a] = a
  BY Identity
<1>11. Agree(nts, id, Len(R), m) /\ Agree(id, nts, m, Len(R))
  BY <1>3, <1>9, <1>10, RisingBelow
<1>12. Len(R) = m /\ \A b \in 1 .. m : nts[b] = b
  <2>1. Len(R) <= m /\ m <= Len(R) /\ \A b \in 1 .. Len(R) : nts[b] = id[b]
    BY <1>11 DEF Agree
  <2>2. Len(R) = m
    BY <1>3, <2>1
  <2> QED
    BY <1>10, <2>1, <2>2
<1> QED
  BY <1>3, <1>6, <1>12 DEF AreRows

\* The fields of the tag in the input record, by their numbers.
LEMMA InputFieldsAre ==
    ASSUME record \in Records, NEW tag, NEW m \in Nat, NEW F, Rising(F, m, Numbers(record, tag))
    PROVE  AreRows(InputFields(tag), record, tag, m, F)
<1> DEFINE n == Len(record)
           all == [f \in DOMAIN record |-> f]
           I == {f \in DOMAIN record : record[f].tag = tag}
           numbers == Picked(all, I)
           X == Numbers(record, tag)
<1>1. n \in Nat /\ DOMAIN record = 1 .. n
  BY RecordsAssumption
<1>2. all \in Seq(1 .. n) /\ Len(all) = n /\ \A f \in 1 .. n : all[f] = f
  <2>1. all \in [1 .. n -> 1 .. n] /\ \A f \in 1 .. n : all[f] = f
    BY <1>1
  <2> HIDE DEF all
  <2> QED
    BY <1>1, <2>1
<1>3. I = X
  BY <1>1 DEF Numbers
<1> HIDE DEF all, I
<1>4. numbers \in Seq(1 .. n) /\ Selected(numbers, all, I, n)
  BY <1>2, PickedIs
<1> DEFINE k == Len(numbers)
<1>5. k \in Nat /\ DOMAIN numbers = 1 .. k
  BY <1>4
<1>6. PICK place \in [1 .. k -> I \cap (1 .. n)] : Selects(place, numbers, all, I, n)
  BY <1>4 DEF Selected
<1> HIDE DEF numbers
<1>7. X \subseteq 1 .. n /\ X \subseteq Nat
  BY <1>1 DEF Numbers
<1> HIDE DEF X
<1>8. /\ \A a \in 1 .. k : place[a] \in X /\ numbers[a] = place[a]
      /\ \A a, b \in 1 .. k : a < b => place[a] < place[b]
      /\ \A f \in X : \E a \in 1 .. k : place[a] = f
  BY <1>2, <1>3, <1>6, <1>7 DEF Selects
<1> HIDE DEF k
<1>9. Rising(numbers, k, X)
  BY <1>8 DEF Rising
<1>10. Rising(F, m, X)
  BY DEF X
<1>11. Agree(numbers, F, k, m) /\ Agree(F, numbers, m, k)
  BY <1>5, <1>7, <1>9, <1>10, RisingBelow
<1>12. k = m /\ \A a \in 1 .. m : numbers[a] = F[a]
  BY <1>5, <1>11 DEF Agree
<1>13. DOMAIN InputFields(tag) = DOMAIN numbers
  BY Zenon DEF InputFields, numbers, all, I
<1>14. \A a \in DOMAIN numbers : InputFields(tag)[a] = RowField(record, tag, a, numbers[a])
  BY Zenon DEF InputFields, numbers, all, I, RowField, Rest, IsControl
<1> QED
  BY <1>5, <1>12, <1>13, <1>14 DEF AreRows

\* The rows determine the fields.
LEMMA RowsAreOne ==
    ASSUME NEW P, NEW Q, IsAFunction(P), IsAFunction(Q), NEW r, NEW tag, NEW m, NEW F,
           AreRows(P, r, tag, m, F), AreRows(Q, r, tag, m, F)
    PROVE  P = Q
<1>1. DOMAIN P = DOMAIN Q /\ \A x \in DOMAIN P : P[x] = Q[x]
  BY DEF AreRows
<1> QED
  BY <1>1 DEF IsAFunction

\* InputFields gives a list.
LEMMA InputFieldsFunction ==
    ASSUME NEW tag
    PROVE  IsAFunction(InputFields(tag))
BY DEF InputFields, IsAFunction

\* A copying table leaves the fields alone that its own rules do not speak of.
THEOREM OthersUntouched == Spec => []OthersAsIs
<1>1. Inv /\ AllOthers => OthersAsIs
  <2> SUFFICES ASSUME Inv, AllOthers, Done, SortRecord, Copying,
                      NEW tag \in {f.tag : f \in ToSet(record)},
                      \A k \in Own : rules[k].tag \notin {AnyTag, tag} /\ rules[k].toTag # tag
               PROVE  Picked(fields, {i \in DOMAIN fields : fields[i].tag = tag}) = InputFields(tag)
    BY Zenon DEF OthersAsIs
  <2>1. fields = FromCD(out) /\ out \in Seq(CDs) /\ record \in Records
    BY DEF Inv, DoneInv, Done, Types
  <2>2. tag \in Nat \ {0}
    <3>1. PICK f \in ToSet(record) : tag = f.tag
      OBVIOUS
    <3>2. f \in Fields
      BY <2>1, RecordsAssumption DEF ToSet
    <3>3. tag \in 1 .. 999
      BY <3>1, <3>2 DEF Fields
    <3> QED
      BY <3>3
  <2>3. Unspoken(tag) /\ Others(tag)
    BY <2>2 DEF Unspoken, AllOthers
  <2>4. PICK m, F : Rows(ToCD(record), record, Len(record), tag, m, F)
    BY <2>1, <2>2, RowsOfToCD
  <2>5. m \in Nat /\ Rising(F, m, Numbers(record, tag))
    BY <2>4, Zenon DEF Rows, Numbers
  <2> DEFINE list == PartialSort(out, 1)
             I == Starts(list)
             R == Tagged(fields, tag)
  <2>6. fields = Picked([i \in DOMAIN list |-> FieldAt(list, i)], I)
    BY <2>1, Zenon DEF FromCD, HasText, Starts
  <2>7. PICK one \in Nat : one = 1
    OBVIOUS
  <2>8. list = PartialSort(out, one)
    BY <2>7
  <2> HIDE DEF list
  <2>9. list \in Seq(CDs) /\ Sorted(list, out, one, Len(out))
    <3>1. 1 <= one
      BY <2>7
    <3> QED
      BY <2>1, <2>8, <3>1, PartialSortIs
  <2>10. InField(list)
    <3>1. Ordered(list, one - 1)
      BY <2>9 DEF Sorted
    <3>2. one - 1 = 0 /\ \A j \in 1 .. Len(list) : 0 < j
      BY <2>7
    <3> QED
      BY <3>1, <3>2 DEF Ordered, InOrder, InField
  <2>11. Arrived(list, record, tag, m, F)
    <3>1. PICK t : t = ToCD(record)
      OBVIOUS
    <3>2. Rows(t, record, Len(record), tag, m, F)
      BY <2>4, <3>1
    <3> QED
      BY <2>3, <2>7, <2>9, <2>10, <3>1, <3>2, Arrives
  <2>12. PICK J : J = I
    OBVIOUS
  <2>13. Len(R) \in Nat /\ DOMAIN R = 1 .. Len(R) /\ IsAFunction(R) /\ FieldsFrom(R, list, tag)
    BY <2>2, <2>6, <2>9, <2>12, TaggedFrom
  <2> HIDE DEF R, I
  <2>14. AreRows(R, record, tag, m, F)
    BY <2>1, <2>2, <2>5, <2>11, <2>13, RowsFrom
  <2>15. AreRows(InputFields(tag), record, tag, m, F)
    BY <2>1, <2>5, InputFieldsAre
  <2>16. R = InputFields(tag)
    BY <2>13, <2>14, <2>15, InputFieldsFunction, RowsAreOne
  <2> QED
    BY <2>16 DEF R, Tagged
<1> QED
  BY <1>1, InvAlways, OthersAlways, PTL
=============================================================================
