------------------------- MODULE YsoConverterProofs -------------------------
(***************************************************************************)
(* Proofs about YsoConverter: the type invariant, that files are lost only *)
(* on days with a fault, and what becomes of the fields and the terms of a *)
(* record. The last is a matter of YsoFields alone: from lemmas about      *)
(* lists and folds it follows that sorting, removing doubles and linking   *)
(* leave, for every field, one that says the same; that process_subfield   *)
(* and process_field tell every term they are given; and that              *)
(* process_record puts all of it into the record or the check log.         *)
(***************************************************************************)
EXTENDS YsoConverter, FiniteSetTheorems, SequenceTheorems, TLAPS

-----------------------------------------------------------------------------
(* Induction                                                               *)

\* A set of numbers that is not empty has a least one.
LEMMA Least ==
    ASSUME NEW T, T \subseteq Nat, T # {}
    PROVE  \E n \in T : \A m \in T : n <= m
<1> DEFINE Sets == {1 .. n : n \in T}
<1>1. Sets \subseteq FiniteSubsetsOf(Nat) /\ Sets # {}
  <2>1. \A n \in T : IsFiniteSet(1 .. n)
    BY FS_Interval
  <2>2. \A n \in T : 1 .. n \in SUBSET Nat
    OBVIOUS
  <2> QED
    BY <2>1, <2>2, Zenon DEF FiniteSubsetsOf
<1>2. \E x \in Sets : \A y \in Sets : <<y, x>> \notin StrictSubsetOrdering(Nat)
  BY <1>1, FS_StrictSubsetOrderingWellFounded, WFMin
<1>3. PICK n \in T : \A m \in T : <<1 .. m, 1 .. n>> \notin StrictSubsetOrdering(Nat)
  BY <1>2
<1>4. ASSUME NEW m \in T, m < n PROVE FALSE
  <2>1. 1 .. m \subseteq 1 .. n /\ n \in 1 .. n /\ n \notin 1 .. m
    BY <1>4
  <2>2. <<1 .. m, 1 .. n>> \in StrictSubsetOrdering(Nat)
    BY <2>1 DEF StrictSubsetOrdering
  <2> QED
    BY <1>3, <2>2
<1> QED
  BY <1>3, <1>4

\* The community modules' Min is that least number.
LEMMA LeastIs ==
    ASSUME NEW T, T \subseteq Nat, T # {}
    PROVE  Min(T) \in T /\ \A m \in T : Min(T) <= m
BY Least DEF Min

\* What holds of 0 and of the next number holds of every number.
LEMMA Reaches ==
    ASSUME NEW n \in Nat, NEW f, NEW A, f[0] \in A,
           \A i \in 1 .. n : f[i - 1] \in A => f[i] \in A
    PROVE  \A i \in 0 .. n : f[i] \in A
<1> DEFINE T == {i \in 0 .. n : f[i] \notin A}
<1> SUFFICES ASSUME T # {} PROVE FALSE
  OBVIOUS
<1>0. T \subseteq Nat
  OBVIOUS
<1> HIDE DEF T
<1>1. PICK i \in T : \A m \in T : i <= m
  BY <1>0, Least
<1>2. i \in 1 .. n /\ i - 1 \in 0 .. n /\ i - 1 \notin T
  BY <1>1 DEF T
<1> QED
  BY <1>1, <1>2 DEF T

\* The function a recursive definition over 0 .. n defines is there.
IsFold(f, n, b, step) == f[0] = b /\ \A i \in 1 .. n : f[i] = step[i][f[i - 1]]

\* A fold exists, from any start and with any steps.
LEMMA FoldExists ==
    ASSUME NEW n \in Nat, NEW A, NEW b \in A, NEW step \in [1 .. n -> [A -> A]]
    PROVE  \E f \in [0 .. n -> A] : IsFold(f, n, b, step)
<1> DEFINE Is(f, k) == /\ f[0] = b
                       /\ \A i \in 1 .. k : f[i] = step[i][f[i - 1]]
           T == {k \in 0 .. n : ~ \E f \in [0 .. k -> A] : Is(f, k)}
<1>0. T \subseteq Nat
  OBVIOUS
<1>1. ASSUME NEW k \in T, \A m \in T : k <= m
      PROVE  FALSE
  <2>1. k # 0
    <3> DEFINE f == [i \in 0 .. 0 |-> b]
    <3>1. f \in [0 .. 0 -> A] /\ Is(f, 0)
      OBVIOUS
    <3> QED
      BY <3>1
  <2>2. k \in 1 .. n
    BY <2>1
  <2>3. k - 1 \in 0 .. n /\ ~(k <= k - 1)
    BY <2>2
  <2>4. k - 1 \notin T
    <3> HIDE DEF T
    <3> QED
      BY <1>1, <2>3
  <2>5. PICK f \in [0 .. k - 1 -> A] : Is(f, k - 1)
    BY <2>3, <2>4
  <2> DEFINE g == [i \in 0 .. k |-> IF i = k THEN step[k][f[k - 1]] ELSE f[i]]
  <2>6. f[k - 1] \in A /\ step[k] \in [A -> A]
    BY <2>2
  <2>7. step[k][f[k - 1]] \in A
    BY <2>6
  <2>8. g \in [0 .. k -> A]
    BY <2>2, <2>7
  <2>9. g[0] = b
    BY <2>2, <2>5
  <2>10. ASSUME NEW i \in 1 .. k PROVE g[i] = step[i][g[i - 1]]
    <3>1. g[i - 1] = f[i - 1]
      BY <2>2
    <3>2. CASE i = k
      BY <3>1, <3>2
    <3>3. CASE i # k
      BY <2>5, <3>1, <3>3
    <3> QED
      BY <3>2, <3>3
  <2>11. \E f1 \in [0 .. k -> A] : Is(f1, k)
    <3>1. Is(g, k)
      BY <2>9, <2>10
    <3> HIDE DEF Is, g
    <3> QED
      BY <2>8, <3>1
  <2> QED
    BY <2>11
<1>2. T = {}
  <2> HIDE DEF T
  <2> QED
    BY <1>0, <1>1, Least
<1>3. \E f \in [0 .. n -> A] : Is(f, n)
  BY SMTT(30), <1>2
<1> QED
  BY <1>3 DEF IsFold

\* Append, element by element.
LEMMA Appended ==
    ASSUME NEW S, NEW s \in Seq(S), NEW e \in S
    PROVE  /\ Append(s, e) \in Seq(S) /\ Len(Append(s, e)) = Len(s) + 1
           /\ Append(s, e)[Len(s) + 1] = e
           /\ \A j \in 1 .. Len(s) : Append(s, e)[j] = s[j]
<1>1. Append(s, e) \in Seq(S) /\ Len(Append(s, e)) = Len(s) + 1
  OBVIOUS
<1>2. Append(s, e)[Len(s) + 1] = e
  OBVIOUS
<1>3. \A j \in 1 .. Len(s) : Append(s, e)[j] = s[j]
  OBVIOUS
<1> QED
  BY <1>1, <1>2, <1>3

\* What holds of 0 and of the next number holds up to n, of the numbers of a set.
LEMMA Induct ==
    ASSUME NEW n \in Nat, NEW G, 0 \in G, \A k \in 1 .. n : k - 1 \in G => k \in G
    PROVE  \A k \in 0 .. n : k \in G
<1> DEFINE f == [k \in 0 .. n |-> k]
<1>1. f[0] \in G /\ \A k \in 1 .. n : f[k - 1] \in G => f[k] \in G
  OBVIOUS
<1>2. \A k \in 0 .. n : f[k] = k
  OBVIOUS
<1> HIDE DEF f
<1>3. \A k \in 0 .. n : f[k] \in G
  BY <1>1, Reaches, Zenon
<1> QED
  BY <1>2, <1>3

\* What holds of the empty list and of a list with one more element.
LEMMA SeqInduct ==
    ASSUME NEW S, NEW G, <<>> \in G, \A s \in Seq(S), e \in S : s \in G => Append(s, e) \in G
    PROVE  Seq(S) \subseteq G
<1> DEFINE T == {n \in Nat : \E s \in Seq(S) : Len(s) = n /\ s \notin G}
<1>1. ASSUME NEW n \in T, \A m \in T : n <= m PROVE FALSE
  <2>1. PICK s \in Seq(S) : Len(s) = n /\ s \notin G
    OBVIOUS
  <2>2. s # <<>>
    BY <2>1
  <2>3. PICK t \in Seq(S), e \in S : s = Append(t, e)
    BY <2>2, SequenceEmptyOrAppend
  <2>4. t \notin G /\ Len(t) \in Nat /\ Len(t) + 1 = n
    BY <2>1, <2>3
  <2>5. Len(t) \in T
    BY <2>4
  <2> HIDE DEF T
  <2> QED
    BY <1>1, <2>4, <2>5
<1>2. T = {}
  <2>1. T \subseteq Nat
    OBVIOUS
  <2> HIDE DEF T
  <2> QED
    BY <1>1, <2>1, Least
<1>3. ASSUME NEW s \in Seq(S) PROVE s \in G
  <2>1. Len(s) \in Nat
    OBVIOUS
  <2>2. Len(s) \notin T
    BY <1>2
  <2> QED
    BY <2>1, <2>2
<1> QED
  BY <1>3

-----------------------------------------------------------------------------
(* Lists                                                                   *)

\* A list, its places and the set of its elements.
LEMMA InSeq ==
    ASSUME NEW S, NEW s \in Seq(S)
    PROVE  /\ Len(s) \in Nat /\ DOMAIN s = 1 .. Len(s) /\ ToSet(s) \subseteq S
           /\ \A i \in DOMAIN s : s[i] \in S /\ s[i] \in ToSet(s)
           /\ \A x \in ToSet(s) : \E i \in DOMAIN s : s[i] = x
  BY DEF ToSet

\* The elements after one was appended.
LEMMA SetOfAppend ==
    ASSUME NEW S, NEW s \in Seq(S), NEW e \in S
    PROVE  ToSet(Append(s, e)) = ToSet(s) \union {e}
<1>1. /\ DOMAIN Append(s, e) = 1 .. Len(s) + 1 /\ Append(s, e)[Len(s) + 1] = e
      /\ \A j \in 1 .. Len(s) : Append(s, e)[j] = s[j]
  BY Appended
<1>2. DOMAIN s = 1 .. Len(s) /\ Len(s) \in Nat
  OBVIOUS
<1>3. \A j \in 1 .. Len(s) + 1 : j \in 1 .. Len(s) \/ j = Len(s) + 1
  BY <1>2
<1>4. 1 .. Len(s) \subseteq 1 .. Len(s) + 1 /\ Len(s) + 1 \in 1 .. Len(s) + 1
  BY <1>2
<1> QED
  BY <1>1, <1>2, <1>3, <1>4 DEF ToSet

\* The elements of two lists put together.
LEMMA SetOfConcat ==
    ASSUME NEW S, NEW s \in Seq(S), NEW t \in Seq(S)
    PROVE  s \o t \in Seq(S) /\ ToSet(s \o t) = ToSet(s) \union ToSet(t)
<1>1. s \o t \in Seq(S)
  OBVIOUS
<1>2. Range(s \o t) = Range(s) \union Range(t)
  BY RangeConcatenation
<1> QED
  BY <1>1, <1>2 DEF Range, ToSet

\* An empty list has no elements.
LEMMA SetOfEmpty == ToSet(<<>>) = {}
  BY DEF ToSet

\* h tells how Among makes its list.
Makes(h, s, B) ==
    /\ h[0] = <<>> /\ h[Len(s)] = Among(s, B)
    /\ \A k \in 1 .. Len(s) : h[k] = IF s[k] \in B THEN Append(h[k - 1], s[k]) ELSE h[k - 1]

\* Among is computed element by element.
LEMMA AmongFold ==
    ASSUME NEW S, NEW s \in Seq(S), NEW B
    PROVE  \E h \in [0 .. Len(s) -> Seq(S)] : Makes(h, s, B)
<1> DEFINE n == Len(s)
           A == Seq(S)
           Pick(v, k) == IF s[k] \in B THEN Append(v, s[k]) ELSE v
           step == [k \in 1 .. n |-> [v \in A |-> Pick(v, k)]]
           R(g) == g = [k \in 0 .. n |-> IF k = 0 THEN <<>> ELSE Pick(g[k - 1], k)]
<1>0. n \in Nat /\ <<>> \in A
  OBVIOUS
<1>1. Among(s, B) = (CHOOSE g : R(g))[n]
  BY DEF Among
<1>2. ASSUME NEW k \in 1 .. n, NEW v \in A
      PROVE  Pick(v, k) \in A
  <2>1. s[k] \in S
    OBVIOUS
  <2> QED
    BY <2>1, Appended
<1> HIDE DEF n, A, Pick
<1>3. step \in [1 .. n -> [A -> A]]
  BY <1>2
<1>4. PICK g \in [0 .. n -> A] : IsFold(g, n, <<>>, step)
  <2> HIDE DEF step
  <2> QED
    BY <1>0, <1>3, FoldExists, Zenon
<1>5. R(g)
  <2>1. ASSUME NEW k \in 1 .. n PROVE g[k] = Pick(g[k - 1], k)
    <3>1. g[k - 1] \in A
      BY <1>0
    <3>2. g[k] = step[k][g[k - 1]]
      BY <1>4 DEF IsFold
    <3> QED
      BY <3>1, <3>2
  <2>2. \A k \in 0 .. n : g[k] = IF k = 0 THEN <<>> ELSE Pick(g[k - 1], k)
    BY <1>0, <1>4, <2>1 DEF IsFold
  <2> QED
    BY <2>2
<1> DEFINE h == CHOOSE h : R(h)
<1>6. R(h)
  BY <1>5
<1>1h. h[n] = Among(s, B)
  BY <1>1
<1> HIDE DEF h
<1>7. h[0] = <<>> /\ \A k \in 1 .. n : h[k] = Pick(h[k - 1], k)
  BY <1>0, <1>6
<1> DEFINE G == {k \in 0 .. n : h[k] \in A}
<1>8. 0 \in G /\ \A k \in 1 .. n : k - 1 \in G => k \in G
  BY <1>0, <1>2, <1>7
<1>9. \A k \in 0 .. n : k \in G
  <2> HIDE DEF G
  <2> QED
    BY <1>0, <1>8, Induct, Zenon
<1>10. h \in [0 .. n -> A]
  BY <1>6, <1>9
<1>11. Makes(h, s, B)
  BY <1>1h, <1>7 DEF n, Pick, Makes
<1> QED
  BY <1>10, <1>11 DEF n, A

\* Nothing is taken from an empty list.
LEMMA AmongEmpty == ASSUME NEW B PROVE Among(<<>>, B) = <<>>
<1>1. <<>> \in Seq({}) /\ Len(<<>>) = 0
  OBVIOUS
<1>2. PICK h : Makes(h, <<>>, B)
  BY <1>1, AmongFold
<1> QED
  BY <1>1, <1>2 DEF Makes

\* An appended element is taken last.
LEMMA AmongAppend ==
    ASSUME NEW S, NEW s \in Seq(S), NEW e \in S, NEW B
    PROVE  Among(Append(s, e), B) = IF e \in B THEN Append(Among(s, B), e) ELSE Among(s, B)
<1> DEFINE t == Append(s, e)
           n == Len(s)
<1>1. /\ t \in Seq(S) /\ Len(t) = n + 1 /\ t[n + 1] = e /\ n \in Nat
      /\ \A j \in 1 .. n : t[j] = s[j]
  BY Appended
<1> HIDE DEF t
<1>2. PICK g : Makes(g, s, B)
  BY AmongFold
<1>3. PICK h : Makes(h, t, B)
  BY <1>1, AmongFold
<1> HIDE DEF n
<1> DEFINE G == {k \in 0 .. n : h[k] = g[k]}
<1>4. 0 \in G
  BY <1>1, <1>2, <1>3 DEF Makes
<1>5. ASSUME NEW k \in 1 .. n, k - 1 \in G PROVE k \in G
  <2>1. k \in 1 .. n + 1 /\ t[k] = s[k] /\ h[k - 1] = g[k - 1]
    BY <1>1, <1>5
  <2>2. h[k] = IF s[k] \in B THEN Append(g[k - 1], s[k]) ELSE g[k - 1]
    BY <1>1, <1>3, <2>1 DEF Makes
  <2>3. g[k] = IF s[k] \in B THEN Append(g[k - 1], s[k]) ELSE g[k - 1]
    BY <1>2 DEF Makes, n
  <2>4. h[k] = g[k]
    BY <2>2, <2>3
  <2> QED
    BY <2>4
<1>6. n \in G
  <2> HIDE DEF G
  <2>1. \A k \in 0 .. n : k \in G
    BY <1>1, <1>4, <1>5, Induct, Zenon
  <2> QED
    BY <1>1, <2>1
<1>7. h[n + 1] = IF t[n + 1] \in B THEN Append(h[n], t[n + 1]) ELSE h[n]
  <2>1. PICK m \in 1 .. n + 1 : m = n + 1 /\ m - 1 = n
    BY <1>1
  <2>2. \A k \in 1 .. n + 1 : h[k] = IF t[k] \in B THEN Append(h[k - 1], t[k]) ELSE h[k - 1]
    BY <1>1, <1>3 DEF Makes
  <2>3. h[m] = IF t[m] \in B THEN Append(h[m - 1], t[m]) ELSE h[m - 1]
    BY <2>2
  <2> QED
    BY <2>1, <2>3
<1>8. h[n] = Among(s, B) /\ h[n + 1] = Among(t, B)
  BY <1>1, <1>2, <1>3, <1>6 DEF Makes, n
<1> QED
  BY <1>1, <1>7, <1>8 DEF t

\* Among keeps the elements that are in the set.
LEMMA AmongIs ==
    ASSUME NEW S, NEW s \in Seq(S), NEW B
    PROVE  Among(s, B) \in Seq(S) /\ ToSet(Among(s, B)) = ToSet(s) \cap B
<1> DEFINE G == {t \in Seq(S) : Among(t, B) \in Seq(S) /\ ToSet(Among(t, B)) = ToSet(t) \cap B}
<1>1. <<>> \in G
  <2>1. Among(<<>>, B) = <<>> /\ <<>> \in Seq(S)
    BY AmongEmpty
  <2> QED
    BY <2>1, SetOfEmpty
<1>2. ASSUME NEW t \in Seq(S), NEW e \in S, t \in G PROVE Append(t, e) \in G
  <2>1. Append(t, e) \in Seq(S) /\ ToSet(Append(t, e)) = ToSet(t) \union {e}
    BY SetOfAppend
  <2>2. Among(t, B) \in Seq(S) /\ ToSet(Among(t, B)) = ToSet(t) \cap B
    BY <1>2
  <2>3. ToSet(Append(Among(t, B), e)) = (ToSet(t) \cap B) \union {e} /\ Append(Among(t, B), e) \in Seq(S)
    BY <2>2, SetOfAppend
  <2>4. Among(Append(t, e), B) = IF e \in B THEN Append(Among(t, B), e) ELSE Among(t, B)
    BY AmongAppend
  <2> QED
    BY <2>1, <2>2, <2>3, <2>4
<1> HIDE DEF G
<1>3. s \in G
  BY <1>1, <1>2, SeqInduct
<1> QED
  BY <1>3 DEF G

\* Only what is in the list counts.
LEMMA AmongSame ==
    ASSUME NEW S, NEW s \in Seq(S), NEW B, NEW C, ToSet(s) \cap B = ToSet(s) \cap C
    PROVE  Among(s, B) = Among(s, C)
<1> DEFINE G == {t \in Seq(S) : ToSet(t) \cap B = ToSet(t) \cap C => Among(t, B) = Among(t, C)}
<1>1. <<>> \in G
  BY AmongEmpty
<1>2. ASSUME NEW t \in Seq(S), NEW e \in S, t \in G PROVE Append(t, e) \in G
  <2>1. Append(t, e) \in Seq(S) /\ ToSet(Append(t, e)) = ToSet(t) \union {e}
    BY SetOfAppend
  <2>2. /\ Among(Append(t, e), B) = IF e \in B THEN Append(Among(t, B), e) ELSE Among(t, B)
        /\ Among(Append(t, e), C) = IF e \in C THEN Append(Among(t, C), e) ELSE Among(t, C)
    BY AmongAppend
  <2>3. ToSet(t) \cap B = ToSet(t) \cap C /\ (e \in B <=> e \in C) => Among(Append(t, e), B) = Among(Append(t, e), C)
    BY <1>2, <2>2
  <2> QED
    BY <2>1, <2>3
<1> HIDE DEF G
<1>3. s \in G
  BY <1>1, <1>2, SeqInduct
<1> QED
  BY <1>3 DEF G

\* Taking twice is taking from the intersection.
LEMMA AmongAmong ==
    ASSUME NEW S, NEW s \in Seq(S), NEW B, NEW C
    PROVE  Among(Among(s, B), C) = Among(s, B \cap C)
<1> DEFINE G == {t \in Seq(S) : Among(Among(t, B), C) = Among(t, B \cap C)}
<1>1. <<>> \in G
  BY AmongEmpty
<1>2. ASSUME NEW t \in Seq(S), NEW e \in S, t \in G PROVE Append(t, e) \in G
  <2>1. Append(t, e) \in Seq(S) /\ Among(t, B) \in Seq(S)
    BY AmongIs
  <2>2. /\ Among(Append(t, e), B) = IF e \in B THEN Append(Among(t, B), e) ELSE Among(t, B)
        /\ Among(Append(t, e), B \cap C) = IF e \in B \cap C THEN Append(Among(t, B \cap C), e) ELSE Among(t, B \cap C)
        /\ Among(Append(Among(t, B), e), C)
              = IF e \in C THEN Append(Among(Among(t, B), C), e) ELSE Among(Among(t, B), C)
    BY <2>1, AmongAppend
  <2>3. Among(Among(t, B), C) = Among(t, B \cap C)
    BY <1>2
  <2>4. Among(Among(Append(t, e), B), C) = Among(Append(t, e), B \cap C)
    <3>1. CASE e \in B
      <4>1. Among(Append(t, e), B) = Append(Among(t, B), e)
        BY <2>2, <3>1
      <4>2. CASE e \in C
        BY <2>2, <2>3, <3>1, <4>1, <4>2
      <4>3. CASE e \notin C
        BY <2>2, <2>3, <4>1, <4>3
      <4> QED
        BY <4>2, <4>3
    <3>2. CASE e \notin B
      BY <2>2, <2>3, <3>2
    <3> QED
      BY <3>1, <3>2
  <2> QED
    BY <2>1, <2>4
<1> HIDE DEF G
<1>3. s \in G
  BY <1>1, <1>2, SeqInduct
<1> QED
  BY <1>3 DEF G

\* Appending to the second of two lists put together.
LEMMA AppendConcat ==
    ASSUME NEW S, NEW s \in Seq(S), NEW t \in Seq(S), NEW e \in S
    PROVE  s \o Append(t, e) = Append(s \o t, e)
<1>1. s \o t \in Seq(S) /\ <<e>> \in Seq(S)
  OBVIOUS
<1>2. Append(t, e) = t \o <<e>>
  BY AppendIsConcat
<1>3. Append(s \o t, e) = (s \o t) \o <<e>>
  BY <1>1, AppendIsConcat
<1>4. (s \o t) \o <<e>> = s \o (t \o <<e>>)
  BY <1>1, ConcatAssociative
<1> QED
  BY <1>2, <1>3, <1>4

\* Among goes over lists put together.
LEMMA AmongConcat ==
    ASSUME NEW S, NEW s \in Seq(S), NEW t \in Seq(S), NEW B
    PROVE  Among(s \o t, B) = Among(s, B) \o Among(t, B)
<1> DEFINE G == {u \in Seq(S) : Among(s \o u, B) = Among(s, B) \o Among(u, B)}
<1>1. <<>> \in G
  <2>1. Among(s, B) \in Seq(S)
    BY AmongIs
  <2>2. s \o <<>> = s /\ Among(s, B) \o <<>> = Among(s, B)
    BY <2>1, ConcatEmptySeq
  <2>3. Among(<<>>, B) = <<>> /\ <<>> \in Seq(S)
    BY AmongEmpty
  <2> QED
    BY <2>2, <2>3
<1>2. ASSUME NEW u \in Seq(S), NEW e \in S, u \in G PROVE Append(u, e) \in G
  <2>1. Append(u, e) \in Seq(S) /\ Among(s, B) \in Seq(S) /\ Among(u, B) \in Seq(S) /\ s \o u \in Seq(S)
    BY AmongIs
  <2>2. /\ s \o Append(u, e) = Append(s \o u, e)
        /\ Among(s, B) \o Append(Among(u, B), e) = Append(Among(s, B) \o Among(u, B), e)
    <3>1. PICK p \in Seq(S), q \in Seq(S) : p = Among(s, B) /\ q = Among(u, B)
      BY <2>1
    <3>2. p \o Append(q, e) = Append(p \o q, e)
      BY AppendConcat
    <3>3. s \o Append(u, e) = Append(s \o u, e)
      BY AppendConcat
    <3> QED
      BY <3>1, <3>2, <3>3
  <2>3. /\ Among(Append(u, e), B) = IF e \in B THEN Append(Among(u, B), e) ELSE Among(u, B)
        /\ Among(Append(s \o u, e), B) = IF e \in B THEN Append(Among(s \o u, B), e) ELSE Among(s \o u, B)
    BY <2>1, AmongAppend
  <2>4. Among(s \o u, B) = Among(s, B) \o Among(u, B)
    BY <1>2
  <2>5. Among(s \o Append(u, e), B) = Among(s, B) \o Among(Append(u, e), B)
    <3>1. CASE e \in B
      BY <2>2, <2>3, <2>4, <3>1
    <3>2. CASE e \notin B
      BY <2>2, <2>3, <2>4, <3>2
    <3> QED
      BY <3>1, <3>2
  <2> QED
    BY <2>1, <2>5
<1> HIDE DEF G
<1>3. t \in G
  BY <1>1, <1>2, SeqInduct
<1> QED
  BY <1>3 DEF G

\* The community modules' Max is the greatest number.
LEMMA GreatestIs ==
    ASSUME NEW T, NEW n \in Nat, T \subseteq 1 .. n, T # {}
    PROVE  Max(T) \in T /\ \A m \in T : m <= Max(T)
<1> DEFINE U == {n - m : m \in T}
<1>0. \A m \in T : m \in 1 .. n /\ n - m \in Nat
  OBVIOUS
<1>1. U \subseteq Nat /\ U # {}
  BY <1>0
<1>2. PICK u \in U : \A m \in U : u <= m
  <2> HIDE DEF U
  <2> QED
    BY <1>1, Least
<1>3. PICK t \in T : u = n - t
  BY <1>2
<1>4. \A m \in T : m <= t
  <2> TAKE m \in T
  <2>1. n - m \in U
    OBVIOUS
  <2>2. n - t <= n - m
    BY <1>2, <1>3, <2>1
  <2> QED
    BY <1>0, <2>2
<1> QED
  BY <1>4 DEF Max

\* The list of the places of s, and what is at some of them.
LEMMA Places ==
    ASSUME NEW S, NEW s \in Seq(S)
    PROVE  /\ [i \in DOMAIN s |-> i] \in Seq(DOMAIN s) /\ ToSet([i \in DOMAIN s |-> i]) = DOMAIN s
           /\ Len([i \in DOMAIN s |-> i]) = Len(s)
<1>1. DOMAIN s = 1 .. Len(s) /\ Len(s) \in Nat
  OBVIOUS
<1>2. [i \in DOMAIN s |-> i] \in [1 .. Len(s) -> DOMAIN s]
  BY <1>1
<1>3. [i \in DOMAIN s |-> i] \in Seq(DOMAIN s)
  BY <1>1, <1>2, SeqDef
<1> QED
  BY <1>1, <1>3 DEF ToSet

\* The places of a list, and its elements at the places l.
PlacesOf(s) == [i \in DOMAIN s |-> i]
Taken(s, l) == [k \in DOMAIN l |-> s[l[k]]]

\* The elements at some of the places.
LEMMA Chosen ==
    ASSUME NEW S, NEW s \in Seq(S), NEW I,
           NEW l, l = Among(PlacesOf(s), I)
    PROVE  /\ l \in Seq(DOMAIN s) /\ ToSet(l) = DOMAIN s \cap I
           /\ Taken(s, l) \in Seq(S) /\ ToSet(Taken(s, l)) = {s[i] : i \in DOMAIN s \cap I}
<1>1. l \in Seq(DOMAIN s) /\ ToSet(l) = DOMAIN s \cap I
  <2> DEFINE p == [i \in DOMAIN s |-> i]
             D == DOMAIN s
  <2>1. p \in Seq(D) /\ ToSet(p) = D
    BY Places
  <2>2. l = Among(p, I)
    BY DEF PlacesOf
  <2> HIDE DEF p, D
  <2>3. Among(p, I) \in Seq(D) /\ ToSet(Among(p, I)) = ToSet(p) \cap I
    BY <2>1, AmongIs
  <2> QED
    BY <2>1, <2>2, <2>3 DEF D
<1>2. DOMAIN l = 1 .. Len(l) /\ Len(l) \in Nat /\ \A k \in DOMAIN l : l[k] \in DOMAIN s
  BY <1>1
<1>3. \A i \in DOMAIN s : s[i] \in S
  OBVIOUS
<1> DEFINE t == [k \in DOMAIN l |-> s[l[k]]]
<1>4. t \in [1 .. Len(l) -> S]
  BY <1>2, <1>3
<1>5. ToSet(t) = {s[i] : i \in ToSet(l)}
  BY DEF ToSet
<1>6. t \in Seq(S)
  <2> HIDE DEF t
  <2> QED
    BY <1>2, <1>4, SeqDef
<1>7. Taken(s, l) = t
  BY DEF Taken
<1>8. {s[i] : i \in ToSet(l)} = {s[i] : i \in DOMAIN s \cap I}
  BY <1>1
<1> HIDE DEF t
<1> QED
  BY <1>1, <1>5, <1>6, <1>7, <1>8, Zenon

\* Nothing is taken where nothing is in the set.
LEMMA NothingAmong ==
    ASSUME NEW S, NEW s \in Seq(S), NEW B, ToSet(s) \cap B = {}
    PROVE  Among(s, B) = <<>>
<1>1. Among(s, B) \in Seq(S) /\ ToSet(Among(s, B)) = {}
  BY AmongIs
<1>2. DOMAIN Among(s, B) = {}
  BY <1>1 DEF ToSet
<1> QED
  BY <1>1, <1>2

\* A list of one element.
LEMMA SetOfOne == ASSUME NEW S, NEW e \in S PROVE <<e>> \in Seq(S) /\ ToSet(<<e>>) = {e}
<1>1. Append(<<>>, e) = <<e>> /\ <<>> \in Seq(S)
  OBVIOUS
<1>2. PICK l \in Seq(S) : l = <<>>
  BY <1>1
<1>3. Append(l, e) \in Seq(S) /\ ToSet(Append(l, e)) = ToSet(l) \union {e}
  BY SetOfAppend
<1> QED
  BY <1>1, <1>2, <1>3, SetOfEmpty

\* An element is inserted, and the others stay.
LEMMA InsertedSet ==
    ASSUME NEW S, NEW s \in Seq(S), NEW e \in S, NEW i \in 1 .. Len(s) + 1
    PROVE  InsertAt(s, i, e) \in Seq(S) /\ ToSet(InsertAt(s, i, e)) = ToSet(s) \union {e}
<1> DEFINE a == SubSeq(s, 1, i - 1)
           b == SubSeq(s, i, Len(s))
<1>0. Len(s) \in Nat /\ i \in Nat /\ \A j \in 1 .. Len(s) : s[j] \in S
  OBVIOUS
<1>c. \A p \in Seq(S) : \A q \in Seq(S) : p \o q \in Seq(S) /\ ToSet(p \o q) = ToSet(p) \union ToSet(q)
  BY SetOfConcat
<1>1. a \in Seq(S)
  <2>1. 1 \in Int /\ i - 1 \in Int /\ \A j \in 1 .. i - 1 : s[j] \in S
    BY <1>0
  <2> QED
    BY <2>1, SubSeqProperties
<1>2. b \in Seq(S)
  <2>1. i \in Int /\ Len(s) \in Int /\ \A j \in i .. Len(s) : s[j] \in S
    BY <1>0
  <2> QED
    BY <2>1, SubSeqProperties
<1>3. a \o b = s
  <2>1. PICK k \in 0 .. Len(s) : k = i - 1 /\ k + 1 = i
    BY <1>0
  <2>2. 1 \in 1 .. Len(s) + 1 /\ k \in 1 - 1 .. Len(s) /\ Len(s) \in k .. Len(s)
    BY <1>0
  <2>3. SubSeq(s, 1, k) \o SubSeq(s, k + 1, Len(s)) = SubSeq(s, 1, Len(s))
    BY <2>2, ConcatAdjacentSubSeq
  <2> QED
    BY <2>1, <2>3, SubSeqFull
<1>4. InsertAt(s, i, e) = (a \o <<e>>) \o b
  BY DEF InsertAt
<1> HIDE DEF a, b
<1>5. ToSet(s) = ToSet(a) \union ToSet(b)
  BY <1>c, <1>1, <1>2, <1>3
<1>6. PICK c \in Seq(S) : c = <<e>> /\ ToSet(c) = {e}
  BY SetOfOne
<1>7. PICK d \in Seq(S) : d = a \o c /\ ToSet(d) = ToSet(a) \union {e}
  <2>1. a \o c \in Seq(S) /\ ToSet(a \o c) = ToSet(a) \union ToSet(c)
    BY <1>c, <1>1, <1>6
  <2> QED
    BY <1>6, <2>1
<1>8. d \o b \in Seq(S) /\ ToSet(d \o b) = ToSet(a) \union {e} \union ToSet(b)
  <2>1. d \o b \in Seq(S) /\ ToSet(d \o b) = ToSet(d) \union ToSet(b)
    BY <1>c, <1>2
  <2> QED
    BY <1>7, <2>1
<1>9. InsertAt(s, i, e) = d \o b
  BY <1>4, <1>6, <1>7
<1> QED
  BY <1>5, <1>8, <1>9

-----------------------------------------------------------------------------
(* Folds                                                                   *)

\* The last place of a prefix.
LEMMA Prefix ==
    ASSUME NEW n \in Nat, NEW k \in 1 .. n
    PROVE  1 .. k \in SUBSET (1 .. n) /\ 1 .. k # {} /\ Max(1 .. k) = k /\ (1 .. k) \ {k} = 1 .. k - 1
<1>1. k \in 1 .. k /\ \A y \in 1 .. k : k >= y
  OBVIOUS
<1>2. \A x \in 1 .. k : (\A y \in 1 .. k : x >= y) => x = k
  BY <1>1
<1>3. Max(1 .. k) = k
  BY <1>1, <1>2 DEF Max
<1> QED
  BY <1>3

\* g is such a fold over sets of places, by their greatest.
IsSetFold(g, n, b, step) ==
    \A s \in SUBSET (1 .. n) : g[s] = IF s = {} THEN b ELSE step[Max(s)][g[s \ {Max(s)}]]

\* A fold over the prefixes exists: what FoldLeft chooses.
LEMMA SetFold ==
    ASSUME NEW n \in Nat, NEW A, NEW b \in A, NEW step \in [1 .. n -> [A -> A]]
    PROVE  \E g \in [SUBSET (1 .. n) -> A] : IsSetFold(g, n, b, step)
<1> DEFINE D == SUBSET (1 .. n)
           C == [D -> A]
           base == [s \in D |-> b]
           all == [k \in 1 .. n |-> [F \in C |-> [s \in D |-> IF k \in s THEN step[k][F[s]] ELSE F[s]]]]
<1>1. base \in C
  OBVIOUS
<1>2. all \in [1 .. n -> [C -> C]]
  <2> SUFFICES ASSUME NEW k \in 1 .. n, NEW F \in C, NEW s \in D
               PROVE (IF k \in s THEN step[k][F[s]] ELSE F[s]) \in A
    OBVIOUS
  <2>1. F[s] \in A /\ step[k] \in [A -> A]
    OBVIOUS
  <2> QED
    BY <2>1
<1>3. PICK H \in [0 .. n -> C] : IsFold(H, n, base, all)
  <2> HIDE DEF C, base, all
  <2> QED
    BY <1>1, <1>2, FoldExists, Zenon
<1>4. \A k \in 0 .. n, s \in D : H[k] \in C /\ H[k][s] \in A
  OBVIOUS
<1>5. ASSUME NEW k \in 1 .. n, NEW s \in D
      PROVE  H[k][s] = IF k \in s THEN step[k][H[k - 1][s]] ELSE H[k - 1][s]
  <2>1. k - 1 \in 0 .. n
    OBVIOUS
  <2>2. H[k] = all[k][H[k - 1]] /\ H[k - 1] \in C
    BY <1>3, <2>1 DEF IsFold
  <2> QED
    BY <2>2
<1>6. \A s \in D : H[0][s] = b
  BY <1>3 DEF IsFold
<1> HIDE DEF base, all, C
<1>7. ASSUME NEW s \in D, NEW t \in D, NEW m \in 0 .. n, s \cap (1 .. m) = t \cap (1 .. m)
      PROVE  H[m][s] = H[m][t]
  <2> DEFINE G == {k \in 0 .. m : H[k][s] = H[k][t]}
  <2>1. 0 \in G
    BY <1>6
  <2>2. ASSUME NEW k \in 1 .. m, k - 1 \in G PROVE k \in G
    <3>1. k \in 1 .. n /\ (k \in s <=> k \in t) /\ H[k - 1][s] = H[k - 1][t]
      BY <1>7, <2>2
    <3>2. H[k][s] = H[k][t]
      BY <1>5, <3>1
    <3> QED
      BY <3>2
  <2> HIDE DEF G
  <2>3. m \in Nat
    OBVIOUS
  <2>4. \A k \in 0 .. m : k \in G
    BY <2>1, <2>2, <2>3, Induct, Zenon
  <2> QED
    BY <2>4 DEF G
<1>8. ASSUME NEW s \in D, NEW m \in 0 .. n, \A k \in 1 .. n : k > m => k \notin s
      PROVE  H[n][s] = H[m][s]
  <2> DEFINE G == {k \in 0 .. n : k >= m => H[k][s] = H[m][s]}
  <2>1. 0 \in G
    OBVIOUS
  <2>2. ASSUME NEW k \in 1 .. n, k - 1 \in G PROVE k \in G
    <3>1. CASE k > m
      <4>1. k - 1 >= m /\ k \notin s
        BY <1>8, <3>1
      <4>2. H[k][s] = H[k - 1][s]
        BY <1>5, <4>1
      <4> QED
        BY <2>2, <4>1, <4>2
    <3>2. CASE ~ (k > m)
      <4>1. k >= m => k = m
        BY <3>2
      <4> QED
        BY <4>1
    <3> QED
      BY <3>1, <3>2
  <2> HIDE DEF G
  <2>4. \A k \in 0 .. n : k \in G
    BY <2>1, <2>2, Induct, Zenon
  <2> QED
    BY <2>4 DEF G
<1> DEFINE g == [s \in D |-> H[n][s]]
<1>9. g \in [D -> A]
  BY <1>4
<1>10. ASSUME NEW s \in D PROVE g[s] = IF s = {} THEN b ELSE step[Max(s)][g[s \ {Max(s)}]]
  <2>1. CASE s = {}
    <3>1. H[n][s] = H[0][s]
      BY <1>8, <2>1
    <3> QED
      BY <1>6, <2>1, <3>1
  <2>2. CASE s # {}
    <3> DEFINE m == Max(s)
               t == s \ {m}
    <3>1. m \in s /\ \A k \in s : k <= m
      BY <2>2, GreatestIs
    <3> HIDE DEF m
    <3>2. m \in 1 .. n /\ m - 1 \in 0 .. n /\ m \in 0 .. n /\ t \in D
      BY <3>1
    <3>3. H[n][s] = H[m][s]
      <4>1. \A k \in 1 .. n : k > m => k \notin s
        BY <3>1, <3>2
      <4> QED
        BY <1>8, <3>2, <4>1
    <3>4. H[m][s] = step[m][H[m - 1][s]]
      BY <1>5, <3>1, <3>2
    <3>5. H[m - 1][s] = H[m - 1][t]
      <4>1. s \cap (1 .. m - 1) = t \cap (1 .. m - 1)
        BY <3>2
      <4> QED
        BY <1>7, <3>2, <4>1
    <3>6. H[n][t] = H[m - 1][t]
      <4>1. \A k \in 1 .. n : k > m - 1 => k \notin t
        BY <3>1, <3>2
      <4> QED
        BY <1>8, <3>2, <4>1
    <3>7. g[s] = step[m][g[t]]
      BY <3>2, <3>3, <3>4, <3>5, <3>6
    <3> QED
      BY <2>2, <3>7 DEF m
  <2> QED
    BY <2>1, <2>2
<1> HIDE DEF g
<1> QED
  BY <1>9, <1>10 DEF IsSetFold

-----------------------------------------------------------------------------
(* Putting fields in order                                                 *)

\* sort_fields keeps all the fields, and only them (its insertions).
LEMMA Sorting ==
    ASSUME NEW tag, NEW original \in Seq(Fields), NEW new \in Seq(Fields)
    PROVE  /\ sort_fields(tag, original, new) \in Seq(Fields)
           /\ ToSet(sort_fields(tag, original, new)) = ToSet(original) \union ToSet(new)
<1> DEFINE seq == original \o new
           n == Len(seq)
           A == Seq(Fields)
           Before(sorted, f) == {j \in DOMAIN sorted : Rank(tag, sorted[j]) <= Rank(tag, f)}
           Op(sorted, f) == InsertAt(sorted, 1 + Cardinality(Before(sorted, f)), f)
           step == [k \in 1 .. n |-> [v \in A |-> Op(v, seq[k])]]
           R(g) == g = [s \in SUBSET (DOMAIN seq) |->
                          IF s = {} THEN <<>> ELSE Op(g[s \ {Max(s)}], seq[Max(s)])]
<1>1. sort_fields(tag, original, new) = (CHOOSE g : R(g))[DOMAIN seq]
  BY DEF sort_fields, FoldLeft, MapThenFoldSet
<1>2. seq \in A /\ ToSet(seq) = ToSet(original) \union ToSet(new)
  BY SetOfConcat
<1>3. n \in Nat /\ DOMAIN seq = 1 .. n /\ <<>> \in A /\ \A k \in 1 .. n : seq[k] \in Fields
  BY <1>2
<1>4. ASSUME NEW v \in A, NEW f \in Fields
      PROVE  Op(v, f) \in A /\ ToSet(Op(v, f)) = ToSet(v) \union {f}
  <2>1. PICK m \in Nat : DOMAIN v = 1 .. m /\ Len(v) = m
    OBVIOUS
  <2>2. /\ IsFiniteSet(1 .. m) /\ Cardinality(1 .. m) = m
    BY FS_Interval
  <2>3. Cardinality(Before(v, f)) \in Nat /\ Cardinality(Before(v, f)) <= m
    <3>1. Before(v, f) \in SUBSET (1 .. m)
      BY <2>1
    <3> HIDE DEF Before
    <3> QED
      BY <2>2, <3>1, FS_Subset, FS_CardinalityType
  <2> HIDE DEF Before
  <2>4. 1 + Cardinality(Before(v, f)) \in 1 .. Len(v) + 1
    BY <2>1, <2>3
  <2> QED
    BY <2>4, InsertedSet
<1> HIDE DEF Op, A, n, seq
<1>5. step \in [1 .. n -> [A -> A]]
  BY <1>3, <1>4
<1>6. PICK g \in [SUBSET (1 .. n) -> A] : IsSetFold(g, n, <<>>, step)
  <2> HIDE DEF step
  <2> QED
    BY <1>3, <1>5, SetFold, Zenon
<1>7. R(g)
  <2>1. ASSUME NEW s \in SUBSET (1 .. n)
        PROVE  g[s] = IF s = {} THEN <<>> ELSE Op(g[s \ {Max(s)}], seq[Max(s)])
    <3>1. CASE s # {}
      <4>1. Max(s) \in 1 .. n
        BY <1>3, <3>1, GreatestIs
      <4>2. s \ {Max(s)} \in SUBSET (1 .. n)
        OBVIOUS
      <4>3. g[s \ {Max(s)}] \in A
        BY <4>2
      <4>4. g[s] = step[Max(s)][g[s \ {Max(s)}]]
        BY <1>6, <3>1 DEF IsSetFold
      <4> QED
        BY <3>1, <4>1, <4>3, <4>4
    <3>2. CASE s = {}
      BY <1>6, <3>2 DEF IsSetFold
    <3> QED
      BY <3>1, <3>2
  <2> QED
    BY <1>3, <2>1
<1>8. PICK h : R(h) /\ sort_fields(tag, original, new) = h[1 .. n]
  <2> DEFINE c == CHOOSE x : R(x)
  <2>1. R(c)
    BY <1>7
  <2>2. sort_fields(tag, original, new) = c[1 .. n]
    BY <1>1, <1>3
  <2> HIDE DEF c
  <2> QED
    BY <2>1, <2>2
<1>9. sort_fields(tag, original, new) = h[1 .. n]
  BY <1>8
<1>10. \A s \in SUBSET (1 .. n) : h[s] = IF s = {} THEN <<>> ELSE Op(h[s \ {Max(s)}], seq[Max(s)])
  BY <1>3, <1>8
<1>e. h[1 .. 0] = <<>>
  <2>1. 1 .. 0 = {} /\ {} \in SUBSET (1 .. n)
    OBVIOUS
  <2>2. h[{}] = <<>>
    BY <1>10, <2>1
  <2> QED
    BY <2>1, <2>2
<1>11. ASSUME NEW k \in 1 .. n PROVE h[1 .. k] = Op(h[1 .. k - 1], seq[k])
  <2> DEFINE s == 1 .. k
  <2>1. s \in SUBSET (1 .. n) /\ s # {} /\ Max(s) = k /\ s \ {k} = 1 .. k - 1
    BY <1>3, Prefix
  <2> HIDE DEF s
  <2>2. h[s] = Op(h[s \ {Max(s)}], seq[Max(s)])
    BY <1>10, <2>1
  <2> QED
    BY <2>1, <2>2 DEF s
<1> DEFINE G == {k \in 0 .. n : h[1 .. k] \in A /\ ToSet(h[1 .. k]) = {seq[i] : i \in 1 .. k}}
<1>12. 0 \in G
  BY <1>3, <1>e, SetOfEmpty
<1>13. ASSUME NEW k \in 1 .. n, k - 1 \in G PROVE k \in G
  <2>1. h[1 .. k - 1] \in A /\ ToSet(h[1 .. k - 1]) = {seq[i] : i \in 1 .. k - 1} /\ seq[k] \in Fields
    BY <1>3, <1>13
  <2>2. h[1 .. k] \in A /\ ToSet(h[1 .. k]) = ToSet(h[1 .. k - 1]) \union {seq[k]}
    BY <1>4, <1>11, <2>1
  <2>3. {seq[i] : i \in 1 .. k} = {seq[i] : i \in 1 .. k - 1} \union {seq[k]}
    <3>1. \A i \in 1 .. k : i = k \/ i \in 1 .. k - 1
      OBVIOUS
    <3>2. k \in 1 .. k /\ \A i \in 1 .. k - 1 : i \in 1 .. k
      OBVIOUS
    <3> QED
      BY <3>1, <3>2
  <2> QED
    BY <2>1, <2>2, <2>3
<1>14. n \in G
  <2> HIDE DEF G
  <2>1. \A k \in 0 .. n : k \in G
    BY <1>3, <1>12, <1>13, Induct, Zenon
  <2> QED
    BY <1>3, <2>1
<1>15. ToSet(seq) = {seq[i] : i \in 1 .. n}
  BY <1>3 DEF ToSet
<1> QED
  BY <1>2, <1>9, <1>14, <1>15 DEF A

-----------------------------------------------------------------------------
(* Subfields                                                               *)

\* Select as Among.
LEMMA SelectIs ==
    ASSUME NEW s \in Seq(Subs), NEW codes
    PROVE  /\ Select(s, codes) = Among(s, {x \in Subs : x.code \in codes})
           /\ Select(s, codes) \in Seq(Subs)
           /\ ToSet(Select(s, codes)) = {x \in ToSet(s) : x.code \in codes}
<1> DEFINE B == {x \in ToSet(s) : x.code \in codes}
           C == {x \in Subs : x.code \in codes}
<1>1. ToSet(s) \subseteq Subs
  BY InSeq
<1>2. ToSet(s) \cap B = ToSet(s) \cap C /\ ToSet(s) \cap B = B
  BY <1>1
<1>3. Select(s, codes) = Among(s, B)
  BY DEF Select
<1> HIDE DEF B, C
<1>4. Among(s, B) = Among(s, C)
  BY <1>2, AmongSame
<1>5. Among(s, B) \in Seq(Subs) /\ ToSet(Among(s, B)) = B
  <2>1. Among(s, B) \in Seq(Subs) /\ ToSet(Among(s, B)) = ToSet(s) \cap B
    BY AmongIs
  <2> QED
    BY <1>2, <2>1
<1> QED
  BY <1>3, <1>4, <1>5 DEF B, C

\* Without as Among.
LEMMA WithoutIs ==
    ASSUME NEW s \in Seq(Subs), NEW codes
    PROVE  /\ Without(s, codes) = Among(s, {x \in Subs : x.code \notin codes})
           /\ Without(s, codes) \in Seq(Subs)
           /\ ToSet(Without(s, codes)) = {x \in ToSet(s) : x.code \notin codes}
<1> DEFINE B == {x \in ToSet(s) : x.code \notin codes}
           C == {x \in Subs : x.code \notin codes}
<1>1. ToSet(s) \subseteq Subs
  BY InSeq
<1>2. ToSet(s) \cap B = ToSet(s) \cap C /\ ToSet(s) \cap B = B
  BY <1>1
<1>3. Without(s, codes) = Among(s, B)
  BY DEF Without
<1> HIDE DEF B, C
<1>4. Among(s, B) = Among(s, C)
  BY <1>2, AmongSame
<1>5. Among(s, B) \in Seq(Subs) /\ ToSet(Among(s, B)) = B
  <2>1. Among(s, B) \in Seq(Subs) /\ ToSet(Among(s, B)) = ToSet(s) \cap B
    BY AmongIs
  <2> QED
    BY <1>2, <2>1
<1> QED
  BY <1>3, <1>4, <1>5 DEF B, C

\* What is selected after some codes were left out.
LEMMA SelectOfWithout ==
    ASSUME NEW s \in Seq(Subs), NEW codes, NEW c
    PROVE  Select(Without(s, codes), {c}) = IF c \in codes THEN <<>> ELSE Select(s, {c})
<1> DEFINE W == {x \in Subs : x.code \notin codes}
           C == {x \in Subs : x.code \in {c}}
           w == Without(s, codes)
<1>1. w = Among(s, W) /\ w \in Seq(Subs)
  BY WithoutIs
<1> HIDE DEF w
<1>2. Select(w, {c}) = Among(w, C)
  BY <1>1, SelectIs
<1>3. Select(s, {c}) = Among(s, C)
  BY SelectIs
<1>4. CASE c \in codes
  <2>1. W \cap C = {}
    BY <1>4
  <2> HIDE DEF W, C
  <2>2. Among(w, C) = Among(s, W \cap C)
    BY <1>1, AmongAmong
  <2>3. Among(s, {}) = <<>>
    BY NothingAmong
  <2> QED
    BY <1>2, <1>4, <2>1, <2>2, <2>3 DEF w
<1>5. CASE c \notin codes
  <2>1. W \cap C = C
    BY <1>5
  <2> HIDE DEF W, C
  <2>2. Among(w, C) = Among(s, W \cap C)
    BY <1>1, AmongAmong
  <2> QED
    BY <1>2, <1>3, <1>5, <2>1, <2>2 DEF w
<1> QED
  BY <1>4, <1>5

\* is_equal_field compares the subfields of every code.
LEMMA EqualIs ==
    ASSUME NEW s \in Seq(Subs), NEW t \in Seq(Subs)
    PROVE  is_equal_field(s, t) <=> \A c \in STRING : Select(s, {c}) = Select(t, {c})
<1> DEFINE codes == {s[i].code : i \in DOMAIN s} \union {t[i].code : i \in DOMAIN t}
<1>1. \A i \in DOMAIN s : s[i] \in Subs
  BY InSeq
<1>2. \A i \in DOMAIN t : t[i] \in Subs
  BY InSeq
<1>3. codes \subseteq STRING
  BY <1>1, <1>2 DEF Subs
<1>4. is_equal_field(s, t) <=> \A c \in codes : Select(s, {c}) = Select(t, {c})
  BY DEF is_equal_field
<1>5. ASSUME NEW c \in STRING, c \notin codes PROVE Select(s, {c}) = Select(t, {c})
  <2> DEFINE C == {x \in Subs : x.code \in {c}}
  <2>1. \A x \in ToSet(s) \union ToSet(t) : x.code # c
    BY <1>5 DEF ToSet
  <2>2. ToSet(s) \cap C = {} /\ ToSet(t) \cap C = {}
    BY <2>1
  <2>3. Select(s, {c}) = Among(s, C) /\ Select(t, {c}) = Among(t, C)
    BY SelectIs
  <2> HIDE DEF C
  <2>4. Among(s, C) = <<>> /\ Among(t, C) = <<>>
    BY <2>2, NothingAmong
  <2> QED
    BY <2>3, <2>4
<1> HIDE DEF codes
<1> QED
  BY <1>3, <1>4, <1>5

\* The subfields that tell whether two fields say the same.
Telling == STRING \ {"0", "8", "9"}
\* Fields that say the same but for indicators, $0, $8 and $9.
Alike(f, g) == \A c \in Telling : Select(f.subs, {c}) = Select(g.subs, {c})

\* Fields are alike if they are equal without $0, $8 and $9.
LEMMA AlikeIs ==
    ASSUME NEW f \in Fields, NEW g \in Fields
    PROVE  Alike(f, g) <=> is_equal_field(Without(f.subs, {"0", "8", "9"}), Without(g.subs, {"0", "8", "9"}))
<1>1. f.subs \in Seq(Subs) /\ g.subs \in Seq(Subs)
  BY DEF Fields
<1> DEFINE s == Without(f.subs, {"0", "8", "9"})
           t == Without(g.subs, {"0", "8", "9"})
<1>2. s \in Seq(Subs) /\ t \in Seq(Subs)
  BY <1>1, WithoutIs
<1>3. ASSUME NEW c
      PROVE  /\ Select(s, {c}) = IF c \in {"0", "8", "9"} THEN <<>> ELSE Select(f.subs, {c})
             /\ Select(t, {c}) = IF c \in {"0", "8", "9"} THEN <<>> ELSE Select(g.subs, {c})
  <2>1. Select(s, {c}) = IF c \in {"0", "8", "9"} THEN <<>> ELSE Select(f.subs, {c})
    <3> DEFINE u == f.subs
               K == {"0", "8", "9"}
    <3>1. u \in Seq(Subs) /\ s = Without(u, K)
      BY <1>1
    <3> HIDE DEF u, K, s
    <3>2. Select(Without(u, K), {c}) = IF c \in K THEN <<>> ELSE Select(u, {c})
      BY <3>1, SelectOfWithout
    <3> QED
      BY <3>1, <3>2 DEF u, K
  <2>2. Select(t, {c}) = IF c \in {"0", "8", "9"} THEN <<>> ELSE Select(g.subs, {c})
    <3> DEFINE u == g.subs
               K == {"0", "8", "9"}
    <3>1. u \in Seq(Subs) /\ t = Without(u, K)
      BY <1>1
    <3> HIDE DEF u, K, t
    <3>2. Select(Without(u, K), {c}) = IF c \in K THEN <<>> ELSE Select(u, {c})
      BY <3>1, SelectOfWithout
    <3> QED
      BY <3>1, <3>2 DEF u, K
  <2> QED
    BY <2>1, <2>2
<1> HIDE DEF s, t
<1>4. is_equal_field(s, t) <=> \A c \in STRING : Select(s, {c}) = Select(t, {c})
  BY <1>2, EqualIs
<1>5. (\A c \in STRING : Select(s, {c}) = Select(t, {c})) <=> Alike(f, g)
  <2> DEFINE U == STRING
             K == {"0", "8", "9"}
  <2>1. Telling = U \ K
    BY DEF Telling
  <2>2. ASSUME NEW c PROVE Select(s, {c}) = (IF c \in K THEN <<>> ELSE Select(f.subs, {c}))
    BY <1>3, Zenon
  <2>3. ASSUME NEW c PROVE Select(t, {c}) = (IF c \in K THEN <<>> ELSE Select(g.subs, {c}))
    BY <1>3, Zenon
  <2> HIDE DEF U, K
  <2>4. (\A c \in U : Select(s, {c}) = Select(t, {c})) <=> Alike(f, g)
    BY <2>1, <2>2, <2>3 DEF Alike
  <2> QED
    BY <2>4 DEF U
<1> QED
  BY <1>4, <1>5 DEF s, t

\* Fields that are equal without some of those are alike.
LEMMA AlikeFrom ==
    ASSUME NEW f \in Fields, NEW g \in Fields, NEW codes \in SUBSET {"0", "8", "9"},
           is_equal_field(Without(f.subs, codes), Without(g.subs, codes))
    PROVE  Alike(f, g)
<1>1. f.subs \in Seq(Subs) /\ g.subs \in Seq(Subs)
  BY DEF Fields
<1> DEFINE s == Without(f.subs, codes)
           t == Without(g.subs, codes)
<1>2. s \in Seq(Subs) /\ t \in Seq(Subs)
  BY <1>1, WithoutIs
<1>3. ASSUME NEW c
      PROVE  /\ Select(s, {c}) = IF c \in codes THEN <<>> ELSE Select(f.subs, {c})
             /\ Select(t, {c}) = IF c \in codes THEN <<>> ELSE Select(g.subs, {c})
  <2>1. Select(s, {c}) = IF c \in codes THEN <<>> ELSE Select(f.subs, {c})
    <3> DEFINE u == f.subs
               K == codes
    <3>1. u \in Seq(Subs) /\ s = Without(u, K)
      BY <1>1
    <3> HIDE DEF u, K, s
    <3>2. Select(Without(u, K), {c}) = IF c \in K THEN <<>> ELSE Select(u, {c})
      BY <3>1, SelectOfWithout
    <3> QED
      BY <3>1, <3>2 DEF u, K
  <2>2. Select(t, {c}) = IF c \in codes THEN <<>> ELSE Select(g.subs, {c})
    <3> DEFINE u == g.subs
               K == codes
    <3>1. u \in Seq(Subs) /\ t = Without(u, K)
      BY <1>1
    <3> HIDE DEF u, K, t
    <3>2. Select(Without(u, K), {c}) = IF c \in K THEN <<>> ELSE Select(u, {c})
      BY <3>1, SelectOfWithout
    <3> QED
      BY <3>1, <3>2 DEF u, K
  <2> QED
    BY <2>1, <2>2
<1>4. is_equal_field(s, t)
  OBVIOUS
<1> HIDE DEF s, t
<1>5. \A c \in STRING : Select(s, {c}) = Select(t, {c})
  BY <1>2, <1>4, EqualIs
<1>6. \A c \in Telling : c \in STRING /\ c \notin codes
  BY DEF Telling
<1> QED
  BY <1>3, <1>5, <1>6 DEF Alike

\* Equal fields are alike.
LEMMA AlikeFromEqual ==
    ASSUME NEW f \in Fields, NEW g \in Fields, is_equal_field(f.subs, g.subs)
    PROVE  Alike(f, g)
<1>1. f.subs \in Seq(Subs) /\ g.subs \in Seq(Subs)
  BY DEF Fields
<1>2. \A c \in STRING : Select(f.subs, {c}) = Select(g.subs, {c})
  BY <1>1, EqualIs
<1>3. Telling \subseteq STRING
  BY DEF Telling
<1> QED
  BY <1>2, <1>3, Zenon DEF Alike

\* To be alike is an equivalence.
LEMMA AlikeOrder ==
    ASSUME NEW f, NEW g, NEW h
    PROVE  Alike(f, f) /\ (Alike(f, g) => Alike(g, f)) /\ (Alike(f, g) /\ Alike(g, h) => Alike(f, h))
  BY DEF Alike

-----------------------------------------------------------------------------
(* Fields that say the same                                                *)

\* Of two fields at most one is to go, and then the other says the same.
LEMMA RedundantIs ==
    ASSUME NEW fields \in Seq(Fields), NEW m \in DOMAIN fields, NEW n \in DOMAIN fields
    PROVE  /\ Redundant(fields, m, n) \in {{}, {m}, {n}}
           /\ Redundant(fields, m, n) # {} => Alike(fields[m], fields[n])
<1>1. fields[m] \in Fields /\ fields[n] \in Fields
  BY InSeq
<1>2. CASE is_equal_field(fields[m].subs, fields[n].subs)
  <2>1. Alike(fields[m], fields[n])
    BY <1>1, <1>2, AlikeFromEqual
  <2>2. Redundant(fields, m, n) \in {{}, {m}, {n}}
    BY <1>2 DEF Redundant
  <2> QED
    BY <2>1, <2>2
<1>3. CASE /\ ~ is_equal_field(fields[m].subs, fields[n].subs)
           /\ is_equal_field(Without(fields[m].subs, {"0"}), Without(fields[n].subs, {"0"}))
  <2>1. {"0"} \in SUBSET {"0", "8", "9"}
    OBVIOUS
  <2>2. Alike(fields[m], fields[n])
    BY <1>1, <1>3, <2>1, AlikeFrom
  <2>3. Redundant(fields, m, n) \in {{}, {m}, {n}}
    BY <1>3 DEF Redundant
  <2> QED
    BY <2>2, <2>3
<1>4. CASE /\ ~ is_equal_field(fields[m].subs, fields[n].subs)
           /\ ~ is_equal_field(Without(fields[m].subs, {"0"}), Without(fields[n].subs, {"0"}))
           /\ is_equal_field(Without(fields[m].subs, {"9"}), Without(fields[n].subs, {"9"}))
  <2>1. {"9"} \in SUBSET {"0", "8", "9"}
    OBVIOUS
  <2>2. Alike(fields[m], fields[n])
    BY <1>1, <1>4, <2>1, AlikeFrom
  <2>3. Redundant(fields, m, n) \in {{}, {m}, {n}}
    BY <1>4 DEF Redundant
  <2> QED
    BY <2>2, <2>3
<1>5. CASE /\ ~ is_equal_field(fields[m].subs, fields[n].subs)
           /\ ~ is_equal_field(Without(fields[m].subs, {"0"}), Without(fields[n].subs, {"0"}))
           /\ ~ is_equal_field(Without(fields[m].subs, {"9"}), Without(fields[n].subs, {"9"}))
  BY <1>5 DEF Redundant
<1> QED
  BY <1>2, <1>3, <1>4, <1>5

\* h is such a fold as far as its values are in A.
Follows(h, n, A, b, step) ==
    /\ h[{}] = b
    /\ \A s \in SUBSET (1 .. n) : s # {} /\ h[s \ {Max(s)}] \in A => h[s] = step[Max(s)][h[s \ {Max(s)}]]

\* A fold ends in x.
FoldEnds(n, A, b, step, x) == \E f \in [0 .. n -> A] : IsFold(f, n, b, step) /\ f[n] = x

\* What a list is folded to, from prefix to prefix.
LEMMA ByPrefixes ==
    ASSUME NEW n \in Nat, NEW A, NEW b \in A, NEW step \in [1 .. n -> [A -> A]], NEW h, Follows(h, n, A, b, step)
    PROVE  FoldEnds(n, A, b, step, h[1 .. n])
<1>1. PICK f \in [0 .. n -> A] : IsFold(f, n, b, step)
  <2> QED
    BY FoldExists, Zenon
<1> DEFINE G == {k \in 0 .. n : h[1 .. k] = f[k]}
<1>2. 0 \in G
  <2>1. 1 .. 0 = {} /\ 0 \in 0 .. n
    OBVIOUS
  <2>2. f[0] = b
    BY <1>1 DEF IsFold
  <2>3. h[1 .. 0] = b
    BY <2>1 DEF Follows
  <2> QED
    BY <2>1, <2>2, <2>3
<1>3. ASSUME NEW k \in 1 .. n, k - 1 \in G PROVE k \in G
  <2>1. /\ 1 .. k \in SUBSET (1 .. n) /\ 1 .. k # {}
        /\ Max(1 .. k) = k /\ (1 .. k) \ {k} = 1 .. k - 1
    BY Prefix
  <2>2. k - 1 \in 0 .. n /\ k \in 0 .. n
    OBVIOUS
  <2>3. h[1 .. k - 1] = f[k - 1] /\ f[k - 1] \in A
    BY <1>3, <2>2
  <2>4. h[1 .. k] = step[k][f[k - 1]]
    <3>1. (1 .. k) \ {Max(1 .. k)} = 1 .. k - 1
      BY <2>1
    <3>2. h[(1 .. k) \ {Max(1 .. k)}] = f[k - 1]
      BY <2>3, <3>1, Zenon
    <3>3. h[1 .. k] = step[Max(1 .. k)][f[k - 1]]
      BY <2>1, <2>3, <3>2, Zenon DEF Follows
    <3> QED
      BY <2>1, <3>3, Zenon
  <2>5. f[k] = step[k][f[k - 1]]
    BY <1>1 DEF IsFold
  <2>6. h[1 .. k] = f[k]
    BY <2>4, <2>5, Zenon
  <2> QED
    BY <2>2, <2>6
<1>4. n \in G
  <2> HIDE DEF G
  <2>1. \A k \in 0 .. n : k \in G
    BY <1>2, <1>3, Induct, Zenon
  <2> QED
    BY <2>1
<1>5. f[n] = h[1 .. n]
  BY <1>4
<1> QED
  BY <1>1, <1>5 DEF FoldEnds
\* FlattenSeq keeps the elements of all the lists.
LEMMA Flattened ==
    ASSUME NEW S, NEW q \in Seq(Seq(S))
    PROVE  /\ FlattenSeq(q) \in Seq(S)
           /\ ToSet(FlattenSeq(q)) = UNION {ToSet(q[i]) : i \in DOMAIN q}
<1> DEFINE n == Len(q)
           A == Seq(S)
           step == [k \in 1 .. n |-> [v \in A |-> v \o q[k]]]
           R(g) == g = [i \in 1 .. n |-> IF i = 1 THEN q[i] ELSE g[i - 1] \o q[i]]
<1>1. n \in Nat /\ DOMAIN q = 1 .. n /\ <<>> \in A /\ \A k \in 1 .. n : q[k] \in A
  OBVIOUS
<1>2. CASE n = 0
  <2>1. FlattenSeq(q) = q /\ q = <<>>
    BY <1>2 DEF FlattenSeq
  <2>2. {ToSet(q[i]) : i \in DOMAIN q} = {}
    BY <1>1, <1>2
  <2>3. ToSet(FlattenSeq(q)) = {}
    BY <2>1, SetOfEmpty
  <2> QED
    BY <1>1, <2>1, <2>2, <2>3
<1>3. CASE n # 0
  <2>1. FlattenSeq(q) = (CHOOSE g : R(g))[n]
    BY <1>3 DEF FlattenSeq
  <2>2. step \in [1 .. n -> [A -> A]]
    <3> SUFFICES ASSUME NEW k \in 1 .. n, NEW v \in A PROVE v \o q[k] \in A
      OBVIOUS
    <3> QED
      BY <1>1, ConcatProperties
  <2> HIDE DEF n, A
  <2>3. PICK f \in [0 .. n -> A] : IsFold(f, n, <<>>, step)
    <3> HIDE DEF step
    <3> QED
      BY <1>1, <2>2, FoldExists, Zenon
  <2>4. \A k \in 1 .. n : f[k - 1] \in A /\ f[k] = f[k - 1] \o q[k]
    <3> TAKE k \in 1 .. n
    <3>1. k - 1 \in 0 .. n
      BY <1>1
    <3>2. f[k - 1] \in A /\ f[k] = step[k][f[k - 1]]
      BY <2>3, <3>1 DEF IsFold
    <3> QED
      BY <3>2
  <2>5. f[0] = <<>>
    BY <2>3 DEF IsFold
  <2> DEFINE g == [i \in 1 .. n |-> f[i]]
  <2>6. R(g)
    <3>1. ASSUME NEW i \in 1 .. n PROVE g[i] = IF i = 1 THEN q[i] ELSE g[i - 1] \o q[i]
      <4>1. CASE i = 1
        <5>1. f[1] = <<>> \o q[1]
          <6>1. 1 \in 1 .. n /\ 1 - 1 = 0
            BY <1>1, <4>1
          <6> QED
            BY <2>4, <2>5, <6>1
        <5>3. q[1] \in Seq(S)
          BY <1>1, <4>1 DEF A
        <5>2. <<>> \o q[1] = q[1]
          BY <5>3, ConcatEmptySeq
        <5> QED
          BY <4>1, <5>1, <5>2
      <4>2. CASE i # 1
        <5>1. i - 1 \in 1 .. n
          BY <1>1, <4>2
        <5> QED
          BY <2>4, <4>2, <5>1
      <4> QED
        BY <4>1, <4>2
    <3> QED
      BY <3>1
  <2>7. PICK h : R(h) /\ FlattenSeq(q) = h[n]
    <3> DEFINE c == CHOOSE x : R(x)
    <3>1. R(c)
      BY <2>6
    <3>2. FlattenSeq(q) = c[n]
      BY <2>1
    <3> HIDE DEF c
    <3> QED
      BY <3>1, <3>2
  <2>8. \A i \in 1 .. n : h[i] = IF i = 1 THEN q[i] ELSE h[i - 1] \o q[i]
    BY <2>7
  <2> DEFINE Of(k) == UNION {ToSet(q[i]) : i \in 1 .. k}
             G == {k \in 0 .. n : k # 0 => h[k] \in A /\ ToSet(h[k]) = Of(k)}
  <2>9. 0 \in G
    BY <1>1
  <2>10. ASSUME NEW k \in 1 .. n, k - 1 \in G PROVE k \in G
    <3>1. q[k] \in A /\ k \in 0 .. n
      BY <1>1
    <3>2. CASE k = 1
      <4>1. h[k] = q[k]
        BY <2>8, <3>2
      <4>2. Of(k) = ToSet(q[k])
        BY <3>2
      <4> QED
        BY <3>1, <4>1, <4>2
    <3>3. CASE k # 1
      <4>1. h[k - 1] \in A /\ ToSet(h[k - 1]) = Of(k - 1)
        BY <1>1, <2>10, <3>3
      <4>2. h[k] = h[k - 1] \o q[k]
        BY <2>8, <3>3
      <4>3. h[k] \in A /\ ToSet(h[k]) = ToSet(h[k - 1]) \union ToSet(q[k])
        <5>1. PICK p \in Seq(S), r \in Seq(S) : p = h[k - 1] /\ r = q[k]
          BY <3>1, <4>1 DEF A
        <5>2. p \o r \in Seq(S) /\ ToSet(p \o r) = ToSet(p) \union ToSet(r)
          BY SetOfConcat
        <5> QED
          BY <4>2, <5>1, <5>2 DEF A
      <4>4. Of(k) = Of(k - 1) \union ToSet(q[k])
        <5>1. \A i \in 1 .. k : i = k \/ i \in 1 .. k - 1
          BY <1>1
        <5>2. k \in 1 .. k /\ \A i \in 1 .. k - 1 : i \in 1 .. k
          BY <1>1
        <5>3. 1 .. k = (1 .. k - 1) \union {k}
          BY <5>1, <5>2
        <5> HIDE DEF n, A
        <5> QED
          BY <5>3
      <4> QED
        BY <3>1, <4>1, <4>3, <4>4
    <3> QED
      BY <3>2, <3>3
  <2>11. n \in G
    <3> HIDE DEF G
    <3>1. \A k \in 0 .. n : k \in G
      BY <1>1, <2>9, <2>10, Induct, Zenon
    <3> QED
      BY <1>1, <3>1
  <2> QED
    BY <1>1, <1>3, <2>7, <2>11 DEF A
<1> QED
  BY <1>2, <1>3

\* What stays of the fields says all that was said.
Covers(fields, away) ==
    \A n \in DOMAIN fields : \E i \in DOMAIN fields \ away : Alike(fields[n], fields[i])

\* removable_fields leaves, for every field, one that is alike.
LEMMA Removing ==
    ASSUME NEW fields \in Seq(Fields)
    PROVE  removable_fields(fields) \in SUBSET (DOMAIN fields) /\ Covers(fields, removable_fields(fields))
<1> DEFINE D == DOMAIN fields
           L == Len(fields)
           Pairs == {p \in D \X D : p[1] # p[2]}
           q == [m \in D |-> [k \in 1 .. (L - m) |-> <<m, m + k>>]]
           seq == FlattenSeq(q)
           n == Len(seq)
           A == {away \in SUBSET D : Covers(fields, away)}
           Op(away, p) == IF p[1] \in away \/ p[2] \in away THEN away
                          ELSE away \union Redundant(fields, p[1], p[2])
           step == [k \in 1 .. n |-> [v \in A |-> Op(v, seq[k])]]
           X == removable_fields(fields)
           b == {}
           R(g) == g = [s \in SUBSET (DOMAIN seq) |->
                          IF s = {} THEN b ELSE Op(g[s \ {Max(s)}], seq[Max(s)])]
<1>x. X = (CHOOSE g : R(g))[DOMAIN seq]
  BY DEF removable_fields, FoldLeft, MapThenFoldSet
<1>0. L \in Nat /\ D = 1 .. L
  OBVIOUS
<1>2. seq \in Seq(Pairs)
  <2>1. ASSUME NEW m \in D PROVE [k \in 1 .. (L - m) |-> <<m, m + k>>] \in Seq(Pairs)
    <3>1. PICK j \in Nat : j = L - m
      BY <1>0
    <3>2. \A k \in 1 .. j : <<m, m + k>> \in Pairs
      BY <1>0, <3>1
    <3> DEFINE t == [k \in 1 .. j |-> <<m, m + k>>]
    <3>3. t \in [1 .. j -> Pairs]
      BY <3>2
    <3>4. t \in Seq(Pairs)
      <4> HIDE DEF t, Pairs
      <4> QED
        BY <3>3, SeqDef
    <3> QED
      BY <3>1, <3>4
  <2> DEFINE T == Seq(Pairs)
  <2>2. q \in [1 .. L -> T]
    BY <1>0, <2>1
  <2> HIDE DEF q, T
  <2>3. q \in Seq(T)
    BY <1>0, <2>2, SeqDef
  <2> QED
    BY <2>3, Flattened DEF T
<1>n. n \in Nat /\ DOMAIN seq = 1 .. n /\ \A k \in 1 .. n : seq[k] \in Pairs
  <2> HIDE DEF seq, Pairs
  <2> QED
    BY <1>2
<1>b. b \in A
  BY AlikeOrder DEF Covers
<1>4. ASSUME NEW v \in A, NEW p \in Pairs PROVE Op(v, p) \in A
  <2>1. CASE p[1] \in v \/ p[2] \in v
    BY <2>1
  <2>2. CASE ~ (p[1] \in v \/ p[2] \in v)
    <3>1. PICK a \in D, c \in D : p[1] = a /\ p[2] = c /\ a # c /\ a \notin v /\ c \notin v
      BY <2>2
    <3>2. /\ Redundant(fields, a, c) \in {{}, {a}, {c}}
          /\ Redundant(fields, a, c) # {} => Alike(fields[a], fields[c])
      BY RedundantIs
    <3> DEFINE w == v \union Redundant(fields, a, c)
    <3>3. w \in SUBSET D
      BY <3>2
    <3>4. CASE Redundant(fields, a, c) = {}
      BY <2>2, <3>1, <3>4
    <3>5. CASE Redundant(fields, a, c) # {}
      <4>1. Alike(fields[a], fields[c]) /\ Alike(fields[c], fields[a])
        BY <3>2, <3>5, AlikeOrder
      <4>2. ASSUME NEW j \in D PROVE \E i \in D \ w : Alike(fields[j], fields[i])
        <5>1. PICK i \in D \ v : Alike(fields[j], fields[i])
          BY DEF Covers
        <5>2. CASE i \notin w
          BY <5>1, <5>2
        <5>3. CASE i \in w
          <6>2. CASE i = a
            <7>1. Redundant(fields, a, c) = {a} /\ c \notin w
              BY <3>1, <3>2, <5>1, <5>3, <6>2
            <7>2. Alike(fields[j], fields[c])
              BY <4>1, <5>1, <6>2, AlikeOrder
            <7> QED
              BY <7>1, <7>2
          <6>3. CASE i = c
            <7>1. Redundant(fields, a, c) = {c} /\ a \notin w
              BY <3>1, <3>2, <5>1, <5>3, <6>3
            <7>2. Alike(fields[j], fields[a])
              BY <4>1, <5>1, <6>3, AlikeOrder
            <7> QED
              BY <7>1, <7>2
          <6> QED
            BY <3>1, <3>2, <5>1, <5>3, <6>2, <6>3
        <5> QED
          BY <5>2, <5>3
      <4>3. Covers(fields, w)
        BY <4>2 DEF Covers
      <4> QED
        BY <2>2, <3>1, <3>3, <4>3
    <3> QED
      BY <3>4, <3>5
  <2> QED
    BY <2>1, <2>2
<1>c. \A k \in 1 .. n : \A v \in A : Op(v, seq[k]) \in A
  BY <1>n, <1>4
<1> HIDE DEF Op, A, n, seq, D, L, Pairs, q, X, b
<1>d. step \in [1 .. n -> [A -> A]]
  BY <1>c
<1>g. PICK g \in [SUBSET (1 .. n) -> A] : IsSetFold(g, n, b, step)
  <2> HIDE DEF step
  <2> QED
    BY <1>n, <1>b, <1>d, SetFold, Zenon
<1>r. R(g)
  <2>1. ASSUME NEW s \in SUBSET (1 .. n)
        PROVE  g[s] = IF s = {} THEN b ELSE Op(g[s \ {Max(s)}], seq[Max(s)])
    <3>1. CASE s # {}
      <4>1. Max(s) \in 1 .. n /\ s \ {Max(s)} \in SUBSET (1 .. n)
        BY <1>n, <3>1, GreatestIs
      <4>2. g[s \ {Max(s)}] \in A
        BY <4>1
      <4>3. g[s] = step[Max(s)][g[s \ {Max(s)}]]
        BY <1>g, <3>1 DEF IsSetFold
      <4> QED
        BY <3>1, <4>1, <4>2, <4>3
    <3>2. CASE s = {}
      BY <1>g, <3>2 DEF IsSetFold
    <3> QED
      BY <3>1, <3>2
  <2> QED
    BY <1>n, <2>1
<1>h. PICK h : R(h) /\ X = h[1 .. n]
  <2> DEFINE c == CHOOSE x : R(x)
  <2>1. R(c)
    BY <1>r
  <2>2. X = c[1 .. n]
    BY <1>x, <1>n
  <2> HIDE DEF c
  <2> QED
    BY <2>1, <2>2
<1>s. \A s \in SUBSET (1 .. n) : h[s] = IF s = {} THEN b ELSE Op(h[s \ {Max(s)}], seq[Max(s)])
  BY <1>n, <1>h
<1>t. \A s \in SUBSET (1 .. n) : s # {} /\ h[s \ {Max(s)}] \in A => h[s] = step[Max(s)][h[s \ {Max(s)}]]
  <2>1. ASSUME NEW s \in SUBSET (1 .. n), s # {}, h[s \ {Max(s)}] \in A
        PROVE  h[s] = step[Max(s)][h[s \ {Max(s)}]]
    <3>1. Max(s) \in 1 .. n
      BY <1>n, <2>1, GreatestIs
    <3> QED
      BY <1>s, <2>1, <3>1
  <2> QED
    BY <2>1
<1>f. PICK f \in [0 .. n -> A] : IsFold(f, n, b, step) /\ f[n] = X
  <2>1. h[{}] = b
    BY <1>s
  <2>2. Follows(h, n, A, b, step)
    BY <1>t, <2>1 DEF Follows
  <2>3. n \in Nat
    BY <1>n
  <2> HIDE DEF step, R
  <2>4. FoldEnds(n, A, b, step, h[1 .. n])
    BY <1>b, <1>d, <2>2, <2>3, ByPrefixes
  <2> QED
    BY <1>h, <2>4 DEF FoldEnds
<1>k. f[0] = b /\ \A k \in 1 .. n : f[k - 1] \in A /\ f[k] \in A /\ f[k] = Op(f[k - 1], seq[k])
  <2>1. f[0] = b
    BY <1>f DEF IsFold
  <2>2. ASSUME NEW k \in 1 .. n PROVE f[k - 1] \in A /\ f[k] \in A /\ f[k] = Op(f[k - 1], seq[k])
    <3>1. f[k - 1] \in A /\ f[k] \in A
      BY <1>n
    <3>2. f[k] = step[k][f[k - 1]]
      BY <1>f DEF IsFold
    <3> QED
      BY <3>1, <3>2
  <2> QED
    BY <2>1, <2>2
<1>12. X \in A
  BY <1>n, <1>f
<1> QED
  <2>1. X \in SUBSET D /\ Covers(fields, X)
    BY <1>12 DEF A
  <2> QED
    BY <2>1 DEF D, X

-----------------------------------------------------------------------------
(* Fields that are linked                                                  *)

\* The subfields $8.
Eight == {x \in Subs : x.code = "8"}

\* The $8 of the fields with these numbers, none twice.
LinksOf(fields, ns) ==
    FoldLeft(LAMBDA ls, n : ls \o Among(Select(fields[n].subs, {"8"}),
                                        ToSet(Select(fields[n].subs, {"8"})) \ ToSet(ls)),
             <<>>, ns)

\* The $8 of a field.
LEMMA EightsAre ==
    ASSUME NEW f \in Fields
    PROVE  Select(f.subs, {"8"}) \in Seq(Eight)
<1>1. f.subs \in Seq(Subs)
  BY DEF Fields
<1>2. Select(f.subs, {"8"}) \in Seq(Subs) /\ ToSet(Select(f.subs, {"8"})) = {x \in ToSet(f.subs) : x.code \in {"8"}}
  BY <1>1, SelectIs
<1>3. ToSet(Select(f.subs, {"8"})) \subseteq Eight
  BY <1>1, <1>2, InSeq DEF Eight
<1>4. \A i \in DOMAIN Select(f.subs, {"8"}) : Select(f.subs, {"8"})[i] \in Eight
  BY <1>2, <1>3, InSeq
<1> DEFINE s == Select(f.subs, {"8"})
<1>5. s \in [1 .. Len(s) -> Eight] /\ Len(s) \in Nat
  <2>1. s \in Seq(Subs) /\ \A i \in DOMAIN s : s[i] \in Eight
    BY <1>2, <1>4
  <2> HIDE DEF s
  <2> QED
    BY <2>1
<1> HIDE DEF s
<1>6. s \in Seq(Eight)
  BY <1>5, SeqDef
<1> QED
  BY <1>6 DEF s

\* The $8 that are gathered for a linked field are nothing else.
LEMMA LinksAre ==
    ASSUME NEW fields \in Seq(Fields), NEW ns \in Seq(DOMAIN fields)
    PROVE  LinksOf(fields, ns) \in Seq(Eight)
<1> DEFINE D == DOMAIN fields
           seq == ns
           n == Len(seq)
           A == Seq(Eight)
           Eights(m) == Select(fields[m].subs, {"8"})
           Op(ls, m) == ls \o Among(Eights(m), ToSet(Eights(m)) \ ToSet(ls))
           step == [k \in 1 .. n |-> [v \in A |-> Op(v, seq[k])]]
           X == LinksOf(fields, ns)
           b == <<>>
           R(g) == g = [s \in SUBSET (DOMAIN seq) |->
                          IF s = {} THEN b ELSE Op(g[s \ {Max(s)}], seq[Max(s)])]
<1>x. X = (CHOOSE g : R(g))[DOMAIN seq]
  BY DEF LinksOf, FoldLeft, MapThenFoldSet
<1>n. n \in Nat /\ DOMAIN seq = 1 .. n /\ \A k \in 1 .. n : seq[k] \in D
  OBVIOUS
<1>b. b \in A
  OBVIOUS
<1>4. ASSUME NEW v \in A, NEW m \in D PROVE Op(v, m) \in A
  <2>1. Eights(m) \in Seq(Eight)
    BY InSeq, EightsAre
  <2>2. Among(Eights(m), ToSet(Eights(m)) \ ToSet(v)) \in Seq(Eight)
    BY <2>1, AmongIs
  <2> HIDE DEF Eights
  <2> QED
    BY <2>2, SetOfConcat
<1>c. \A k \in 1 .. n : \A v \in A : Op(v, seq[k]) \in A
  BY <1>n, <1>4
<1> HIDE DEF Op, A, n, seq, D, X, b
<1>d. step \in [1 .. n -> [A -> A]]
  BY <1>c
<1>g. PICK g \in [SUBSET (1 .. n) -> A] : IsSetFold(g, n, b, step)
  <2> HIDE DEF step
  <2> QED
    BY <1>n, <1>b, <1>d, SetFold, Zenon
<1>r. R(g)
  <2>1. ASSUME NEW s \in SUBSET (1 .. n)
        PROVE  g[s] = IF s = {} THEN b ELSE Op(g[s \ {Max(s)}], seq[Max(s)])
    <3>1. CASE s # {}
      <4>1. Max(s) \in 1 .. n /\ s \ {Max(s)} \in SUBSET (1 .. n)
        BY <1>n, <3>1, GreatestIs
      <4>2. g[s \ {Max(s)}] \in A
        BY <4>1
      <4>3. g[s] = step[Max(s)][g[s \ {Max(s)}]]
        BY <1>g, <3>1 DEF IsSetFold
      <4> QED
        BY <3>1, <4>1, <4>2, <4>3
    <3>2. CASE s = {}
      BY <1>g, <3>2 DEF IsSetFold
    <3> QED
      BY <3>1, <3>2
  <2> QED
    BY <1>n, <2>1
<1>h. PICK h : R(h) /\ X = h[1 .. n]
  <2> DEFINE c == CHOOSE x : R(x)
  <2>1. R(c)
    BY <1>r
  <2>2. X = c[1 .. n]
    BY <1>x, <1>n
  <2> HIDE DEF c
  <2> QED
    BY <2>1, <2>2
<1>s. \A s \in SUBSET (1 .. n) : h[s] = IF s = {} THEN b ELSE Op(h[s \ {Max(s)}], seq[Max(s)])
  BY <1>n, <1>h
<1>t. \A s \in SUBSET (1 .. n) : s # {} /\ h[s \ {Max(s)}] \in A => h[s] = step[Max(s)][h[s \ {Max(s)}]]
  <2>1. ASSUME NEW s \in SUBSET (1 .. n), s # {}, h[s \ {Max(s)}] \in A
        PROVE  h[s] = step[Max(s)][h[s \ {Max(s)}]]
    <3>1. Max(s) \in 1 .. n
      BY <1>n, <2>1, GreatestIs
    <3> QED
      BY <1>s, <2>1, <3>1
  <2> QED
    BY <2>1
<1>f. PICK f \in [0 .. n -> A] : IsFold(f, n, b, step) /\ f[n] = X
  <2>1. h[{}] = b
    BY <1>s
  <2>2. Follows(h, n, A, b, step)
    BY <1>t, <2>1 DEF Follows
  <2>3. n \in Nat
    BY <1>n
  <2> HIDE DEF step, R
  <2>4. FoldEnds(n, A, b, step, h[1 .. n])
    BY <1>b, <1>d, <2>2, <2>3, ByPrefixes
  <2> QED
    BY <1>h, <2>4 DEF FoldEnds
<1>k. f[0] = b /\ \A k \in 1 .. n : f[k - 1] \in A /\ f[k] \in A /\ f[k] = Op(f[k - 1], seq[k])
  <2>1. f[0] = b
    BY <1>f DEF IsFold
  <2>2. ASSUME NEW k \in 1 .. n PROVE f[k - 1] \in A /\ f[k] \in A /\ f[k] = Op(f[k - 1], seq[k])
    <3>1. f[k - 1] \in A /\ f[k] \in A
      BY <1>n
    <3>2. f[k] = step[k][f[k - 1]]
      BY <1>f DEF IsFold
    <3> QED
      BY <3>1, <3>2
  <2> QED
    BY <2>1, <2>2
<1> QED
  <2>1. X \in A
    BY <1>n, <1>f
  <2> QED
    BY <2>1 DEF X, A

\* One round of the loop: the field with the links of those like it, which go.
LinkStep(fields, st, m) ==
    LET Twin(n) == /\ n > m /\ n \notin st.gone
                   /\ Without(fields[n].subs, {"8"}) = Without(fields[m].subs, {"8"})
        twins == IF m \notin st.gone /\ SourceOf(fields[m]) \in Linkable
                 THEN Among([i \in DOMAIN fields |-> i], {n \in DOMAIN fields : Twin(n)}) ELSE <<>>
        links == IF twins = <<>> THEN Select(fields[m].subs, {"8"}) ELSE LinksOf(fields, <<m>> \o twins)
    IN [gone |-> st.gone \union ToSet(twins),
        fields |-> Append(st.fields, [fields[m] EXCEPT !.subs = links \o Without(@, {"8"})])]

\* A field with other $8 is alike.
LEMMA LinkedField ==
    ASSUME NEW f \in Fields, NEW links \in Seq(Eight),
           NEW g, g = [f EXCEPT !.subs = links \o Without(@, {"8"})]
    PROVE  g \in Fields /\ Alike(f, g)
<1> DEFINE w == Without(f.subs, {"8"})
<1>1. f.subs \in Seq(Subs)
  BY DEF Fields
<1>2. w \in Seq(Subs)
  BY <1>1, WithoutIs
<1>3. links \in Seq(Subs) /\ ToSet(links) \subseteq Eight
  <2>1. Eight \subseteq Subs
    BY DEF Eight
  <2> QED
    BY <2>1, InSeq
<1>4. links \o w \in Seq(Subs)
  BY <1>2, <1>3, SetOfConcat
<1>5. g \in Fields /\ g.subs = links \o w
  <2>1. g = [f EXCEPT !.subs = links \o w]
    OBVIOUS
  <2> HIDE DEF w
  <2> QED
    BY <1>4, <2>1 DEF Fields
<1>6. ASSUME NEW c \in Telling PROVE Select(f.subs, {c}) = Select(g.subs, {c})
  <2> DEFINE C == {x \in Subs : x.code \in {c}}
  <2>1. c # "8"
    BY DEF Telling
  <2>2. Select(links \o w, {c}) = Among(links \o w, C) /\ Select(w, {c}) = Among(w, C)
    BY <1>2, <1>4, SelectIs
  <2>3. ToSet(links) \cap C = {}
    BY <1>3, <2>1 DEF Eight
  <2>4. Select(w, {c}) = Select(f.subs, {c})
    <3>1. PICK codes : codes = {"8"}
      OBVIOUS
    <3>2. Select(Without(f.subs, codes), {c}) = IF c \in codes THEN <<>> ELSE Select(f.subs, {c})
      BY <1>1, SelectOfWithout
    <3> QED
      BY <2>1, <3>1, <3>2
  <2> HIDE DEF w, C
  <2>5. Among(links, C) = <<>>
    BY <1>3, <2>3, NothingAmong
  <2>6. Among(links \o w, C) = Among(links, C) \o Among(w, C)
    BY <1>2, <1>3, AmongConcat
  <2>7. Among(w, C) \in Seq(Subs)
    BY <1>2, AmongIs
  <2>8. <<>> \o Among(w, C) = Among(w, C)
    BY <2>7, ConcatEmptySeq
  <2>9. Select(links \o w, {c}) = Select(w, {c})
    BY <2>2, <2>5, <2>6, <2>8
  <2> QED
    BY <1>5, <2>4, <2>9
<1>7. Alike(f, g)
  BY <1>6 DEF Alike
<1> QED
  BY <1>5, <1>7

\* One round of Linked removes only fields whose like stays.
LEMMA LinkedStep ==
    ASSUME NEW fields \in Seq(Fields), NEW m \in DOMAIN fields,
           NEW old \in [gone : SUBSET (DOMAIN fields), fields : Seq(Fields)], Covers(fields, old.gone),
           NEW st, st = LinkStep(fields, old, m)
    PROVE  /\ st \in [gone : SUBSET (DOMAIN fields), fields : Seq(Fields)]
           /\ Covers(fields, st.gone)
           /\ \E g \in Fields : st.fields = Append(old.fields, g) /\ Alike(fields[m], g)
<1> DEFINE D == DOMAIN fields
           w(n) == Without(fields[n].subs, {"8"})
           T == {n \in D : n > m /\ n \notin old.gone /\ w(n) = w(m)}
           twins == IF m \notin old.gone /\ SourceOf(fields[m]) \in Linkable
                    THEN Among([i \in D |-> i], T) ELSE <<>>
           links == IF twins = <<>> THEN Select(fields[m].subs, {"8"}) ELSE LinksOf(fields, <<m>> \o twins)
           g == [fields[m] EXCEPT !.subs = links \o Without(@, {"8"})]
<1>1. st = [gone |-> old.gone \union ToSet(twins), fields |-> Append(old.fields, g)]
  <2>1. LinkStep(fields, old, m) = [gone |-> old.gone \union ToSet(twins), fields |-> Append(old.fields, g)]
    BY DEF LinkStep
  <2> HIDE DEF twins, g
  <2> QED
    BY <2>1
<1>2. D = 1 .. Len(fields) /\ Len(fields) \in Nat /\ \A n \in D : fields[n] \in Fields /\ fields[n].subs \in Seq(Subs)
  <2>1. D = 1 .. Len(fields) /\ Len(fields) \in Nat /\ \A n \in D : fields[n] \in Fields
    BY InSeq
  <2>2. \A f \in Fields : f.subs \in Seq(Subs)
    BY DEF Fields
  <2> QED
    BY <2>1, <2>2
<1>3. twins \in Seq(D) /\ ToSet(twins) \subseteq T /\ (twins # <<>> => m \notin old.gone)
  <2>1. [i \in D |-> i] \in Seq(D)
    BY Places
  <2>2. Among([i \in D |-> i], T) \in Seq(D) /\ ToSet(Among([i \in D |-> i], T)) \subseteq T
    <3> HIDE DEF T, D
    <3> QED
      BY <2>1, AmongIs
  <2>3. <<>> \in Seq(D) /\ ToSet(<<>>) \subseteq T
    BY SetOfEmpty
  <2> HIDE DEF T
  <2> QED
    BY <2>2, <2>3
<1>4. links \in Seq(Eight)
  <2>1. Select(fields[m].subs, {"8"}) \in Seq(Eight)
    BY <1>2, EightsAre
  <2>2. <<m>> \o twins \in Seq(D)
    <3>1. <<m>> \in Seq(D)
      BY SetOfOne
    <3> HIDE DEF twins, D
    <3> QED
      BY <1>3, <3>1, SetOfConcat
  <2>3. LinksOf(fields, <<m>> \o twins) \in Seq(Eight)
    <3> DEFINE ns == <<m>> \o twins
    <3>1. ns \in Seq(DOMAIN fields)
      BY <2>2
    <3> HIDE DEF ns
    <3>2. LinksOf(fields, ns) \in Seq(Eight)
      BY <3>1, LinksAre
    <3> QED
      BY <3>2 DEF ns
  <2> HIDE DEF twins
  <2> QED
    BY <2>1, <2>3
<1>5. g \in Fields /\ Alike(fields[m], g)
  <2>1. g = [fields[m] EXCEPT !.subs = links \o Without(@, {"8"})]
    OBVIOUS
  <2>2. fields[m] \in Fields
    BY <1>2
  <2> HIDE DEF links, g
  <2> QED
    BY <1>4, <2>1, <2>2, LinkedField
<1>6. ToSet(twins) \in SUBSET D /\ m \notin ToSet(twins)
  <2>1. \A n \in T : n \in D /\ n > m
    OBVIOUS
  <2>2. ~ (m > m)
    BY <1>2
  <2> HIDE DEF twins, T
  <2> QED
    BY <1>3, <2>1, <2>2
<1>7. ASSUME NEW n \in ToSet(twins) PROVE Alike(fields[n], fields[m])
  <2>1. n \in T
    BY <1>3
  <2>5. n \in D /\ w(n) = w(m)
    BY <2>1
  <2>2. is_equal_field(w(n), w(m))
    BY <2>5 DEF is_equal_field
  <2>3. PICK codes \in SUBSET {"0", "8", "9"} : codes = {"8"}
    OBVIOUS
  <2>4. is_equal_field(Without(fields[n].subs, codes), Without(fields[m].subs, codes))
    BY <2>2, <2>3
  <2> QED
    BY <1>2, <2>5, <2>4, AlikeFrom
<1>8. ASSUME NEW j \in D PROVE \E i \in D \ (old.gone \union ToSet(twins)) : Alike(fields[j], fields[i])
  <2>1. PICK i \in D \ old.gone : Alike(fields[j], fields[i])
    BY DEF Covers
  <2>2. CASE i \notin ToSet(twins)
    BY <2>1, <2>2
  <2>3. CASE i \in ToSet(twins)
    <3>1. twins # <<>>
      BY <2>3, SetOfEmpty
    <3>2. m \in D \ (old.gone \union ToSet(twins))
      BY <1>3, <1>6, <3>1
    <3>3. Alike(fields[i], fields[m])
      BY <1>7, <2>3
    <3> QED
      BY <2>1, <3>2, <3>3, AlikeOrder
  <2> QED
    BY <2>2, <2>3
<1> HIDE DEF twins, g
<1>9. Covers(fields, old.gone \union ToSet(twins))
  BY <1>8 DEF Covers
<1>10. Append(old.fields, g) \in Seq(Fields)
  BY <1>5, Appended
<1> QED
  BY <1>1, <1>5, <1>6, <1>9, <1>10

\* Linked leaves, for every field, one that is alike.
LEMMA Linking ==
    ASSUME NEW fields \in Seq(Fields), NEW removable \in SUBSET (DOMAIN fields), Covers(fields, removable)
    PROVE  /\ Linked(fields, removable) \in Seq(Fields)
           /\ \A j \in DOMAIN fields : \E g \in ToSet(Linked(fields, removable)) : Alike(fields[j], g)
<1> DEFINE D == DOMAIN fields
           seq == [i \in D |-> i]
           n == Len(seq)
           States == [gone : SUBSET D, fields : Seq(Fields)]
           A == {st \in States : Covers(fields, st.gone)}
           Op(st, m) == LinkStep(fields, st, m)
           step == [k \in 1 .. n |-> [v \in A |-> Op(v, seq[k])]]
           b == [gone |-> removable, fields |-> <<>>]
           X == FoldLeftDomain(LAMBDA st, m : LinkStep(fields, st, m), b, fields)
           R(g) == g = [s \in SUBSET (DOMAIN seq) |->
                          IF s = {} THEN b ELSE Op(g[s \ {Max(s)}], seq[Max(s)])]
           left == Among(seq, D \ X.gone)
<1>x. X = (CHOOSE g : R(g))[DOMAIN seq]
  BY DEF FoldLeftDomain, FoldLeft, MapThenFoldSet
<1>l. Linked(fields, removable) = [k \in DOMAIN left |-> X.fields[left[k]]]
  BY DEF Linked, LinkStep, LinksOf
<1>0. D = 1 .. Len(fields) /\ Len(fields) \in Nat
  OBVIOUS
<1>n. n \in Nat /\ DOMAIN seq = 1 .. n /\ (\A k \in 1 .. n : seq[k] = k /\ k \in D) /\ n = Len(fields)
  <2>1. n = Len(fields)
    BY Places
  <2>2. DOMAIN seq = D /\ \A k \in D : seq[k] = k
    OBVIOUS
  <2> HIDE DEF n, seq
  <2> QED
    BY <1>0, <2>1, <2>2
<1>b. b \in A
  OBVIOUS
<1>4. ASSUME NEW v \in A, NEW m \in D
      PROVE  /\ Op(v, m) \in A
             /\ \E g \in Fields : Op(v, m).fields = Append(v.fields, g) /\ Alike(fields[m], g)
  <2>1. PICK st : st = LinkStep(fields, v, m)
    OBVIOUS
  <2>2. v \in States /\ Covers(fields, v.gone)
    OBVIOUS
  <2>3. /\ st \in States /\ Covers(fields, st.gone)
        /\ \E g \in Fields : st.fields = Append(v.fields, g) /\ Alike(fields[m], g)
    BY <2>1, <2>2, LinkedStep
  <2> QED
    BY <2>1, <2>3
<1>c. \A k \in 1 .. n : \A v \in A : Op(v, seq[k]) \in A
  BY <1>n, <1>4
<1>a. \A v \in A : v.gone \in SUBSET D /\ v.fields \in Seq(Fields) /\ Covers(fields, v.gone)
  OBVIOUS
<1>e. b.fields = <<>>
  OBVIOUS
<1> HIDE DEF Op, A, n, seq, D, X, b, States, left
<1>d. step \in [1 .. n -> [A -> A]]
  BY <1>c
<1>g. PICK g \in [SUBSET (1 .. n) -> A] : IsSetFold(g, n, b, step)
  <2> HIDE DEF step
  <2> QED
    BY <1>n, <1>b, <1>d, SetFold, Zenon
<1>r. R(g)
  <2>1. ASSUME NEW s \in SUBSET (1 .. n)
        PROVE  g[s] = IF s = {} THEN b ELSE Op(g[s \ {Max(s)}], seq[Max(s)])
    <3>1. CASE s # {}
      <4>1. Max(s) \in 1 .. n /\ s \ {Max(s)} \in SUBSET (1 .. n)
        BY <1>n, <3>1, GreatestIs
      <4>2. g[s \ {Max(s)}] \in A
        BY <4>1
      <4>3. g[s] = step[Max(s)][g[s \ {Max(s)}]]
        BY <1>g, <3>1 DEF IsSetFold
      <4> QED
        BY <3>1, <4>1, <4>2, <4>3
    <3>2. CASE s = {}
      BY <1>g, <3>2 DEF IsSetFold
    <3> QED
      BY <3>1, <3>2
  <2> QED
    BY <1>n, <2>1
<1>h. PICK h : R(h) /\ X = h[1 .. n]
  <2> DEFINE c == CHOOSE x : R(x)
  <2>1. R(c)
    BY <1>r
  <2>2. X = c[1 .. n]
    BY <1>x, <1>n
  <2> HIDE DEF c
  <2> QED
    BY <2>1, <2>2
<1>s. \A s \in SUBSET (1 .. n) : h[s] = IF s = {} THEN b ELSE Op(h[s \ {Max(s)}], seq[Max(s)])
  BY <1>n, <1>h
<1>t. \A s \in SUBSET (1 .. n) : s # {} /\ h[s \ {Max(s)}] \in A => h[s] = step[Max(s)][h[s \ {Max(s)}]]
  <2>1. ASSUME NEW s \in SUBSET (1 .. n), s # {}, h[s \ {Max(s)}] \in A
        PROVE  h[s] = step[Max(s)][h[s \ {Max(s)}]]
    <3>1. Max(s) \in 1 .. n
      BY <1>n, <2>1, GreatestIs
    <3> QED
      BY <1>s, <2>1, <3>1
  <2> QED
    BY <2>1
<1>f. PICK f \in [0 .. n -> A] : IsFold(f, n, b, step) /\ f[n] = X
  <2>1. h[{}] = b
    BY <1>s
  <2>2. Follows(h, n, A, b, step)
    BY <1>t, <2>1 DEF Follows
  <2>3. n \in Nat
    BY <1>n
  <2> HIDE DEF step, R
  <2>4. FoldEnds(n, A, b, step, h[1 .. n])
    BY <1>b, <1>d, <2>2, <2>3, ByPrefixes
  <2> QED
    BY <1>h, <2>4 DEF FoldEnds
<1>k. f[0] = b /\ \A k \in 1 .. n : f[k - 1] \in A /\ f[k] \in A /\ f[k] = Op(f[k - 1], seq[k])
  <2>1. f[0] = b
    BY <1>f DEF IsFold
  <2>2. ASSUME NEW k \in 1 .. n PROVE f[k - 1] \in A /\ f[k] \in A /\ f[k] = Op(f[k - 1], seq[k])
    <3>1. f[k - 1] \in A /\ f[k] \in A
      BY <1>n
    <3>2. f[k] = step[k][f[k - 1]]
      BY <1>f DEF IsFold
    <3> QED
      BY <3>1, <3>2
  <2> QED
    BY <2>1, <2>2
<1> DEFINE G == {k \in 0 .. n : /\ Len(f[k].fields) = k
                                /\ \A j \in 1 .. k : Alike(fields[j], f[k].fields[j])}
<1>5. 0 \in G
  BY <1>n, <1>k, <1>e
<1>6. ASSUME NEW k \in 1 .. n, k - 1 \in G PROVE k \in G
  <2>1. f[k - 1] \in A /\ f[k] = Op(f[k - 1], k) /\ k \in D
    BY <1>k, <1>n
  <2>2. PICK u \in Fields : f[k].fields = Append(f[k - 1].fields, u) /\ Alike(fields[k], u)
    BY <1>4, <2>1
  <2>3. /\ f[k - 1].fields \in Seq(Fields) /\ Len(f[k - 1].fields) = k - 1
        /\ \A j \in 1 .. (k - 1) : Alike(fields[j], f[k - 1].fields[j])
    BY <1>6, <1>a, <2>1
  <2> DEFINE o == f[k - 1].fields
             t == f[k].fields
  <2>4. Len(t) = k /\ t[k] = u /\ \A j \in 1 .. (k - 1) : t[j] = o[j]
    <3>1. o \in Seq(Fields) /\ Len(o) = k - 1 /\ t = Append(o, u)
      BY <2>2, <2>3
    <3> HIDE DEF o, t
    <3>2. Len(t) = Len(o) + 1 /\ t[Len(o) + 1] = u /\ \A j \in 1 .. Len(o) : t[j] = o[j]
      BY <3>1, Appended
    <3>3. Len(o) + 1 = k
      BY <3>1
    <3> QED
      BY <3>1, <3>2, <3>3
  <2>5. ASSUME NEW j \in 1 .. k PROVE Alike(fields[j], t[j])
    <3>1. CASE j = k
      BY <2>2, <2>4, <3>1
    <3>2. CASE j # k
      <4>1. j \in 1 .. (k - 1)
        BY <1>n, <3>2
      <4> QED
        BY <2>3, <2>4, <4>1
    <3> QED
      BY <3>1, <3>2
  <2>6. k \in 0 .. n
    BY <1>n
  <2> QED
    BY <2>4, <2>5, <2>6
<1>7. n \in G
  <2> HIDE DEF G
  <2>1. n \in Nat
    BY <1>n
  <2>2. \A k \in 0 .. n : k \in G
    BY <1>5, <1>6, <2>1, Induct
  <2> QED
    BY <2>1, <2>2
<1>8. /\ X.gone \in SUBSET D /\ X.fields \in Seq(Fields) /\ Covers(fields, X.gone)
      /\ Len(X.fields) = n /\ \A j \in D : Alike(fields[j], X.fields[j])
  <2>1. n \in 0 .. n /\ f[n] = X
    BY <1>n, <1>f
  <2>2. f[n] \in A
    BY <2>1
  <2>3. D = 1 .. n
    BY <1>0, <1>n
  <2> QED
    BY <1>7, <1>a, <2>1, <2>2, <2>3
<1>9. DOMAIN X.fields = D
  BY <1>0, <1>n, <1>8
<1>10. left = Among([i \in DOMAIN X.fields |-> i], D \ X.gone)
  BY <1>9 DEF left, seq
<1>11. /\ [k \in DOMAIN left |-> X.fields[left[k]]] \in Seq(Fields)
       /\ ToSet([k \in DOMAIN left |-> X.fields[left[k]]]) = {X.fields[i] : i \in D \cap (D \ X.gone)}
  <2>1. PICK s \in Seq(Fields) : s = X.fields
    BY <1>8
  <2>2. DOMAIN s = D /\ left = Among([i \in DOMAIN s |-> i], D \ X.gone)
    BY <1>9, <1>10, <2>1
  <2>3. /\ [k \in DOMAIN left |-> s[left[k]]] \in Seq(Fields)
        /\ ToSet([k \in DOMAIN left |-> s[left[k]]]) = {s[i] : i \in DOMAIN s \cap (D \ X.gone)}
    <3>1. PICK I : I = D \ X.gone
      OBVIOUS
    <3>2. left = Among(PlacesOf(s), I)
      BY <2>2, <3>1 DEF PlacesOf
    <3>3. Taken(s, left) \in Seq(Fields) /\ ToSet(Taken(s, left)) = {s[i] : i \in DOMAIN s \cap I}
      BY <3>2, Chosen
    <3> QED
      BY <3>1, <3>3 DEF Taken
  <2>4. {s[i] : i \in DOMAIN s \cap (D \ X.gone)} = {s[i] : i \in D \cap (D \ X.gone)}
    BY <2>2
  <2> QED
    BY <2>1, <2>3, <2>4, Zenon
<1>12. ASSUME NEW j \in D PROVE \E x \in ToSet(Linked(fields, removable)) : Alike(fields[j], x)
  <2>1. PICK i \in D \ X.gone : Alike(fields[j], fields[i])
    <3>1. Covers(fields, X.gone)
      BY <1>8
    <3> QED
      BY <3>1 DEF Covers, D
  <2>2. Alike(fields[i], X.fields[i])
    BY <1>8
  <2>3. X.fields[i] \in ToSet(Linked(fields, removable))
    BY <1>l, <1>11
  <2> QED
    BY <2>1, <2>2, <2>3, AlikeOrder
<1> QED
  BY <1>l, <1>11, <1>12 DEF D

\* What replaces the fields of a tag says what they said.
LEMMA NewFieldsAre ==
    ASSUME NEW tag, NEW original \in Seq(Fields), NEW new \in Seq(Fields)
    PROVE  /\ NewFields(tag, original, new) \in Seq(Fields)
           /\ \A f \in ToSet(original) \union ToSet(new) :
                \E g \in ToSet(NewFields(tag, original, new)) : Alike(f, g)
<1>1. PICK sorted \in Seq(Fields) : /\ sorted = sort_fields(tag, original, new)
                                    /\ ToSet(sorted) = ToSet(original) \union ToSet(new)
  BY Sorting
<1>2. PICK removable \in SUBSET (DOMAIN sorted) : /\ removable = removable_fields(sorted)
                                                  /\ Covers(sorted, removable)
  BY Removing
<1>3. NewFields(tag, original, new) = Linked(sorted, removable)
  BY <1>1, <1>2 DEF NewFields
<1>4. /\ Linked(sorted, removable) \in Seq(Fields)
      /\ \A j \in DOMAIN sorted : \E g \in ToSet(Linked(sorted, removable)) : Alike(sorted[j], g)
  BY <1>2, Linking
<1>5. \A f \in ToSet(sorted) : \E j \in DOMAIN sorted : sorted[j] = f
  BY InSeq
<1> QED
  BY <1>1, <1>3, <1>4, <1>5

-----------------------------------------------------------------------------
(* Terms and lines of the check log                                        *)

\* Lines of the check log, what may be made of a field, and the terms it tells.
Lines == STRING \X STRING
Mades == [fields : Seq(Fields), rows : SUBSET Lines]
Told(made) == Terms(ToSet(made.fields)) \union {row[2] : row \in made.rows}

\* The subfields with terms.
LEMMA LettersAre ==
    ASSUME NEW s \in Seq(Subs)
    PROVE  Letters(s) \in Seq(Subs) /\ ToSet(Letters(s)) = {x \in ToSet(s) : x.code \notin Digits}
  BY WithoutIs DEF Letters

\* A term is in one of the fields.
LEMMA TermIs ==
    ASSUME NEW F \in SUBSET Fields, NEW t
    PROVE  t \in Terms(F) <=> \E f \in F : \E x \in ToSet(f.subs) : x.code \notin Digits /\ x.value = t
<1>1. \A f \in F : ToSet(Letters(f.subs)) = {x \in ToSet(f.subs) : x.code \notin Digits}
  <2> TAKE f \in F
  <2>1. f.subs \in Seq(Subs)
    BY DEF Fields
  <2> QED
    BY <2>1, LettersAre
<1> QED
  BY <1>1 DEF Terms

\* The terms of two sets of fields.
LEMMA TermsOfUnion ==
    ASSUME NEW F \in SUBSET Fields, NEW G \in SUBSET Fields
    PROVE  Terms(F \union G) = Terms(F) \union Terms(G)
<1>1. F \union G \in SUBSET Fields
  OBVIOUS
<1>2. \A t : /\ t \in Terms(F) <=> \E f \in F : \E x \in ToSet(f.subs) : x.code \notin Digits /\ x.value = t
             /\ t \in Terms(G) <=> \E f \in G : \E x \in ToSet(f.subs) : x.code \notin Digits /\ x.value = t
             /\ t \in Terms(F \union G) <=> \E f \in F \union G : \E x \in ToSet(f.subs) : x.code \notin Digits /\ x.value = t
  BY <1>1, TermIs
<1> QED
  BY <1>2

\* Fields that are alike have the same terms.
LEMMA SameTerms ==
    ASSUME NEW f \in Fields, NEW g \in Fields, Alike(f, g), NEW x \in ToSet(f.subs), x.code \notin Digits
    PROVE  x \in ToSet(g.subs)
<1>1. f.subs \in Seq(Subs) /\ g.subs \in Seq(Subs)
  BY DEF Fields
<1>2. x \in Subs
  BY <1>1, InSeq
<1>3. x.code \in Telling
  BY <1>2 DEF Telling, Digits, Subs
<1>4. Select(f.subs, {x.code}) = Select(g.subs, {x.code})
  BY <1>3 DEF Alike
<1>5. /\ ToSet(Select(f.subs, {x.code})) = {y \in ToSet(f.subs) : y.code \in {x.code}}
      /\ ToSet(Select(g.subs, {x.code})) = {y \in ToSet(g.subs) : y.code \in {x.code}}
  BY <1>1, SelectIs
<1>6. {y \in ToSet(f.subs) : y.code \in {x.code}} = {y \in ToSet(g.subs) : y.code \in {x.code}}
  BY <1>4, <1>5, Zenon
<1>7. x \in {y \in ToSet(f.subs) : y.code \in {x.code}}
  OBVIOUS
<1> QED
  BY <1>6, <1>7

\* What is joined tells what both told.
LEMMA JoinIs ==
    ASSUME NEW a \in Mades, NEW c \in Mades
    PROVE  Join(a, c) \in Mades /\ Told(Join(a, c)) = Told(a) \union Told(c)
<1>1. /\ a.fields \in Seq(Fields) /\ c.fields \in Seq(Fields)
      /\ a.rows \in SUBSET Lines /\ c.rows \in SUBSET Lines
  BY DEF Mades
<1>2. /\ a.fields \o c.fields \in Seq(Fields)
      /\ ToSet(a.fields \o c.fields) = ToSet(a.fields) \union ToSet(c.fields)
  BY <1>1, SetOfConcat
<1>3. ToSet(a.fields) \in SUBSET Fields /\ ToSet(c.fields) \in SUBSET Fields
  BY <1>1, InSeq
<1>4. Join(a, c).fields = a.fields \o c.fields /\ Join(a, c).rows = a.rows \union c.rows
  BY DEF Join, Made
<1>5. Terms(ToSet(Join(a, c).fields)) = Terms(ToSet(a.fields)) \union Terms(ToSet(c.fields))
  <2>1. Terms(ToSet(a.fields) \union ToSet(c.fields)) = Terms(ToSet(a.fields)) \union Terms(ToSet(c.fields))
    BY <1>3, TermsOfUnion, Zenon
  <2>2. ToSet(Join(a, c).fields) = ToSet(a.fields) \union ToSet(c.fields)
    BY <1>2, <1>4
  <2> QED
    BY <2>1, <2>2
<1>6. Join(a, c) \in Mades
  BY <1>1, <1>2 DEF Join, Made, Mades
<1> QED
  BY <1>4, <1>5, <1>6 DEF Told

\* Nothing was made.
LEMMA NothingIs == Nothing \in Mades /\ Nothing.fields = <<>>
<1>1. <<>> \in Seq(Fields) /\ {} \in SUBSET Lines
  OBVIOUS
<1> QED
  BY <1>1 DEF Nothing, Made, Mades

\* The literals of the module are strings (LiteralsAssumption).
LEMMA Literals ==
    /\ "" \in STRING /\ " " \in STRING /\ "0" \in STRING /\ "1" \in STRING /\ "2" \in STRING
    /\ "4" \in STRING /\ "5" \in STRING /\ "6" \in STRING /\ "7" \in STRING /\ "8" \in STRING
    /\ "9" \in STRING /\ "a" \in STRING /\ "b" \in STRING /\ "g" \in STRING
    /\ "kokoomateokset" \in STRING /\ "seko" \in STRING /\ "slm/fin" \in STRING
    /\ "slm/swe" \in STRING /\ "yso/fin" \in STRING /\ "yso/swe" \in STRING
  BY LiteralsAssumption

\* A new field.
LEMMA FieldIs ==
    ASSUME NEW tag \in Tags, NEW ind2 \in STRING, NEW subs \in Seq(Subs)
    PROVE  Field(tag, ind2, subs) \in Fields /\ Field(tag, ind2, subs).subs = subs
<1>1. <<" ", ind2>> \in STRING \X STRING
  BY Literals
<1> QED
  BY <1>1 DEF Field, Fields

\* A new subfield.
LEMMA SubIs ==
    ASSUME NEW c \in STRING, NEW v \in STRING
    PROVE  Sub(c, v) \in Subs /\ Sub(c, v).code = c /\ Sub(c, v).value = v
  BY DEF Sub, Subs

\* Lists of up to three elements.
LEMMA SetOfSome ==
    ASSUME NEW S, NEW x \in S, NEW y \in S, NEW z \in S
    PROVE  /\ <<x>> \in Seq(S) /\ <<x, y>> \in Seq(S) /\ <<x, y, z>> \in Seq(S)
           /\ x \in ToSet(<<x>>) /\ x \in ToSet(<<x, y>>) /\ x \in ToSet(<<x, y, z>>)
<1>1. x \in ToSet(<<x>>)
  BY SetOfOne
<1>2. /\ 1 \in DOMAIN <<x, y>> /\ <<x, y>>[1] = x
      /\ 1 \in DOMAIN <<x, y, z>> /\ <<x, y, z>>[1] = x
  OBVIOUS
<1>3. x \in ToSet(<<x, y>>)
  BY <1>2 DEF ToSet
<1>4. x \in ToSet(<<x, y, z>>)
  BY <1>2 DEF ToSet
<1> QED
  BY <1>1, <1>3, <1>4

\* A new field, and lines of the log.
LEMMA MadeOne ==
    ASSUME NEW f \in Fields, NEW rows \in SUBSET Lines
    PROVE  /\ Made(<<f>>, rows) \in Mades /\ Made(<<f>>, rows).fields # <<>>
           /\ \A x \in ToSet(f.subs) : x.code \notin Digits => x.value \in Told(Made(<<f>>, rows))
           /\ \A row \in rows : row[2] \in Told(Made(<<f>>, rows))
<1>1. <<f>> \in Seq(Fields) /\ ToSet(<<f>>) = {f} /\ <<f>> # <<>>
  BY SetOfOne
<1>2. {f} \in SUBSET Fields
  OBVIOUS
<1>3. PICK m : m = Made(<<f>>, rows)
  OBVIOUS
<1>4. m.fields = <<f>> /\ m.rows = rows /\ m \in Mades
  <2>1. PICK one \in Seq(Fields) : one = <<f>>
    BY <1>1
  <2>2. Made(one, rows) \in Mades /\ Made(one, rows).fields = one /\ Made(one, rows).rows = rows
    BY DEF Made, Mades
  <2> QED
    BY <1>3, <2>1, <2>2
<1>5. \A x \in ToSet(f.subs) : x.code \notin Digits => x.value \in Terms({f})
  BY <1>2, TermIs
<1>6. ToSet(m.fields) = {f}
  BY <1>1, <1>4
<1>7. Told(m) = Terms({f}) \union {row[2] : row \in rows}
  BY <1>4, <1>6 DEF Told
<1> QED
  BY <1>1, <1>3, <1>4, <1>5, <1>7

\* A line of the check log tells its term.
LEMMA LoggedIs ==
    ASSUME NEW code \in STRING, NEW v \in STRING
    PROVE  Logged(code, v) \in Mades /\ v \in Told(Logged(code, v))
<1>1. {<<code, v>>} \in SUBSET Lines /\ <<>> \in Seq(Fields)
  <2>1. <<code, v>> \in STRING \X STRING
    OBVIOUS
  <2> QED
    BY <2>1 DEF Lines
<1>2. Logged(code, v) \in Mades /\ Logged(code, v).rows = {<<code, v>>}
  BY <1>1 DEF Logged, Made, Mades
<1>3. <<code, v>>[2] = v
  OBVIOUS
<1> QED
  BY <1>2, <1>3 DEF Told

\* An answer to a search for t.
Answers(r, t) == r.error \in {"", "1", "2"} /\ (r.error = "" => r.label = t /\ r.code \in STRING)

\* A field with the term in one of its subfields.
Says(f, t) == f \in Fields /\ \E x \in ToSet(f.subs) : x.code \notin Digits /\ x.value = t

\* search finds the term it was asked for, or gives an error.
LEMMA FoundIs ==
    ASSUME NEW t, NEW order, NEW geo
    PROVE  Answers(search(t, order, geo), t)
<1> DEFINE Knows(vc) == IF vc[1] = "numeric" THEN t \in Numeric
                        ELSE Entry[vc[1]][t] \in {"concept", "several"} \union IF geo THEN {"place"} ELSE {}
           i == SelectInSeq(order, Knows)
<1>1. search(t, order, geo) = Found(t, order, geo, i)
  BY DEF search
<1>2. SlmCode(order[i][2]) \in STRING /\ YsoCode(order[i][2]) \in STRING
  BY Literals DEF SlmCode, YsoCode
<1> HIDE DEF i
<1>3. CASE i = 0
  BY <1>1, <1>3 DEF Found, Answers
<1>4. CASE i # 0 /\ (order[i][1] # "numeric" /\ Entry[order[i][1]][t] = "several")
  BY <1>1, <1>4 DEF Found, Answers
<1>5. CASE i # 0 /\ ~ (order[i][1] # "numeric" /\ Entry[order[i][1]][t] = "several")
  <2> DEFINE Place(j) == order[j][1] # "numeric" /\ Entry[order[j][1]][t] \in {"place", "unmapped_place"}
             place == geo /\ \E j \in 1..i : Place(j)
             numeric == order[i][1] = "numeric"
             code == IF order[i][1] = "slm" THEN SlmCode(order[i][2]) ELSE YsoCode(order[i][2])
  <2>1. Found(t, order, geo, i)
           = [error |-> "", label |-> t, numeric |-> numeric, place |-> place, code |-> code]
    BY <1>5, Zenon DEF Found
  <2>2. code \in STRING
    BY <1>2
  <2> HIDE DEF place, numeric, code
  <2>3. PICK r : r = [error |-> "", label |-> t, numeric |-> numeric, place |-> place, code |-> code]
    OBVIOUS
  <2>4. r.error = "" /\ r.label = t /\ r.code = code
    BY <2>3
  <2>5. search(t, order, geo) = r
    BY <1>1, <2>1, <2>3
  <2> QED
    BY <2>2, <2>4, <2>5 DEF Answers
<1> QED
  BY <1>3, <1>4, <1>5

\* A field with a code says the term that was found.
LEMMA WithCodeIs ==
    ASSUME NEW tag \in Tags, NEW r, NEW t \in STRING, r.label = t, r.code \in STRING
    PROVE  Says(field_with_voc_code(tag, r), t)
<1> DEFINE home == IF tag \in {"257", "370"} /\ ~ r.place THEN "650" ELSE tag
           topical == home \in {"648", "650", "651", "655"}
           letter == IF home = "370" THEN "g" ELSE IF home = "567" THEN "b" ELSE "a"
           target == IF r.code \in {"slm/fin", "slm/swe"} THEN "655"
                     ELSE IF ~ topical THEN home ELSE IF r.place THEN "651" ELSE "650"
           ind2 == IF topical THEN "7" ELSE " "
           plain == <<Sub("a", r.label), Sub("2", r.code)>>
           coded == <<Sub(letter, r.label), Sub("2", r.code), Sub("0", r.label)>>
<1>1. home \in Tags /\ target \in Tags /\ ind2 \in STRING /\ letter \in STRING \ Digits
  BY Literals DEF Tags, Digits
<1>2. /\ Sub("a", r.label) \in Subs /\ Sub("2", r.code) \in Subs /\ Sub("0", r.label) \in Subs
      /\ Sub(letter, r.label) \in Subs /\ Sub(letter, r.label).code = letter /\ Sub(letter, r.label).value = t
      /\ Sub("a", r.label).code = "a" /\ Sub("a", r.label).value = t
  <2>1. r.label \in STRING /\ r.code \in STRING /\ letter \in STRING /\ r.label = t
    BY <1>1
  <2> HIDE DEF letter
  <2> QED
    BY <2>1, SubIs, Literals
<1>3. /\ plain \in Seq(Subs) /\ Sub("a", r.label) \in ToSet(plain)
      /\ coded \in Seq(Subs) /\ Sub(letter, r.label) \in ToSet(coded)
  <2> HIDE DEF letter
  <2> QED
    BY <1>2, SetOfSome
<1>4. CASE r.numeric
  <2>1. PICK to \in Tags, ind \in STRING : /\ to = IF tag = "388" THEN "388" ELSE "648"
                                           /\ ind = IF tag = "388" THEN " " ELSE "7"
    BY Literals DEF Tags
  <2>2. field_with_voc_code(tag, r) = Field(to, ind, plain)
    BY <1>4, <2>1 DEF field_with_voc_code
  <2>3. "a" \notin Digits
    BY DEF Digits
  <2> HIDE DEF plain
  <2>4. Field(to, ind, plain) \in Fields /\ Field(to, ind, plain).subs = plain
    BY <1>3, FieldIs
  <2> QED
    BY <1>2, <1>3, <2>2, <2>3, <2>4 DEF Says
<1>5. CASE ~ r.numeric
  <2>1. field_with_voc_code(tag, r) = Field(target, ind2, coded)
    BY <1>5 DEF field_with_voc_code
  <2> HIDE DEF coded, target, ind2
  <2>2. Field(target, ind2, coded) \in Fields /\ Field(target, ind2, coded).subs = coded
    BY <1>1, <1>3, FieldIs
  <2> HIDE DEF letter
  <2> QED
    BY <1>1, <1>2, <1>3, <2>1, <2>2 DEF Says
<1> QED
  BY <1>4, <1>5

\* So does a field without one.
LEMMA WithoutCodeIs ==
    ASSUME NEW tag \in Tags, NEW ind2 \in STRING, NEW t \in STRING
    PROVE  Says(field_without_voc_code(tag, ind2, t), t)
<1> DEFINE letter == IF tag = "567" THEN "b" ELSE IF tag = "370" THEN "g" ELSE "a"
           subs == <<Sub(letter, t)>>
<1>1. letter \in STRING \ Digits
  BY Literals DEF Digits
<1>2. Sub(letter, t) \in Subs /\ Sub(letter, t).code = letter /\ Sub(letter, t).value = t
  BY <1>1, SubIs
<1> HIDE DEF letter
<1>3. subs \in Seq(Subs) /\ Sub(letter, t) \in ToSet(subs)
  BY <1>2, SetOfSome
<1>4. field_without_voc_code(tag, ind2, t) = Field(tag, ind2, subs)
  BY DEF field_without_voc_code, letter
<1> HIDE DEF subs
<1>5. Field(tag, ind2, subs) \in Fields /\ Field(tag, ind2, subs).subs = subs
  BY <1>3, FieldIs
<1> QED
  BY <1>1, <1>2, <1>3, <1>4, <1>5 DEF Says

\* One field that says a term tells it.
LEMMA MadeSays ==
    ASSUME NEW f, NEW t, Says(f, t), NEW rows \in SUBSET Lines
    PROVE  /\ Made(<<f>>, rows) \in Mades /\ t \in Told(Made(<<f>>, rows))
           /\ Made(<<f>>, rows).fields # <<>>
<1>1. f \in Fields /\ \E x \in ToSet(f.subs) : x.code \notin Digits /\ x.value = t
  BY DEF Says
<1> QED
  BY <1>1, MadeOne

\* One line of the check log.
LEMMA RowIs ==
    ASSUME NEW code \in STRING, NEW v \in STRING
    PROVE  {<<code, v>>} \in SUBSET Lines /\ {} \in SUBSET Lines
<1>1. <<code, v>> \in STRING \X STRING
  OBVIOUS
<1> QED
  BY <1>1 DEF Lines

\* A term nobody knows is said in the field it goes to.
LEMMA UnknownIs ==
    ASSUME NEW tag \in Tags, NEW s \in Subs
    PROVE  Says(Unknown(tag, s), s.value)
<1>1. s.value \in STRING
  BY DEF Subs
<1>2. "370" \in Tags /\ "653" \in Tags
  BY DEF Tags
<1>3. CASE tag \in {"385", "567"}
  <2>1. Unknown(tag, s) = field_without_voc_code(tag, " ", s.value)
    BY <1>3 DEF Unknown
  <2> QED
    BY <1>1, <2>1, WithoutCodeIs, Literals
<1>4. CASE tag \notin {"385", "567"} /\ tag = "655" /\ s.code = "z"
  <2>1. Unknown(tag, s) = field_without_voc_code("370", " ", s.value)
    BY <1>4 DEF Unknown
  <2> QED
    BY <1>1, <1>2, <2>1, WithoutCodeIs, Literals
<1>5. CASE tag \notin {"385", "567"} /\ ~ (tag = "655" /\ s.code = "z")
  <2> DEFINE ind2 == CASE tag = "655" \/ s.code = "v" -> "6"
                       [] tag # "655" /\ s.code \in {"c", "z"} -> "5"
                       [] OTHER -> "0"
  <2>1. Unknown(tag, s) = field_without_voc_code("653", ind2, s.value)
    BY <1>5 DEF Unknown
  <2>2. ind2 \in STRING
    BY Literals
  <2> HIDE DEF ind2
  <2> QED
    BY <1>1, <1>2, <2>1, <2>2, WithoutCodeIs
<1> QED
  BY <1>3, <1>4, <1>5

\* A term goes to a field of a known tag.
LEMMA TargetIs ==
    ASSUME NEW tag \in Tags, NEW code, NEW r, NEW cx
    PROVE  TargetTag(tag, code, r, cx) \in Tags
<1> DEFINE made == IF cx.type = "movie" THEN "257" ELSE "370"
           created == tag = "650" /\ cx.type \in {"music", "movie"} /\ ~ cx.topics
<1>1. made \in Tags /\ "388" \in Tags
  BY DEF Tags
<1> HIDE DEF made
<1>2. TargetTag(tag, code, r, cx) \in {made, "388", tag}
  BY DEF TargetTag, made
<1> QED
  BY <1>1, <1>2

\* Whatever the answer, the term is told.
LEMMA AnsweredIs ==
    ASSUME NEW tag \in Tags, NEW s \in Subs, NEW cx, NEW r, Answers(r, s.value)
    PROVE  /\ Answered(tag, s, cx, r) \in Mades /\ s.value \in Told(Answered(tag, s, cx, r))
           /\ Answered(tag, s, cx, r).fields # <<>>
<1>1. s.value \in STRING /\ r.error \in {"", "1", "2"} /\ (r.error = "" => r.label = s.value /\ r.code \in STRING)
  BY DEF Subs, Answers
<1>2. CASE r.error = ""
  <2>1. PICK f : f = field_with_voc_code(TargetTag(tag, s.code, r, cx), r)
    OBVIOUS
  <2>2. TargetTag(tag, s.code, r, cx) \in Tags
    BY TargetIs
  <2>3. Says(f, s.value)
    BY <1>1, <1>2, <2>1, <2>2, WithCodeIs
  <2>4. Answered(tag, s, cx, r) = Made(<<f>>, {})
    BY <1>2, <2>1 DEF Answered
  <2>5. {} \in SUBSET Lines
    OBVIOUS
  <2> QED
    BY <2>3, <2>4, <2>5, MadeSays
<1>3. CASE r.error = "1"
  <2>1. Answered(tag, s, cx, r) = Made(<<Unknown(tag, s)>>, {<<"1", s.value>>})
    BY <1>3 DEF Answered
  <2>2. Says(Unknown(tag, s), s.value)
    BY UnknownIs
  <2>3. PICK rows \in SUBSET Lines : rows = {<<"1", s.value>>}
    BY <1>1, RowIs, Literals
  <2> QED
    BY <2>1, <2>2, <2>3, MadeSays
<1>4. CASE r.error = "2"
  <2> DEFINE home == IF tag \in {"650", "651"} /\ s.code = "v" THEN "655" ELSE tag
             f == field_without_voc_code(home, "4", s.value)
  <2>1. Answered(tag, s, cx, r) = Made(<<f>>, {<<"2", s.value>>})
    BY <1>4 DEF Answered
  <2>2. home \in Tags
    BY DEF Tags
  <2> HIDE DEF home
  <2>3. Says(f, s.value)
    BY <1>1, <2>2, WithoutCodeIs, Literals
  <2>4. PICK rows \in SUBSET Lines : rows = {<<"2", s.value>>}
    BY <1>1, RowIs, Literals
  <2> HIDE DEF f
  <2> QED
    BY <2>1, <2>3, <2>4, MadeSays
<1> QED
  BY <1>1, <1>2, <1>3, <1>4

\* A term that is searched for is told.
LEMMA SearchedIs ==
    ASSUME NEW tag \in Tags, NEW s \in Subs, NEW cx
    PROVE  Searched(tag, s, cx) \in Mades /\ s.value \in Told(Searched(tag, s, cx)) /\ Searched(tag, s, cx).fields # <<>>
<1> DEFINE geo == tag \notin {"385", "567"} /\ (tag = "655" => s.code = "z")
           r == search(s.value, SearchOrder(tag, s.code, cx), geo)
<1>1. Searched(tag, s, cx) = Answered(tag, s, cx, r)
  BY DEF Searched
<1>2. Answers(r, s.value)
  BY FoundIs
<1> HIDE DEF r
<1> QED
  BY <1>1, <1>2, AnsweredIs

\* What is left of the subfields without their first numbers.
LEMMA LeftIs ==
    ASSUME NEW s \in Seq(Subs)
    PROVE  WithoutFirstDigits(s) \in Seq(Subs)
<1> DEFINE Stays(i) == s[i].code \in Digits => \E j \in 1..(i - 1) : s[j].code = s[i].code
           I == {i \in DOMAIN s : Stays(i)}
           l == Among(PlacesOf(s), I)
<1>1. WithoutFirstDigits(s) = Taken(s, l)
  BY DEF WithoutFirstDigits, Taken, PlacesOf
<1> HIDE DEF I
<1>2. Taken(s, l) \in Seq(Subs)
  BY Chosen
<1> QED
  BY <1>1, <1>2

\* A pair with another second element.
LEMMA PairWith ==
    ASSUME NEW S, NEW p \in S \X S, NEW x \in S
    PROVE  [p EXCEPT ![2] = x] \in S \X S
<1>1. p[1] \in S /\ p = <<p[1], p[2]>>
  OBVIOUS
<1>2. PICK y \in S, z \in S : p = <<y, z>>
  BY <1>1
<1>3. [p EXCEPT ![2] = x] = <<y, x>>
  BY <1>2
<1> QED
  BY <1>2, <1>3

\* process_subfield tells its term, in a new field or in the check log.
LEMMA SubfieldIs ==
    ASSUME NEW f \in Fields, NEW s \in Subs, NEW cx
    PROVE  process_subfield(f, s, cx) \in Mades /\ s.value \in Told(process_subfield(f, s, cx))
<1>1. /\ s.value \in STRING /\ s.code \in STRING
      /\ f.tag \in Tags /\ f.ind \in STRING \X STRING /\ f.subs \in Seq(Subs)
  BY DEF Subs, Fields
<1> DEFINE topical == f.tag \in {"650", "651"}
           empty == \/ s.value = ""
                    \/ topical /\ s.code = "v" /\ s.value = "fiktio"
                    \/ topical /\ s.code = "e"
<1>2. CASE empty
  <2>1. process_subfield(f, s, cx) = Logged("6", s.value)
    BY <1>2 DEF process_subfield
  <2> QED
    BY <1>1, <2>1, LoggedIs, Literals
<1>3. CASE ~ empty /\ f.tag = "655" /\ s.code = "y"
  <2> DEFINE code == YsoCode(Language(cx.voc))
             g == Field("388", " ", <<Sub("a", s.value), Sub("2", code)>>)
  <2>1. process_subfield(f, s, cx) = Made(<<g>>, {})
    BY <1>3 DEF process_subfield
  <2>2. code \in STRING
    BY Literals DEF YsoCode
  <2> HIDE DEF code
  <2>3. /\ Sub("a", s.value) \in Subs /\ Sub("2", code) \in Subs
        /\ Sub("a", s.value).code = "a" /\ Sub("a", s.value).value = s.value
    BY <1>1, <2>2, SubIs, Literals
  <2> DEFINE subs == <<Sub("a", s.value), Sub("2", code)>>
  <2>4. subs \in Seq(Subs) /\ Sub("a", s.value) \in ToSet(subs)
    BY <2>3, SetOfSome
  <2> HIDE DEF subs
  <2>8. "388" \in Tags
    BY DEF Tags
  <2>5. Field("388", " ", subs) \in Fields /\ Field("388", " ", subs).subs = subs
    BY <2>4, <2>8, FieldIs, Literals
  <2>6. "a" \notin Digits /\ {} \in SUBSET Lines
    BY DEF Digits
  <2>7. Says(g, s.value)
    BY <2>3, <2>4, <2>5, <2>6 DEF Says, subs
  <2> HIDE DEF g
  <2> QED
    BY <2>1, <2>6, <2>7, MadeSays
<1>4. CASE ~ empty /\ ~ (f.tag = "655" /\ s.code = "y") /\ topical /\ s.code = "g"
  <2>1. process_subfield(f, s, cx)
           = Made(<<field_without_voc_code("653", " ", s.value)>>, {<<"7", s.value>>})
    BY <1>4 DEF process_subfield
  <2>2. Says(field_without_voc_code("653", " ", s.value), s.value)
    <3>1. "653" \in Tags
      BY DEF Tags
    <3> QED
      BY <1>1, <3>1, WithoutCodeIs, Literals
  <2>3. PICK rows \in SUBSET Lines : rows = {<<"7", s.value>>}
    BY <1>1, RowIs, Literals
  <2>4. PICK g : g = field_without_voc_code("653", " ", s.value)
    OBVIOUS
  <2>5. process_subfield(f, s, cx) = Made(<<g>>, rows) /\ Says(g, s.value)
    BY <2>1, <2>2, <2>3, <2>4
  <2> QED
    BY <2>5, MadeSays
<1>5. CASE /\ ~ empty /\ ~ (f.tag = "655" /\ s.code = "y") /\ ~ (topical /\ s.code = "g")
           /\ s.code \notin ValidCodes[f.tag]
  <2> DEFINE g == [f EXCEPT !.ind[2] = "4", !.subs = WithoutFirstDigits(@)]
  <2>1. process_subfield(f, s, cx) = Made(<<g>>, {<<"8", s.value>>})
    BY <1>5 DEF process_subfield
  <2>2. WithoutFirstDigits(f.subs) \in Seq(Subs)
    BY <1>1, LeftIs
  <2>3. [f.ind EXCEPT ![2] = "4"] \in STRING \X STRING
    <3>1. PICK p \in STRING \X STRING : f.ind = p
      BY <1>1
    <3>2. [p EXCEPT ![2] = "4"] \in STRING \X STRING
      BY Literals, PairWith
    <3> QED
      BY <3>1, <3>2
  <2>4. g = [f EXCEPT !.ind = [f.ind EXCEPT ![2] = "4"], !.subs = WithoutFirstDigits(f.subs)]
    BY DEF Fields
  <2>5. g \in Fields
    BY <2>2, <2>3, <2>4 DEF Fields
  <2>6. {<<"8", s.value>>} \in SUBSET Lines /\ <<"8", s.value>>[2] = s.value
    BY <1>1, RowIs, Literals
  <2> HIDE DEF g
  <2> QED
    BY <2>1, <2>5, <2>6, MadeOne
<1>6. CASE /\ ~ empty /\ ~ (f.tag = "655" /\ s.code = "y") /\ ~ (topical /\ s.code = "g")
           /\ s.code \in ValidCodes[f.tag]
  <2>1. process_subfield(f, s, cx) = Searched(f.tag, s, cx)
    BY <1>6 DEF process_subfield
  <2> QED
    BY <1>1, <2>1, SearchedIs
<1> HIDE DEF empty, topical
<1> QED
  BY <1>2, <1>3, <1>4, <1>5, <1>6

-----------------------------------------------------------------------------
(* Parts of process_field                                                  *)

\* The parts of what was made.
LEMMA MadesAre ==
    ASSUME NEW m \in Mades
    PROVE  m.fields \in Seq(Fields) /\ m.rows \in SUBSET Lines /\ ToSet(m.fields) \in SUBSET Fields
<1>1. m.fields \in Seq(Fields) /\ m.rows \in SUBSET Lines
  BY DEF Mades
<1> QED
  BY <1>1, InSeq

\* The control subfields.
LEMMA ControlIs ==
    ASSUME NEW f \in Fields
    PROVE  Control(f) \in Seq(Subs)
<1> DEFINE codes == (Digits \ {"0", "2"}) \union IF f.tag = "567" /\ Filled(f.subs, "b") THEN {"a"} ELSE {}
           dropped == Len(Letters(f.subs)) > 1
           S == ToSet(f.subs) \ IF dropped THEN {Sub("9", "<DROP>")} ELSE {}
<1>1. Control(f) = Among(Select(f.subs, codes), S)
  BY DEF Control
<1>2. f.subs \in Seq(Subs)
  BY DEF Fields
<1> HIDE DEF codes, S
<1>3. Select(f.subs, codes) \in Seq(Subs)
  BY <1>2, SelectIs
<1> QED
  BY <1>1, <1>3, AmongIs

\* Control subfields take nothing away.
LEMMA ControlledIs ==
    ASSUME NEW made \in Mades, NEW control \in Seq(Subs), NEW r, r = add_control_subfields(made, control)
    PROVE  r \in Mades /\ Told(made) \subseteq Told(r)
<1> DEFINE o == made.fields
           t == [i \in DOMAIN o |-> [o[i] EXCEPT !.subs = @ \o control]]
<1>1. r = [made EXCEPT !.fields = t]
  <2>1. add_control_subfields(made, control) = [made EXCEPT !.fields = t]
    BY DEF add_control_subfields
  <2> HIDE DEF t
  <2> QED
    BY <2>1
<1>2. o \in Seq(Fields) /\ made.rows \in SUBSET Lines
  BY MadesAre
<1>3. DOMAIN o = 1 .. Len(o) /\ Len(o) \in Nat /\ \A i \in DOMAIN o : o[i] \in Fields /\ o[i].subs \in Seq(Subs)
  <2>1. \A f \in Fields : f.subs \in Seq(Subs)
    BY DEF Fields
  <2> HIDE DEF o
  <2> QED
    BY <1>2, <2>1
<1>4. ASSUME NEW i \in DOMAIN o
      PROVE  t[i] \in Fields /\ t[i].subs \in Seq(Subs) /\ ToSet(o[i].subs) \subseteq ToSet(t[i].subs)
  <2>1. PICK u : u = o[i].subs \o control
    OBVIOUS
  <2>2. u \in Seq(Subs) /\ ToSet(u) = ToSet(o[i].subs) \union ToSet(control)
    BY <1>3, <2>1, SetOfConcat
  <2>3. t[i] = [o[i] EXCEPT !.subs = u]
    BY <2>1
  <2>4. PICK f \in Fields : f = o[i]
    BY <1>3
  <2>5. [f EXCEPT !.subs = u] \in Fields /\ [f EXCEPT !.subs = u].subs = u
    BY <2>2 DEF Fields
  <2> HIDE DEF o, t
  <2> QED
    BY <2>2, <2>3, <2>4, <2>5
<1>5. t \in Seq(Fields)
  <2>1. t \in [1 .. Len(o) -> Fields]
    BY <1>3, <1>4
  <2> HIDE DEF t, o
  <2> QED
    BY <1>3, <2>1, SeqDef
<1>6. DOMAIN t = DOMAIN o
  OBVIOUS
<1>7. r.fields = t /\ r.rows = made.rows /\ r \in Mades
  <2> HIDE DEF t
  <2> QED
    BY <1>1, <1>2, <1>5 DEF Mades
<1> HIDE DEF t, o
<1>8. ASSUME NEW v \in Terms(ToSet(o)) PROVE v \in Terms(ToSet(t))
  <2>1. ToSet(o) \in SUBSET Fields /\ ToSet(t) \in SUBSET Fields
    BY <1>2, <1>5, InSeq
  <2>2. PICK f \in ToSet(o) : \E x \in ToSet(f.subs) : x.code \notin Digits /\ x.value = v
    BY <2>1, TermIs
  <2>3. PICK i \in DOMAIN o : o[i] = f
    BY <1>2, InSeq
  <2>4. t[i] \in ToSet(t) /\ \E x \in ToSet(t[i].subs) : x.code \notin Digits /\ x.value = v
    BY <1>4, <1>5, <1>6, <2>2, <2>3, InSeq
  <2> QED
    BY <2>1, <2>4, TermIs
<1> QED
  BY <1>7, <1>8 DEF Told, o

\* A field that is only stripped of its codes tells all its terms.
LEMMA StrippedIs ==
    ASSUME NEW f \in Fields, NEW ind \in STRING \X STRING, NEW code \in STRING
    PROVE  /\ Stripped(f, ind, code) \in Mades /\ Stripped(f, ind, code).fields # <<>>
           /\ \A x \in ToSet(f.subs) : x.code \notin Digits => x.value \in Told(Stripped(f, ind, code))
<1>1. f.subs \in Seq(Subs)
  BY DEF Fields
<1>2. PICK u : u = Without(f.subs, {"0", "2"})
  OBVIOUS
<1>3. u \in Seq(Subs) /\ ToSet(u) = {x \in ToSet(f.subs) : x.code \notin {"0", "2"}}
  BY <1>1, <1>2, WithoutIs
<1> DEFINE g == [strip_vocabulary_codes(f) EXCEPT !.ind = ind]
<1>4. g = [f EXCEPT !.subs = u, !.ind = ind]
  BY <1>2 DEF strip_vocabulary_codes, Fields
<1>5. g \in Fields /\ g.subs = u
  <2> HIDE DEF g
  <2> QED
    BY <1>3, <1>4 DEF Fields
<1>6. PICK rows \in SUBSET Lines : rows = {<<code, "">>}
  BY RowIs, Literals
<1>7. Stripped(f, ind, code) = Made(<<g>>, rows)
  BY <1>6 DEF Stripped
<1>8. \A x \in ToSet(f.subs) : x.code \notin Digits => x \in ToSet(u)
  BY <1>3 DEF Digits
<1> HIDE DEF g
<1> QED
  BY <1>5, <1>7, <1>8, MadeOne

\* A list without its last element.
LEMMA FrontIs ==
    ASSUME NEW S, NEW s \in Seq(S), s # <<>>
    PROVE  /\ Front(s) \in Seq(S) /\ Len(Front(s)) = Len(s) - 1 /\ Len(s) \in Nat \ {0}
           /\ \A i \in 1 .. (Len(s) - 1) : Front(s)[i] = s[i]
           /\ Last(s) = s[Len(s)] /\ Last(s) \in S
<1>1. Len(s) \in Nat \ {0}
  OBVIOUS
<1>2. Front(s) = SubSeq(s, 1, Len(s) - 1)
  BY DEF Front
<1>3. 1 \in Int /\ Len(s) - 1 \in Int /\ \A i \in 1 .. (Len(s) - 1) : s[i] \in S /\ 1 + i - 1 = i
  BY <1>1
<1>4. PICK n \in Nat : n = Len(s) - 1
  BY <1>1
<1>5. /\ SubSeq(s, 1, n) \in Seq(S) /\ Len(SubSeq(s, 1, n)) = IF 1 <= n THEN n - 1 + 1 ELSE 0
      /\ \A i \in 1 .. n - 1 + 1 : SubSeq(s, 1, n)[i] = s[1 + i - 1]
  BY <1>3, <1>4, SubSeqProperties
<1>6. /\ Front(s) \in Seq(S) /\ Len(Front(s)) = n
      /\ \A i \in 1 .. n : Front(s)[i] = s[i]
  BY <1>2, <1>3, <1>4, <1>5
<1>7. s[Len(s)] \in S
  BY <1>1
<1> QED
  BY <1>1, <1>4, <1>6, <1>7 DEF Last

\* One round of Chained.
ChainStep(st, s) ==
    IF /\ st.open /\ s.code = "z"
       /\ Last(st.done).code \in {"a", "b", "c", "d", "v", "x", "y", "z"}
       /\ <<Last(st.done).value, s.value>> \in DOMAIN Chains
    THEN [open |-> FALSE,
          done |-> Append(Front(st.done), Sub(Last(st.done).code, Chains[<<Last(st.done).value, s.value>>]))]
    ELSE [open |-> TRUE, done |-> Append(st.done, s)]

\* Where a value may be found again after places and their parts were combined.
Carries(y, t) == y.code \notin Digits /\ (y.value = t \/ \E c \in DOMAIN Chains : t \in ToSet(c) /\ y.value = Chains[c])

\* A term is open only after it was put there.
ChainStates == {st \in [open : BOOLEAN, done : Seq(Subs)] : st.open => st.done # <<>>}

\* Every term of the first k subfields is in one of done; only that of the last of
\* them may be in the one that is still open.
AllCarried(subs, k, st) ==
    /\ st.open => k \in DOMAIN subs /\ st.done[Len(st.done)] = subs[k]
    /\ \A j \in 1 .. k : subs[j].code \notin Digits =>
          \E p \in 1 .. Len(st.done) :
              Carries(st.done[p], subs[j].value) /\ (st.open /\ j < k => p < Len(st.done))

\* The states of Chained.
LEMMA ChainStepType ==
    ASSUME NEW st \in ChainStates, NEW s \in Subs
    PROVE  ChainStep(st, s) \in ChainStates
<1>1. st.done \in Seq(Subs) /\ st.open \in BOOLEAN /\ (st.open => st.done # <<>>)
  BY DEF ChainStates
<1> DEFINE l == Last(st.done)
           part == /\ st.open /\ s.code = "z" /\ l.code \in {"a", "b", "c", "d", "v", "x", "y", "z"}
                   /\ <<l.value, s.value>> \in DOMAIN Chains
<1>2. CASE part
  <2>1. l \in Subs /\ Front(st.done) \in Seq(Subs)
    BY <1>1, <1>2, FrontIs
  <2>2. l.code \in STRING /\ Chains[<<l.value, s.value>>] \in STRING
    BY <1>2, <2>1, ChainsAssumption DEF Subs
  <2>3. PICK e \in Subs : e = Sub(l.code, Chains[<<l.value, s.value>>])
    BY <2>2, SubIs
  <2>4. ChainStep(st, s) = [open |-> FALSE, done |-> Append(Front(st.done), e)]
    BY <1>2, <2>3 DEF ChainStep
  <2>5. Append(Front(st.done), e) \in Seq(Subs)
    BY <2>1, Appended
  <2> QED
    BY <2>4, <2>5 DEF ChainStates
<1>3. CASE ~ part
  <2>1. ChainStep(st, s) = [open |-> TRUE, done |-> Append(st.done, s)]
    BY <1>3 DEF ChainStep
  <2>2. Append(st.done, s) \in Seq(Subs) /\ Append(st.done, s) # <<>>
    <3>1. PICK o \in Seq(Subs) : o = st.done
      BY <1>1
    <3>2. Append(o, s) \in Seq(Subs) /\ Len(Append(o, s)) = Len(o) + 1 /\ Len(o) \in Nat
      BY Appended
    <3> QED
      BY <3>1, <3>2
  <2> QED
    BY <2>1, <2>2 DEF ChainStates
<1> QED
  BY <1>2, <1>3

\* A round of Chained loses no term.
LEMMA ChainStepCarries ==
    ASSUME NEW subs \in Seq(Subs), NEW k \in DOMAIN subs, NEW st \in ChainStates,
           AllCarried(subs, k - 1, st)
    PROVE  AllCarried(subs, k, ChainStep(st, subs[k]))
<1> DEFINE s == subs[k]
           o == st.done
           l == Last(o)
           part == /\ st.open /\ s.code = "z" /\ l.code \in {"a", "b", "c", "d", "v", "x", "y", "z"}
                   /\ <<l.value, s.value>> \in DOMAIN Chains
<1>0. DOMAIN subs = 1 .. Len(subs) /\ Len(subs) \in Nat /\ s \in Subs /\ k \in 1 .. Len(subs)
  BY InSeq
<1>1. o \in Seq(Subs) /\ st.open \in BOOLEAN /\ (st.open => o # <<>>) /\ Len(o) \in Nat
  BY DEF ChainStates
<1>2. /\ st.open => k - 1 \in DOMAIN subs /\ o[Len(o)] = subs[k - 1]
      /\ \A j \in 1 .. (k - 1) : subs[j].code \notin Digits =>
            \E p \in 1 .. Len(o) : Carries(o[p], subs[j].value) /\ (st.open /\ j < k - 1 => p < Len(o))
  BY DEF AllCarried
<1>3. CASE part
  <2>1. /\ Front(o) \in Seq(Subs) /\ Len(Front(o)) = Len(o) - 1 /\ Len(o) \in Nat \ {0}
        /\ \A i \in 1 .. (Len(o) - 1) : Front(o)[i] = o[i]
        /\ l = o[Len(o)] /\ l \in Subs
    BY <1>1, <1>3, FrontIs
  <2>2. l = subs[k - 1] /\ k - 1 \in DOMAIN subs
    BY <1>2, <1>3, <2>1
  <2>3. PICK c \in DOMAIN Chains : c = <<l.value, s.value>>
    BY <1>3
  <2>4. l.code \in STRING /\ l.code \notin Digits /\ Chains[c] \in STRING
    BY <1>3, <2>1, ChainsAssumption DEF Subs, Digits
  <2>5. PICK e \in Subs : e = Sub(l.code, Chains[c]) /\ e.code = l.code /\ e.value = Chains[c]
    BY <2>4, SubIs
  <2>6. PICK t : t = Append(Front(o), e)
    OBVIOUS
  <2>7. ChainStep(st, s) = [open |-> FALSE, done |-> t]
    BY <1>3, <2>3, <2>5, <2>6 DEF ChainStep
  <2>8. Len(t) = Len(o) /\ t[Len(o)] = e /\ \A i \in 1 .. (Len(o) - 1) : t[i] = o[i]
    <3>1. PICK q \in Seq(Subs) : q = Front(o)
      BY <2>1
    <3>2. Len(Append(q, e)) = Len(q) + 1 /\ Append(q, e)[Len(q) + 1] = e /\ \A i \in 1 .. Len(q) : Append(q, e)[i] = q[i]
      BY Appended
    <3>3. Len(q) = Len(o) - 1 /\ Len(q) + 1 = Len(o)
      BY <2>1, <3>1
    <3> HIDE DEF o
    <3> QED
      BY <2>1, <2>6, <3>1, <3>2, <3>3
  <2>9. l.value \in ToSet(c) /\ s.value \in ToSet(c)
    <3>1. 1 \in DOMAIN c /\ 2 \in DOMAIN c /\ c[1] = l.value /\ c[2] = s.value
      BY <2>3
    <3> QED
      BY <3>1 DEF ToSet
  <2>10. Carries(e, l.value) /\ Carries(e, s.value)
    BY <2>4, <2>5, <2>9 DEF Carries
  <2>11. ASSUME NEW j \in 1 .. k, subs[j].code \notin Digits
         PROVE  \E p \in 1 .. Len(t) : Carries(t[p], subs[j].value)
    <3>0. Len(t) \in 1 .. Len(t)
      BY <2>1, <2>8
    <3>1. CASE j = k \/ j = k - 1
      <4>1. Carries(t[Len(t)], subs[j].value)
        BY <2>2, <2>8, <2>10, <3>1
      <4> QED
        BY <3>0, <4>1
    <3>2. CASE j # k /\ j # k - 1
      <4>1. j \in 1 .. (k - 1) /\ j < k - 1
        BY <1>0, <3>2
      <4>2. PICK p \in 1 .. Len(o) : Carries(o[p], subs[j].value) /\ p < Len(o)
        BY <1>2, <1>3, <2>11, <4>1
      <4>3. p \in 1 .. (Len(o) - 1) /\ p \in 1 .. Len(t)
        BY <1>1, <2>8, <4>2
      <4> QED
        BY <2>8, <4>2, <4>3
    <3> QED
      BY <3>1, <3>2
  <2> HIDE DEF o, part, l
  <2> QED
    BY <2>7, <2>11 DEF AllCarried
<1>4. CASE ~ part
  <2>1. PICK t : t = Append(o, s)
    OBVIOUS
  <2>2. ChainStep(st, s) = [open |-> TRUE, done |-> t]
    BY <1>4, <2>1 DEF ChainStep
  <2>3. Len(t) = Len(o) + 1 /\ t[Len(o) + 1] = s /\ \A i \in 1 .. Len(o) : t[i] = o[i]
    <3> HIDE DEF o, s
    <3> QED
      BY <1>0, <1>1, <2>1, Appended
  <2>4. ASSUME NEW j \in 1 .. k, subs[j].code \notin Digits
        PROVE  \E p \in 1 .. Len(t) : Carries(t[p], subs[j].value) /\ (j < k => p < Len(t))
    <3>1. CASE j = k
      <4>1. Carries(t[Len(t)], subs[j].value)
        BY <2>3, <2>4, <3>1 DEF Carries
      <4>2. Len(t) \in 1 .. Len(t) /\ ~ (j < k)
        BY <1>0, <1>1, <2>3, <3>1
      <4> QED
        BY <4>1, <4>2
    <3>2. CASE j # k
      <4>1. j \in 1 .. (k - 1)
        BY <1>0, <3>2
      <4>2. PICK p \in 1 .. Len(o) : Carries(o[p], subs[j].value)
        BY <1>2, <2>4, <4>1
      <4>3. p \in 1 .. Len(t) /\ p < Len(t) /\ t[p] = o[p]
        BY <1>1, <2>3
      <4> QED
        BY <4>2, <4>3
    <3> QED
      BY <3>1, <3>2
  <2>5. t[Len(t)] = subs[k]
    BY <2>3
  <2> HIDE DEF o, part, l
  <2> QED
    BY <2>2, <2>4, <2>5 DEF AllCarried
<1> HIDE DEF part
<1> QED
  BY <1>3, <1>4

\* Chained loses no term: each is carried by a subfield.
LEMMA ChainedIs ==
    ASSUME NEW subs \in Seq(Subs)
    PROVE  /\ Chained(subs) \in Seq(Subs)
           /\ \A x \in ToSet(subs) : x.code \notin Digits => \E y \in ToSet(Chained(subs)) : Carries(y, x.value)
<1> DEFINE seq == subs
           n == Len(seq)
           A == ChainStates
           Op(st, s) == ChainStep(st, s)
           step == [k \in 1 .. n |-> [v \in A |-> Op(v, seq[k])]]
           b == [open |-> FALSE, done |-> <<>>]
           X == FoldLeft(ChainStep, b, subs)
           R(g) == g = [s \in SUBSET (DOMAIN seq) |->
                          IF s = {} THEN b ELSE Op(g[s \ {Max(s)}], seq[Max(s)])]
<1>x. X = (CHOOSE g : R(g))[DOMAIN seq]
  BY DEF FoldLeft, MapThenFoldSet
<1>l. Chained(subs) = X.done
  BY DEF Chained, ChainStep
<1>n. n \in Nat /\ DOMAIN seq = 1 .. n /\ \A k \in 1 .. n : seq[k] \in Subs
  OBVIOUS
<1>b. b \in A /\ AllCarried(subs, 0, b)
  BY DEF ChainStates, AllCarried
<1>c. \A k \in 1 .. n : \A v \in A : Op(v, seq[k]) \in A
  BY <1>n, ChainStepType
<1>4. ASSUME NEW k \in 1 .. n, NEW st \in A, AllCarried(subs, k - 1, st)
      PROVE  AllCarried(subs, k, Op(st, seq[k]))
  BY <1>n, <1>4, ChainStepCarries
<1>a. \A st \in A : st.done \in Seq(Subs)
  BY DEF ChainStates
<1> HIDE DEF Op, A, n, seq, X, b
<1>d. step \in [1 .. n -> [A -> A]]
  BY <1>c
<1>g. PICK g \in [SUBSET (1 .. n) -> A] : IsSetFold(g, n, b, step)
  <2> HIDE DEF step
  <2> QED
    BY <1>n, <1>b, <1>d, SetFold, Zenon
<1>r. R(g)
  <2>1. ASSUME NEW s \in SUBSET (1 .. n)
        PROVE  g[s] = IF s = {} THEN b ELSE Op(g[s \ {Max(s)}], seq[Max(s)])
    <3>1. CASE s # {}
      <4>1. Max(s) \in 1 .. n /\ s \ {Max(s)} \in SUBSET (1 .. n)
        BY <1>n, <3>1, GreatestIs
      <4>2. g[s \ {Max(s)}] \in A
        BY <4>1
      <4>3. g[s] = step[Max(s)][g[s \ {Max(s)}]]
        BY <1>g, <3>1 DEF IsSetFold
      <4> QED
        BY <3>1, <4>1, <4>2, <4>3
    <3>2. CASE s = {}
      BY <1>g, <3>2 DEF IsSetFold
    <3> QED
      BY <3>1, <3>2
  <2> QED
    BY <1>n, <2>1
<1>h. PICK h : R(h) /\ X = h[1 .. n]
  <2> DEFINE c == CHOOSE x : R(x)
  <2>1. R(c)
    BY <1>r
  <2>2. X = c[1 .. n]
    BY <1>x, <1>n
  <2> HIDE DEF c
  <2> QED
    BY <2>1, <2>2
<1>s. \A s \in SUBSET (1 .. n) : h[s] = IF s = {} THEN b ELSE Op(h[s \ {Max(s)}], seq[Max(s)])
  BY <1>n, <1>h
<1>t. \A s \in SUBSET (1 .. n) : s # {} /\ h[s \ {Max(s)}] \in A => h[s] = step[Max(s)][h[s \ {Max(s)}]]
  <2>1. ASSUME NEW s \in SUBSET (1 .. n), s # {}, h[s \ {Max(s)}] \in A
        PROVE  h[s] = step[Max(s)][h[s \ {Max(s)}]]
    <3>1. Max(s) \in 1 .. n
      BY <1>n, <2>1, GreatestIs
    <3> QED
      BY <1>s, <2>1, <3>1
  <2> QED
    BY <2>1
<1>f. PICK f \in [0 .. n -> A] : IsFold(f, n, b, step) /\ f[n] = X
  <2>1. h[{}] = b
    BY <1>s
  <2>2. Follows(h, n, A, b, step)
    BY <1>t, <2>1 DEF Follows
  <2>3. n \in Nat
    BY <1>n
  <2> HIDE DEF step, R
  <2>4. FoldEnds(n, A, b, step, h[1 .. n])
    BY <1>b, <1>d, <2>2, <2>3, ByPrefixes
  <2> QED
    BY <1>h, <2>4 DEF FoldEnds
<1>k. f[0] = b /\ \A k \in 1 .. n : f[k - 1] \in A /\ f[k] \in A /\ f[k] = Op(f[k - 1], seq[k])
  <2>1. f[0] = b
    BY <1>f DEF IsFold
  <2>2. ASSUME NEW k \in 1 .. n PROVE f[k - 1] \in A /\ f[k] \in A /\ f[k] = Op(f[k - 1], seq[k])
    <3>1. f[k - 1] \in A /\ f[k] \in A
      BY <1>n
    <3>2. f[k] = step[k][f[k - 1]]
      BY <1>f DEF IsFold
    <3> QED
      BY <3>1, <3>2
  <2> QED
    BY <2>1, <2>2
<1> DEFINE G == {k \in 0 .. n : AllCarried(subs, k, f[k])}
<1>5. 0 \in G
  BY <1>n, <1>k, <1>b
<1>6. ASSUME NEW k \in 1 .. n, k - 1 \in G PROVE k \in G
  <2>1. f[k - 1] \in A /\ f[k] = Op(f[k - 1], seq[k]) /\ AllCarried(subs, k - 1, f[k - 1])
    BY <1>k, <1>6
  <2>2. k \in 0 .. n
    BY <1>n
  <2> QED
    BY <1>4, <2>1, <2>2
<1>7. n \in G
  <2> HIDE DEF G
  <2>1. n \in Nat
    BY <1>n
  <2>2. \A k \in 0 .. n : k \in G
    BY <1>5, <1>6, <2>1, Induct
  <2> QED
    BY <2>1, <2>2
<1>8. X.done \in Seq(Subs) /\ AllCarried(subs, n, X)
  <2>1. n \in 0 .. n /\ f[n] = X
    BY <1>n, <1>f
  <2>2. f[n] \in A
    BY <2>1
  <2> QED
    BY <1>7, <1>a, <2>1, <2>2
<1>9. ASSUME NEW x \in ToSet(subs), x.code \notin Digits PROVE \E y \in ToSet(X.done) : Carries(y, x.value)
  <2>1. PICK j \in 1 .. n : subs[j] = x
    BY <1>n, InSeq DEF seq
  <2>2. PICK p \in 1 .. Len(X.done) : Carries(X.done[p], x.value)
    BY <1>8, <1>9, <2>1 DEF AllCarried
  <2>3. X.done[p] \in ToSet(X.done)
    BY <1>8, InSeq
  <2> QED
    BY <2>2, <2>3
<1> QED
  BY <1>l, <1>8, <1>9

\* Nothing that was made is lost when all is joined.
LEMMA JoinAllIs ==
    ASSUME NEW mades \in Seq(Mades)
    PROVE  JoinAll(mades) \in Mades /\ \A i \in DOMAIN mades : Told(mades[i]) \subseteq Told(JoinAll(mades))
<1> DEFINE seq == mades
           n == Len(seq)
           A == Mades
           Op(v, s) == Join(v, s)
           step == [k \in 1 .. n |-> [v \in A |-> Op(v, seq[k])]]
           b == Nothing
           X == JoinAll(mades)
           R(g) == g = [s \in SUBSET (DOMAIN seq) |->
                          IF s = {} THEN b ELSE Op(g[s \ {Max(s)}], seq[Max(s)])]
<1>x. X = (CHOOSE g : R(g))[DOMAIN seq]
  BY DEF JoinAll, FoldLeft, MapThenFoldSet
<1>n. n \in Nat /\ DOMAIN seq = 1 .. n /\ \A k \in 1 .. n : seq[k] \in Mades
  OBVIOUS
<1>b. b \in A
  BY NothingIs
<1>c. \A k \in 1 .. n : \A v \in A : Op(v, seq[k]) \in A
  BY <1>n, JoinIs
<1>4. ASSUME NEW k \in 1 .. n, NEW v \in A
      PROVE  Told(Op(v, seq[k])) = Told(v) \union Told(seq[k])
  BY <1>n, JoinIs
<1> HIDE DEF Op, A, n, seq, X, b
<1>d. step \in [1 .. n -> [A -> A]]
  BY <1>c
<1>g. PICK g \in [SUBSET (1 .. n) -> A] : IsSetFold(g, n, b, step)
  <2> HIDE DEF step
  <2> QED
    BY <1>n, <1>b, <1>d, SetFold, Zenon
<1>r. R(g)
  <2>1. ASSUME NEW s \in SUBSET (1 .. n)
        PROVE  g[s] = IF s = {} THEN b ELSE Op(g[s \ {Max(s)}], seq[Max(s)])
    <3>1. CASE s # {}
      <4>1. Max(s) \in 1 .. n /\ s \ {Max(s)} \in SUBSET (1 .. n)
        BY <1>n, <3>1, GreatestIs
      <4>2. g[s \ {Max(s)}] \in A
        BY <4>1
      <4>3. g[s] = step[Max(s)][g[s \ {Max(s)}]]
        BY <1>g, <3>1 DEF IsSetFold
      <4> QED
        BY <3>1, <4>1, <4>2, <4>3
    <3>2. CASE s = {}
      BY <1>g, <3>2 DEF IsSetFold
    <3> QED
      BY <3>1, <3>2
  <2> QED
    BY <1>n, <2>1
<1>h. PICK h : R(h) /\ X = h[1 .. n]
  <2> DEFINE c == CHOOSE x : R(x)
  <2>1. R(c)
    BY <1>r
  <2>2. X = c[1 .. n]
    BY <1>x, <1>n
  <2> HIDE DEF c
  <2> QED
    BY <2>1, <2>2
<1>s. \A s \in SUBSET (1 .. n) : h[s] = IF s = {} THEN b ELSE Op(h[s \ {Max(s)}], seq[Max(s)])
  BY <1>n, <1>h
<1>t. \A s \in SUBSET (1 .. n) : s # {} /\ h[s \ {Max(s)}] \in A => h[s] = step[Max(s)][h[s \ {Max(s)}]]
  <2>1. ASSUME NEW s \in SUBSET (1 .. n), s # {}, h[s \ {Max(s)}] \in A
        PROVE  h[s] = step[Max(s)][h[s \ {Max(s)}]]
    <3>1. Max(s) \in 1 .. n
      BY <1>n, <2>1, GreatestIs
    <3> QED
      BY <1>s, <2>1, <3>1
  <2> QED
    BY <2>1
<1>f. PICK f \in [0 .. n -> A] : IsFold(f, n, b, step) /\ f[n] = X
  <2>1. h[{}] = b
    BY <1>s
  <2>2. Follows(h, n, A, b, step)
    BY <1>t, <2>1 DEF Follows
  <2>3. n \in Nat
    BY <1>n
  <2> HIDE DEF step, R
  <2>4. FoldEnds(n, A, b, step, h[1 .. n])
    BY <1>b, <1>d, <2>2, <2>3, ByPrefixes
  <2> QED
    BY <1>h, <2>4 DEF FoldEnds
<1>k. f[0] = b /\ \A k \in 1 .. n : f[k - 1] \in A /\ f[k] \in A /\ f[k] = Op(f[k - 1], seq[k])
  <2>1. f[0] = b
    BY <1>f DEF IsFold
  <2>2. ASSUME NEW k \in 1 .. n PROVE f[k - 1] \in A /\ f[k] \in A /\ f[k] = Op(f[k - 1], seq[k])
    <3>1. f[k - 1] \in A /\ f[k] \in A
      BY <1>n
    <3>2. f[k] = step[k][f[k - 1]]
      BY <1>f DEF IsFold
    <3> QED
      BY <3>1, <3>2
  <2> QED
    BY <2>1, <2>2
<1> DEFINE G == {k \in 0 .. n : \A i \in 1 .. k : Told(seq[i]) \subseteq Told(f[k])}
<1>5. 0 \in G
  BY <1>n
<1>6. ASSUME NEW k \in 1 .. n, k - 1 \in G PROVE k \in G
  <2>1. Told(f[k]) = Told(f[k - 1]) \union Told(seq[k])
    BY <1>k, <1>4
  <2>2. k \in 0 .. n /\ \A i \in 1 .. k : i = k \/ i \in 1 .. (k - 1)
    BY <1>n
  <2> QED
    BY <1>6, <2>1, <2>2
<1>7. n \in G
  <2> HIDE DEF G
  <2>1. n \in Nat
    BY <1>n
  <2>2. \A k \in 0 .. n : k \in G
    BY <1>5, <1>6, <2>1, Induct
  <2> QED
    BY <2>1, <2>2
<1>8. n \in 0 .. n /\ f[n] \in A
  BY <1>n
<1> QED
  BY <1>f, <1>n, <1>7, <1>8 DEF A, X, seq

\* The subfields process_field works on carry the terms of the field.
Renamed567(f) == f.tag = "567" /\ ~ Has(f.subs, "b") /\ Filled(f.subs, "a")

\* Subfields loses no term either.
LEMMA SubfieldsAre ==
    ASSUME NEW f \in Fields
    PROVE  /\ Subfields(f) \in Seq(Subs)
           /\ \A x \in ToSet(f.subs) : x.code \notin Digits => \E y \in ToSet(Subfields(f)) : Carries(y, x.value)
           /\ f.tag \notin {"567", "650", "651"} => Subfields(f) = f.subs
           /\ f.tag = "567" /\ ~ Renamed567(f) => Subfields(f) = f.subs
           /\ Renamed567(f) => \A x \in ToSet(f.subs) : x.code = "a" =>
                 \E y \in ToSet(Subfields(f)) : y.code = "b" /\ y.value = x.value
<1>1. PICK s \in Seq(Subs) : s = f.subs
  BY DEF Fields
<1>2. DOMAIN s = 1 .. Len(s) /\ Len(s) \in Nat /\ \A i \in DOMAIN s : s[i] \in Subs
  BY InSeq
<1>3. CASE Renamed567(f)
  <2> DEFINE t == [i \in DOMAIN s |-> IF s[i].code = "a" THEN [s[i] EXCEPT !.code = "b"] ELSE s[i]]
  <2>1. Subfields(f) = t
    BY <1>1, <1>3, Zenon DEF Subfields, Renamed567
  <2>2. ASSUME NEW i \in DOMAIN s
        PROVE  /\ t[i] \in Subs /\ t[i].value = s[i].value
               /\ t[i].code = IF s[i].code = "a" THEN "b" ELSE s[i].code
    <3>1. PICK e \in Subs : e = s[i]
      BY <1>2
    <3>2. /\ [e EXCEPT !.code = "b"] \in Subs /\ [e EXCEPT !.code = "b"].value = e.value
          /\ [e EXCEPT !.code = "b"].code = "b"
      BY Literals DEF Subs
    <3>3. t[i] = IF e.code = "a" THEN [e EXCEPT !.code = "b"] ELSE e
      BY <3>1
    <3> HIDE DEF t
    <3> QED
      BY <3>1, <3>2, <3>3
  <2>3. t \in Seq(Subs) /\ DOMAIN t = DOMAIN s
    <3>1. t \in [1 .. Len(s) -> Subs]
      BY <1>2, <2>2
    <3> HIDE DEF t
    <3> QED
      BY <1>2, <3>1, SeqDef
  <2> HIDE DEF t
  <2>4. ASSUME NEW x \in ToSet(s)
        PROVE  \E y \in ToSet(t) : y.value = x.value /\ y.code = IF x.code = "a" THEN "b" ELSE x.code
    <3>1. PICK i \in DOMAIN s : s[i] = x
      BY InSeq
    <3>2. t[i] \in ToSet(t)
      BY <2>3, InSeq
    <3> QED
      BY <2>2, <3>1, <3>2
  <2>5. "a" \notin Digits /\ "b" \notin Digits
    BY DEF Digits
  <2>6. \A x \in ToSet(s) : x.code \notin Digits => \E y \in ToSet(t) : Carries(y, x.value)
    BY <2>4, <2>5 DEF Carries
  <2>7. \A x \in ToSet(s) : x.code = "a" => \E y \in ToSet(t) : y.code = "b" /\ y.value = x.value
    BY <2>4
  <2> QED
    BY <1>1, <1>3, <2>1, <2>3, <2>6, <2>7 DEF Renamed567
<1>4. CASE ~ Renamed567(f) /\ f.tag \in {"650", "651"}
  <2>1. Subfields(f) = Chained(s)
    <3>1. ~ (f.tag = "567" /\ ~ Has(f.subs, "b") /\ Filled(f.subs, "a"))
      BY <1>4 DEF Renamed567
    <3> QED
      BY <1>1, <1>4, <3>1, Zenon DEF Subfields
  <2> QED
    BY <1>1, <1>4, <2>1, ChainedIs
<1>5. CASE ~ Renamed567(f) /\ f.tag \notin {"650", "651"}
  <2>1. Subfields(f) = s
    <3>1. ~ (f.tag = "567" /\ ~ Has(f.subs, "b") /\ Filled(f.subs, "a"))
      BY <1>5 DEF Renamed567
    <3> QED
      BY <1>1, <1>5, <3>1, Zenon DEF Subfields
  <2>2. \A x \in ToSet(s) : x.code \notin Digits => Carries(x, x.value)
    BY DEF Carries
  <2> QED
    BY <1>1, <1>5, <2>1, <2>2
<1> QED
  BY <1>3, <1>4, <1>5

\* One round of MovieField.
MovieStep(f, voc, rec, st, s) ==
    LET main == s.code \in {"a", "x"}
        topics == st.topics /\ ~ (s.code = "a" /\ s.value = "elokuvat")
        subjects == main /\ f.tag = "650" /\ s.value = "aiheet"
    IN [topics |-> topics \/ subjects,
        made |-> Join(st.made, IF subjects THEN Logged("6", s.value)
                               ELSE process_subfield(f, s, [Context(voc, rec) EXCEPT !.topics = topics]))]

\* The states of MovieField.
MovieStates == [topics : BOOLEAN, made : Mades]

\* A round of MovieField tells its term.
LEMMA MovieStepIs ==
    ASSUME NEW f \in Fields, NEW voc, NEW rec, NEW st \in MovieStates, NEW s \in Subs
    PROVE  /\ MovieStep(f, voc, rec, st, s) \in MovieStates
           /\ Told(st.made) \union {s.value} \subseteq Told(MovieStep(f, voc, rec, st, s).made)
<1> DEFINE main == s.code \in {"a", "x"}
           topics == st.topics /\ ~ (s.code = "a" /\ s.value = "elokuvat")
           subjects == main /\ f.tag = "650" /\ s.value = "aiheet"
           cx == [Context(voc, rec) EXCEPT !.topics = topics]
           more == IF subjects THEN Logged("6", s.value) ELSE process_subfield(f, s, cx)
           next == topics \/ subjects
<1>1. st.made \in Mades
  BY DEF MovieStates
<1>2. MovieStep(f, voc, rec, st, s) = [topics |-> next, made |-> Join(st.made, more)]
  BY DEF MovieStep
<1>3. next \in BOOLEAN
  OBVIOUS
<1>4. more \in Mades /\ s.value \in Told(more)
  <2>1. s.value \in STRING
    BY DEF Subs
  <2> HIDE DEF subjects, cx
  <2> QED
    BY <2>1, SubfieldIs, LoggedIs, Literals
<1> HIDE DEF more, next
<1>5. Join(st.made, more) \in Mades /\ Told(Join(st.made, more)) = Told(st.made) \union Told(more)
  BY <1>1, <1>4, JoinIs
<1> QED
  BY <1>2, <1>3, <1>4, <1>5 DEF MovieStates

\* Every term of a field of a film is told.
LEMMA MovieFieldIs ==
    ASSUME NEW fd \in Fields, NEW subs \in Seq(Subs), NEW voc, NEW rec
    PROVE  /\ MovieField(fd, subs, voc, rec) \in Mades
           /\ \A s \in ToSet(Letters(subs)) : s.value \in Told(MovieField(fd, subs, voc, rec))
<1> DEFINE seq == Letters(subs)
           n == Len(seq)
           A == MovieStates
           Op(v, s) == MovieStep(fd, voc, rec, v, s)
           step == [k \in 1 .. n |-> [v \in A |-> Op(v, seq[k])]]
           b == [topics |-> TRUE, made |-> Nothing]
           X == FoldLeft(LAMBDA v, s : MovieStep(fd, voc, rec, v, s), b, seq)
           R(g) == g = [s \in SUBSET (DOMAIN seq) |->
                          IF s = {} THEN b ELSE Op(g[s \ {Max(s)}], seq[Max(s)])]
<1>x. X = (CHOOSE g : R(g))[DOMAIN seq]
  BY DEF FoldLeft, MapThenFoldSet
<1>l. MovieField(fd, subs, voc, rec) = add_control_subfields(X.made, Control(fd))
  BY DEF MovieField, MovieStep
<1>n. seq \in Seq(Subs) /\ n \in Nat /\ DOMAIN seq = 1 .. n /\ \A k \in 1 .. n : seq[k] \in Subs
  BY LettersAre
<1>b. b \in A
  BY NothingIs DEF MovieStates
<1>c. \A k \in 1 .. n : \A v \in A : Op(v, seq[k]) \in A
  BY <1>n, MovieStepIs
<1>4. ASSUME NEW k \in 1 .. n, NEW v \in A
      PROVE  Told(v.made) \union {seq[k].value} \subseteq Told(Op(v, seq[k]).made)
  BY <1>n, MovieStepIs
<1>a. \A v \in A : v.made \in Mades
  BY DEF MovieStates
<1> HIDE DEF Op, A, n, seq, X, b
<1>d. step \in [1 .. n -> [A -> A]]
  BY <1>c
<1>g. PICK g \in [SUBSET (1 .. n) -> A] : IsSetFold(g, n, b, step)
  <2> HIDE DEF step
  <2> QED
    BY <1>n, <1>b, <1>d, SetFold, Zenon
<1>r. R(g)
  <2>1. ASSUME NEW s \in SUBSET (1 .. n)
        PROVE  g[s] = IF s = {} THEN b ELSE Op(g[s \ {Max(s)}], seq[Max(s)])
    <3>1. CASE s # {}
      <4>1. Max(s) \in 1 .. n /\ s \ {Max(s)} \in SUBSET (1 .. n)
        BY <1>n, <3>1, GreatestIs
      <4>2. g[s \ {Max(s)}] \in A
        BY <4>1
      <4>3. g[s] = step[Max(s)][g[s \ {Max(s)}]]
        BY <1>g, <3>1 DEF IsSetFold
      <4> QED
        BY <3>1, <4>1, <4>2, <4>3
    <3>2. CASE s = {}
      BY <1>g, <3>2 DEF IsSetFold
    <3> QED
      BY <3>1, <3>2
  <2> QED
    BY <1>n, <2>1
<1>h. PICK h : R(h) /\ X = h[1 .. n]
  <2> DEFINE c == CHOOSE x : R(x)
  <2>1. R(c)
    BY <1>r
  <2>2. X = c[1 .. n]
    BY <1>x, <1>n
  <2> HIDE DEF c
  <2> QED
    BY <2>1, <2>2
<1>s. \A s \in SUBSET (1 .. n) : h[s] = IF s = {} THEN b ELSE Op(h[s \ {Max(s)}], seq[Max(s)])
  BY <1>n, <1>h
<1>t. \A s \in SUBSET (1 .. n) : s # {} /\ h[s \ {Max(s)}] \in A => h[s] = step[Max(s)][h[s \ {Max(s)}]]
  <2>1. ASSUME NEW s \in SUBSET (1 .. n), s # {}, h[s \ {Max(s)}] \in A
        PROVE  h[s] = step[Max(s)][h[s \ {Max(s)}]]
    <3>1. Max(s) \in 1 .. n
      BY <1>n, <2>1, GreatestIs
    <3> QED
      BY <1>s, <2>1, <3>1
  <2> QED
    BY <2>1
<1>f. PICK f \in [0 .. n -> A] : IsFold(f, n, b, step) /\ f[n] = X
  <2>1. h[{}] = b
    BY <1>s
  <2>2. Follows(h, n, A, b, step)
    BY <1>t, <2>1 DEF Follows
  <2>3. n \in Nat
    BY <1>n
  <2> HIDE DEF step, R
  <2>4. FoldEnds(n, A, b, step, h[1 .. n])
    BY <1>b, <1>d, <2>2, <2>3, ByPrefixes
  <2> QED
    BY <1>h, <2>4 DEF FoldEnds
<1>k. f[0] = b /\ \A k \in 1 .. n : f[k - 1] \in A /\ f[k] \in A /\ f[k] = Op(f[k - 1], seq[k])
  <2>1. f[0] = b
    BY <1>f DEF IsFold
  <2>2. ASSUME NEW k \in 1 .. n PROVE f[k - 1] \in A /\ f[k] \in A /\ f[k] = Op(f[k - 1], seq[k])
    <3>1. f[k - 1] \in A /\ f[k] \in A
      BY <1>n
    <3>2. f[k] = step[k][f[k - 1]]
      BY <1>f DEF IsFold
    <3> QED
      BY <3>1, <3>2
  <2> QED
    BY <2>1, <2>2
<1> DEFINE G == {k \in 0 .. n : \A i \in 1 .. k : seq[i].value \in Told(f[k].made)}
<1>5. 0 \in G
  BY <1>n
<1>6. ASSUME NEW k \in 1 .. n, k - 1 \in G PROVE k \in G
  <2>1. Told(f[k - 1].made) \union {seq[k].value} \subseteq Told(f[k].made)
    BY <1>k, <1>4
  <2>2. k \in 0 .. n /\ \A i \in 1 .. k : i = k \/ i \in 1 .. (k - 1)
    BY <1>n
  <2> QED
    BY <1>6, <2>1, <2>2
<1>7. n \in G
  <2> HIDE DEF G
  <2>1. n \in Nat
    BY <1>n
  <2>2. \A k \in 0 .. n : k \in G
    BY <1>5, <1>6, <2>1, Induct
  <2> QED
    BY <2>1, <2>2
<1>8. X.made \in Mades /\ \A i \in 1 .. n : seq[i].value \in Told(X.made)
  <2>1. n \in 0 .. n /\ f[n] \in A
    BY <1>n
  <2> QED
    BY <1>f, <1>a, <1>7, <2>1
<1>9. \A s \in ToSet(seq) : s.value \in Told(X.made)
  BY <1>n, <1>8, InSeq
<1> QED
  BY <1>l, <1>8, <1>9, ControlIs, ControlledIs DEF seq

-----------------------------------------------------------------------------
(* MusicField                                                              *)

\* Whether a term has become an instrument.
Played(lists, v) == \E i \in DOMAIN lists : \E x \in ToSet(lists[i]) : x.code = "a" /\ x.value = v
\* The states of MusicField: a list that is open is there.
MusicStates ==
    {st \in [topics : BOOLEAN, genre : BOOLEAN, subjects : BOOLEAN, open : BOOLEAN,
             lists : Seq(Seq(Subs)), made : Mades] : st.open => st.lists # <<>>}
Holds(st, v) == v \in Told(st.made) \/ Played(st.lists, v)
\* What one round leaves: a state that holds what the one before held, and v.
Keeps(old, st, v) == st \in MusicStates /\ Holds(st, v) /\ \A t \in STRING : Holds(old, t) => Holds(st, t)

\* The parts of a state of MusicField.
LEMMA MusicStateIs ==
    ASSUME NEW st \in MusicStates
    PROVE  /\ st.topics \in BOOLEAN /\ st.genre \in BOOLEAN /\ st.subjects \in BOOLEAN /\ st.open \in BOOLEAN
           /\ st.lists \in Seq(Seq(Subs)) /\ st.made \in Mades /\ (st.open => st.lists # <<>>)
  BY DEF MusicStates

\* States made from a state.
LEMMA MusicStateNext ==
    ASSUME NEW st \in MusicStates
    PROVE  /\ \A made \in Mades : [st EXCEPT !.made = made] \in MusicStates
           /\ \A made \in Mades : [st EXCEPT !.topics = TRUE, !.subjects = TRUE, !.made = made] \in MusicStates
           /\ [st EXCEPT !.open = FALSE] \in MusicStates
<1>1. ASSUME NEW made \in Mades PROVE [st EXCEPT !.made = made] \in MusicStates
  BY DEF MusicStates
<1>2. ASSUME NEW made \in Mades PROVE [st EXCEPT !.topics = TRUE, !.subjects = TRUE, !.made = made] \in MusicStates
  BY DEF MusicStates
<1>3. [st EXCEPT !.open = FALSE] \in MusicStates
  BY DEF MusicStates
<1> QED
  BY <1>1, <1>2, <1>3

\* A state that was judged anew.
LEMMA MusicStateJudged ==
    ASSUME NEW st \in MusicStates, NEW made \in Mades, NEW t \in BOOLEAN, NEW g \in BOOLEAN
    PROVE  [st EXCEPT !.made = made, !.genre = g, !.topics = t] \in MusicStates
  BY DEF MusicStates

\* A state with an open list.
LEMMA MusicStateOpen ==
    ASSUME NEW st \in MusicStates, NEW lists \in Seq(Seq(Subs)), lists # <<>>
    PROVE  [st EXCEPT !.open = TRUE, !.lists = lists] \in MusicStates
  BY DEF MusicStates

\* A state with more made holds as much.
LEMMA MoreMade ==
    ASSUME NEW st \in MusicStates, NEW made \in Mades, NEW v \in Told(made),
           NEW next \in MusicStates, next.lists = st.lists, next.made = Join(st.made, made)
    PROVE  Keeps(st, next, v)
<1>1. Told(next.made) = Told(st.made) \union Told(made)
  BY MusicStateIs, JoinIs
<1> QED
  BY <1>1 DEF Keeps, Holds

\* Judging what was made takes nothing away.
LEMMA JudgedKeeps ==
    ASSUME NEW st \in MusicStates, NEW main, NEW made \in Mades, NEW v \in Told(made)
    PROVE  Keeps(st, Judged(st, main, made), v)
<1> DEFINE codes == IF main /\ made.fields # <<>> THEN Values(made.fields[1].subs, "2") ELSE {}
           genre == st.genre \/ (~ st.topics /\ codes \intersect {"slm/fin", "slm/swe"} # {})
           topics == st.topics \/ (~ genre /\ codes \intersect {"yso/fin", "yso/swe"} # {})
           more == Join(st.made, made)
           next == [st EXCEPT !.made = more, !.genre = genre, !.topics = topics]
<1>1. genre \in BOOLEAN /\ topics \in BOOLEAN
  OBVIOUS
<1>2. more \in Mades
  BY MusicStateIs, JoinIs
<1>3. Judged(st, main, made) = next
  BY DEF Judged, MusicStates
<1> HIDE DEF genre, topics
<1>4. next \in MusicStates
  BY <1>1, <1>2, MusicStateJudged
<1>5. next.lists = st.lists /\ next.made = more
  BY DEF MusicStates
<1> HIDE DEF next, codes
<1> QED
  BY <1>3, <1>4, <1>5, MoreMade

\* An instrument is added to the open list or begins one.
LEMMA InstrumentKeeps ==
    ASSUME NEW st \in MusicStates, NEW s \in Subs
    PROVE  Keeps(st, Instrument(st, s), s.value)
<1>1. PICK x \in Subs : x = Sub("a", s.value) /\ x.code = "a" /\ x.value = s.value
  <2>1. s.value \in STRING
    BY DEF Subs
  <2>2. "a" \in STRING
    BY Literals
  <2> QED
    BY <2>1, <2>2, SubIs
<1> DEFINE o == st.lists
           lists == IF st.open THEN Append(Front(o), Append(Last(o), x)) ELSE Append(o, <<x>>)
           next == [st EXCEPT !.open = TRUE, !.lists = lists]
<1>2. Instrument(st, s) = next
  BY <1>1 DEF Instrument, MusicStates
<1>3. o \in Seq(Seq(Subs)) /\ (st.open => o # <<>>)
  BY MusicStateIs
<1>4. /\ lists \in Seq(Seq(Subs)) /\ lists # <<>> /\ Played(lists, s.value)
      /\ \A v \in STRING : Played(o, v) => Played(lists, v)
  <2>1. CASE st.open
    <3> DEFINE front == Front(o)
               last == Last(o)
    <3>1. /\ front \in Seq(Seq(Subs)) /\ last \in Seq(Subs)
          /\ Len(front) = Len(o) - 1 /\ Len(o) \in Nat \ {0}
          /\ \A i \in 1 .. (Len(o) - 1) : front[i] = o[i]
          /\ last = o[Len(o)]
      <4>1. PICK T : T = Seq(Subs)
        OBVIOUS
      <4>2. o \in Seq(T) /\ o # <<>>
        BY <1>3, <2>1, <4>1
      <4> HIDE DEF o
      <4>3. /\ Front(o) \in Seq(T) /\ Len(Front(o)) = Len(o) - 1 /\ Len(o) \in Nat \ {0}
            /\ \A i \in 1 .. (Len(o) - 1) : Front(o)[i] = o[i]
            /\ Last(o) = o[Len(o)] /\ Last(o) \in T
        BY <4>2, FrontIs
      <4> QED
        BY <4>1, <4>3
    <3>0. lists = Append(front, Append(last, x))
      BY <2>1
    <3> HIDE DEF front, last
    <3>2. PICK new \in Seq(Subs) : new = Append(last, x) /\ ToSet(new) = ToSet(last) \union {x}
      <4>1. Append(last, x) \in Seq(Subs)
        BY <3>1, Appended
      <4>2. ToSet(Append(last, x)) = ToSet(last) \union {x}
        BY <3>1, SetOfAppend
      <4> QED
        BY <4>1, <4>2
    <3>3. lists = Append(front, new)
      BY <3>0, <3>2
    <3>4. /\ Append(front, new) \in Seq(Seq(Subs)) /\ Len(Append(front, new)) = Len(o)
          /\ Append(front, new)[Len(o)] = new
          /\ \A i \in 1 .. (Len(o) - 1) : Append(front, new)[i] = o[i]
      <4>1. /\ Append(front, new) \in Seq(Seq(Subs)) /\ Len(Append(front, new)) = Len(front) + 1
            /\ Append(front, new)[Len(front) + 1] = new
            /\ \A i \in 1 .. Len(front) : Append(front, new)[i] = front[i]
        <5>1. PICK T : T = Seq(Subs)
          OBVIOUS
        <5>2. front \in Seq(T) /\ new \in T
          BY <3>1, <5>1
        <5>3. /\ Append(front, new) \in Seq(T) /\ Len(Append(front, new)) = Len(front) + 1
              /\ Append(front, new)[Len(front) + 1] = new
              /\ \A i \in 1 .. Len(front) : Append(front, new)[i] = front[i]
          BY <5>2, Appended
        <5> QED
          BY <5>1, <5>3
      <4>2. Len(front) + 1 = Len(o)
        BY <3>1
      <4> QED
        BY <3>1, <4>1, <4>2
    <3> HIDE DEF lists, o
    <3>5. lists \in Seq(Seq(Subs)) /\ DOMAIN lists = 1 .. Len(o) /\ DOMAIN o = 1 .. Len(o)
      BY <1>3, <3>3, <3>4
    <3>6. lists[Len(o)] = new /\ \A i \in 1 .. (Len(o) - 1) : lists[i] = o[i]
      BY <3>3, <3>4
    <3>7. Len(o) \in DOMAIN lists /\ lists # <<>>
      BY <3>1, <3>3, <3>4, <3>5
    <3>8. Played(lists, s.value)
      <4>1. x \in ToSet(lists[Len(o)])
        BY <3>2, <3>6
      <4> QED
        BY <1>1, <3>7, <4>1 DEF Played
    <3>9. ASSUME NEW v \in STRING, Played(o, v) PROVE Played(lists, v)
      <4>1. PICK i \in DOMAIN o : \E y \in ToSet(o[i]) : y.code = "a" /\ y.value = v
        BY <3>9 DEF Played
      <4>2. ToSet(o[i]) \subseteq ToSet(lists[i])
        <5>1. CASE i = Len(o)
          BY <3>1, <3>2, <3>6, <5>1
        <5>2. CASE i # Len(o)
          <6>1. i \in 1 .. (Len(o) - 1)
            BY <3>1, <3>5, <5>2
          <6> QED
            BY <3>6, <6>1
        <5> QED
          BY <5>1, <5>2
      <4> QED
        BY <3>5, <4>1, <4>2 DEF Played
    <3> QED
      BY <3>5, <3>7, <3>8, <3>9
  <2>2. CASE ~ st.open
    <3>1. PICK new \in Seq(Subs) : new = <<x>> /\ ToSet(new) = {x}
      BY SetOfOne
    <3>2. lists = Append(o, new)
      BY <2>2, <3>1
    <3>3. /\ Append(o, new) \in Seq(Seq(Subs)) /\ Len(Append(o, new)) = Len(o) + 1
          /\ Append(o, new)[Len(o) + 1] = new
          /\ \A i \in 1 .. Len(o) : Append(o, new)[i] = o[i]
      <4> HIDE DEF o
      <4> QED
        BY <1>3, Appended
    <3> HIDE DEF lists
    <3>4. /\ lists \in Seq(Seq(Subs)) /\ DOMAIN lists = 1 .. (Len(o) + 1) /\ DOMAIN o = 1 .. Len(o)
          /\ Len(o) \in Nat /\ lists # <<>>
      <4>1. PICK l \in Seq(Seq(Subs)) : l = lists /\ Len(l) = Len(o) + 1
        BY <3>2, <3>3
      <4>2. Len(o) \in Nat /\ DOMAIN o = 1 .. Len(o)
        BY <1>3
      <4>3. DOMAIN l = 1 .. Len(l) /\ l # <<>>
        BY <4>1, <4>2
      <4> QED
        BY <4>1, <4>2, <4>3
    <3>5. lists[Len(o) + 1] = new /\ \A i \in 1 .. Len(o) : lists[i] = o[i]
      BY <3>2, <3>3
    <3>6. Played(lists, s.value)
      <4>1. x \in ToSet(lists[Len(o) + 1]) /\ Len(o) + 1 \in DOMAIN lists
        BY <3>1, <3>4, <3>5
      <4> QED
        BY <1>1, <4>1 DEF Played
    <3>7. ASSUME NEW v \in STRING, Played(o, v) PROVE Played(lists, v)
      <4>1. PICK i \in DOMAIN o : \E y \in ToSet(o[i]) : y.code = "a" /\ y.value = v
        BY <3>7 DEF Played
      <4>2. i \in DOMAIN lists /\ lists[i] = o[i]
        BY <3>4, <3>5
      <4> QED
        BY <4>1, <4>2 DEF Played
    <3> QED
      BY <3>4, <3>6, <3>7
  <2> QED
    BY <2>1, <2>2
<1> HIDE DEF lists
<1>5. next \in MusicStates
  BY <1>4, MusicStateOpen
<1>6. next.lists = lists /\ next.made = st.made
  BY DEF MusicStates
<1> HIDE DEF next
<1> QED
  BY <1>2, <1>4, <1>5, <1>6 DEF Keeps, Holds

\* A term of music is told or played.
LEMMA MusicTermKeeps ==
    ASSUME NEW f \in Fields, NEW voc, NEW rec, NEW st \in MusicStates, NEW s \in Subs
    PROVE  Keeps(st, MusicTerm(f, voc, rec, st, s), s.value)
<1> DEFINE main == s.code \in {"a", "x"}
           next == MusicTerm(f, voc, rec, st, s)
<1>1. PICK logged \in Mades : logged = Logged("6", s.value) /\ s.value \in Told(logged)
  <2>1. s.value \in STRING
    BY DEF Subs
  <2> QED
    BY <2>1, LoggedIs, Literals
<1>2. PICK more \in Mades : more = Join(st.made, logged)
  BY MusicStateIs, JoinIs
<1>3. CASE main /\ s.value = "aiheet" /\ f.tag = "650"
  <2>1. next = [st EXCEPT !.topics = TRUE, !.subjects = TRUE, !.made = more]
    BY <1>1, <1>2, <1>3 DEF MusicTerm, MusicStates
  <2>2. next \in MusicStates
    BY <2>1, MusicStateNext
  <2>3. next.lists = st.lists /\ next.made = more
    BY <2>1 DEF MusicStates
  <2> HIDE DEF next
  <2>4. Keeps(st, next, s.value)
    BY <1>1, <1>2, <2>2, <2>3, MoreMade
  <2> QED
    BY <2>4 DEF next
<1>4. CASE ~ (main /\ s.value = "aiheet" /\ f.tag = "650") /\ main /\ s.value = "musiikki"
  <2>1. next = [st EXCEPT !.made = more]
    BY <1>1, <1>2, <1>4 DEF MusicTerm, MusicStates
  <2>2. next \in MusicStates
    BY <2>1, MusicStateNext
  <2>3. next.lists = st.lists /\ next.made = more
    BY <2>1 DEF MusicStates
  <2> HIDE DEF next
  <2>4. Keeps(st, next, s.value)
    BY <1>1, <1>2, <2>2, <2>3, MoreMade
  <2> QED
    BY <2>4 DEF next
<1>5. CASE /\ ~ (main /\ s.value = "aiheet" /\ f.tag = "650") /\ ~ (main /\ s.value = "musiikki")
           /\ main /\ ~ st.subjects /\ s.value # "" /\ Entry["seko"][s.value] = "concept"
  <2>1. next = Instrument(st, s)
    BY <1>5 DEF MusicTerm
  <2> QED
    BY <2>1, InstrumentKeeps
<1>6. CASE /\ ~ (main /\ s.value = "aiheet" /\ f.tag = "650") /\ ~ (main /\ s.value = "musiikki")
           /\ ~ (main /\ ~ st.subjects /\ s.value # "" /\ Entry["seko"][s.value] = "concept")
  <2> DEFINE cx == [Context(voc, rec) EXCEPT !.topics = st.topics]
  <2>1. PICK made \in Mades : made = process_subfield(f, s, cx) /\ s.value \in Told(made)
    <3> HIDE DEF cx
    <3> QED
      BY SubfieldIs
  <2>2. next = Judged(st, main /\ f.tag = "650", made)
    BY <1>6, <2>1 DEF MusicTerm
  <2> QED
    BY <2>1, <2>2, JudgedKeeps
<1> QED
  BY <1>3, <1>4, <1>5, <1>6

\* The lists of instruments become fields 382.
LEMMA WithInstrumentsIs ==
    ASSUME NEW made \in Mades, NEW lists \in Seq(Seq(Subs)), NEW voc,
           NEW r, r = WithInstruments(made, lists, voc)
    PROVE  /\ r \in Mades /\ Told(made) \subseteq Told(r)
           /\ \A v \in STRING : Played(lists, v) => v \in Told(r)
<1> DEFINE source == IF voc \in {"allars", "cilla"} THEN <<>> ELSE <<Sub("2", "seko")>>
           more == [i \in DOMAIN lists |-> [tag |-> "382", ind |-> <<"1", "1">>, subs |-> lists[i] \o source]]
<1>1. source \in Seq(Subs)
  <2>1. Sub("2", "seko") \in Subs
    BY SubIs, Literals
  <2> QED
    BY <2>1, SetOfOne
<1>2. r = [made EXCEPT !.fields = made.fields \o more]
  BY DEF WithInstruments, Mades
<1> HIDE DEF source
<1>3. DOMAIN lists = 1 .. Len(lists) /\ Len(lists) \in Nat /\ \A i \in DOMAIN lists : lists[i] \in Seq(Subs)
  OBVIOUS
<1>4. ASSUME NEW i \in DOMAIN lists
      PROVE  more[i] \in Fields /\ ToSet(lists[i]) \subseteq ToSet(more[i].subs)
  <2>1. PICK u : u = lists[i] \o source
    OBVIOUS
  <2>2. u \in Seq(Subs) /\ ToSet(u) = ToSet(lists[i]) \union ToSet(source)
    BY <1>1, <1>3, <2>1, SetOfConcat
  <2>3. more[i] = [tag |-> "382", ind |-> <<"1", "1">>, subs |-> u]
    BY <2>1
  <2>4. "382" \in Tags /\ <<"1", "1">> \in STRING \X STRING
    BY Literals DEF Tags
  <2> HIDE DEF more
  <2> QED
    BY <2>2, <2>3, <2>4 DEF Fields
<1>5. more \in Seq(Fields) /\ DOMAIN more = DOMAIN lists
  <2>1. more \in [1 .. Len(lists) -> Fields]
    BY <1>3, <1>4
  <2>2. Len(lists) \in Nat /\ DOMAIN lists = 1 .. Len(lists)
    BY <1>3
  <2> HIDE DEF more
  <2> QED
    BY <2>1, <2>2, SeqDef
<1> HIDE DEF more
<1>6. made.fields \in Seq(Fields) /\ made.rows \in SUBSET Lines /\ ToSet(made.fields) \in SUBSET Fields
  BY MadesAre
<1>7. PICK t : t = made.fields \o more
  OBVIOUS
<1>8. t \in Seq(Fields) /\ ToSet(t) = ToSet(made.fields) \union ToSet(more) /\ ToSet(more) \in SUBSET Fields
  BY <1>5, <1>6, <1>7, SetOfConcat, InSeq
<1>9. r \in Mades /\ r.fields = t /\ r.rows = made.rows
  BY <1>2, <1>6, <1>7, <1>8 DEF Mades
<1>10. Terms(ToSet(t)) = Terms(ToSet(made.fields)) \union Terms(ToSet(more))
  <2>1. Terms(ToSet(made.fields) \union ToSet(more)) = Terms(ToSet(made.fields)) \union Terms(ToSet(more))
    BY <1>6, <1>8, TermsOfUnion, Zenon
  <2> QED
    BY <1>8, <2>1
<1>11. Told(made) \subseteq Told(r)
  BY <1>9, <1>10 DEF Told
<1>12. ASSUME NEW v \in STRING, Played(lists, v) PROVE v \in Told(r)
  <2>1. PICK i \in DOMAIN lists : \E x \in ToSet(lists[i]) : x.code = "a" /\ x.value = v
    BY <1>12 DEF Played
  <2>2. more[i] \in ToSet(more) /\ "a" \notin Digits
    BY <1>5, InSeq DEF Digits
  <2>3. \E x \in ToSet(more[i].subs) : x.code \notin Digits /\ x.value = v
    BY <1>4, <2>1, <2>2
  <2>4. v \in Terms(ToSet(more))
    BY <1>8, <2>2, <2>3, TermIs
  <2> QED
    BY <1>9, <1>10, <2>4 DEF Told
<1> QED
  BY <1>9, <1>11, <1>12

\* One round of MusicField.
NewName(s) == IF s.code \in {"a", "x"} /\ s.value = "kokoelmat" THEN [s EXCEPT !.value = "kokoomateokset"] ELSE s
Interrupted(st, s) == [st EXCEPT !.open = @ /\ ~ (s.code \in {"a", "x"} /\ s.value = "sovitukset")]
MusicStep(f, voc, rec, st, s) == MusicTerm(f, voc, rec, Interrupted(st, s), NewName(s))

\* A round of MusicField holds its term, under its new name.
LEMMA MusicStepKeeps ==
    ASSUME NEW f \in Fields, NEW voc, NEW rec, NEW st \in MusicStates, NEW s \in Subs
    PROVE  Keeps(st, MusicStep(f, voc, rec, st, s), NewName(s).value)
<1>1. PICK e \in Subs : e = NewName(s)
  BY Literals DEF NewName, Subs
<1>2. PICK i : i = Interrupted(st, s)
  OBVIOUS
<1>3. i \in MusicStates /\ i.made = st.made /\ i.lists = st.lists
  <2>1. CASE s.code \in {"a", "x"} /\ s.value = "sovitukset"
    <3>1. i = [st EXCEPT !.open = FALSE]
      BY <1>2, <2>1 DEF Interrupted, MusicStates
    <3>2. i \in MusicStates
      BY <3>1, MusicStateNext
    <3>3. i.made = st.made /\ i.lists = st.lists
      BY <3>1 DEF MusicStates
    <3> QED
      BY <3>2, <3>3
  <2>2. CASE ~ (s.code \in {"a", "x"} /\ s.value = "sovitukset")
    <3>1. i = st
      BY <1>2, <2>2 DEF Interrupted, MusicStates
    <3> QED
      BY <3>1
  <2> QED
    BY <2>1, <2>2
<1>4. Keeps(i, MusicTerm(f, voc, rec, i, e), e.value)
  BY <1>3, MusicTermKeeps
<1>5. \A v \in STRING : Holds(st, v) => Holds(i, v)
  BY <1>3 DEF Holds
<1> QED
  BY <1>1, <1>2, <1>4, <1>5 DEF Keeps, MusicStep

\* Every term of a field of music is told, a new name for one that has it.
LEMMA MusicFieldIs ==
    ASSUME NEW fd \in Fields, NEW subs \in Seq(Subs), NEW voc, NEW rec
    PROVE  /\ MusicField(fd, subs, voc, rec) \in Mades
           /\ \A s \in ToSet(Letters(subs)) : NewName(s).value \in Told(MusicField(fd, subs, voc, rec))
<1> DEFINE seq == Letters(subs)
           n == Len(seq)
           A == MusicStates
           Op(v, s) == MusicStep(fd, voc, rec, v, s)
           step == [k \in 1 .. n |-> [v \in A |-> Op(v, seq[k])]]
           b == [topics |-> FALSE, genre |-> FALSE, subjects |-> FALSE, open |-> FALSE,
                 lists |-> <<>>, made |-> Nothing]
           X == FoldLeft(LAMBDA v, s : MusicStep(fd, voc, rec, v, s), b, seq)
           R(g) == g = [s \in SUBSET (DOMAIN seq) |->
                          IF s = {} THEN b ELSE Op(g[s \ {Max(s)}], seq[Max(s)])]
<1>x. X = (CHOOSE g : R(g))[DOMAIN seq]
  BY DEF FoldLeft, MapThenFoldSet
<1>l. MusicField(fd, subs, voc, rec) = add_control_subfields(WithInstruments(X.made, X.lists, voc), Control(fd))
  BY DEF MusicField, MusicStep, Interrupted, NewName
<1>n. seq \in Seq(Subs) /\ n \in Nat /\ DOMAIN seq = 1 .. n /\ \A k \in 1 .. n : seq[k] \in Subs
  BY LettersAre
<1>b. b \in A
  BY NothingIs DEF MusicStates
<1>4. ASSUME NEW k \in 1 .. n, NEW v \in A
      PROVE  Keeps(v, Op(v, seq[k]), NewName(seq[k]).value)
  BY <1>n, MusicStepKeeps
<1>c. \A k \in 1 .. n : \A v \in A : Op(v, seq[k]) \in A
  BY <1>4 DEF Keeps
<1>a. \A k \in 1 .. n : NewName(seq[k]).value \in STRING
  <2>1. \A s \in Subs : NewName(s).value \in STRING
    BY Literals DEF Subs, NewName
  <2> QED
    BY <1>n, <2>1
<1>e. \A v \in A : v.made \in Mades /\ v.lists \in Seq(Seq(Subs))
  BY DEF MusicStates
<1> HIDE DEF Op, A, n, seq, X, b
<1>d. step \in [1 .. n -> [A -> A]]
  BY <1>c
<1>g. PICK g \in [SUBSET (1 .. n) -> A] : IsSetFold(g, n, b, step)
  <2> HIDE DEF step
  <2> QED
    BY <1>n, <1>b, <1>d, SetFold, Zenon
<1>r. R(g)
  <2>1. ASSUME NEW s \in SUBSET (1 .. n)
        PROVE  g[s] = IF s = {} THEN b ELSE Op(g[s \ {Max(s)}], seq[Max(s)])
    <3>1. CASE s # {}
      <4>1. Max(s) \in 1 .. n /\ s \ {Max(s)} \in SUBSET (1 .. n)
        BY <1>n, <3>1, GreatestIs
      <4>2. g[s \ {Max(s)}] \in A
        BY <4>1
      <4>3. g[s] = step[Max(s)][g[s \ {Max(s)}]]
        BY <1>g, <3>1 DEF IsSetFold
      <4> QED
        BY <3>1, <4>1, <4>2, <4>3
    <3>2. CASE s = {}
      BY <1>g, <3>2 DEF IsSetFold
    <3> QED
      BY <3>1, <3>2
  <2> QED
    BY <1>n, <2>1
<1>h. PICK h : R(h) /\ X = h[1 .. n]
  <2> DEFINE c == CHOOSE x : R(x)
  <2>1. R(c)
    BY <1>r
  <2>2. X = c[1 .. n]
    BY <1>x, <1>n
  <2> HIDE DEF c
  <2> QED
    BY <2>1, <2>2
<1>s. \A s \in SUBSET (1 .. n) : h[s] = IF s = {} THEN b ELSE Op(h[s \ {Max(s)}], seq[Max(s)])
  BY <1>n, <1>h
<1>t. \A s \in SUBSET (1 .. n) : s # {} /\ h[s \ {Max(s)}] \in A => h[s] = step[Max(s)][h[s \ {Max(s)}]]
  <2>1. ASSUME NEW s \in SUBSET (1 .. n), s # {}, h[s \ {Max(s)}] \in A
        PROVE  h[s] = step[Max(s)][h[s \ {Max(s)}]]
    <3>1. Max(s) \in 1 .. n
      BY <1>n, <2>1, GreatestIs
    <3> QED
      BY <1>s, <2>1, <3>1
  <2> QED
    BY <2>1
<1>f. PICK f \in [0 .. n -> A] : IsFold(f, n, b, step) /\ f[n] = X
  <2>1. h[{}] = b
    BY <1>s
  <2>2. Follows(h, n, A, b, step)
    BY <1>t, <2>1 DEF Follows
  <2>3. n \in Nat
    BY <1>n
  <2> HIDE DEF step, R
  <2>4. FoldEnds(n, A, b, step, h[1 .. n])
    BY <1>b, <1>d, <2>2, <2>3, ByPrefixes
  <2> QED
    BY <1>h, <2>4 DEF FoldEnds
<1>k. f[0] = b /\ \A k \in 1 .. n : f[k - 1] \in A /\ f[k] \in A /\ f[k] = Op(f[k - 1], seq[k])
  <2>1. f[0] = b
    BY <1>f DEF IsFold
  <2>2. ASSUME NEW k \in 1 .. n PROVE f[k - 1] \in A /\ f[k] \in A /\ f[k] = Op(f[k - 1], seq[k])
    <3>1. f[k - 1] \in A /\ f[k] \in A
      BY <1>n
    <3>2. f[k] = step[k][f[k - 1]]
      BY <1>f DEF IsFold
    <3> QED
      BY <3>1, <3>2
  <2> QED
    BY <2>1, <2>2
<1> DEFINE G == {k \in 0 .. n : \A i \in 1 .. k : Holds(f[k], NewName(seq[i]).value)}
<1>5. 0 \in G
  BY <1>n
<1>6. ASSUME NEW k \in 1 .. n, k - 1 \in G PROVE k \in G
  <2>1. Keeps(f[k - 1], f[k], NewName(seq[k]).value)
    BY <1>k, <1>4
  <2>2. /\ Holds(f[k], NewName(seq[k]).value)
        /\ \A t \in STRING : Holds(f[k - 1], t) => Holds(f[k], t)
    BY <2>1 DEF Keeps
  <2>3. k \in 0 .. n /\ \A i \in 1 .. k : i \in 1 .. n /\ (i = k \/ i \in 1 .. (k - 1))
    BY <1>n
  <2> QED
    BY <1>a, <1>6, <2>2, <2>3
<1>7. n \in G
  <2> HIDE DEF G
  <2>1. n \in Nat
    BY <1>n
  <2>2. \A k \in 0 .. n : k \in G
    BY <1>5, <1>6, <2>1, Induct
  <2> QED
    BY <2>1, <2>2
<1>8. X.made \in Mades /\ X.lists \in Seq(Seq(Subs)) /\ \A i \in 1 .. n : Holds(X, NewName(seq[i]).value)
  <2>1. n \in 0 .. n /\ f[n] \in A
    BY <1>n
  <2> QED
    BY <1>f, <1>e, <1>7, <2>1
<1>9. PICK r : r = WithInstruments(X.made, X.lists, voc)
  OBVIOUS
<1>10. /\ r \in Mades /\ Told(X.made) \subseteq Told(r)
       /\ \A v \in STRING : Played(X.lists, v) => v \in Told(r)
  BY <1>8, <1>9, WithInstrumentsIs
<1>11. \A s \in ToSet(seq) : NewName(s).value \in Told(r)
  <2>1. ASSUME NEW s \in ToSet(seq) PROVE NewName(s).value \in Told(r)
    <3>1. PICK i \in 1 .. n : seq[i] = s
      BY <1>n, InSeq
    <3>2. Holds(X, NewName(s).value) /\ NewName(s).value \in STRING
      BY <1>8, <1>a, <3>1
    <3> QED
      BY <1>10, <3>2 DEF Holds
  <2> QED
    BY <2>1
<1> QED
  BY <1>l, <1>9, <1>10, <1>11, ControlIs, ControlledIs DEF seq

-----------------------------------------------------------------------------
(* process_field                                                           *)

\* Every term PlainField deals with is told.
LEMMA PlainFieldIs ==
    ASSUME NEW f \in Fields, NEW subs \in Seq(Subs), NEW voc, NEW rec
    PROVE  /\ PlainField(f, subs, voc, rec) \in Mades
           /\ \A x \in ToSet(subs) :
                 x.code \notin Digits /\ (f.tag = "385" => x.code = "a") /\ (f.tag = "567" => x.code = "b")
                   => x.value \in Told(PlainField(f, subs, voc, rec))
<1> DEFINE codes == CASE f.tag = "385" -> {"a"} [] f.tag = "567" -> {"b"} [] OTHER -> {}
           terms == IF codes = {} THEN Letters(subs) ELSE Select(subs, codes)
           cx == [Context(voc, rec) EXCEPT !.type = ""]
           mades == [i \in DOMAIN terms |-> process_subfield(f, terms[i], cx)]
<1>1. PlainField(f, subs, voc, rec) = JoinAll(mades)
  BY DEF PlainField
<1>2. /\ f.tag = "385" => codes = {"a"}
      /\ f.tag = "567" => codes = {"b"}
      /\ f.tag \notin {"385", "567"} => codes = {}
  <2>1. ASSUME f.tag = "385" PROVE codes = {"a"}
    BY <2>1
  <2>2. ASSUME f.tag = "567" PROVE codes = {"b"}
    <3>1. ~ (f.tag = "385")
      BY <2>2
    <3> QED
      BY <2>2, <3>1, Zenon
  <2>3. ASSUME f.tag \notin {"385", "567"} PROVE codes = {}
    <3>1. ~ (f.tag = "385") /\ ~ (f.tag = "567")
      BY <2>3
    <3> QED
      BY <3>1, Zenon
  <2> HIDE DEF codes
  <2> QED
    BY <2>1, <2>2, <2>3
<1> HIDE DEF codes, cx
<1>3. terms \in Seq(Subs)
  BY LettersAre, SelectIs
<1>4. ASSUME NEW x \in ToSet(subs), x.code \notin Digits, f.tag = "385" => x.code = "a", f.tag = "567" => x.code = "b"
      PROVE  x \in ToSet(terms)
  <2>1. CASE codes = {}
    BY <1>4, <2>1, LettersAre
  <2>2. CASE codes # {}
    <3>1. x.code \in codes
      BY <1>2, <1>4, <2>2
    <3>2. ToSet(Select(subs, codes)) = {y \in ToSet(subs) : y.code \in codes}
      BY SelectIs
    <3> QED
      BY <2>2, <3>1, <3>2
  <2> QED
    BY <2>1, <2>2
<1> HIDE DEF terms
<1>5. ASSUME NEW i \in DOMAIN terms
      PROVE  mades[i] \in Mades /\ terms[i].value \in Told(mades[i])
  BY <1>3, InSeq, SubfieldIs
<1>6. DOMAIN terms = 1 .. Len(terms) /\ Len(terms) \in Nat
  BY <1>3
<1>7. mades \in Seq(Mades) /\ DOMAIN mades = DOMAIN terms
  <2>1. mades \in [1 .. Len(terms) -> Mades]
    BY <1>5, <1>6
  <2> HIDE DEF mades
  <2> QED
    BY <1>6, <2>1, SeqDef
<1> HIDE DEF mades
<1>8. JoinAll(mades) \in Mades /\ \A i \in DOMAIN mades : Told(mades[i]) \subseteq Told(JoinAll(mades))
  BY <1>7, JoinAllIs
<1>9. \A x \in ToSet(terms) : x.value \in Told(JoinAll(mades))
  <2>1. ASSUME NEW x \in ToSet(terms) PROVE x.value \in Told(JoinAll(mades))
    <3>1. PICK i \in DOMAIN terms : terms[i] = x
      BY <1>3, InSeq
    <3> QED
      BY <1>5, <1>7, <1>8, <3>1
  <2> QED
    BY <2>1
<1>10. \A x \in ToSet(subs) :
          x.code \notin Digits /\ (f.tag = "385" => x.code = "a") /\ (f.tag = "567" => x.code = "b")
             => x \in ToSet(terms)
  BY <1>4
<1> QED
  BY <1>1, <1>8, <1>9, <1>10

\* The periods of a field 648.
LEMMA PeriodsAre ==
    ASSUME NEW f \in Fields
    PROVE  /\ Periods(f) \in Seq(Subs)
           /\ ToSet(Periods(f)) = {x \in ToSet(f.subs) : x.code = "a" /\ x.value \in Numeric}
<1>1. f.subs \in Seq(Subs)
  BY DEF Fields
<1>2. PICK B : B = {x \in ToSet(f.subs) : x.code = "a" /\ x.value \in Numeric}
  OBVIOUS
<1>3. Among(f.subs, B) \in Seq(Subs) /\ ToSet(Among(f.subs, B)) = ToSet(f.subs) \cap B
  BY <1>1, AmongIs
<1>4. Periods(f) = Among(f.subs, B)
  BY <1>2 DEF Periods
<1> QED
  BY <1>2, <1>3, <1>4

\* Each period has a field of its own.
LEMMA PeriodFieldsAre ==
    ASSUME NEW f \in Fields, NEW voc
    PROVE  /\ PeriodFields(f, voc) \in Seq(Fields)
           /\ \A x \in ToSet(f.subs) : x.code = "a" /\ x.value \in Numeric =>
                 \E g \in ToSet(PeriodFields(f, voc)) : x \in ToSet(g.subs)
           /\ Made(PeriodFields(f, voc), {}) \in Mades
           /\ \A x \in ToSet(f.subs) : x.code = "a" /\ x.value \in Numeric =>
                 x.value \in Told(Made(PeriodFields(f, voc), {}))
<1>1. f.subs \in Seq(Subs)
  BY DEF Fields
<1>2. PICK ps \in Seq(Subs) : /\ ps = Periods(f)
                              /\ ToSet(ps) = {x \in ToSet(f.subs) : x.code = "a" /\ x.value \in Numeric}
  BY PeriodsAre
<1>3. PICK front \in Seq(Subs) : front = Select(f.subs, Digits \ {"0", "2"})
  <2>1. PICK codes : codes = Digits \ {"0", "2"}
    OBVIOUS
  <2> QED
    BY <1>1, <2>1, SelectIs
<1>4. PICK back \in Seq(Subs) : back = <<Sub("2", YsoCode(Language(voc)))>>
  <2>1. YsoCode(Language(voc)) \in STRING
    BY Literals DEF YsoCode
  <2>2. Sub("2", YsoCode(Language(voc))) \in Subs
    BY <2>1, SubIs, Literals
  <2> QED
    BY <2>2, SetOfOne
<1> DEFINE fs == [i \in DOMAIN ps |-> [tag |-> "388", ind |-> <<"1", " ">>, subs |-> Append(front, ps[i]) \o back]]
<1>5. PeriodFields(f, voc) = fs
  BY <1>2, <1>3, <1>4 DEF PeriodFields
<1>6. DOMAIN ps = 1 .. Len(ps) /\ Len(ps) \in Nat /\ \A i \in DOMAIN ps : ps[i] \in Subs
  OBVIOUS
<1>7. ASSUME NEW i \in DOMAIN ps
      PROVE  fs[i] \in Fields /\ ps[i] \in ToSet(fs[i].subs)
  <2>1. PICK u \in Seq(Subs) : u = Append(front, ps[i]) /\ ToSet(u) = ToSet(front) \union {ps[i]}
    <3>1. PICK e \in Subs : e = ps[i]
      BY <1>6
    <3>2. Append(front, e) \in Seq(Subs) /\ ToSet(Append(front, e)) = ToSet(front) \union {e}
      BY Appended, SetOfAppend
    <3> QED
      BY <3>1, <3>2
  <2>2. PICK w : w = u \o back
    OBVIOUS
  <2>3. w \in Seq(Subs) /\ ToSet(w) = ToSet(u) \union ToSet(back)
    BY <2>2, SetOfConcat
  <2>4. fs[i] = [tag |-> "388", ind |-> <<"1", " ">>, subs |-> w]
    BY <2>1, <2>2
  <2>5. "388" \in Tags /\ <<"1", " ">> \in STRING \X STRING
    BY Literals DEF Tags
  <2>6. ps[i] \in ToSet(w)
    BY <2>1, <2>3
  <2>7. PICK ind \in STRING \X STRING : ind = <<"1", " ">>
    BY <2>5
  <2>8. fs[i] = [tag |-> "388", ind |-> ind, subs |-> w]
    BY <2>4, <2>7
  <2> HIDE DEF fs
  <2>9. [tag |-> "388", ind |-> ind, subs |-> w] \in Fields
    BY <2>3, <2>5 DEF Fields
  <2>10. fs[i] \in Fields /\ fs[i].subs = w
    BY <2>8, <2>9
  <2> QED
    BY <2>6, <2>10
<1>8. fs \in Seq(Fields) /\ DOMAIN fs = DOMAIN ps
  <2>1. fs \in [1 .. Len(ps) -> Fields]
    BY <1>6, <1>7
  <2>2. Len(ps) \in Nat /\ DOMAIN ps = 1 .. Len(ps)
    BY <1>6
  <2> HIDE DEF fs
  <2> QED
    BY <2>1, <2>2, SeqDef
<1> HIDE DEF fs
<1>9. \A x \in ToSet(ps) : \E g \in ToSet(fs) : x \in ToSet(g.subs)
  <2>1. ASSUME NEW x \in ToSet(ps) PROVE \E g \in ToSet(fs) : x \in ToSet(g.subs)
    <3>1. PICK i \in DOMAIN ps : ps[i] = x
      BY InSeq
    <3>2. fs[i] \in ToSet(fs)
      BY <1>8, InSeq
    <3> QED
      BY <1>7, <3>1, <3>2
  <2> QED
    BY <2>1
<1>10. PICK m : m = Made(fs, {})
  OBVIOUS
<1>11. m \in Mades /\ m.fields = fs
  BY <1>8, <1>10 DEF Made, Mades
<1>12. ToSet(fs) \in SUBSET Fields /\ "a" \notin Digits
  BY <1>8, InSeq DEF Digits
<1>13. \A x \in ToSet(ps) : x.value \in Terms(ToSet(fs))
  <2>1. ASSUME NEW x \in ToSet(ps) PROVE x.value \in Terms(ToSet(fs))
    <3>1. \E g \in ToSet(fs) : \E y \in ToSet(g.subs) : y.code \notin Digits /\ y.value = x.value
      BY <1>2, <1>9, <1>12
    <3> QED
      BY <1>12, <3>1, TermIs
  <2> QED
    BY <2>1
<1>14. \A x \in ToSet(ps) : x.value \in Told(m)
  BY <1>11, <1>13 DEF Told
<1> QED
  BY <1>2, <1>5, <1>8, <1>9, <1>10, <1>11, <1>14

\* What is not an $a stays in the 648.
LEMMA AfterPeriodsAre ==
    ASSUME NEW f \in Fields
    PROVE  /\ AfterPeriods(f) \in Seq(Subs)
           /\ \A x \in ToSet(f.subs) : x.code # "a" => x \in ToSet(AfterPeriods(f))
<1>1. PICK s \in Seq(Subs) : s = f.subs
  BY DEF Fields
<1> DEFINE FirstA(i) == {j \in 1..i : s[j].code = "a"}
           Stays(i) == s[i].code = "a" => Cardinality(FirstA(i)) > Len(Periods(f))
           I == {i \in DOMAIN s : Stays(i)}
<1>2. PICK l : l = Among(PlacesOf(s), I)
  OBVIOUS
<1>3. AfterPeriods(f) = Taken(s, l)
  BY <1>1, <1>2 DEF AfterPeriods, Taken, PlacesOf
<1>4. \A i \in DOMAIN s : s[i].code # "a" => i \in I
  OBVIOUS
<1> HIDE DEF I
<1>5. Taken(s, l) \in Seq(Subs) /\ ToSet(Taken(s, l)) = {s[i] : i \in DOMAIN s \cap I}
  BY <1>2, Chosen
<1>6. ASSUME NEW x \in ToSet(s), x.code # "a" PROVE x \in ToSet(Taken(s, l))
  <2>1. PICK i \in DOMAIN s : s[i] = x
    BY InSeq
  <2> QED
    BY <1>4, <1>5, <1>6, <2>1
<1> QED
  BY <1>1, <1>3, <1>5, <1>6

\* A term that process_field has to account for, x, its subfield.
PromisedBy(f, x) ==
    /\ x \in ToSet(f.subs) /\ x.code \notin Digits
    /\ f.tag = "385" => x.code = "a"
    /\ f.tag = "567" => \/ Has(f.subs, "b") /\ x.code = "b"
                        \/ Renamed567(f) /\ x.code = "a"
    /\ f.tag = "648" /\ f.ind[1] = "1" => x.code # "a" \/ x.value \in Numeric
    /\ ~ (f.tag = "567" /\ VocabularyCode(f) # "" /\ \E v \in Values(f.subs, "2") : v \notin {"ysa", "allars"})

\* A promised term has a subfield that promises it.
LEMMA PromisedIs ==
    ASSUME NEW f \in Fields, NEW t \in Promised(f)
    PROVE  \E x \in Subs : PromisedBy(f, x) /\ x.value = t
<1> DEFINE drops == /\ f.tag = "567" /\ VocabularyCode(f) # ""
                    /\ \E v \in Values(f.subs, "2") : v \notin {"ysa", "allars"}
           codes == CASE f.tag = "385" -> {"a"}
                      [] f.tag = "567" -> IF Has(f.subs, "b") THEN {"b"}
                                           ELSE IF Filled(f.subs, "a") THEN {"a"} ELSE {}
                      [] OTHER -> {s.code : s \in ToSet(Letters(f.subs))}
           told == {s \in ToSet(f.subs) : s.code \in codes}
<1>1. f.subs \in Seq(Subs) /\ ToSet(f.subs) \subseteq Subs
  <2>1. f.subs \in Seq(Subs)
    BY DEF Fields
  <2> QED
    BY <2>1, InSeq
<1>2. ~ drops /\ \E x \in told : x.value = t /\ (f.tag = "648" /\ f.ind[1] = "1" => x.code # "a" \/ x.value \in Numeric)
  <2> HIDE DEF told, drops
  <2>1. Promised(f) = IF drops THEN {}
                      ELSE {s.value : s \in
                              {s \in told : f.tag = "648" /\ f.ind[1] = "1" => s.code # "a" \/ s.value \in Numeric}}
    BY DEF Promised, told, drops
  <2> QED
    BY <2>1
<1>3. PICK x \in told : x.value = t /\ (f.tag = "648" /\ f.ind[1] = "1" => x.code # "a" \/ x.value \in Numeric)
  BY <1>2
<1>4. /\ f.tag = "385" => codes = {"a"}
      /\ f.tag = "567" => codes = IF Has(f.subs, "b") THEN {"b"} ELSE IF Filled(f.subs, "a") THEN {"a"} ELSE {}
      /\ f.tag \notin {"385", "567"} => codes = {s.code : s \in ToSet(Letters(f.subs))}
  <2>1. ASSUME f.tag = "385" PROVE codes = {"a"}
    BY <2>1
  <2>2. ASSUME f.tag = "567"
        PROVE  codes = IF Has(f.subs, "b") THEN {"b"} ELSE IF Filled(f.subs, "a") THEN {"a"} ELSE {}
    <3>1. ~ (f.tag = "385")
      BY <2>2
    <3> QED
      BY <2>2, <3>1, Zenon
  <2>3. ASSUME f.tag \notin {"385", "567"} PROVE codes = {s.code : s \in ToSet(Letters(f.subs))}
    <3>1. ~ (f.tag = "385") /\ ~ (f.tag = "567")
      BY <2>3
    <3> QED
      BY <3>1, Zenon
  <2> HIDE DEF codes
  <2> QED
    BY <2>1, <2>2, <2>3
<1>5. x \in ToSet(f.subs) /\ x.code \in codes
  OBVIOUS
<1> HIDE DEF codes, told
<1>6. /\ f.tag = "385" => x.code = "a"
      /\ f.tag = "567" => (Has(f.subs, "b") /\ x.code = "b") \/ (Renamed567(f) /\ x.code = "a")
  BY <1>4, <1>5 DEF Renamed567
<1>7. x.code \notin Digits
  <2>1. CASE f.tag \in {"385", "567"}
    BY <1>6, <2>1 DEF Digits
  <2>2. CASE f.tag \notin {"385", "567"}
    <3>1. PICK s \in ToSet(Letters(f.subs)) : s.code = x.code
      BY <1>4, <1>5, <2>2
    <3> QED
      BY <1>1, <3>1, LettersAre
  <2> QED
    BY <2>1, <2>2
<1>8. PromisedBy(f, x)
  BY <1>2, <1>3, <1>5, <1>6, <1>7 DEF PromisedBy
<1> QED
  BY <1>1, <1>3, <1>5, <1>8

\* What a subfield that carries a term says, or its new name, may stand for it.
LEMMA CarriedStands ==
    ASSUME NEW y \in Subs, NEW t, Carries(y, t)
    PROVE  y.value \in Stands(t) /\ NewName(y).value \in Stands(t)
<1>1. CASE y.value = t
  <2>1. t \in Stands(t) /\ (t = "kokoelmat" => "kokoomateokset" \in Stands(t))
    BY DEF Stands
  <2>2. NewName(y).value = y.value \/ (y.value = "kokoelmat" /\ NewName(y).value = "kokoomateokset")
    BY DEF NewName, Subs
  <2> QED
    BY <1>1, <2>1, <2>2
<1>2. CASE y.value # t
  <2>1. PICK c \in DOMAIN Chains : t \in ToSet(c) /\ y.value = Chains[c]
    BY <1>2 DEF Carries
  <2>2. y.value \in Stands(t)
    BY <2>1 DEF Stands
  <2>3. y.value # "kokoelmat"
    BY <2>1, ChainsAssumption
  <2>4. NewName(y) = y
    BY <2>3 DEF NewName
  <2> QED
    BY <2>2, <2>4
<1> QED
  BY <1>1, <1>2

\* What came of a field accounts for its terms, or nothing did and the field stays.
Accounted(f, made) ==
    \A t \in Promised(f) : \/ Stands(t) \cap Told(made) # {}
                           \/ VocabularyCode(f) = "" /\ made.fields = <<>>

\* It is enough to look at the subfields.
LEMMA AccountedIs ==
    ASSUME NEW f \in Fields, NEW made,
           \A x \in Subs : PromisedBy(f, x) => \/ Stands(x.value) \cap Told(made) # {}
                                               \/ VocabularyCode(f) = "" /\ made.fields = <<>>
    PROVE  Accounted(f, made)
  BY PromisedIs DEF Accounted

\* A field is accounted for if all its terms are told.
LEMMA AllTold ==
    ASSUME NEW f \in Fields, NEW made,
           \A x \in ToSet(f.subs) : x.code \notin Digits => x.value \in Told(made)
    PROVE  Accounted(f, made)
<1>1. \A x \in Subs : x.value \in Stands(x.value)
  BY DEF Stands
<1>2. \A x \in Subs : PromisedBy(f, x) => x.value \in Told(made)
  BY DEF PromisedBy
<1> QED
  BY <1>1, <1>2, AccountedIs

\* The ordinary case, with the periods of a 648 or without.
Ordinary(f, voc, rec, periods) ==
    Join(Made(periods, {}),
         add_control_subfields(
             PlainField([f EXCEPT !.subs = IF periods = <<>> THEN @ ELSE AfterPeriods(f)],
                        IF periods = <<>> THEN Subfields(f) ELSE AfterPeriods(f), voc, rec),
             Control(f)))

\* The ordinary case accounts for its terms.
LEMMA OrdinaryIs ==
    ASSUME NEW f \in Fields, NEW voc, NEW rec,
           NEW periods, periods = IF f.tag = "648" /\ f.ind[1] = "1" THEN PeriodFields(f, voc) ELSE <<>>
    PROVE  Ordinary(f, voc, rec, periods) \in Mades /\ Accounted(f, Ordinary(f, voc, rec, periods))
<1> DEFINE subs == IF periods = <<>> THEN Subfields(f) ELSE AfterPeriods(f)
           g == [f EXCEPT !.subs = IF periods = <<>> THEN @ ELSE AfterPeriods(f)]
           plain == PlainField(g, subs, voc, rec)
           front == Made(periods, {})
           back == add_control_subfields(plain, Control(f))
           all == Join(front, back)
<1>1. subs \in Seq(Subs) /\ AfterPeriods(f) \in Seq(Subs)
  BY SubfieldsAre, AfterPeriodsAre
<1>2. g \in Fields /\ g.tag = f.tag
  BY <1>1 DEF Fields
<1>3. front \in Mades
  <2>1. CASE periods = <<>>
    <3>1. Made(<<>>, {}) \in Mades
      BY NothingIs DEF Nothing
    <3> QED
      BY <2>1, <3>1
  <2>2. CASE periods = PeriodFields(f, voc)
    BY <2>2, PeriodFieldsAre
  <2> QED
    BY <2>1, <2>2
<1> HIDE DEF g, subs
<1>4. /\ plain \in Mades
      /\ \A x \in ToSet(subs) :
            x.code \notin Digits /\ (f.tag = "385" => x.code = "a") /\ (f.tag = "567" => x.code = "b")
              => x.value \in Told(plain)
  BY <1>1, <1>2, PlainFieldIs
<1> HIDE DEF plain
<1>5. back \in Mades /\ Told(plain) \subseteq Told(back)
  BY <1>4, ControlIs, ControlledIs
<1> HIDE DEF back, front
<1>6. all \in Mades /\ Told(all) = Told(front) \union Told(back)
  BY <1>3, <1>5, JoinIs
<1>7. all = Ordinary(f, voc, rec, periods)
  BY DEF Ordinary, all, front, back, plain, g, subs
<1> HIDE DEF all
<1>8. ASSUME NEW x \in Subs, PromisedBy(f, x) PROVE Stands(x.value) \cap Told(all) # {}
  <2>0. x \in ToSet(f.subs) /\ x.code \notin Digits
    BY <1>8 DEF PromisedBy
  <2>1. CASE periods = <<>>
    <3>1. subs = Subfields(f)
      BY <2>1 DEF subs
    <3>2. ToSet(subs) \subseteq Subs
      BY <1>1, InSeq
    <3>3. CASE f.tag = "567"
      <4>1. \E y \in ToSet(subs) : y.code = "b" /\ y.value = x.value
        BY <1>8, <2>0, <3>1, <3>3, SubfieldsAre DEF PromisedBy, Renamed567
      <4>2. x.value \in Told(plain)
        BY <1>4, <3>3, <4>1 DEF Digits
      <4> QED
        BY <1>5, <1>6, <4>2 DEF Stands
    <3>4. CASE f.tag = "385"
      <4>1. x \in ToSet(subs) /\ x.code = "a"
        <5>1. Subfields(f) = f.subs
          BY <3>4, SubfieldsAre
        <5> QED
          BY <1>8, <2>0, <3>1, <3>4, <5>1 DEF PromisedBy
      <4>2. x.value \in Told(plain)
        BY <1>4, <2>0, <3>4, <4>1
      <4> QED
        BY <1>5, <1>6, <4>2 DEF Stands
    <3>5. CASE f.tag \notin {"385", "567"}
      <4>1. PICK y \in ToSet(subs) : Carries(y, x.value)
        BY <2>0, <3>1, SubfieldsAre
      <4>2. y.code \notin Digits
        BY <4>1 DEF Carries
      <4>3. y.value \in Told(plain)
        BY <1>4, <3>5, <4>2
      <4>4. y.value \in Stands(x.value)
        BY <3>2, <4>1, CarriedStands
      <4> QED
        BY <1>5, <1>6, <4>3, <4>4
    <3> QED
      BY <3>3, <3>4, <3>5
  <2>2. CASE periods # <<>>
    <3>1. subs = AfterPeriods(f) /\ periods = PeriodFields(f, voc) /\ f.tag = "648" /\ f.ind[1] = "1"
      BY <2>2 DEF subs
    <3>2. CASE x.code # "a"
      <4>1. x \in ToSet(subs)
        BY <2>0, <3>1, <3>2, AfterPeriodsAre
      <4>2. x.value \in Told(plain)
        BY <1>4, <2>0, <3>1, <4>1
      <4> QED
        BY <1>5, <1>6, <4>2 DEF Stands
    <3>3. CASE x.code = "a"
      <4>1. x.value \in Numeric
        BY <1>8, <3>1, <3>3 DEF PromisedBy
      <4>2. x.value \in Told(front)
        BY <2>0, <3>1, <3>3, <4>1, PeriodFieldsAre DEF front
      <4> QED
        BY <1>6, <4>2 DEF Stands
    <3> QED
      BY <3>2, <3>3
  <2> QED
    BY <2>1, <2>2
<1>9. Accounted(f, all)
  BY <1>8, AccountedIs
<1> QED
  BY <1>6, <1>7, <1>9

\* process_field makes fields and lines of the log, and its terms are accounted for.
LEMMA ProcessFieldIs ==
    ASSUME NEW f \in Fields, NEW voc, voc = VocabularyCode(f), NEW rec
    PROVE  process_field(f, voc, rec) \in Mades /\ Accounted(f, process_field(f, voc, rec))
<1> DEFINE subs == Subfields(f)
           special == f.tag \in {"650", "655"}
           periods == IF f.tag = "648" /\ f.ind[1] = "1" THEN PeriodFields(f, voc) ELSE <<>>
           six == Has(f.subs, "6")
           other == f.tag = "567" /\ \E v \in Values(f.subs, "2") : v \notin {"ysa", "allars"}
           none == Letters(subs) = <<>>
           movie == special /\ rec.type = "movie"
           music == special /\ rec.type = "music"
           bare == \/ f.tag = "385" /\ ~ Has(subs, "a")
                   \/ f.tag = "567" /\ Select(subs, {"a", "b"}) = <<>>
           unknown == f.tag = "567" /\ voc = "" /\ Unknown567(f, subs)
           r == process_field(f, voc, rec)
<1>1. r = IF six THEN Stripped(f, <<f.ind[1], "4">>, "9")
          ELSE IF other THEN Nothing
          ELSE IF none THEN Stripped(f, <<f.ind[1], "4">>, "8")
          ELSE IF movie THEN MovieField(f, subs, voc, rec)
          ELSE IF music THEN MusicField(f, subs, voc, rec)
          ELSE IF bare THEN Stripped(f, <<" ", " ">>, "8")
          ELSE IF unknown THEN Nothing
          ELSE Ordinary(f, voc, rec, periods)
  BY DEF process_field, Ordinary
<1>2. /\ subs \in Seq(Subs) /\ ToSet(subs) \subseteq Subs
      /\ \A x \in ToSet(f.subs) : x.code \notin Digits => \E y \in ToSet(subs) : Carries(y, x.value)
  BY SubfieldsAre, InSeq
<1>3. ASSUME NEW x \in Subs, PromisedBy(f, x)
      PROVE  \E y \in ToSet(Letters(subs)) : y \in Subs /\ Carries(y, x.value)
  <2>1. PICK y \in ToSet(subs) : Carries(y, x.value)
    BY <1>2, <1>3 DEF PromisedBy
  <2>2. y \in ToSet(Letters(subs))
    BY <1>2, <2>1, LettersAre DEF Carries
  <2> QED
    BY <1>2, <2>1, <2>2
<1>4. \A ind \in STRING \X STRING : \A code \in STRING :
         Stripped(f, ind, code) \in Mades /\ Accounted(f, Stripped(f, ind, code))
  BY StrippedIs, AllTold
<1>5. <<f.ind[1], "4">> \in STRING \X STRING /\ <<" ", " ">> \in STRING \X STRING
  <2>1. f.ind[1] \in STRING
    BY DEF Fields
  <2> QED
    BY <2>1, Literals
<1> HIDE DEF subs, special, periods, six, other, none, movie, music, bare, unknown, r
<1>6. CASE six
  BY <1>1, <1>4, <1>5, <1>6, Literals DEF r
<1>7. CASE ~ six /\ other
  <2>1. r = Nothing
    BY <1>1, <1>7
  <2>2. \A x \in Subs : PromisedBy(f, x) => VocabularyCode(f) = ""
    BY <1>7 DEF PromisedBy, other
  <2>3. Accounted(f, r)
    BY <2>1, <2>2, NothingIs, AccountedIs
  <2> QED
    BY <2>1, <2>3, NothingIs DEF r
<1>8. CASE ~ six /\ ~ other /\ none
  BY <1>1, <1>4, <1>5, <1>8, Literals DEF r
<1>9. CASE ~ six /\ ~ other /\ ~ none /\ movie
  <2>1. r = MovieField(f, subs, voc, rec)
    BY <1>1, <1>9
  <2>2. r \in Mades /\ \A y \in ToSet(Letters(subs)) : y.value \in Told(r)
    BY <1>2, <2>1, MovieFieldIs
  <2>3. \A x \in Subs : PromisedBy(f, x) => Stands(x.value) \cap Told(r) # {}
    BY <1>3, <2>2, CarriedStands
  <2> QED
    BY <2>2, <2>3, AccountedIs DEF r
<1>10. CASE ~ six /\ ~ other /\ ~ none /\ ~ movie /\ music
  <2>1. r = MusicField(f, subs, voc, rec)
    BY <1>1, <1>10
  <2>2. r \in Mades /\ \A y \in ToSet(Letters(subs)) : NewName(y).value \in Told(r)
    BY <1>2, <2>1, MusicFieldIs
  <2>3. \A x \in Subs : PromisedBy(f, x) => Stands(x.value) \cap Told(r) # {}
    BY <1>3, <2>2, CarriedStands
  <2> QED
    BY <2>2, <2>3, AccountedIs DEF r
<1>11. CASE ~ six /\ ~ other /\ ~ none /\ ~ movie /\ ~ music /\ bare
  BY <1>1, <1>4, <1>5, <1>11, Literals DEF r
<1>12. CASE ~ six /\ ~ other /\ ~ none /\ ~ movie /\ ~ music /\ ~ bare /\ unknown
  <2>1. r = Nothing /\ VocabularyCode(f) = ""
    BY <1>1, <1>12 DEF unknown
  <2>2. Accounted(f, r)
    BY <2>1, NothingIs, AccountedIs
  <2> QED
    BY <2>1, <2>2, NothingIs DEF r
<1>13. CASE ~ six /\ ~ other /\ ~ none /\ ~ movie /\ ~ music /\ ~ bare /\ ~ unknown
  <2>1. r = Ordinary(f, voc, rec, periods)
    BY <1>1, <1>13
  <2>2. periods = IF f.tag = "648" /\ f.ind[1] = "1" THEN PeriodFields(f, voc) ELSE <<>>
    BY DEF periods
  <2> QED
    BY <2>1, <2>2, OrdinaryIs DEF r
<1> QED
  BY <1>6, <1>7, <1>8, <1>9, <1>10, <1>11, <1>12, <1>13

-----------------------------------------------------------------------------
(* process_record                                                          *)

\* A record's fields, each under its tag.
LEMMA RecordIs ==
    ASSUME NEW rec \in Records
    PROVE  /\ DOMAIN rec.fields = Tags
           /\ \A tag \in Tags : rec.fields[tag] \in Seq(Fields)
           /\ \A tag \in Tags : \A f \in ToSet(rec.fields[tag]) : f \in Fields /\ f.tag = tag
           /\ AllFields(rec) \subseteq Fields
           /\ \A f \in AllFields(rec) : f.tag \in Tags /\ f \in ToSet(rec.fields[f.tag])
<1>1. /\ rec.fields \in [Tags -> Seq(Fields)]
      /\ \A tag \in Tags : \A i \in DOMAIN rec.fields[tag] : rec.fields[tag][i].tag = tag
  BY DEF Records
<1>2. DOMAIN rec.fields = Tags /\ \A tag \in Tags : rec.fields[tag] \in Seq(Fields)
  BY <1>1
<1>3. ASSUME NEW tag \in Tags, NEW f \in ToSet(rec.fields[tag])
      PROVE  f \in Fields /\ f.tag = tag
  <2>1. PICK s \in Seq(Fields) : s = rec.fields[tag]
    BY <1>2
  <2>2. PICK i \in DOMAIN s : s[i] = f
    BY <2>1, InSeq
  <2>3. s[i] \in Fields /\ s[i].tag = tag
    BY <1>1, <2>1, <2>2, InSeq
  <2> QED
    BY <2>2, <2>3
<1>4. \A f \in AllFields(rec) : \E tag \in Tags : f \in ToSet(rec.fields[tag])
  BY <1>2 DEF AllFields
<1> QED
  BY <1>2, <1>3, <1>4

\* All the fields of a record, in the order of the tags.
All(rec) == FlattenSeq([i \in DOMAIN TagsToProcess |-> rec.fields[TagsToProcess[i]]])

\* They are the fields of the record: no tag is left out of TagsToProcess.
LEMMA AllIs ==
    ASSUME NEW rec \in Records
    PROVE  All(rec) \in Seq(Fields) /\ ToSet(All(rec)) = AllFields(rec)
<1> DEFINE q == [i \in DOMAIN TagsToProcess |-> rec.fields[TagsToProcess[i]]]
<1>1. /\ TagsToProcess \in Seq(Tags) /\ Tags \subseteq ToSet(TagsToProcess)
  <2>1. TagsToProcess \in Seq(Tags)
    BY DEF TagsToProcess, Tags
  <2>2. DOMAIN TagsToProcess = 1 .. 12
    BY DEF TagsToProcess
  <2>3. \A tag \in Tags : \E i \in 1 .. 12 : TagsToProcess[i] = tag
    <3>1. /\ TagsToProcess[1] = "257" /\ TagsToProcess[2] = "370" /\ TagsToProcess[3] = "382"
          /\ TagsToProcess[4] = "385" /\ TagsToProcess[5] = "386" /\ TagsToProcess[6] = "388"
          /\ TagsToProcess[7] = "567" /\ TagsToProcess[8] = "648" /\ TagsToProcess[9] = "650"
          /\ TagsToProcess[10] = "651" /\ TagsToProcess[11] = "653" /\ TagsToProcess[12] = "655"
      BY DEF TagsToProcess
    <3> QED
      BY <3>1 DEF Tags
  <2>4. \A i \in 1 .. 12 : TagsToProcess[i] \in ToSet(TagsToProcess)
    BY <2>1, <2>2, InSeq
  <2> QED
    BY <2>1, <2>3, <2>4
<1>2. /\ DOMAIN TagsToProcess = 1 .. Len(TagsToProcess) /\ Len(TagsToProcess) \in Nat
      /\ \A i \in DOMAIN TagsToProcess : TagsToProcess[i] \in Tags
      /\ \A tag \in Tags : \E i \in DOMAIN TagsToProcess : TagsToProcess[i] = tag
  <2>1. PICK T \in Seq(Tags) : T = TagsToProcess
    BY <1>1
  <2>2. /\ DOMAIN T = 1 .. Len(T) /\ Len(T) \in Nat
        /\ \A i \in DOMAIN T : T[i] \in Tags
        /\ \A x \in ToSet(T) : \E i \in DOMAIN T : T[i] = x
    BY InSeq
  <2> QED
    BY <1>1, <2>1, <2>2
<1>3. q \in Seq(Seq(Fields)) /\ DOMAIN q = DOMAIN TagsToProcess
  <2>1. q \in [1 .. Len(TagsToProcess) -> Seq(Fields)]
    BY <1>2, RecordIs
  <2>2. Len(TagsToProcess) \in Nat /\ DOMAIN TagsToProcess = 1 .. Len(TagsToProcess)
    BY <1>2
  <2> HIDE DEF q
  <2> QED
    BY <2>1, <2>2, SeqDef
<1>4. \A i \in DOMAIN q : q[i] = rec.fields[TagsToProcess[i]]
  OBVIOUS
<1>5. All(rec) = FlattenSeq(q)
  BY DEF All
<1> HIDE DEF q
<1>6. FlattenSeq(q) \in Seq(Fields) /\ ToSet(FlattenSeq(q)) = UNION {ToSet(q[i]) : i \in DOMAIN q}
  BY <1>3, Flattened
<1>7. UNION {ToSet(q[i]) : i \in DOMAIN q} = AllFields(rec)
  <2>1. ASSUME NEW f \in AllFields(rec) PROVE \E i \in DOMAIN q : f \in ToSet(q[i])
    <3>1. PICK tag \in Tags : f \in ToSet(rec.fields[tag])
      BY RecordIs
    <3>2. PICK i \in DOMAIN TagsToProcess : TagsToProcess[i] = tag
      BY <1>2
    <3> QED
      BY <1>3, <1>4, <3>1, <3>2
  <2>2. ASSUME NEW i \in DOMAIN q, NEW f \in ToSet(q[i]) PROVE f \in AllFields(rec)
    <3>1. q[i] = rec.fields[TagsToProcess[i]] /\ TagsToProcess[i] \in DOMAIN rec.fields
      BY <1>2, <1>3, <1>4, RecordIs
    <3> QED
      BY <2>2, <3>1 DEF AllFields
  <2> QED
    BY <2>1, <2>2
<1> QED
  BY <1>5, <1>6, <1>7

\* What is put into a record, or left in it, is there or a field that says the same.
Survives(f, result) == \E g \in ToSet(result.fields[f.tag]) : Alike(f, g)

\* r has all that was kept and all that is new.
HasAll(r, kept, new, rows) ==
    /\ DOMAIN r.rec.fields = Tags /\ \A tag \in Tags : r.rec.fields[tag] \in Seq(Fields)
    /\ r.rows = rows
    /\ \A f \in ToSet(kept) \union ToSet(new) : f.tag \in Tags /\ Survives(f, r.rec)

\* Putting the fields in order anew, tag by tag, keeps what was kept and what is new.
LEMMA RebuiltKeeps ==
    ASSUME NEW rec \in Records, NEW all, NEW kept \in Seq(Fields), NEW new \in Seq(Fields), NEW rows,
           ToSet(kept) \subseteq AllFields(rec),
           NEW r, r = Rebuilt(rec, all, kept, new, rows)
    PROVE  HasAll(r, kept, new, rows)
<1> DEFINE altered == altered_fields(new, Among(all, {f \in ToSet(all) : Processed(f)}))
           Of(fields, tag) == Among(fields, {f \in ToSet(fields) : f.tag = tag})
           fs == [tag \in Tags |->
                    IF tag \in altered THEN NewFields(tag, Of(kept, tag), Of(new, tag)) ELSE rec.fields[tag]]
<1>1. rec.fields \in [Tags -> Seq(Fields)] /\ DOMAIN rec.fields = Tags
  BY DEF Records
<1>2. r = [rec |-> [rec EXCEPT !.fields = fs], rows |-> rows]
  <2>1. r = [rec |-> [rec EXCEPT !.fields = [tag \in DOMAIN rec.fields |->
                       IF tag \in altered THEN NewFields(tag, Of(kept, tag), Of(new, tag)) ELSE rec.fields[tag]]],
             rows |-> rows]
    BY DEF Rebuilt, Records
  <2> HIDE DEF altered, Of
  <2> QED
    BY <1>1, <2>1
<1>3. ASSUME NEW fields \in Seq(Fields), NEW tag
      PROVE  Of(fields, tag) \in Seq(Fields) /\ ToSet(Of(fields, tag)) = {f \in ToSet(fields) : f.tag = tag}
  <2>1. PICK B : B = {f \in ToSet(fields) : f.tag = tag}
    OBVIOUS
  <2>2. Among(fields, B) \in Seq(Fields) /\ ToSet(Among(fields, B)) = ToSet(fields) \cap B
    BY AmongIs
  <2> QED
    BY <2>1, <2>2
<1>4. \A f \in ToSet(new) : f.tag \in altered
  <2>1. ASSUME NEW f \in ToSet(new) PROVE f.tag \in TagsOf(new)
    <3>1. PICK i \in DOMAIN new : new[i] = f
      BY InSeq
    <3> QED
      BY <3>1 DEF TagsOf
  <2> QED
    BY <2>1 DEF altered_fields
<1> HIDE DEF altered, Of
<1>5. ASSUME NEW tag \in Tags, tag \in altered
      PROVE  /\ fs[tag] \in Seq(Fields)
             /\ \A f \in ToSet(kept) \union ToSet(new) : f.tag = tag => \E g \in ToSet(fs[tag]) : Alike(f, g)
  <2>1. fs[tag] = NewFields(tag, Of(kept, tag), Of(new, tag))
    BY <1>5
  <2>2. PICK k \in Seq(Fields) : k = Of(kept, tag) /\ ToSet(k) = {f \in ToSet(kept) : f.tag = tag}
    BY <1>3
  <2>3. PICK n \in Seq(Fields) : n = Of(new, tag) /\ ToSet(n) = {f \in ToSet(new) : f.tag = tag}
    BY <1>3
  <2>4. /\ NewFields(tag, k, n) \in Seq(Fields)
        /\ \A f \in ToSet(k) \union ToSet(n) : \E g \in ToSet(NewFields(tag, k, n)) : Alike(f, g)
    BY NewFieldsAre
  <2>5. fs[tag] = NewFields(tag, k, n)
    BY <2>1, <2>2, <2>3
  <2> HIDE DEF fs
  <2>6. \A f \in ToSet(kept) \union ToSet(new) : f.tag = tag => f \in ToSet(k) \union ToSet(n)
    BY <2>2, <2>3
  <2> QED
    BY <2>4, <2>5, <2>6
<1>6. \A tag \in Tags : tag \notin altered => fs[tag] = rec.fields[tag] /\ fs[tag] \in Seq(Fields)
  BY <1>1
<1>7. DOMAIN fs = Tags
  OBVIOUS
<1> HIDE DEF fs
<1>8. r.rec.fields = fs /\ r.rows = rows
  BY <1>2 DEF Records
<1>9. \A tag \in Tags : fs[tag] \in Seq(Fields)
  BY <1>5, <1>6
<1>10. ASSUME NEW f \in ToSet(kept) \union ToSet(new), f.tag \in Tags PROVE \E g \in ToSet(fs[f.tag]) : Alike(f, g)
  <2>1. CASE f.tag \in altered
    BY <1>5, <1>10, <2>1
  <2>2. CASE f.tag \notin altered
    <3>1. f \in ToSet(rec.fields[f.tag])
      BY <1>4, <2>2, RecordIs
    <3>2. fs[f.tag] = rec.fields[f.tag] /\ Alike(f, f)
      BY <1>6, <1>10, <2>2, AlikeOrder
    <3> QED
      BY <3>1, <3>2
  <2> QED
    BY <2>1, <2>2
<1>11. \A f \in ToSet(kept) \union ToSet(new) : f.tag \in Tags
  <2>1. ToSet(kept) \subseteq Fields /\ ToSet(new) \subseteq Fields
    BY InSeq
  <2> QED
    BY <2>1 DEF Fields
<1> QED
  BY <1>7, <1>8, <1>9, <1>10, <1>11 DEF Survives, HasAll

\* What is in a record, and what is written of it in the check log.
Entries(r) == Terms(AllFields(r.rec)) \union {row[2] : row \in r.rows}

\* What stays, what is made and what is logged account for the record.
LEMMA GatheredKeeps ==
    ASSUME NEW rec \in Records, NEW all \in Seq(Fields), ToSet(all) = AllFields(rec),
           NEW done \in Seq(Mades), DOMAIN done = DOMAIN all,
           \A i \in DOMAIN all : IF Processed(all[i]) THEN Accounted(all[i], done[i]) ELSE done[i].fields = <<>>,
           NEW r, r = Gathered(rec, all, done)
    PROVE  /\ DOMAIN r.rec.fields = Tags /\ \A tag \in Tags : r.rec.fields[tag] \in Seq(Fields)
           /\ \A i \in DOMAIN all : ~ Processed(all[i]) => Survives(all[i], r.rec)
           /\ \A i \in DOMAIN all : Processed(all[i]) =>
                 \A t \in Promised(all[i]) : Stands(t) \cap Entries(r) # {}
<1> DEFINE Stays(i) == \/ all[i].tag \notin ToSet(TagsToConvert)
                       \/ VocabularyCode(all[i]) = "" /\ done[i].fields = <<>>
           I == {i \in DOMAIN all : Stays(i)}
           stay == Among(PlacesOf(all), I)
           kept == Taken(all, stay)
           made == JoinAll(done)
           new == Among(made.fields, {f \in ToSet(made.fields) : f.subs # <<>>})
           rows == made.rows \union {<<"8", "">> : f \in {g \in ToSet(made.fields) : g.subs = <<>>}}
<1>1. r = Rebuilt(rec, all, kept, new, rows)
  BY DEF Gathered, Taken, PlacesOf
<1>2. kept \in Seq(Fields) /\ ToSet(kept) = {all[i] : i \in DOMAIN all \cap I}
  <2> HIDE DEF I
  <2> QED
    BY Chosen
<1>3. made \in Mades /\ \A i \in DOMAIN done : Told(done[i]) \subseteq Told(made)
  BY JoinAllIs
<1>4. \A i \in DOMAIN all : Stays(i) => all[i] \in ToSet(kept)
  <2> HIDE DEF kept, Stays
  <2>1. \A i \in DOMAIN all : Stays(i) => i \in DOMAIN all \cap I
    OBVIOUS
  <2> HIDE DEF I
  <2> QED
    BY <1>2, <2>1
<1> HIDE DEF made, kept, I
<1>5. made.fields \in Seq(Fields) /\ ToSet(made.fields) \in SUBSET Fields
  BY <1>3, MadesAre
<1>6. new \in Seq(Fields) /\ ToSet(new) = {f \in ToSet(made.fields) : f.subs # <<>>}
  <2>1. PICK B : B = {f \in ToSet(made.fields) : f.subs # <<>>}
    OBVIOUS
  <2>2. Among(made.fields, B) \in Seq(Fields) /\ ToSet(Among(made.fields, B)) = ToSet(made.fields) \cap B
    BY <1>5, AmongIs
  <2> QED
    BY <2>1, <2>2
<1>7. made.rows \subseteq rows
  OBVIOUS
<1> HIDE DEF new, rows
<1>8. ToSet(kept) \subseteq AllFields(rec)
  <2>1. \A i \in DOMAIN all : all[i] \in ToSet(all)
    BY InSeq
  <2> QED
    BY <1>2, <2>1
<1>9. /\ DOMAIN r.rec.fields = Tags /\ \A tag \in Tags : r.rec.fields[tag] \in Seq(Fields)
      /\ r.rows = rows
      /\ \A f \in ToSet(kept) \union ToSet(new) : f.tag \in Tags /\ Survives(f, r.rec)
  <2>1. PICK k \in Seq(Fields), n \in Seq(Fields) : k = kept /\ n = new
    BY <1>2, <1>6
  <2>2. r = Rebuilt(rec, all, k, n, rows) /\ ToSet(k) \subseteq AllFields(rec)
    BY <1>1, <1>8, <2>1
  <2>3. HasAll(r, k, n, rows)
    BY <2>2, RebuiltKeeps
  <2> QED
    BY <2>1, <2>3 DEF HasAll
<1>10. AllFields(r.rec) \in SUBSET Fields /\ \A tag \in Tags : ToSet(r.rec.fields[tag]) \subseteq AllFields(r.rec)
  <2>1. \A tag \in Tags : ToSet(r.rec.fields[tag]) \subseteq Fields
    BY <1>9, InSeq
  <2>2. AllFields(r.rec) = UNION {ToSet(r.rec.fields[tag]) : tag \in Tags}
    BY <1>9 DEF AllFields
  <2> QED
    BY <2>1, <2>2
<1>11. ASSUME NEW f \in ToSet(kept) \union ToSet(new), NEW x \in ToSet(f.subs), x.code \notin Digits
       PROVE  x.value \in Entries(r)
  <2>1. f \in Fields
    BY <1>2, <1>6, InSeq
  <2>2. PICK g \in ToSet(r.rec.fields[f.tag]) : Alike(f, g)
    BY <1>9 DEF Survives
  <2>3. g \in AllFields(r.rec) /\ g \in Fields
    BY <1>9, <1>10
  <2>4. x \in ToSet(g.subs)
    BY <1>11, <2>1, <2>2, <2>3, SameTerms
  <2>5. x.value \in Terms(AllFields(r.rec))
    BY <1>10, <1>11, <2>3, <2>4, TermIs
  <2> QED
    BY <2>5 DEF Entries
<1>12. ASSUME NEW v \in Told(made) PROVE v \in Entries(r)
  <2>1. CASE v \in Terms(ToSet(made.fields))
    <3>1. PICK f \in ToSet(made.fields) : \E x \in ToSet(f.subs) : x.code \notin Digits /\ x.value = v
      BY <1>5, <2>1, TermIs
    <3>2. f.subs # <<>>
      BY <3>1, SetOfEmpty
    <3>3. f \in ToSet(new)
      BY <1>6, <3>2
    <3> QED
      BY <1>11, <3>1, <3>3
  <2>2. CASE v \in {row[2] : row \in made.rows}
    BY <1>7, <1>9, <2>2 DEF Entries
  <2> QED
    BY <1>12, <2>1, <2>2 DEF Told
<1>13. ASSUME NEW i \in DOMAIN all, ~ Processed(all[i]) PROVE Survives(all[i], r.rec)
  <2>1. done[i].fields = <<>>
    BY <1>13
  <2>2. Stays(i)
    BY <1>13, <2>1 DEF Processed
  <2> HIDE DEF Stays
  <2> QED
    BY <1>4, <1>9, <2>2
<1>14. ASSUME NEW i \in DOMAIN all, Processed(all[i]), NEW t \in Promised(all[i])
       PROVE  Stands(t) \cap Entries(r) # {}
  <2>1. Accounted(all[i], done[i])
    BY <1>14
  <2>2. CASE Stands(t) \cap Told(done[i]) # {}
    BY <1>3, <1>12, <2>2
  <2>3. CASE VocabularyCode(all[i]) = "" /\ done[i].fields = <<>>
    <3>1. all[i] \in ToSet(kept)
      <4>1. Stays(i)
        BY <2>3
      <4> HIDE DEF Stays
      <4> QED
        BY <1>4, <4>1
    <3>2. all[i] \in Fields
      BY InSeq
    <3>3. PICK x \in Subs : PromisedBy(all[i], x) /\ x.value = t
      BY <1>14, <3>2, PromisedIs
    <3>4. x \in ToSet(all[i].subs) /\ x.code \notin Digits
      BY <3>3 DEF PromisedBy
    <3>5. t \in Entries(r)
      BY <1>11, <3>1, <3>3, <3>4
    <3> QED
      BY <3>5 DEF Stands
  <2> QED
    BY <2>1, <2>2, <2>3 DEF Accounted
<1> QED
  BY <1>9, <1>13, <1>14

\* process_record: a field without a code to convert survives, and every term of
\* the others is in the new record or in the check log.
LEMMA ProcessRecordKeeps ==
    ASSUME NEW rec \in Records, NEW r, r = process_record(rec)
    PROVE  /\ DOMAIN r.rec.fields = Tags /\ \A tag \in Tags : r.rec.fields[tag] \in Seq(Fields)
           /\ \A f \in AllFields(rec) : ~ Processed(f) => Survives(f, r.rec)
           /\ \A f \in AllFields(rec) : Processed(f) => \A t \in Promised(f) : Stands(t) \cap Entries(r) # {}
<1>1. PICK all \in Seq(Fields) : all = All(rec) /\ ToSet(all) = AllFields(rec)
  BY AllIs
<1> DEFINE done == [i \in DOMAIN all |-> IF Processed(all[i])
                                        THEN process_field(all[i], VocabularyCode(all[i]), rec)
                                        ELSE Nothing]
<1>2. r = Gathered(rec, all, done)
  BY <1>1 DEF process_record, All
<1>3. DOMAIN all = 1 .. Len(all) /\ Len(all) \in Nat /\ \A i \in DOMAIN all : all[i] \in Fields
  BY InSeq
<1>4. ASSUME NEW i \in DOMAIN all
      PROVE  /\ done[i] \in Mades
             /\ IF Processed(all[i]) THEN Accounted(all[i], done[i]) ELSE done[i].fields = <<>>
  <2>1. PICK f \in Fields : f = all[i]
    BY <1>3
  <2>2. done[i] = IF Processed(f) THEN process_field(f, VocabularyCode(f), rec) ELSE Nothing
    BY <2>1
  <2> HIDE DEF done
  <2> QED
    BY <2>1, <2>2, ProcessFieldIs, NothingIs
<1>5. done \in Seq(Mades) /\ DOMAIN done = DOMAIN all
  <2>1. done \in [1 .. Len(all) -> Mades]
    BY <1>3, <1>4
  <2>2. Len(all) \in Nat /\ DOMAIN all = 1 .. Len(all)
    BY <1>3
  <2> HIDE DEF done
  <2> QED
    BY <2>1, <2>2, SeqDef
<1> HIDE DEF done
<1>6. /\ DOMAIN r.rec.fields = Tags /\ \A tag \in Tags : r.rec.fields[tag] \in Seq(Fields)
      /\ \A i \in DOMAIN all : ~ Processed(all[i]) => Survives(all[i], r.rec)
      /\ \A i \in DOMAIN all : Processed(all[i]) =>
            \A t \in Promised(all[i]) : Stands(t) \cap Entries(r) # {}
  BY <1>1, <1>2, <1>4, <1>5, GatheredKeeps
<1>7. \A f \in AllFields(rec) : \E i \in DOMAIN all : all[i] = f
  BY <1>1, InSeq
<1> QED
  BY <1>6, <1>7

-----------------------------------------------------------------------------
(* The scripts and their files                                             *)

USE BoundsAssumption, NoneAssumption

Output == [exists : BOOLEAN, closed : BOOLEAN, recs : SUBSET Nat]
Dump == [state : {"none", "empty", "cut", "mixed", "whole"}, day : Nat]

\* The domains and ranges of the functions.
FunctionTypes ==
    /\ content \in Contents
    /\ out \in [Files -> Output]
    /\ dump \in Dump
    /\ pc \in [Runs -> Label]
    /\ todo \in [Runs -> SUBSET Files]
    /\ file \in [Runs -> Files \union {None}]
    /\ at \in [Runs -> Nat]

\* What is in use was exported; a file's records are counted from the first, and
\* a script that has ended has nothing to do.
InUse ==
    /\ \A f \in Files : out[f].exists => f \in exported
    /\ \A r \in Runs : file[r] # None => file[r] \in exported
    /\ \A r \in Runs : pc[r] \notin {"record", "rename"} => at[r] = 1
    /\ \A r \in Runs : pc[r] = "idle" => todo[r] = {}

Inv == FunctionTypes /\ TypeOK /\ InUse

LEMMA Lengths ==
    ASSUME NEW f \in Files, content \in Contents
    PROVE  /\ Len(content[f]) \in Nat
           /\ DOMAIN content[f] = 1..Len(content[f])
<1>1. content[f] \in Seq(Records)
  BY ContentsAssumption
<1> QED BY <1>1

LEMMA OutputGrows ==
    ASSUME NEW o \in Output, NEW i \in Nat
    PROVE  [o EXCEPT !.recs = @ \union {i}] \in Output
  BY DEF Output

LEMMA OutputCloses ==
    ASSUME NEW o \in [Files -> Output], NEW f \in Files
    PROVE  LET c == [o EXCEPT ![f].closed = TRUE]
           IN /\ c \in [Files -> Output]
              /\ \A g \in Files : c[g].exists = o[g].exists /\ c[g].recs = o[g].recs
<1> DEFINE closed == [o[f] EXCEPT !.closed = TRUE]
           c == [o EXCEPT ![f].closed = TRUE]
<1>1. closed \in Output /\ closed.exists = o[f].exists /\ closed.recs = o[f].recs
  BY DEF Output
<1>2. c = [o EXCEPT ![f] = closed]
  OBVIOUS
<1> HIDE DEF closed, c
<1>3. /\ c \in [Files -> Output]
      /\ \A g \in Files : c[g].exists = o[g].exists /\ c[g].recs = o[g].recs
  BY <1>1, <1>2
<1> QED BY <1>3 DEF c

\* A record that fails concerns the script that has it, and no record is written.
LEMMA FailureIs ==
    ASSUME FunctionTypes, NEW r \in Runs, file[r] # None, RecordFails(r)
    PROVE  /\ pc[r] = "record" /\ pc'[r] \in {"record", "rename"}
           /\ pc' \in [Runs -> Label] /\ at' \in [Runs -> Nat]
           /\ \A q \in Runs \ {r} : pc'[q] = pc[q] /\ at'[q] = at[q]
           /\ at'[r] = at[r] \/ (at[r] <= Len(content[file[r]]) /\ at'[r] = at[r] + 1)
           /\ out' \in [Files -> Output]
           /\ \A f \in Files : out'[f].exists = out[f].exists /\ out'[f].recs = out[f].recs
           /\ failures' = failures + 1 /\ failures < MaxFailures
           /\ spoilt' = spoilt \union {file[r]}
           /\ UNCHANGED <<content, exported, xml, dump, turtle, day, todo, file, converted, gone,
                          losses, faultyDays, crashes>>
<1>1. /\ file[r] \in Files /\ out \in [Files -> Output] /\ pc \in [Runs -> Label]
      /\ at \in [Runs -> Nat]
  BY DEF FunctionTypes
<1>2. pc[r] = "record" /\ "record" \in Label /\ "rename" \in Label
  BY DEF RecordFails, Label
<1>3. /\ out' \in [Files -> Output]
      /\ \A f \in Files : out'[f].exists = out[f].exists /\ out'[f].recs = out[f].recs
  <2>1. CASE out' = out
    BY <1>1, <2>1
  <2>2. CASE out' = [out EXCEPT ![file[r]].closed = TRUE]
    BY <1>1, <2>2, OutputCloses
  <2> QED BY <2>1, <2>2 DEF RecordFails, ReadingBreaksOff, RecordKills, RecordNotWritten
<1>4. pc' = pc \/ pc' = [pc EXCEPT ![r] = "rename"]
  BY DEF RecordFails, ReadingBreaksOff, RecordKills, RecordNotWritten, Goto
<1>5. /\ pc'[r] \in {"record", "rename"} /\ pc' \in [Runs -> Label]
      /\ \A q \in Runs \ {r} : pc'[q] = pc[q]
  BY <1>1, <1>2, <1>4
<1>6. at' = at \/ (at[r] <= Len(content[file[r]]) /\ at' = [at EXCEPT ![r] = @ + 1])
  BY DEF RecordFails, ReadingBreaksOff, RecordKills, RecordNotWritten
<1>7. /\ at' \in [Runs -> Nat] /\ \A q \in Runs \ {r} : at'[q] = at[q]
      /\ at'[r] = at[r] \/ (at[r] <= Len(content[file[r]]) /\ at'[r] = at[r] + 1)
  BY <1>1, <1>6
<1>8. /\ spoilt' = spoilt \union {file[r]}
      /\ failures' = failures + 1 /\ failures < MaxFailures
      /\ UNCHANGED <<content, exported, xml, dump, turtle, day, todo, file, converted, gone,
                     losses, faultyDays, crashes>>
  BY DEF RecordFails
<1> QED BY <1>2, <1>3, <1>5, <1>7, <1>8

LEMMA InitInv == Init => Inv
<1> SUFFICES ASSUME Init PROVE Inv
  OBVIOUS
<1> USE DEF Init
<1>1. FunctionTypes
  <2>1. NoOutput \in Output
    BY DEF NoOutput, Output
  <2>2. "idle" \in Label
    BY DEF Label
  <2> QED BY <2>1, <2>2 DEF FunctionTypes, Dump
<1>2. InUse
  BY DEF InUse, NoOutput
<1>3. TypeOK
  BY DEF TypeOK, NoOutput, Label
<1> QED BY <1>1, <1>2, <1>3 DEF Inv

\* A step that only takes a script from one statement to another.
LEMMA LabelStep ==
    ASSUME Inv, NEW r \in Runs, NEW to \in Label \ {"idle", "next"},
           pc[r] \notin {"idle", "next", "record", "rename"}, Goto(r, to),
           UNCHANGED <<content, disk, day, local, history, counters>>
    PROVE  Inv'
<1> USE DEF Inv, Goto, disk, local, history, counters
<1>1. FunctionTypes'
  BY DEF FunctionTypes
<1>2. InUse'
  BY DEF FunctionTypes, InUse
<1>3. TypeOK'
  BY DEF FunctionTypes, TypeOK
<1> QED BY <1>1, <1>2, <1>3

LEMMA NextInv == Inv /\ [Next]_vars => Inv'
<1> SUFFICES ASSUME Inv, [Next]_vars PROVE Inv'
  OBVIOUS
<1> USE DEF Label
<1>1. ASSUME NEW r \in Runs, Start(r) PROVE Inv'
  <2> USE <1>1 DEF Inv, Start, Goto, disk, local, history, counters
  <2>1. FunctionTypes'
    BY DEF FunctionTypes, TypeOK, Output, Dump
  <2>2. InUse'
    BY DEF FunctionTypes, TypeOK, InUse, Output
  <2>3. TypeOK'
    BY Lengths DEF FunctionTypes, TypeOK, InUse, Output, Dump, NoOutput
  <2> QED BY <2>1, <2>2, <2>3
<1>2. ASSUME NEW r \in Runs, Take(r) PROVE Inv'
  <2> USE <1>2 DEF Inv, Take, Goto, Exit, disk, local, history, counters
  <2>1. FunctionTypes'
    BY SMTT(60) DEF FunctionTypes, Output, Dump
  <2>2. InUse'
    <3>1. CASE \E f \in todo[r] : file' = [file EXCEPT ![r] = f] /\ Goto(r, "check") /\ UNCHANGED at
      BY <3>1 DEF FunctionTypes, TypeOK, InUse
    <3>2. CASE Exit(r)
      BY <3>2 DEF FunctionTypes, TypeOK, InUse
    <3> QED BY <3>1, <3>2
  <2>3. TypeOK'
    <3>1. CASE \E f \in todo[r] : /\ todo' = [todo EXCEPT ![r] = @ \ {f}]
                                 /\ file' = [file EXCEPT ![r] = f] /\ Goto(r, "check") /\ UNCHANGED at
      <4>1. PICK f \in todo[r] : /\ todo' = [todo EXCEPT ![r] = @ \ {f}]
                                /\ file' = [file EXCEPT ![r] = f] /\ Goto(r, "check") /\ UNCHANGED at
        BY <3>1
      <4>2. f \in Files /\ f # None /\ at[r] = 1 /\ Len(content[f]) \in Nat
        BY Lengths DEF FunctionTypes, TypeOK, InUse
      <4> QED BY <4>1, <4>2 DEF FunctionTypes, TypeOK
    <3>2. CASE Exit(r)
      BY <3>2 DEF FunctionTypes, TypeOK
    <3> QED BY <3>1, <3>2
  <2> QED BY <2>1, <2>2, <2>3
<1>3. ASSUME NEW r \in Runs, Finish(r) PROVE Inv'
  <2> USE <1>3 DEF Inv, Finish, Goto, Exit, disk, local, history, counters
  <2>1. FunctionTypes'
    BY DEF FunctionTypes, Output, Dump
  <2>2. InUse'
    BY DEF FunctionTypes, TypeOK, InUse, Output
  <2>3. TypeOK'
    BY Lengths DEF FunctionTypes, TypeOK, InUse, Output, Dump, NoOutput
  <2> QED BY <2>1, <2>2, <2>3
<1>4. ASSUME NEW r \in Runs, Rename(r) PROVE Inv'
  <2> USE <1>4 DEF Inv, Rename, Goto, Step, disk, local, history, counters
  <2>1. FunctionTypes'
    BY DEF FunctionTypes, Output, Dump
  <2>2. InUse'
    BY DEF FunctionTypes, TypeOK, InUse, Output
  <2>3. TypeOK'
    <3>1. file[r] \in exported /\ day \in 0..day /\ losses \subseteq exported \X (0..day)
      BY DEF TypeOK, InUse
    <3>2. losses' \subseteq exported \X (0..day)
      BY <3>1
    <3>3. converted' \union gone' \union spoilt' \subseteq exported /\ xml' \subseteq exported
      BY <3>1 DEF TypeOK
    <3>4. \A q \in Runs : /\ pc'[q] \in Label
                          /\ (file'[q] = None) = (pc'[q] \in {"idle", "next"})
      BY DEF FunctionTypes, TypeOK
    <3>5. \A q \in Runs : at'[q] \in 1..(1 + IF file'[q] = None THEN 0 ELSE Len(content[file'[q]]))
      BY DEF FunctionTypes, TypeOK
    <3>6. /\ UNCHANGED <<content, exported, out, dump, turtle, day, todo, spoilt, faultyDays,
                         crashes, failures>>
      OBVIOUS
    <3> HIDE <1>4 DEF Rename
    <3> QED BY <3>2, <3>3, <3>4, <3>5, <3>6 DEF TypeOK
  <2> QED BY <2>1, <2>2, <2>3
<1>5. ASSUME NEW r \in Runs, CheckFiles(r) PROVE Inv'
  BY <1>5, LabelStep DEF CheckFiles
<1>6. ASSUME NEW r \in Runs, LoadDump(r) PROVE Inv'
  BY <1>6, LabelStep DEF LoadDump
<1>7. ASSUME NEW r \in Runs, BeginDownload(r) PROVE Inv'
  <2> USE <1>7 DEF Inv, BeginDownload, Goto, Step, disk, local, history, counters
  <2>1. FunctionTypes'
    BY DEF FunctionTypes, Output, Dump
  <2>2. InUse'
    BY DEF FunctionTypes, TypeOK, InUse, Output
  <2>3. TypeOK'
    BY Lengths DEF FunctionTypes, TypeOK, InUse, Output, Dump, NoOutput
  <2> QED BY <2>1, <2>2, <2>3
<1>8. ASSUME NEW r \in Runs, EndDownload(r) PROVE Inv'
  <2> USE <1>8 DEF Inv, EndDownload, Goto, Step, disk, local, history, counters
  <2>1. FunctionTypes'
    BY DEF FunctionTypes, Output, Dump
  <2>2. InUse'
    BY DEF FunctionTypes, TypeOK, InUse, Output
  <2>3. TypeOK'
    BY Lengths DEF FunctionTypes, TypeOK, InUse, Output, Dump, NoOutput
  <2> QED BY <2>1, <2>2, <2>3
<1>9. ASSUME NEW r \in Runs, DownloadFails(r) PROVE Inv'
  <2> USE <1>9 DEF Inv, DownloadFails, Goto, disk, local, history, counters
  <2>1. FunctionTypes'
    BY DEF FunctionTypes, Output, Dump
  <2>2. InUse'
    BY DEF FunctionTypes, TypeOK, InUse, Output
  <2>3. TypeOK'
    <3>a. /\ day \in Nat /\ faultyDays \subseteq 0..day
          /\ failures \in 0..MaxFailures /\ MaxFailures \in Nat
      BY DEF TypeOK
    <3>b. faultyDays' = faultyDays \union {day} /\ failures' = failures + 1 /\ failures < MaxFailures
      OBVIOUS
    <3>1. failures' \in 0..MaxFailures /\ faultyDays' \subseteq 0..day
      <4> HIDE <1>9
      <4> QED BY <3>a, <3>b
    <3>2. PICK to \in {"parse", "rename"} : pc' = [pc EXCEPT ![r] = to]
      OBVIOUS
    <3> QED BY <3>1, <3>2 DEF FunctionTypes, TypeOK
  <2> QED BY <2>1, <2>2, <2>3
<1>10. ASSUME NEW r \in Runs, Parse(r) PROVE Inv'
  BY <1>10, LabelStep DEF Parse
<1>11. ASSUME NEW r \in Runs, OpenDump(r) PROVE Inv'
  <2> USE <1>11 DEF Inv, OpenDump, Goto, Step, disk, local, history, counters
  <2>1. FunctionTypes'
    BY DEF FunctionTypes, TypeOK, Output, Dump
  <2>2. InUse'
    BY DEF FunctionTypes, TypeOK, InUse, Output
  <2>3. TypeOK'
    BY Lengths DEF FunctionTypes, TypeOK, InUse, Output, Dump, NoOutput
  <2> QED BY <2>1, <2>2, <2>3
<1>12. ASSUME NEW r \in Runs, WriteDump(r) PROVE Inv'
  <2> USE <1>12 DEF Inv, WriteDump, Goto, Step, disk, local, history, counters
  <2>1. FunctionTypes'
    BY DEF FunctionTypes, Output, Dump
  <2>2. InUse'
    BY DEF FunctionTypes, TypeOK, InUse, Output
  <2>3. TypeOK'
    BY Lengths DEF FunctionTypes, TypeOK, InUse, Output, Dump, NoOutput
  <2> QED BY <2>1, <2>2, <2>3
<1>13. ASSUME NEW r \in Runs, CloseDump(r) PROVE Inv'
  <2> USE <1>13 DEF Inv, CloseDump, Goto, Step, disk, local, history, counters
  <2>1. FunctionTypes'
    BY DEF FunctionTypes, Output, Dump
  <2>2. InUse'
    BY DEF FunctionTypes, TypeOK, InUse, Output
  <2>3. TypeOK'
    BY Lengths DEF FunctionTypes, TypeOK, InUse, Output, Dump, NoOutput
  <2> QED BY <2>1, <2>2, <2>3
<1>14. ASSUME NEW r \in Runs, OpenOutput(r) PROVE Inv'
  <2> USE <1>14 DEF Inv, OpenOutput, Goto, disk, local, history, counters
  <2>1. FunctionTypes'
    BY DEF FunctionTypes, Output, Dump
  <2>2. InUse'
    BY DEF FunctionTypes, TypeOK, InUse, Output
  <2>3. TypeOK'
    BY Lengths DEF FunctionTypes, TypeOK, InUse, Output, Dump, NoOutput
  <2> QED BY <2>1, <2>2, <2>3
<1>15. ASSUME NEW r \in Runs, read_and_write_record(r) PROVE Inv'
  <2> USE <1>15 DEF Inv, read_and_write_record, disk, history, counters
  <2> DEFINE n == Len(content[file[r]])
  <2>a. file[r] \in Files /\ pc[r] = "record"
    BY DEF FunctionTypes, TypeOK
  <2>b. n \in Nat /\ DOMAIN content[file[r]] = 1..n
    BY <2>a, Lengths DEF FunctionTypes
  <2>c. at[r] \in 1..(1 + n) /\ at[r] <= n
    BY <2>a DEF TypeOK
  <2>0. /\ file[r] \in Files /\ n \in Nat /\ DOMAIN content[file[r]] = 1..n
        /\ at[r] \in 1..n /\ at[r] + 1 \in 1..(1 + n)
        /\ pc[r] = "record"
    BY <2>a, <2>b, <2>c
  <2>d. out' = [out EXCEPT ![file[r]].recs = @ \union {at[r]}] \/ out' = out
    OBVIOUS
  <2>1. FunctionTypes'
    <3>1. at[r] \in Nat /\ at' \in [Runs -> Nat]
      BY <2>0 DEF FunctionTypes
    <3>2. [out[file[r]] EXCEPT !.recs = @ \union {at[r]}] \in Output
      BY <2>0, <3>1, OutputGrows DEF FunctionTypes
    <3>3. out' \in [Files -> Output]
      BY <2>0, <2>d, <3>2 DEF FunctionTypes
    <3> QED BY <3>1, <3>3 DEF FunctionTypes
  <2>2. InUse'
    BY DEF FunctionTypes, TypeOK, InUse, Output
  <2>3. TypeOK'
    <3>1. \A f \in Files : DOMAIN out'[f] = DOMAIN NoOutput /\ out'[f].recs \subseteq DOMAIN content[f]
      BY <2>0, <2>d DEF FunctionTypes, TypeOK, Output, NoOutput
    <3>2. \A q \in Runs : at'[q] \in 1..(1 + IF file[q] = None THEN 0 ELSE Len(content[file[q]]))
      BY <2>0 DEF FunctionTypes, TypeOK
    <3> QED BY <3>1, <3>2 DEF TypeOK
  <2> QED BY <2>1, <2>2, <2>3
<1>16. ASSUME NEW r \in Runs, CloseOutput(r) PROVE Inv'
  <2> USE <1>16 DEF Inv, CloseOutput, Goto, Step, disk, local, history, counters
  <2>1. FunctionTypes'
    BY ZenonT(60) DEF FunctionTypes, Output, Dump
  <2>2. InUse'
    BY DEF FunctionTypes, TypeOK, InUse, Output
  <2>3. TypeOK'
    BY Lengths DEF FunctionTypes, TypeOK, InUse, Output, Dump, NoOutput
  <2> QED BY <2>1, <2>2, <2>3
<1>17. ASSUME NEW r \in Runs, Crash(r) PROVE Inv'
  <2> USE <1>17 DEF Inv, Crash, Goto, Exit, disk, local, history, counters
  <2>1. FunctionTypes'
    BY DEF FunctionTypes, Output, Dump
  <2>2. InUse'
    BY DEF FunctionTypes, TypeOK, InUse, Output
  <2>3. TypeOK'
    BY Lengths DEF FunctionTypes, TypeOK, InUse, Output, Dump, NoOutput
  <2> QED BY <2>1, <2>2, <2>3
<1>18. ASSUME NEW r \in Runs, ConverterDies(r) PROVE Inv'
  <2> USE <1>18 DEF Inv, ConverterDies, Goto, disk, local, history, counters
  <2>1. FunctionTypes'
    BY DEF FunctionTypes, Output, Dump
  <2>2. InUse'
    BY DEF FunctionTypes, TypeOK, InUse, Output
  <2>3. TypeOK'
    <3>a. /\ day \in Nat /\ faultyDays \subseteq 0..day
          /\ failures \in 0..MaxFailures /\ MaxFailures \in Nat
      BY DEF TypeOK
    <3>b. faultyDays' = faultyDays \union {day} /\ failures' = failures + 1 /\ failures < MaxFailures
      OBVIOUS
    <3>1. failures' \in 0..MaxFailures /\ faultyDays' \subseteq 0..day
      <4> HIDE <1>18
      <4> QED BY <3>a, <3>b
    <3> QED BY <3>1 DEF FunctionTypes, TypeOK
  <2> QED BY <2>1, <2>2, <2>3
<1>19. ASSUME NEW r \in Runs, RecordFails(r) PROVE Inv'
  <2>a. /\ pc[r] = "record" /\ file[r] # None /\ file[r] \in Files /\ file[r] \in exported
        /\ Len(content[file[r]]) \in Nat /\ at[r] \in 1..(1 + Len(content[file[r]]))
    BY <1>19, Lengths DEF RecordFails, Inv, FunctionTypes, TypeOK, InUse
  <2>b. /\ pc'[r] \in {"record", "rename"}
        /\ pc' \in [Runs -> Label] /\ at' \in [Runs -> Nat]
        /\ \A q \in Runs \ {r} : pc'[q] = pc[q] /\ at'[q] = at[q]
        /\ at'[r] = at[r] \/ (at[r] <= Len(content[file[r]]) /\ at'[r] = at[r] + 1)
        /\ out' \in [Files -> Output]
        /\ \A f \in Files : out'[f].exists = out[f].exists /\ out'[f].recs = out[f].recs
        /\ failures' = failures + 1 /\ failures < MaxFailures
        /\ spoilt' = spoilt \union {file[r]}
        /\ UNCHANGED <<content, exported, xml, dump, turtle, day, todo, file, converted, gone,
                       losses, faultyDays, crashes>>
    BY <1>19, <2>a, FailureIs DEF Inv
  <2>1. FunctionTypes'
    BY <2>b DEF Inv, FunctionTypes
  <2>2. InUse'
    BY <2>a, <2>b DEF Inv, InUse
  <2>3. TypeOK'
    <3>1. failures' \in 0..MaxFailures
      BY <2>b DEF Inv, TypeOK
    <3>2. converted \union gone \union spoilt' \subseteq exported
      BY <2>a, <2>b DEF Inv, TypeOK
    <3>3. \A f \in Files : DOMAIN out'[f] = DOMAIN NoOutput /\ out'[f].recs \subseteq DOMAIN content[f]
      <4>1. \A f \in Files : out[f].recs \subseteq DOMAIN content[f]
        BY DEF Inv, TypeOK
      <4> QED BY <2>b, <4>1 DEF Output, NoOutput
    <3>4. \A q \in Runs : pc'[q] \in Label /\ (file[q] = None) = (pc'[q] \in {"idle", "next"})
      <4>1. \A q \in Runs \ {r} : pc'[q] \in Label /\ (file[q] = None) = (pc'[q] \in {"idle", "next"})
        BY <2>b DEF Inv, TypeOK
      <4>2. pc'[r] \in Label /\ (file[r] = None) = FALSE /\ pc'[r] \notin {"idle", "next"}
        BY <2>a, <2>b
      <4> QED BY <4>1, <4>2
    <3>5. \A q \in Runs : at'[q] \in 1..(1 + IF file[q] = None THEN 0 ELSE Len(content[file[q]]))
      <4>1. at'[r] \in 1..(1 + Len(content[file[r]]))
        BY <2>a, <2>b
      <4>2. \A q \in Runs \ {r} : at'[q] \in 1..(1 + IF file[q] = None THEN 0 ELSE Len(content[file[q]]))
        BY <2>b DEF Inv, TypeOK
      <4> QED BY <2>a, <4>1, <4>2
    <3> QED BY <2>b, <3>1, <3>2, <3>3, <3>4, <3>5 DEF Inv, TypeOK
  <2> QED BY <2>1, <2>2, <2>3 DEF Inv
<1>20. ASSUME NewDay PROVE Inv'
  BY <1>20 DEF NewDay, local, counters, Inv, FunctionTypes, TypeOK, InUse, NoOutput, Output, Dump
<1>21. ASSUME UNCHANGED vars PROVE Inv'
  BY <1>21 DEF vars, disk, local, history, counters, Inv, FunctionTypes, TypeOK, InUse
<1> HIDE DEF Label
<1> QED
  BY <1>1, <1>2, <1>3, <1>4, <1>5, <1>6, <1>7, <1>8, <1>9, <1>10, <1>11, <1>12, <1>13, <1>14, <1>15, <1>16, <1>17, <1>18, <1>19, <1>20, <1>21 DEF Next, Advance

\* The vocabularies, the files and the scripts keep to their states (TypeOK).
THEOREM TypeCorrect == Spec => []TypeOK
<1>1. Inv => TypeOK
  BY DEF Inv
<1> QED BY <1>1, InitInv, NextInv, PTL DEF Spec

(***************************************************************************)
(* Losses and faults                                                       *)
(***************************************************************************)

Dumping == {"dumping", "dumped"}

\* One script works, and the input it has in hand is still there.
OneScript ==
    /\ \A q, r \in Runs : pc[q] # "idle" /\ pc[r] # "idle" => q = r
    /\ \A r \in Runs : todo[r] \subseteq xml
    /\ \A r \in Runs : file[r] # None => file[r] \in xml \ todo[r]

\* Today's dump is whole but while it is written; what is parsed was downloaded.
GoodDump ==
    /\ dump.day = day /\ dump.state \notin {"none", "whole"} => \E r \in Runs : pc[r] \in Dumping
    /\ \A r \in Runs : pc[r] \in Dumping => dump.day = day /\ dump.state \in {"empty", "cut"}
    /\ \A r \in Runs : pc[r] = "parse" => turtle = "whole"

\* A file of xml/ has an output only while it is converted, and that holds the
\* records the converter has passed, unless one of them failed.
GoodOutput ==
    /\ \A f \in xml : out[f].exists => \E r \in Runs : file[r] = f /\ pc[r] \in {"record", "rename"}
    /\ \A r \in Runs : pc[r] = "record" /\ file[r] \notin spoilt =>
          out[file[r]].recs = {i \in 1..(at[r] - 1) : ConvertibleRecord(content[file[r]][i])}
    /\ \A r \in Runs : pc[r] = "rename" /\ file[r] \notin spoilt => Whole(file[r])

Quiet == day \notin faultyDays
QuietInv == LostOnlyOnFaultyDays /\ (Quiet => OneScript /\ GoodDump /\ GoodOutput)

LEMMA InitQuiet == Init => QuietInv
  BY DEF Init, QuietInv, LostOnlyOnFaultyDays, OneScript, GoodDump, GoodOutput, NoOutput, Dumping

LEMMA NextQuiet == Inv /\ QuietInv /\ [Next]_vars => QuietInv'
<1> SUFFICES ASSUME Inv, QuietInv, [Next]_vars PROVE QuietInv'
  OBVIOUS
<1> USE DEF Inv, FunctionTypes, Quiet, Dumping
<1>1. ASSUME NEW r \in Runs, Start(r) PROVE QuietInv'
  <2> USE <1>1 DEF Start, Goto, QuietInv, counters
  <2>1. LostOnlyOnFaultyDays'
    BY DEF LostOnlyOnFaultyDays
  <2> SUFFICES ASSUME Quiet' PROVE (OneScript /\ GoodDump /\ GoodOutput)'
    BY <2>1
  <2>2. Quiet /\ \A q \in Runs : pc[q] = "idle"
    OBVIOUS
  <2>3. OneScript'
    BY <2>2 DEF OneScript, TypeOK, InUse
  <2>4. GoodDump'
    BY <2>2 DEF GoodDump
  <2>5. GoodOutput'
    BY <2>2 DEF GoodOutput, Whole, TypeOK, InUse
  <2> QED BY <2>3, <2>4, <2>5
<1>2. ASSUME NEW r \in Runs, Take(r) PROVE QuietInv'
  <2> USE <1>2 DEF QuietInv, Take, Goto, Exit, disk, local, history, counters
  <2>1. LostOnlyOnFaultyDays'
    BY DEF LostOnlyOnFaultyDays
  <2> SUFFICES ASSUME Quiet' PROVE (OneScript /\ GoodDump /\ GoodOutput)'
    BY <2>1
  <2>2. Quiet /\ \A q \in Runs : pc[q] # "idle" => q = r
    BY DEF OneScript
  <2>a. PICK f \in todo[r] : /\ f \in xml /\ todo' = [todo EXCEPT ![r] = @ \ {f}]
                            /\ file' = [file EXCEPT ![r] = f] /\ Goto(r, "check")
    BY <2>2 DEF OneScript
  <2>3. OneScript'
    BY <2>2, <2>a DEF OneScript, TypeOK, InUse
  <2>4. GoodDump'
    BY <2>2 DEF GoodDump
  <2>5. GoodOutput'
    BY <2>2, <2>a DEF OneScript, GoodOutput, Whole, TypeOK
  <2> QED BY <2>3, <2>4, <2>5
<1>3. ASSUME NEW r \in Runs, Finish(r) PROVE QuietInv'
  <2> USE <1>3 DEF QuietInv, Finish, Goto, Exit, disk, local, history, counters
  <2>1. LostOnlyOnFaultyDays'
    BY DEF LostOnlyOnFaultyDays
  <2> SUFFICES ASSUME Quiet' PROVE (OneScript /\ GoodDump /\ GoodOutput)'
    BY <2>1
  <2>2. Quiet /\ \A q \in Runs : pc[q] # "idle" => q = r
    BY DEF OneScript
  <2>3. OneScript'
    BY <2>2 DEF OneScript, TypeOK, InUse
  <2>4. GoodDump'
    BY <2>2 DEF GoodDump
  <2>5. GoodOutput'
    BY <2>2 DEF OneScript, GoodOutput, Whole, TypeOK, InUse
  <2> QED BY <2>3, <2>4, <2>5
<1>4. ASSUME NEW r \in Runs, Rename(r) PROVE QuietInv'
  <2> USE <1>4 DEF QuietInv, Rename, Goto, Step, disk, local, history, counters
  <2>1. LostOnlyOnFaultyDays'
    <3>1. CASE Whole(file[r])
      BY <3>1 DEF LostOnlyOnFaultyDays
    <3>2. CASE Quiet
      BY <3>2 DEF LostOnlyOnFaultyDays, GoodOutput
    <3>3. CASE ~ Quiet
      BY <3>3 DEF LostOnlyOnFaultyDays
    <3> QED BY <3>2, <3>3
  <2> SUFFICES ASSUME Quiet' PROVE (OneScript /\ GoodDump /\ GoodOutput)'
    BY <2>1
  <2>2. Quiet /\ \A q \in Runs : pc[q] # "idle" => q = r
    BY DEF OneScript
  <2>3. OneScript'
    BY SMTT(30), <2>2 DEF OneScript, TypeOK, InUse
  <2>4. GoodDump'
    BY <2>2 DEF GoodDump
  <2>5. GoodOutput'
    BY <2>2 DEF OneScript, GoodOutput, Whole, TypeOK, InUse
  <2> QED BY <2>3, <2>4, <2>5
<1>5. ASSUME NEW r \in Runs, CheckFiles(r) PROVE QuietInv'
  <2> USE <1>5 DEF QuietInv, CheckFiles, Goto, disk, local, history, counters
  <2>1. LostOnlyOnFaultyDays'
    BY DEF LostOnlyOnFaultyDays
  <2> SUFFICES ASSUME Quiet' PROVE (OneScript /\ GoodDump /\ GoodOutput)'
    BY <2>1
  <2>2. Quiet /\ \A q \in Runs : pc[q] # "idle" => q = r
    BY DEF OneScript
  <2>a. pc' = [pc EXCEPT ![r] = "load"]
    BY <2>2 DEF OneScript, GoodOutput, TypeOK
  <2>3. OneScript'
    BY ZenonT(60), <2>2 DEF OneScript, TypeOK, InUse
  <2>4. GoodDump'
    BY <2>2 DEF GoodDump
  <2>5. GoodOutput'
    BY <2>2, <2>a DEF OneScript, GoodOutput, Whole, TypeOK, InUse
  <2> QED BY <2>3, <2>4, <2>5
<1>6. ASSUME NEW r \in Runs, LoadDump(r) PROVE QuietInv'
  <2> USE <1>6 DEF QuietInv, LoadDump, Goto, disk, local, history, counters
  <2>1. LostOnlyOnFaultyDays'
    BY DEF LostOnlyOnFaultyDays
  <2> SUFFICES ASSUME Quiet' PROVE (OneScript /\ GoodDump /\ GoodOutput)'
    BY <2>1
  <2>2. Quiet /\ \A q \in Runs : pc[q] # "idle" => q = r
    BY DEF OneScript
  <2>a. PICK to \in {"open", "download"} : pc' = [pc EXCEPT ![r] = to]
    BY <2>2 DEF GoodDump
  <2>3. OneScript'
    BY SMTT(30), <2>2 DEF OneScript, TypeOK, InUse
  <2>4. GoodDump'
    BY <2>2 DEF GoodDump
  <2>5. GoodOutput'
    BY <2>2, <2>a DEF OneScript, GoodOutput, Whole, TypeOK, InUse
  <2> QED BY <2>3, <2>4, <2>5
<1>7. ASSUME NEW r \in Runs, BeginDownload(r) PROVE QuietInv'
  <2> USE <1>7 DEF QuietInv, BeginDownload, Goto, Step, disk, local, history, counters
  <2>1. LostOnlyOnFaultyDays'
    BY DEF LostOnlyOnFaultyDays
  <2> SUFFICES ASSUME Quiet' PROVE (OneScript /\ GoodDump /\ GoodOutput)'
    BY <2>1
  <2>2. Quiet /\ \A q \in Runs : pc[q] # "idle" => q = r
    BY DEF OneScript
  <2>3. OneScript'
    BY <2>2 DEF OneScript, TypeOK, InUse
  <2>4. GoodDump'
    BY <2>2 DEF GoodDump
  <2>5. GoodOutput'
    BY SMTT(30), <2>2 DEF OneScript, GoodOutput, Whole, TypeOK, InUse
  <2> QED BY <2>3, <2>4, <2>5
<1>8. ASSUME NEW r \in Runs, EndDownload(r) PROVE QuietInv'
  <2> USE <1>8 DEF QuietInv, EndDownload, Goto, Step, disk, local, history, counters
  <2>1. LostOnlyOnFaultyDays'
    BY DEF LostOnlyOnFaultyDays
  <2> SUFFICES ASSUME Quiet' PROVE (OneScript /\ GoodDump /\ GoodOutput)'
    BY <2>1
  <2>2. Quiet /\ \A q \in Runs : pc[q] # "idle" => q = r
    BY DEF OneScript
  <2>3. OneScript'
    BY <2>2 DEF OneScript, TypeOK, InUse
  <2>4. GoodDump'
    BY <2>2 DEF GoodDump, Others
  <2>5. GoodOutput'
    BY SMTT(60), <2>2 DEF OneScript, GoodOutput, Whole, TypeOK, InUse
  <2> QED BY <2>3, <2>4, <2>5
<1>9. ASSUME NEW r \in Runs, DownloadFails(r) PROVE QuietInv'
  <2>1. ~ Quiet' /\ LostOnlyOnFaultyDays'
    BY <1>9 DEF DownloadFails, QuietInv, LostOnlyOnFaultyDays, TypeOK
  <2> QED BY <2>1 DEF QuietInv
<1>10. ASSUME NEW r \in Runs, Parse(r) PROVE QuietInv'
  <2> USE <1>10 DEF QuietInv, Parse, Goto, Step, disk, local, history, counters
  <2>1. LostOnlyOnFaultyDays'
    BY DEF LostOnlyOnFaultyDays
  <2> SUFFICES ASSUME Quiet' PROVE (OneScript /\ GoodDump /\ GoodOutput)'
    BY <2>1
  <2>2. Quiet /\ \A q \in Runs : pc[q] # "idle" => q = r
    BY DEF OneScript
  <2>a. pc' = [pc EXCEPT ![r] = "dump"]
    BY <2>2 DEF GoodDump
  <2>3. OneScript'
    BY <2>2 DEF OneScript, TypeOK, InUse
  <2>4. GoodDump'
    BY <2>2 DEF GoodDump
  <2>5. GoodOutput'
    BY <2>2, <2>a DEF OneScript, GoodOutput, Whole, TypeOK, InUse
  <2> QED BY <2>3, <2>4, <2>5
<1>11. ASSUME NEW r \in Runs, OpenDump(r) PROVE QuietInv'
  <2> USE <1>11 DEF QuietInv, OpenDump, Goto, Step, disk, local, history, counters
  <2>1. LostOnlyOnFaultyDays'
    BY DEF LostOnlyOnFaultyDays
  <2> SUFFICES ASSUME Quiet' PROVE (OneScript /\ GoodDump /\ GoodOutput)'
    BY <2>1
  <2>2. Quiet /\ \A q \in Runs : pc[q] # "idle" => q = r
    BY DEF OneScript
  <2>3. OneScript'
    BY <2>2 DEF OneScript, TypeOK, InUse
  <2>4. GoodDump'
    BY <2>2 DEF GoodDump, Others
  <2>5. GoodOutput'
    BY <2>2 DEF OneScript, GoodOutput, Whole, TypeOK, InUse
  <2> QED BY <2>3, <2>4, <2>5
<1>12. ASSUME NEW r \in Runs, WriteDump(r) PROVE QuietInv'
  <2> USE <1>12 DEF QuietInv, WriteDump, Goto, Step, disk, local, history, counters
  <2>1. LostOnlyOnFaultyDays'
    BY DEF LostOnlyOnFaultyDays
  <2> SUFFICES ASSUME Quiet' PROVE (OneScript /\ GoodDump /\ GoodOutput)'
    BY <2>1
  <2>2. Quiet /\ \A q \in Runs : pc[q] # "idle" => q = r
    BY DEF OneScript
  <2>3. OneScript'
    BY <2>2 DEF OneScript, TypeOK, InUse
  <2>4. GoodDump'
    BY <2>2 DEF GoodDump
  <2>5. GoodOutput'
    BY <2>2 DEF OneScript, GoodOutput, Whole, TypeOK, InUse
  <2> QED BY <2>3, <2>4, <2>5
<1>13. ASSUME NEW r \in Runs, CloseDump(r) PROVE QuietInv'
  <2> USE <1>13 DEF QuietInv, CloseDump, Goto, Step, disk, local, history, counters
  <2>1. LostOnlyOnFaultyDays'
    BY DEF LostOnlyOnFaultyDays
  <2> SUFFICES ASSUME Quiet' PROVE (OneScript /\ GoodDump /\ GoodOutput)'
    BY <2>1
  <2>2. Quiet /\ \A q \in Runs : pc[q] # "idle" => q = r
    BY DEF OneScript
  <2>3. OneScript'
    BY <2>2 DEF OneScript, TypeOK, InUse
  <2>4. GoodDump'
    BY <2>2 DEF GoodDump
  <2>5. GoodOutput'
    BY <2>2 DEF OneScript, GoodOutput, Whole, TypeOK, InUse
  <2> QED BY <2>3, <2>4, <2>5
<1>14. ASSUME NEW r \in Runs, OpenOutput(r) PROVE QuietInv'
  <2> USE <1>14 DEF QuietInv, OpenOutput, Goto, disk, local, history, counters
  <2>1. LostOnlyOnFaultyDays'
    BY DEF LostOnlyOnFaultyDays
  <2> SUFFICES ASSUME Quiet' PROVE (OneScript /\ GoodDump /\ GoodOutput)'
    BY <2>1
  <2>2. Quiet /\ \A q \in Runs : pc[q] # "idle" => q = r
    BY DEF OneScript
  <2>3. OneScript'
    BY <2>2 DEF OneScript, TypeOK, InUse
  <2>4. GoodDump'
    BY <2>2 DEF GoodDump
  <2>a. file[r] \in Files /\ file[r] \in xml /\ at[r] = 1
    BY DEF OneScript, InUse, TypeOK
  <2>b. pc' = [pc EXCEPT ![r] = "record"]
    BY <2>a
  <2>c. out'[file[r]].recs = {} /\ \A f \in Files \ {file[r]} : out'[f] = out[f]
    BY <2>a
  <2>5. GoodOutput'
    <3>1. \A f \in xml : out'[f].exists => \E q \in Runs : file[q] = f /\ pc'[q] \in {"record", "rename"}
      BY <2>2, <2>a, <2>b, <2>c DEF GoodOutput, TypeOK
    <3>2. {i \in 1..(at[r] - 1) : ConvertibleRecord(content[file[r]][i])} = {}
      BY <2>a
    <3> QED BY <2>2, <2>a, <2>b, <2>c, <3>1, <3>2 DEF GoodOutput
  <2> QED BY <2>3, <2>4, <2>5
<1>15. ASSUME NEW r \in Runs, read_and_write_record(r) PROVE QuietInv'
  <2> USE <1>15 DEF QuietInv, read_and_write_record, disk, local, history, counters
  <2>1. LostOnlyOnFaultyDays'
    BY DEF LostOnlyOnFaultyDays
  <2> SUFFICES ASSUME Quiet' PROVE (OneScript /\ GoodDump /\ GoodOutput)'
    BY <2>1
  <2>2. Quiet /\ \A q \in Runs : pc[q] # "idle" => q = r
    BY DEF OneScript
  <2>3. OneScript'
    BY <2>2 DEF OneScript, TypeOK, InUse
  <2>4. GoodDump'
    BY <2>2 DEF GoodDump
  <2>5. GoodOutput'
    <3> DEFINE f == file[r]
               done(n) == {i \in 1..n : ConvertibleRecord(content[f][i])}
    <3>1. f \in Files /\ at[r] \in Nat \ {0} /\ pc[r] = "record"
      BY DEF TypeOK
    <3>2. at'[r] - 1 = at[r] /\ (f \notin spoilt => out[f].recs = done(at[r] - 1))
      BY <2>2, <3>1 DEF GoodOutput
    <3>3. f \notin spoilt => out'[f].recs = done(at[r])
      BY <3>1, <3>2 DEF Output
    <3>4. \A g \in Files : out'[g].exists = out[g].exists
      <4>1. CASE ConvertibleRecord(content[file[r]][at[r]])
        <5>1. out[f] \in Output /\ out' = [out EXCEPT ![f] = [out[f] EXCEPT !.recs = @ \union {at[r]}]]
          BY <3>1, <4>1
        <5> QED BY <3>1, <5>1 DEF Output
      <4>2. CASE ~ ConvertibleRecord(content[file[r]][at[r]])
        BY <4>2
      <4> QED BY <4>1, <4>2
    <3>5. \A q \in Runs : pc[q] # "rename"
      BY <2>2, <3>1
    <3>6. \A q \in Runs : pc[q] = "record" => q = r
      BY <2>2
    <3>7. at'[r] - 1 = at[r] /\ UNCHANGED <<xml, file, pc, content, spoilt>>
      BY <3>2
    <3> HIDE <1>15 DEF read_and_write_record
    <3>8. \A g \in xml : out'[g].exists => \E q \in Runs : file[q] = g /\ pc[q] \in {"record", "rename"}
      <4>1. \A g \in xml : g \in Files
        BY DEF TypeOK
      <4>2. \A g \in xml : out[g].exists => \E q \in Runs : file[q] = g /\ pc[q] \in {"record", "rename"}
        BY <2>2 DEF GoodOutput
      <4> QED BY <3>4, <4>1, <4>2
    <3>9. \A q \in Runs : pc'[q] = "record" /\ file'[q] \notin spoilt' =>
             out'[file'[q]].recs = {i \in 1..(at'[q] - 1) : ConvertibleRecord(content'[file'[q]][i])}
      BY <3>3, <3>6, <3>7
    <3> QED BY <3>5, <3>7, <3>8, <3>9 DEF GoodOutput
  <2> QED BY <2>3, <2>4, <2>5
<1>16. ASSUME NEW r \in Runs, CloseOutput(r) PROVE QuietInv'
  <2> USE <1>16 DEF QuietInv, CloseOutput, Goto, Step, disk, local, history, counters
  <2>1. LostOnlyOnFaultyDays'
    BY DEF LostOnlyOnFaultyDays
  <2> SUFFICES ASSUME Quiet' PROVE (OneScript /\ GoodDump /\ GoodOutput)'
    BY <2>1
  <2>2. Quiet /\ \A q \in Runs : pc[q] # "idle" => q = r
    BY DEF OneScript
  <2>3. OneScript'
    BY <2>2 DEF OneScript, TypeOK, InUse
  <2>4. GoodDump'
    BY <2>2 DEF GoodDump
  <2>5. GoodOutput'
    <3> DEFINE f == file[r]
    <3>a. f \in Files /\ f # None /\ pc[r] = "record"
      BY DEF TypeOK
    <3>b. Len(content[f]) \in Nat /\ DOMAIN content[f] = 1..Len(content[f])
      BY <3>a, Lengths
    <3>c. at[r] \in 1..(1 + Len(content[f]))
      BY <3>a DEF TypeOK
    <3>1. f \in Files /\ at[r] - 1 = Len(content[f]) /\ DOMAIN content[f] = 1..Len(content[f])
      BY <3>a, <3>b, <3>c
    <3>2. f \notin spoilt => out[f].recs = {i \in DOMAIN content[f] : ConvertibleRecord(content[f][i])}
      BY <2>2, <3>a, <3>1 DEF GoodOutput
    <3>3. \A g \in Files : out'[g].exists = out[g].exists /\ out'[g].recs = out[g].recs
      BY <3>1, OutputCloses
    <3>4. out'[f].closed
      <4>1. out[f] \in Output
        BY <3>1
      <4> QED BY <3>1, <4>1 DEF Output
    <3>5. f \notin spoilt => Whole(f)'
      BY <3>1, <3>2, <3>3, <3>4 DEF Whole
    <3>6. /\ UNCHANGED <<xml, file, spoilt>> /\ pc' = [pc EXCEPT ![r] = "rename"]
          /\ \A q \in Runs : pc[q] # "idle" => q = r
      BY <2>2
    <3>7. \A q \in Runs : pc'[q] \in {"record", "rename"} => q = r /\ pc'[q] = "rename"
      BY <3>6
    <3>8. pc'[r] = "rename"
      BY <3>6
    <3>9. \A g \in xml : out[g].exists => \E q \in Runs : file[q] = g /\ pc[q] \in {"record", "rename"}
      BY <2>2 DEF GoodOutput
    <3>10. \A g \in xml : g \in Files
      BY DEF TypeOK
    <3> HIDE <1>16 DEF CloseOutput, f
    <3>11. \A g \in xml : out'[g].exists => \E q \in Runs : file[q] = g /\ pc'[q] \in {"record", "rename"}
      BY <3>3, <3>6, <3>8, <3>9, <3>10
    <3>12. \A q \in Runs : pc'[q] = "rename" /\ file[q] \notin spoilt => Whole(file[q])'
      BY <3>5, <3>7 DEF f
    <3> QED BY <3>6, <3>7, <3>11, <3>12 DEF GoodOutput
  <2> QED BY <2>3, <2>4, <2>5
<1>17. ASSUME NEW r \in Runs, Crash(r) PROVE QuietInv'
  <2>1. ~ Quiet' /\ LostOnlyOnFaultyDays'
    BY <1>17 DEF Crash, QuietInv, LostOnlyOnFaultyDays, TypeOK
  <2> QED BY <2>1 DEF QuietInv
<1>18. ASSUME NEW r \in Runs, ConverterDies(r) PROVE QuietInv'
  <2>1. ~ Quiet' /\ LostOnlyOnFaultyDays'
    BY <1>18 DEF ConverterDies, QuietInv, LostOnlyOnFaultyDays, TypeOK
  <2> QED BY <2>1 DEF QuietInv
<1>19. ASSUME NEW r \in Runs, RecordFails(r) PROVE QuietInv'
  <2>a. file[r] # None /\ file[r] \in Files
    BY <1>19 DEF RecordFails, TypeOK
  <2>b. /\ pc[r] = "record" /\ pc'[r] \in {"record", "rename"}
        /\ \A q \in Runs \ {r} : pc'[q] = pc[q]
        /\ \A f \in Files : out'[f].exists = out[f].exists
        /\ spoilt' = spoilt \union {file[r]}
        /\ UNCHANGED <<content, exported, xml, dump, turtle, day, todo, file, converted, gone,
                       losses, faultyDays, crashes>>
    BY <1>19, <2>a, FailureIs
  <2>1. LostOnlyOnFaultyDays'
    BY <2>b DEF QuietInv, LostOnlyOnFaultyDays
  <2> SUFFICES ASSUME Quiet' PROVE (OneScript /\ GoodDump /\ GoodOutput)'
    BY <2>1 DEF QuietInv
  <2>2. Quiet /\ OneScript /\ GoodDump /\ GoodOutput
    BY <2>b DEF QuietInv
  <2>c. \A q \in Runs : pc[q] # "idle" => q = r
    BY <2>2, <2>b DEF OneScript
  <2>d. \A q \in Runs : pc'[q] # "idle" => q = r
    BY <2>b, <2>c
  <2>3. OneScript'
    BY <2>2, <2>b, <2>d DEF OneScript
  <2>4. GoodDump'
    <3>1. \A q \in Runs : pc[q] \notin {"dumping", "dumped", "parse"}
                         /\ pc'[q] \notin {"dumping", "dumped", "parse"}
      BY <2>b, <2>c, <2>d
    <3> QED BY <2>2, <2>b, <3>1 DEF GoodDump
  <2>5. GoodOutput'
    <3>1. \A f \in xml : f \in Files
      BY DEF TypeOK
    <3>2. \A f \in xml : out'[f].exists => \E q \in Runs : file[q] = f /\ pc'[q] \in {"record", "rename"}
      BY <2>2, <2>b, <2>c, <3>1 DEF GoodOutput
    <3>3. \A q \in Runs : pc'[q] \in {"record", "rename"} => file'[q] \in spoilt'
      BY <2>b, <2>d
    <3> QED BY <2>b, <3>2, <3>3 DEF GoodOutput
  <2> QED BY <2>1, <2>3, <2>4, <2>5 DEF QuietInv
<1>20. ASSUME NewDay PROVE QuietInv'
  <2> USE <1>20 DEF NewDay, QuietInv, local, counters
  <2>1. LostOnlyOnFaultyDays' /\ \A q \in Runs : pc'[q] = "idle"
    BY DEF LostOnlyOnFaultyDays
  <2>2. day + 1 # dump.day
    BY DEF TypeOK
  <2>3. OneScript'
    BY <2>1 DEF OneScript, TypeOK, InUse
  <2>4. GoodDump'
    BY <2>1, <2>2 DEF GoodDump
  <2>5. GoodOutput'
    BY <2>1 DEF GoodOutput
  <2> QED BY <2>1, <2>3, <2>4, <2>5
<1>21. ASSUME UNCHANGED vars PROVE QuietInv'
  BY <1>21 DEF vars, disk, local, history, counters, QuietInv, LostOnlyOnFaultyDays,
                OneScript, GoodDump, GoodOutput, Whole
<1> QED
  BY <1>1, <1>2, <1>3, <1>4, <1>5, <1>6, <1>7, <1>8, <1>9, <1>10, <1>11, <1>12, <1>13, <1>14, <1>15, <1>16, <1>17, <1>18, <1>19, <1>20, <1>21 DEF Next, Advance

\* Files are renamed without having been converted only when a record of their own
\* failed, or on days with a kill, vocabularies that failed, or two scripts at
\* once (LostOnlyOnFaultyDays).
THEOREM QuietDaysLoseNothing == Spec => []LostOnlyOnFaultyDays
<1>1. QuietInv => LostOnlyOnFaultyDays
  BY DEF QuietInv
<1>2. Inv /\ QuietInv /\ [Next]_vars => Inv' /\ QuietInv'
  BY NextInv, NextQuiet
<1>3. Init => Inv /\ QuietInv
  BY InitInv, InitQuiet
<1> QED BY <1>1, <1>2, <1>3, PTL DEF Spec

-----------------------------------------------------------------------------
(* What is written                                                         *)

\* A written record is process_record's result for a record of an exported file.
LEMMA WrittenIs ==
    ASSUME Inv, NEW w \in AllWritten
    PROVE  \E rec \in Records : \E r : /\ r = process_record(rec)
                                        /\ w.old = rec /\ w.new = r.rec /\ w.rows = r.rows
<1>1. PICK f \in Files : w \in Written(f)
  BY DEF AllWritten
<1>2. PICK i \in out[f].recs : w = [old |-> content[f][i], new |-> process_record(content[f][i]).rec,
                                    rows |-> process_record(content[f][i]).rows]
  BY <1>1 DEF Written
<1>3. content[f][i] \in Records
  <2>1. content[f] \in Seq(Records) /\ i \in DOMAIN content[f]
    BY ContentsAssumption DEF Inv, FunctionTypes, TypeOK
  <2> QED
    BY <2>1, InSeq
<1>4. PICK rec \in Records : rec = content[f][i]
  BY <1>3
<1>5. PICK r : r = process_record(rec)
  OBVIOUS
<1>6. w = [old |-> rec, new |-> r.rec, rows |-> r.rows]
  BY <1>2, <1>4, <1>5
<1>7. w.old = rec /\ w.new = r.rec /\ w.rows = r.rows
  BY <1>6
<1> QED
  BY <1>5, <1>7

\* What is written keeps the fields that have no code to convert.
LEMMA FieldsKept == Inv => UncodedFieldsKept
<1> SUFFICES ASSUME Inv, NEW w \in AllWritten, NEW f \in AllFields(w.old), ~ Processed(f)
             PROVE  \E g \in ToSet(w.new.fields[f.tag]) :
                       is_equal_field(Without(f.subs, {"0", "8", "9"}), Without(g.subs, {"0", "8", "9"}))
  BY DEF UncodedFieldsKept
<1>1. PICK rec \in Records : \E r : /\ r = process_record(rec)
                                    /\ w.old = rec /\ w.new = r.rec /\ w.rows = r.rows
  BY WrittenIs
<1>2. PICK r : r = process_record(rec) /\ w.old = rec /\ w.new = r.rec /\ w.rows = r.rows
  BY <1>1
<1>3. Survives(f, w.new) /\ f \in Fields /\ f.tag \in Tags
  BY <1>2, ProcessRecordKeeps, RecordIs
<1>4. PICK g \in ToSet(w.new.fields[f.tag]) : Alike(f, g)
  BY <1>3 DEF Survives
<1>5. g \in Fields
  <2>1. PICK fields \in Seq(Fields) : fields = w.new.fields[f.tag]
    BY <1>2, <1>3, ProcessRecordKeeps
  <2> QED
    BY <2>1, InSeq
<1> QED
  BY <1>3, <1>4, <1>5, AlikeIs

\* What is written accounts for the terms.
LEMMA TermsTold == Inv => TermsAccounted
<1> SUFFICES ASSUME Inv, NEW w \in AllWritten, NEW f \in AllFields(w.old), Processed(f), NEW t \in Promised(f)
             PROVE  Stands(t) \cap (Terms(AllFields(w.new)) \union {row[2] : row \in w.rows}) # {}
  BY DEF TermsAccounted
<1>1. PICK rec \in Records : \E r : /\ r = process_record(rec)
                                    /\ w.old = rec /\ w.new = r.rec /\ w.rows = r.rows
  BY WrittenIs
<1>2. PICK r : r = process_record(rec) /\ w.old = rec /\ w.new = r.rec /\ w.rows = r.rows
  BY <1>1
<1>3. Stands(t) \cap Entries(r) # {}
  BY <1>2, ProcessRecordKeeps
<1> QED
  BY <1>2, <1>3 DEF Entries

\* A field without a code to convert outlives the conversion, or one that says the
\* same does: whatever is sorted, removed as a double and linked with another
\* field, process_record gives every tag its own fields back (UncodedFieldsKept).
THEOREM UncodedKept == Spec => []UncodedFieldsKept
<1>1. Inv /\ [Next]_vars => Inv'
  BY NextInv
<1> QED BY <1>1, InitInv, FieldsKept, PTL DEF Spec

\* Every term of a field that process_field deals with is in the new record or in
\* the check log, under its name, its new name or that of a chain it is in: none
\* is lost to the splitting, the sorting or the removal of doubles (TermsAccounted).
THEOREM NoTermLost == Spec => []TermsAccounted
<1>1. Inv /\ [Next]_vars => Inv'
  BY NextInv
<1> QED BY <1>1, InitInv, TermsTold, PTL DEF Spec
=============================================================================
