---- MODULE InductionLemmas ----
(***************************************************************************)
(* Induction over the natural numbers in terms of sets instead of          *)
(* predicates: a property is the set of numbers that have it.  By such     *)
(* inductions: what the filter of module Filtering returns, that functions *)
(* can be defined step by step, and what FlattenSeq makes of a sequence    *)
(* that gets longer.                                                       *)
(***************************************************************************)
EXTENDS Integers, SequencesExt, Filtering, WellFoundedInduction, SequenceTheorems, TLAPS

\* Every set of natural numbers that has an element has a least one.
LEMMA LeastElement ==
    ASSUME NEW T \in SUBSET Nat, T # {}
    PROVE  \E n \in T : \A m \in T : n <= m
<1> DEFINE R == {ss \in Nat \X Nat : ss[1] < ss[2]}
<1>1. IsWellFoundedOn(R, Nat)
  BY NatLessThanWellFounded DEF OpToRel
<1>2. PICK x \in T : \A y \in T : ~ (<<y, x>> \in R)
  <2> HIDE DEF R
  <2> QED
    BY <1>1, WFMin
<1>3. ASSUME NEW y \in T PROVE x <= y
  <2>1. x \in Nat /\ y \in Nat
    OBVIOUS
  <2>2. y < x => <<y, x>> \in R
    BY <2>1
  <2> QED
    BY <1>2, <2>1, <2>2
<1> QED
  BY <1>3

\* A set with 0 and with the successor of each of its numbers has them all.
LEMMA SetInduction ==
    ASSUME NEW T, 0 \in T, \A n \in Nat : n \in T => n + 1 \in T
    PROVE  Nat \subseteq T
<1> DEFINE bad == Nat \ T
<1> SUFFICES ASSUME bad # {} PROVE FALSE
  OBVIOUS
<1>1. PICK n \in bad : \A m \in bad : n <= m
  BY LeastElement
<1>2. n # 0 /\ n \in Nat
  BY <1>1
<1>3. n - 1 \in Nat /\ n - 1 \notin bad
  BY <1>1, <1>2
<1> QED
  BY <1>1, <1>2, <1>3

\* f is the recursive function of Kept up to n.
Keeps(s, S, f, n) ==
    f = [i \in 0..n |->
           IF i = 0 THEN <<>>
           ELSE IF s[i] \in S THEN Append(f[i - 1], s[i]) ELSE f[i - 1]]

\* There is a function that filters the first n elements, for every n.
LEMMA KeepsExists ==
    ASSUME NEW s, NEW S PROVE \A n \in Nat : \E f : Keeps(s, S, f, n)
<1> DEFINE T == {n \in Nat : \E f : Keeps(s, S, f, n)}
<1>1. 0 \in T
  <2>1. Keeps(s, S, [i \in 0..0 |-> <<>>], 0)
    BY DEF Keeps
  <2> QED
    BY <2>1
<1>2. ASSUME NEW n \in Nat, n \in T PROVE n + 1 \in T
  <2>1. PICK f : Keeps(s, S, f, n)
    BY <1>2
  <2> DEFINE g == [i \in 0..(n + 1) |->
                     IF i <= n THEN f[i]
                     ELSE IF s[i] \in S THEN Append(f[i - 1], s[i]) ELSE f[i - 1]]
  <2>2. \A i \in 0..(n + 1) :
           g[i] = IF i = 0 THEN <<>>
                  ELSE IF s[i] \in S THEN Append(g[i - 1], s[i]) ELSE g[i - 1]
    <3> TAKE i \in 0..(n + 1)
    <3>1. CASE i = 0
      BY <3>1, <2>1 DEF Keeps
    <3>2. CASE i # 0 /\ i <= n
      <4>1. i - 1 \in 0..n /\ i \in 0..n
        BY <3>2
      <4>2. f[i] = IF s[i] \in S THEN Append(f[i - 1], s[i]) ELSE f[i - 1]
        BY <2>1, <3>2, <4>1 DEF Keeps
      <4> QED
        BY <3>2, <4>1, <4>2
    <3>3. CASE i = n + 1
      BY <3>3
    <3> QED
      BY <3>1, <3>2, <3>3
  <2>3. Keeps(s, S, g, n + 1)
    BY <2>2 DEF Keeps
  <2> QED
    BY <2>3
<1> HIDE DEF T
<1>3. Nat \subseteq T
  BY <1>1, <1>2, SetInduction
<1> QED
  BY <1>3 DEF T

\* The filter that Kept chooses is one of them.
LEMMA KeptDefined ==
    ASSUME NEW s, NEW S, Len(s) \in Nat PROVE Keeps(s, S, Kept(s, S), Len(s))
<1>1. \E f : Keeps(s, S, f, Len(s))
  BY KeepsExists
<1>2. Kept(s, S) = CHOOSE f : Keeps(s, S, f, Len(s))
  BY DEF Kept, Keeps
<1> QED
  BY <1>1, <1>2

\* A filter returns the members of the set that are in the sequence, in the order
\* they have there.
LEMMA OnlySelects ==
    ASSUME NEW T, NEW S, NEW s \in Seq(T)
    PROVE  /\ Only(s, S) \in Seq(T)
           /\ \A j \in DOMAIN Only(s, S) : Only(s, S)[j] \in S
           /\ \A i \in DOMAIN s : s[i] \in S => \E j \in DOMAIN Only(s, S) : Only(s, S)[j] = s[i]
           /\ \A j \in DOMAIN Only(s, S) : \E i \in DOMAIN s : s[i] = Only(s, S)[j]
           /\ \A j, k \in DOMAIN Only(s, S) :
                 j < k => \E i, l \in DOMAIN s : i < l /\ s[i] = Only(s, S)[j] /\ s[l] = Only(s, S)[k]
<1> DEFINE f == Kept(s, S)
           Good(n, q) ==
              /\ q \in Seq(T)
              /\ \A j \in DOMAIN q : q[j] \in S /\ \E i \in 1..n : s[i] = q[j]
              /\ \A i \in 1..n : s[i] \in S => \E j \in DOMAIN q : q[j] = s[i]
              /\ \A j, k \in DOMAIN q : j < k => \E i, l \in 1..n : i < l /\ s[i] = q[j] /\ s[l] = q[k]
           Fine == {n \in Nat : n <= Len(s) => Good(n, f[n])}
<1>1. Len(s) \in Nat /\ DOMAIN s = 1..Len(s) /\ \A i \in 1..Len(s) : s[i] \in T
  BY LenProperties, ElementOfSeq
<1>2. \A i \in 0..Len(s) :
         f[i] = IF i = 0 THEN <<>>
                ELSE IF s[i] \in S THEN Append(f[i - 1], s[i]) ELSE f[i - 1]
  <2>1. Keeps(s, S, f, Len(s))
    BY <1>1, KeptDefined
  <2> HIDE DEF f
  <2> QED
    BY <2>1 DEF Keeps
<1> HIDE DEF f
<1>3. 0 \in Fine
  <2>1. f[0] = <<>>
    BY <1>1, <1>2
  <2>2. f[0] \in Seq(T) /\ \A j \in DOMAIN f[0] : FALSE
    BY <2>1, EmptySeq
  <2>3. 1..0 = {}
    OBVIOUS
  <2>4. Good(0, f[0])
    BY <2>2, <2>3
  <2> QED
    BY <2>4
<1>4. ASSUME NEW n \in Nat, n \in Fine PROVE n + 1 \in Fine
  <2> SUFFICES ASSUME n + 1 <= Len(s) PROVE Good(n + 1, f[n + 1])
    OBVIOUS
  <2>1. n <= Len(s) /\ n + 1 \in 0..Len(s) /\ n + 1 \in 1..Len(s) /\ (n + 1) - 1 = n
    BY <1>1
  <2>2. Good(n, f[n])
    BY <1>4, <2>1
  <2>3. f[n + 1] = IF s[n + 1] \in S THEN Append(f[n], s[n + 1]) ELSE f[n]
    BY <1>2, <2>1
  <2>4. \A i \in 1..(n + 1) : i \in 1..n \/ i = n + 1
    OBVIOUS
  <2>5. 1..n \subseteq 1..(n + 1) /\ n + 1 \in 1..(n + 1) /\ \A i \in 1..n : i < n + 1
    OBVIOUS
  <2>6. CASE s[n + 1] \notin S
    BY <2>2, <2>3, <2>4, <2>5, <2>6
  <2>7. CASE s[n + 1] \in S
    <3>0. PICK q : q = f[n]
      OBVIOUS
    <3>1. PICK r : r = f[n + 1]
      OBVIOUS
    <3>2. r = Append(q, s[n + 1]) /\ s[n + 1] \in T /\ q \in Seq(T)
      BY <1>1, <2>1, <2>2, <2>3, <2>7, <3>0, <3>1
    <3>3. /\ r \in Seq(T) /\ Len(q) \in Nat /\ DOMAIN q = 1..Len(q)
          /\ DOMAIN r = 1..(Len(q) + 1) /\ r[Len(q) + 1] = s[n + 1]
          /\ \A j \in DOMAIN q : r[j] = q[j]
      BY <3>2, AppendProperties, LenProperties
    <3>4. \A j \in DOMAIN r : j \in DOMAIN q \/ j = Len(q) + 1
      BY <3>3
    <3>5. \A j \in DOMAIN r : r[j] \in S /\ \E i \in 1..(n + 1) : s[i] = r[j]
      BY <2>2, <2>5, <2>7, <3>0, <3>3, <3>4
    <3>6. \A i \in 1..(n + 1) : s[i] \in S => \E j \in DOMAIN r : r[j] = s[i]
      <4>1. Len(q) + 1 \in DOMAIN r /\ DOMAIN q \subseteq DOMAIN r
        BY <3>3
      <4> QED
        BY <2>2, <2>4, <3>0, <3>3, <4>1
    <3>7. ASSUME NEW j \in DOMAIN r, NEW k \in DOMAIN r, j < k
          PROVE  \E i, l \in 1..(n + 1) : i < l /\ s[i] = r[j] /\ s[l] = r[k]
      <4>1. j \in DOMAIN q
        BY <3>3, <3>4, <3>7
      <4>2. CASE k \in DOMAIN q
        BY <2>2, <2>5, <3>0, <3>3, <3>7, <4>1, <4>2
      <4>3. CASE k = Len(q) + 1
        <5>1. PICK i \in 1..n : s[i] = q[j]
          BY <2>2, <3>0, <4>1
        <5> QED
          BY <2>5, <3>3, <4>1, <4>3, <5>1
      <4> QED
        BY <3>4, <4>2, <4>3
    <3> QED
      BY <3>1, <3>3, <3>5, <3>6, <3>7
  <2> QED
    BY <2>6, <2>7
<1>5. Len(s) \in Fine
  <2> HIDE DEF Fine
  <2> QED
    BY <1>1, <1>3, <1>4, SetInduction
<1>6. PICK q : q = Only(s, S) /\ q = f[Len(s)]
  BY DEF f, Only
<1>7. Good(Len(s), q)
  BY <1>1, <1>5, <1>6
<1>8. q \in Seq(T) /\ \A j \in DOMAIN q : q[j] \in S
  BY <1>7
<1>9. \A i \in DOMAIN s : s[i] \in S => \E j \in DOMAIN q : q[j] = s[i]
  BY <1>1, <1>7
<1>10. \A j \in DOMAIN q : \E i \in DOMAIN s : s[i] = q[j]
  BY <1>1, <1>7
<1>11. ASSUME NEW j \in DOMAIN q, NEW k \in DOMAIN q, j < k
       PROVE  \E i, l \in DOMAIN s : i < l /\ s[i] = q[j] /\ s[l] = q[k]
  <2>1. PICK i, l \in 1..Len(s) : i < l /\ s[i] = q[j] /\ s[l] = q[k]
    BY <1>7, <1>11
  <2>2. i \in DOMAIN s /\ l \in DOMAIN s
    BY <1>1
  <2> QED
    BY <2>1, <2>2
<1> QED
  BY <1>6, <1>8, <1>9, <1>10, <1>11

\* A function can be defined step by step: every value is made of the one before.
Steps(f, base, g, N) == f[0] = base /\ \A i \in 1 .. N : f[i] = g[i][f[i - 1]]

LEMMA StepByStep ==
    ASSUME NEW D, NEW base \in D, NEW N \in Nat, NEW g, g \in [1 .. N -> [D -> D]]
    PROVE  \E f \in [0 .. N -> D] : Steps(f, base, g, N)
<1> DEFINE Built(f, n) == f \in [0 .. n -> D] /\ f[0] = base /\ \A i \in 1 .. n : f[i] = g[i][f[i - 1]]
           T == {n \in Nat : n <= N => \E f : Built(f, n)}
<1>1. 0 \in T
  <2>1. Built([i \in 0 .. 0 |-> base], 0)
    OBVIOUS
  <2> QED
    BY <2>1
<1>2. ASSUME NEW n \in Nat, n \in T PROVE n + 1 \in T
  <2> SUFFICES ASSUME n + 1 <= N PROVE \E f : Built(f, n + 1)
    OBVIOUS
  <2>1. PICK f : Built(f, n)
    BY <1>2
  <2>2. n + 1 \in 1 .. N /\ n \in 0 .. n /\ g[n + 1] \in [D -> D]
    OBVIOUS
  <2>3. PICK x \in D : x = g[n + 1][f[n]]
    BY <2>1, <2>2
  <2>4. PICK h : h = [i \in 0 .. n + 1 |-> IF i <= n THEN f[i] ELSE x]
    OBVIOUS
  <2>5. h \in [0 .. n + 1 -> D] /\ h[0] = base
    BY <2>1, <2>4
  <2>6. ASSUME NEW i \in 1 .. n + 1 PROVE h[i] = g[i][h[i - 1]]
    <3>1. CASE i <= n
      <4>1. i \in 1 .. n /\ h[i] = f[i] /\ h[i - 1] = f[i - 1]
        BY <2>4, <3>1
      <4> QED
        BY <2>1, <4>1
    <3>2. CASE i = n + 1
      <4>1. h[i] = x /\ h[i - 1] = f[n]
        BY <2>4, <3>2
      <4> QED
        BY <2>3, <3>2, <4>1
    <3> QED
      BY <3>1, <3>2
  <2> QED
    BY <2>5, <2>6
<1>3. N \in T
  <2> HIDE DEF T
  <2> QED
    BY <1>1, <1>2, SetInduction
<1> QED
  BY <1>3 DEF Steps

\* f joins the first n sequences of a.
Joins(a, f, n) == f[0] = <<>> /\ \A i \in 1 .. n : f[i] = f[i - 1] \o a[i]

\* Joining gives one result.
LEMMA JoinsOnce ==
    ASSUME NEW a, NEW b, NEW f, NEW g, NEW N \in Nat, Joins(a, f, N), Joins(b, g, N),
           \A i \in 1 .. N : a[i] = b[i]
    PROVE  \A n \in 0 .. N : f[n] = g[n]
<1> DEFINE T == {n \in Nat : n <= N => f[n] = g[n]}
<1>1. 0 \in T
  BY DEF Joins
<1>2. ASSUME NEW n \in Nat, n \in T PROVE n + 1 \in T
  <2> SUFFICES ASSUME n + 1 <= N PROVE f[n + 1] = g[n + 1]
    OBVIOUS
  <2>1. n + 1 \in 1 .. N /\ (n + 1) - 1 = n /\ f[n] = g[n]
    BY <1>2
  <2> QED
    BY <2>1 DEF Joins
<1>3. Nat \subseteq T
  <2> HIDE DEF T
  <2> QED
    BY <1>1, <1>2, SetInduction
<1> QED
  BY <1>3

\* With one sequence more it goes on from there.
Continues(whole, part, seq) == whole = part \o seq

LEMMA JoinsMore ==
    ASSUME NEW a, NEW b, NEW f, NEW g, NEW N \in Nat, NEW M \in Nat, M = N + 1,
           Joins(a, f, N), Joins(b, g, M), \A i \in 1 .. N : a[i] = b[i]
    PROVE  Continues(g[M], f[N], b[M])
<1>1. \A i \in 1 .. N : i \in 1 .. M
  OBVIOUS
<1>2. Joins(b, g, N)
  BY <1>1 DEF Joins
<1>3. f[N] = g[N]
  <2>1. \A n \in 0 .. N : f[n] = g[n]
    BY <1>2, JoinsOnce
  <2> QED
    BY <2>1
<1>4. M \in 1 .. M /\ M - 1 = N
  OBVIOUS
<1> QED
  BY <1>3, <1>4 DEF Joins, Continues

\* Sequences that can be joined are.
LEMMA JoinsExist ==
    ASSUME NEW D, NEW L \in Nat, NEW a, \A i \in 1 .. L : a[i] \in D,
           <<>> \in D, \A s, t \in D : s \o t \in D
    PROVE  \E f \in [0 .. L -> D] : Joins(a, f, L)
<1>1. PICK g : g = [i \in 1 .. L |-> [s \in D |-> s \o a[i]]]
  OBVIOUS
<1>2. g \in [1 .. L -> [D -> D]]
  BY <1>1
<1>3. PICK f \in [0 .. L -> D] : f[0] = <<>> /\ \A i \in 1 .. L : f[i] = g[i][f[i - 1]]
  BY <1>2, StepByStep DEF Steps
<1>4. ASSUME NEW i \in 1 .. L PROVE f[i] = f[i - 1] \o a[i]
  <2>1. i - 1 \in 0 .. L
    OBVIOUS
  <2>2. f[i - 1] \in D
    BY <2>1
  <2> QED
    BY <1>1, <1>3, <2>2
<1> QED
  BY <1>3, <1>4 DEF Joins

\* The recursive function of FlattenSeq joins them.
Flats(a, L) == CHOOSE f : f = [i \in 1 .. L |-> IF i = 1 THEN a[i] ELSE f[i - 1] \o a[i]]

LEMMA FlatJoins ==
    ASSUME NEW D, NEW L \in Nat \ {0}, NEW a, \A i \in 1 .. L : a[i] \in D,
           <<>> \in D, \A s, t \in D : s \o t \in D /\ <<>> \o t = t,
           NEW h, h = Flats(a, L)
    PROVE  \E f \in [0 .. L -> D] : Joins(a, f, L) /\ h[L] = f[L]
<1> DEFINE Flat(g) == g = [i \in 1 .. L |-> IF i = 1 THEN a[i] ELSE g[i - 1] \o a[i]]
<1>1. PICK f \in [0 .. L -> D] : Joins(a, f, L)
  BY JoinsExist
<1>2. \E g : Flat(g)
  <2>1. PICK g : g = [i \in 1 .. L |-> f[i]]
    OBVIOUS
  <2>2. ASSUME NEW i \in 1 .. L PROVE g[i] = IF i = 1 THEN a[i] ELSE g[i - 1] \o a[i]
    <3>1. CASE i = 1
      <4>1. g[1] = f[1] /\ f[1] = f[0] \o a[1] /\ f[0] = <<>> /\ a[1] \in D
        <5>1. 1 \in 1 .. L /\ 1 - 1 = 0
          OBVIOUS
        <5> QED
          BY <1>1, <2>1, <5>1 DEF Joins
      <4> QED
        BY <3>1, <4>1
    <3>2. CASE i # 1
      <4>1. i - 1 \in 1 .. L
        BY <3>2
      <4> QED
        BY <1>1, <2>1, <3>2, <4>1 DEF Joins
    <3> QED
      BY <3>1, <3>2
  <2>3. Flat(g)
    BY <2>1, <2>2
  <2> HIDE DEF Flat
  <2> QED
    BY <2>3
<1>3. Flat(h)
  <2>1. h = CHOOSE g : Flat(g)
    BY DEF Flats
  <2> QED
    BY <1>2, <2>1
<1>4. PICK e : e = [i \in 0 .. L |-> IF i = 0 THEN <<>> ELSE h[i]]
  OBVIOUS
<1>5. Joins(a, e, L)
  <2>1. e[0] = <<>>
    BY <1>4
  <2>2. ASSUME NEW i \in 1 .. L PROVE e[i] = e[i - 1] \o a[i]
    <3>1. e[i] = h[i]
      BY <1>4
    <3>2. CASE i = 1
      <4>1. h[i] = a[i] /\ e[i - 1] = <<>> /\ a[i] \in D
        BY <1>3, <1>4, <3>2
      <4> QED
        BY <3>1, <4>1
    <3>3. CASE i # 1
      <4>1. i - 1 \in 1 .. L /\ e[i - 1] = h[i - 1]
        BY <1>4, <3>3
      <4>2. h[i] = h[i - 1] \o a[i]
        BY <1>3, <3>3
      <4> QED
        BY <3>1, <4>1, <4>2
    <3> QED
      BY <3>2, <3>3
  <2> QED
    BY <2>1, <2>2 DEF Joins
<1>6. e[L] = f[L]
  <2>1. \A n \in 0 .. L : e[n] = f[n]
    BY <1>1, <1>5, JoinsOnce
  <2> QED
    BY <2>1
<1> QED
  BY <1>1, <1>4, <1>6

\* FlattenSeq joins them all.
LEMMA FlattenJoins ==
    ASSUME NEW S, NEW seqs \in Seq(Seq(S)), NEW L, L = Len(seqs)
    PROVE  \E f \in [0 .. L -> Seq(S)] : Joins(seqs, f, L) /\ FlattenSeq(seqs) = f[L]
<1>1. PICK D : D = Seq(S)
  OBVIOUS
<1>2. L \in Nat /\ DOMAIN seqs = 1 .. L /\ \A i \in 1 .. L : seqs[i] \in D
  BY <1>1, LenProperties, ElementOfSeq
<1>3. <<>> \in D /\ \A s, t \in D : s \o t \in D /\ <<>> \o t = t
  BY <1>1, EmptySeq, ConcatProperties, ConcatEmptySeq
<1>4. CASE L = 0
  <2>1. seqs = <<>>
    BY <1>4, EmptySeq
  <2>2. FlattenSeq(seqs) = seqs
    BY <1>4 DEF FlattenSeq
  <2>3. PICK f \in [0 .. L -> D] : Joins(seqs, f, L)
    BY <1>2, <1>3, JoinsExist
  <2> QED
    BY <1>1, <1>4, <2>1, <2>2, <2>3 DEF Joins
<1>5. CASE L # 0
  <2>1. PICK n \in Nat \ {0} : n = L
    BY <1>2, <1>5
  <2>2. PICK a, h : a = seqs /\ h = Flats(a, n)
    OBVIOUS
  <2>3. FlattenSeq(seqs) = h[n]
    BY <1>5, <2>1, <2>2 DEF FlattenSeq, Flats
  <2>4. \A i \in 1 .. n : a[i] \in D
    BY <1>2, <2>1, <2>2
  <2>5. \E f \in [0 .. n -> D] : Joins(a, f, n) /\ h[n] = f[n]
    BY <1>3, <2>2, <2>4, FlatJoins
  <2> QED
    BY <1>1, <2>1, <2>2, <2>3, <2>5
<1> QED
  BY <1>4, <1>5

\* What a sequence more at the end adds.
LEMMA FlattenAppend ==
    ASSUME NEW S, NEW seqs \in Seq(Seq(S)), NEW x \in Seq(S)
    PROVE  /\ FlattenSeq(seqs) \in Seq(S)
           /\ FlattenSeq(Append(seqs, x)) = FlattenSeq(seqs) \o x
<1>1. PICK a, t : a = seqs /\ t = Append(seqs, x)
  OBVIOUS
<1>2. /\ t \in Seq(Seq(S)) /\ Len(t) = Len(seqs) + 1 /\ Len(seqs) \in Nat
      /\ \A i \in 1 .. Len(seqs) : t[i] = seqs[i]
      /\ t[Len(seqs) + 1] = x
  BY <1>1, AppendProperties, LenProperties
<1>3. PICK n \in Nat, m \in Nat : n = Len(seqs) /\ m = n + 1 /\ Len(t) = m
  BY <1>2
<1>4. PICK f : Joins(a, f, n) /\ FlattenSeq(seqs) = f[n] /\ f[n] \in Seq(S)
  <2>1. PICK f \in [0 .. n -> Seq(S)] : Joins(seqs, f, n) /\ FlattenSeq(seqs) = f[n]
    BY <1>3, FlattenJoins
  <2>2. f[n] \in Seq(S)
    OBVIOUS
  <2> QED
    BY <1>1, <2>1, <2>2
<1>5. PICK g : Joins(t, g, m) /\ FlattenSeq(t) = g[m]
  BY <1>2, <1>3, FlattenJoins
<1>6. t[m] = x /\ \A i \in 1 .. n : a[i] = t[i]
  BY <1>1, <1>2, <1>3
<1>7. Continues(g[m], f[n], t[m])
  BY <1>3, <1>4, <1>5, <1>6, JoinsMore
<1> QED
  BY <1>1, <1>4, <1>5, <1>6, <1>7 DEF Continues

\* Nothing is nothing.
LEMMA FlattenEmpty == FlattenSeq(<<>>) = <<>>
BY EmptySeq DEF FlattenSeq

\* Continued twice is continued by both.
LEMMA ContinuesTwice ==
    ASSUME NEW S, NEW a \in Seq(S), NEW b \in Seq(S), NEW c \in Seq(S),
           NEW u, NEW v, NEW w, Continues(u, a, b), Continues(v, u, c), Continues(w, b, c)
    PROVE  Continues(v, a, w)
<1>1. (a \o b) \o c = a \o (b \o c)
  BY ConcatAssociative
<1> QED
  BY <1>1 DEF Continues

LEMMA ContinuesWithin ==
    ASSUME NEW S, NEW a \in Seq(S), NEW b \in Seq(S), NEW c \in Seq(S),
           NEW u, NEW v, NEW w, Continues(u, a, b), Continues(v, a, w), Continues(w, b, c)
    PROVE  Continues(v, u, c)
<1>1. (a \o b) \o c = a \o (b \o c)
  BY ConcatAssociative
<1> QED
  BY <1>1 DEF Continues

\* A sequence of sequences that is continued by others is flattened part by part.
LEMMA FlattenConcat ==
    ASSUME NEW S, NEW p \in Seq(Seq(S)), NEW q \in Seq(Seq(S))
    PROVE  /\ FlattenSeq(p) \in Seq(S) /\ FlattenSeq(q) \in Seq(S)
           /\ FlattenSeq(p \o q) = FlattenSeq(p) \o FlattenSeq(q)
<1>1. PICK a, b, c, all : a = p /\ b = q /\ c = p \o q /\ all = c
  OBVIOUS
<1>2. PICK L \in Nat, M \in Nat, N \in Nat : L = Len(p) /\ M = Len(q) /\ N = L + M
  <2>1. Len(p) \in Nat /\ Len(q) \in Nat
    BY LenProperties
  <2> QED
    BY <2>1
<1>3. /\ c \in Seq(Seq(S)) /\ Len(c) = N
      /\ \A i \in 1 .. L : a[i] = c[i]
      /\ \A i \in 1 .. M : c[L + i] = b[i]
  <2>1. /\ c \in Seq(Seq(S)) /\ Len(c) = N
        /\ \A i \in 1 .. N : c[i] = IF i <= L THEN p[i] ELSE q[i - L]
    BY <1>1, <1>2, ConcatProperties
  <2>2. ASSUME NEW i \in 1 .. L PROVE p[i] = c[i]
    <3>1. i \in 1 .. N /\ i <= L
      BY <1>2
    <3> QED
      BY <2>1, <3>1
  <2>3. ASSUME NEW i \in 1 .. M PROVE c[L + i] = q[i]
    <3>1. L + i \in 1 .. N /\ ~ L + i <= L /\ (L + i) - L = i
      BY <1>2
    <3> QED
      BY <2>1, <3>1
  <2> QED
    BY <1>1, <2>1, <2>2, <2>3
<1>5. PICK f : Joins(a, f, L) /\ FlattenSeq(p) = f[L] /\ f[L] \in Seq(S)
  <2>1. PICK f \in [0 .. L -> Seq(S)] : Joins(p, f, L) /\ FlattenSeq(p) = f[L]
    BY <1>2, FlattenJoins
  <2> QED
    BY <1>1, <2>1
<1>6. PICK g : /\ Joins(b, g, M) /\ FlattenSeq(q) = g[M]
               /\ \A n \in 0 .. M : g[n] \in Seq(S)
  <2>1. PICK g \in [0 .. M -> Seq(S)] : Joins(q, g, M) /\ FlattenSeq(q) = g[M]
    BY <1>2, FlattenJoins
  <2>2. \A n \in 0 .. M : g[n] \in Seq(S)
    OBVIOUS
  <2> QED
    BY <1>1, <2>1, <2>2
<1>7. PICK h : Joins(all, h, N) /\ FlattenSeq(c) = h[N]
  <2>0. c \in Seq(Seq(S)) /\ N = Len(c)
    BY <1>3
  <2>1. \E h \in [0 .. N -> Seq(S)] : Joins(c, h, N) /\ FlattenSeq(c) = h[N]
    BY <2>0, FlattenJoins
  <2> QED
    BY <1>1, <2>1
<1>9. h[L] = f[L]
  <2>1. \A i \in 1 .. L : i \in 1 .. N
    BY <1>2
  <2>2. Joins(all, h, L)
    BY <1>7, <2>1 DEF Joins
  <2>3. \A i \in 1 .. L : a[i] = all[i]
    BY <1>1, <1>3
  <2>5. Joins(a, f, L)
    BY <1>5
  <2>4. \A n \in 0 .. L : f[n] = h[n]
    BY <2>2, <2>3, <2>5, JoinsOnce
  <2> QED
    BY <2>4
<1> DEFINE T == {n \in Nat : n <= M => Continues(h[L + n], f[L], g[n])}
<1>10. 0 \in T
  <2>1. g[0] = <<>>
    BY <1>6 DEF Joins
  <2>2. f[L] \o <<>> = f[L]
    BY <1>5, ConcatEmptySeq
  <2>3. h[L + 0] = h[L]
    BY <1>2
  <2> QED
    BY <1>9, <2>1, <2>2, <2>3 DEF Continues
<1>11. ASSUME NEW n \in Nat, n \in T PROVE n + 1 \in T
  <2> SUFFICES ASSUME n + 1 <= M PROVE Continues(h[L + (n + 1)], f[L], g[n + 1])
    OBVIOUS
  <2>1. PICK k \in Nat, m \in Nat : k = L + (n + 1) /\ m = n + 1
    BY <1>2
  <2>2. k \in 1 .. N /\ k - 1 = L + n /\ m \in 1 .. M /\ m - 1 = n /\ n \in 0 .. M /\ k = L + m /\ n <= M
    BY <1>2, <2>1
  <2>3. Continues(h[k], h[k - 1], all[k]) /\ all[k] = b[m]
    BY <1>1, <1>3, <1>7, <2>2 DEF Joins, Continues
  <2>4. Continues(g[m], g[m - 1], b[m])
    BY <1>6, <2>2 DEF Joins, Continues
  <2>5. Continues(h[L + n], f[L], g[n])
    BY <1>11, <2>2
  <2>6. PICK u, v, w : u = f[L] /\ v = g[n] /\ w = b[m]
    OBVIOUS
  <2>7. u \in Seq(S) /\ v \in Seq(S) /\ w \in Seq(S)
    <3>1. q[m] \in Seq(S)
      BY <1>2, <2>2, ElementOfSeq
    <3> QED
      BY <1>1, <1>5, <1>6, <2>2, <2>6, <3>1
  <2>8. PICK x, y, z : x = h[L + n] /\ y = h[k] /\ z = g[m]
    OBVIOUS
  <2>9. Continues(x, u, v) /\ Continues(y, x, w) /\ Continues(z, v, w)
    BY <2>2, <2>3, <2>4, <2>5, <2>6, <2>8
  <2>10. Continues(y, u, z)
    BY <2>7, <2>9, ContinuesTwice
  <2> QED
    BY <2>1, <2>6, <2>8, <2>10
<1>12. Continues(h[L + M], f[L], g[M])
  <2>1. M \in T
    <3> HIDE DEF T
    <3> QED
      BY <1>10, <1>11, SetInduction
  <2> QED
    BY <2>1
<1>13. g[M] \in Seq(S)
  BY <1>6
<1> QED
  BY <1>1, <1>2, <1>5, <1>6, <1>7, <1>12, <1>13 DEF Continues

\* When the last of them gets longer, what is flattened does.
LEMMA FlattenLastGrows ==
    ASSUME NEW S, NEW p \in Seq(Seq(S)), NEW q \in Seq(Seq(S)), NEW x \in Seq(S),
           NEW N \in Nat, N # 0, Len(p) = N, Len(q) = N,
           \A i \in 1 .. N - 1 : q[i] = p[i], Continues(q[N], p[N], x)
    PROVE  Continues(FlattenSeq(q), FlattenSeq(p), x)
<1>0. PICK a, b : a = p /\ b = q
  OBVIOUS
<1>1. PICK M \in Nat : N = M + 1
  <2>1. N - 1 \in Nat /\ N = (N - 1) + 1
    OBVIOUS
  <2> QED
    BY <2>1
<1>3. PICK f : /\ Joins(a, f, N) /\ FlattenSeq(p) = f[N]
               /\ \A n \in 0 .. N : f[n] \in Seq(S)
  <2>1. PICK f \in [0 .. N -> Seq(S)] : Joins(p, f, N) /\ FlattenSeq(p) = f[N]
    BY FlattenJoins
  <2>2. \A n \in 0 .. N : f[n] \in Seq(S)
    OBVIOUS
  <2> QED
    BY <1>0, <2>1, <2>2
<1>4. PICK g : Joins(b, g, N) /\ FlattenSeq(q) = g[N]
  <2>1. \E g \in [0 .. N -> Seq(S)] : Joins(q, g, N) /\ FlattenSeq(q) = g[N]
    BY FlattenJoins
  <2> QED
    BY <1>0, <2>1
<1>5. N \in 1 .. N /\ N - 1 = M /\ M \in 0 .. N
  BY <1>1
<1>6. \A i \in 1 .. M : a[i] = b[i]
  BY <1>0, <1>1
<1>7. Continues(g[N], f[M], b[N])
  <2>1. \A i \in 1 .. M : i \in 1 .. N
    BY <1>1
  <2>2. Joins(a, f, M)
    BY <1>3, <2>1 DEF Joins
  <2> QED
    BY <1>1, <1>4, <1>6, <2>2, JoinsMore
<1>8. Continues(f[N], f[M], a[N]) /\ Continues(b[N], a[N], x)
  BY <1>0, <1>3, <1>5 DEF Joins, Continues
<1>9. PICK u, v, w, y, z : u = f[M] /\ v = a[N] /\ w = b[N] /\ y = f[N] /\ z = g[N]
  OBVIOUS
<1>10. u \in Seq(S) /\ v \in Seq(S)
  <2>1. p[N] \in Seq(S)
    BY <1>5, ElementOfSeq
  <2> QED
    BY <1>0, <1>3, <1>5, <1>9, <2>1
<1>11. Continues(y, u, v) /\ Continues(z, u, w) /\ Continues(w, v, x)
  BY <1>7, <1>8, <1>9
<1>12. Continues(z, y, x)
  BY <1>10, <1>11, ContinuesWithin
<1> QED
  BY <1>3, <1>4, <1>9, <1>12

====
