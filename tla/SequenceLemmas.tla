---------------------------- MODULE SequenceLemmas ----------------------------
(***************************************************************************)
(* Facts about sequences that several components build on: induction over  *)
(* the naturals, what FlattenSeq makes of a sequence of sequences, and     *)
(* parts of sequences.                                                     *)
(***************************************************************************)
EXTENDS Naturals, Sequences, SequencesExt, FiniteSetTheorems, SequenceTheorems,
        WellFoundedInduction, TLAPS

-----------------------------------------------------------------------------
(***************************************************************************)
(* Sets of naturals have a least element: induction over Nat, which is     *)
(* about a set, by the well-founded order of the intervals 1..n.           *)
(***************************************************************************)
THEOREM SetInduction ==
    ASSUME NEW S \in SUBSET Nat, 0 \in S, \A n \in S : n + 1 \in S
    PROVE  S = Nat
<1> DEFINE T == Nat \ S
           U == {1..n : n \in T}
<1> SUFFICES ASSUME T # {} PROVE FALSE
  OBVIOUS
<1>1. U # {} /\ U \subseteq FiniteSubsetsOf(Nat)
  <2>1. ASSUME NEW n \in T PROVE 1..n \in FiniteSubsetsOf(Nat)
    <3>1. n \in Int /\ 1 \in Int OBVIOUS
    <3>2. IsFiniteSet(1..n) BY <3>1, FS_Interval
    <3> QED BY <3>2 DEF FiniteSubsetsOf
  <2> QED BY <2>1
<1>2. PICK u \in U : \A v \in U : ~(<<v, u>> \in StrictSubsetOrdering(Nat))
  <2> HIDE DEF U, T
  <2> QED BY <1>1, WFMin, FS_StrictSubsetOrderingWellFounded
<1>3. PICK x \in T : u = 1..x OBVIOUS
<1>4. x \in Nat /\ x # 0 OBVIOUS
<1>5. x - 1 \in Nat /\ x - 1 < x /\ (x - 1) + 1 = x BY <1>4
<1>6. x - 1 \in T BY <1>4, <1>5
<1>7. x \in 1..x /\ x \notin 1..(x - 1) /\ 1..(x - 1) \subseteq 1..x BY <1>4
<1>8. <<1..(x - 1), 1..x>> \in StrictSubsetOrdering(Nat)
  BY <1>5, <1>7 DEF StrictSubsetOrdering
<1> QED BY <1>2, <1>3, <1>6, <1>8

\* Hence a set of naturals that is not empty has a least element.
LEMMA LeastElement ==
    ASSUME NEW T \in SUBSET Nat, T # {} PROVE \E m \in T : \A n \in T : m <= n
<1> SUFFICES ASSUME ~ \E m \in T : \A n \in T : m <= n PROVE FALSE
  OBVIOUS
<1> DEFINE S == {k \in Nat : \A n \in T : k <= n}
<1>1. 0 \in S OBVIOUS
<1>2. ASSUME NEW k \in S PROVE k + 1 \in S
  <2>1. k \notin T OBVIOUS
  <2>2. \A n \in T : k <= n /\ k # n BY <2>1
  <2>3. \A n \in T : k + 1 <= n BY <2>2
  <2> QED BY <2>3
<1> HIDE DEF S
<1>3. S = Nat
  <2>1. S \in SUBSET Nat BY DEF S
  <2> QED BY <1>1, <1>2, <2>1, SetInduction
<1>4. PICK t \in T : TRUE OBVIOUS
<1>5. t + 1 \in S BY <1>3
<1>6. t + 1 <= t BY <1>5 DEF S
<1> QED BY <1>6

\* f joins the first n sequences of s, one after the other.
Joins(s, f, n) ==
    \A i \in 1..n : /\ i = 1 => f[i] = s[i]
                    /\ i # 1 => f[i] = f[i - 1] \o s[i]

\* Sequences can be joined, in one way.
LEMMA JoinsExists ==
    ASSUME NEW S, NEW s \in Seq(Seq(S)), NEW m \in Nat, m <= Len(s)
    PROVE  \E f \in [1..m -> Seq(S)] : Joins(s, f, m)
<1> DEFINE N == {n \in Nat : n <= Len(s) => \E f \in [1..n -> Seq(S)] : Joins(s, f, n)}
<1>1. 0 \in N
  <2>1. \A f : Joins(s, f, 0) BY DEF Joins
  <2>2. [i \in 1..0 |-> s[i]] \in [1..0 -> Seq(S)] OBVIOUS
  <2> QED BY <2>1, <2>2
<1>2. ASSUME NEW n \in N PROVE n + 1 \in N
  <2>0. n \in Nat BY <1>2
  <2> SUFFICES ASSUME n + 1 <= Len(s)
               PROVE  \E f \in [1..(n + 1) -> Seq(S)] : Joins(s, f, n + 1)
    BY <2>0
  <2>1. \E f \in [1..n -> Seq(S)] : Joins(s, f, n) BY <2>0, <1>2
  <2> HIDE DEF N
  <2>2. PICK f \in [1..n -> Seq(S)] : Joins(s, f, n) BY <2>1
  <2> DEFINE g == [i \in 1..(n + 1) |-> IF i = 1 THEN s[i] ELSE f[i - 1] \o s[i]]
  <2>3. \A i \in 1..(n + 1) : s[i] \in Seq(S) /\ (i # 1 => i - 1 \in 1..n) BY <2>0
  <2>4. g \in [1..(n + 1) -> Seq(S)]
    <3>1. ASSUME NEW i \in 1..(n + 1) PROVE (IF i = 1 THEN s[i] ELSE f[i - 1] \o s[i]) \in Seq(S)
      <4>1. CASE i = 1 BY <2>3, <4>1
      <4>2. CASE i # 1
        <5>1. s[i] \in Seq(S) /\ f[i - 1] \in Seq(S) BY <2>3, <4>2
        <5>2. f[i - 1] \o s[i] \in Seq(S) BY <5>1
        <5> QED BY <4>2, <5>2
      <4> QED BY <4>1, <4>2
    <3> QED BY <3>1
  <2>6. \A i \in 1..n : g[i] = f[i]
    <3>1. 1..n \subseteq 1..(n + 1) BY <2>0
    <3>2. \A i \in 1..n : i = 1 => g[i] = s[i] BY <3>1
    <3>3. \A i \in 1..n : i # 1 => g[i] = f[i - 1] \o s[i] BY <3>1
    <3> HIDE DEF g
    <3> QED BY <2>2, <3>2, <3>3 DEF Joins
  <2>7. Joins(s, g, n + 1)
    <3>1. \A i \in 1..(n + 1) : i # 1 => f[i - 1] = g[i - 1] BY <2>3, <2>6
    <3> QED BY <3>1 DEF Joins
  <2> QED BY <2>4, <2>7
<1> HIDE DEF N
<1>3. N = Nat
  <2>1. N \in SUBSET Nat BY DEF N
  <2> QED BY <1>1, <1>2, <2>1, SetInduction
<1>4. m \in N BY <1>3
<1> QED BY <1>4 DEF N

Agree(f, h, n) == \A i \in 1..n : f[i] = h[i]

\* Two joins of one sequence agree.
LEMMA JoinsUnique ==
    ASSUME NEW s, NEW m \in Nat, NEW f, NEW h, Joins(s, f, m), Joins(s, h, m)
    PROVE  Agree(f, h, m)
<1> DEFINE N == {n \in Nat : n \in 1..m => h[n] = f[n]}
<1>1. \A i \in 1..m : i = 1 => f[i] = s[i] BY DEF Joins
<1>2. \A i \in 1..m : i # 1 => f[i] = f[i - 1] \o s[i] BY DEF Joins
<1>3. \A i \in 1..m : i = 1 => h[i] = s[i] BY DEF Joins
<1>4. \A i \in 1..m : i # 1 => h[i] = h[i - 1] \o s[i] BY DEF Joins
<1>5. 0 \in N OBVIOUS
<1>6. ASSUME NEW n \in N PROVE n + 1 \in N
  <2>1. n \in Nat /\ (n \in 1..m => h[n] = f[n]) BY <1>6
  <2>2. ASSUME n + 1 \in 1..m PROVE h[n + 1] = f[n + 1]
    <3>1. CASE n = 0 BY <2>2, <3>1, <1>1, <1>3
    <3>2. CASE n # 0
      <4>1. n \in 1..m /\ n + 1 # 1 /\ (n + 1) - 1 = n BY <2>1, <2>2, <3>2
      <4>2. f[n + 1] = f[n] \o s[n + 1] BY <4>1, <2>2, <1>2
      <4>3. h[n + 1] = h[n] \o s[n + 1] BY <4>1, <2>2, <1>4
      <4> QED BY <4>1, <4>2, <4>3, <2>1
    <3> QED BY <3>1, <3>2
  <2> QED BY <2>1, <2>2
<1> HIDE DEF N
<1>7. N = Nat
  <2>1. N \in SUBSET Nat BY DEF N
  <2> QED BY <1>5, <1>6, <2>1, SetInduction
<1>8. \A i \in 1..m : i \in N BY <1>7
<1>9. \A i \in 1..m : h[i] = f[i] BY <1>8 DEF N
<1> QED BY <1>9 DEF Agree

\* FlattenSeq joins the sequences one after the other.
LEMMA FlattenSteps ==
    ASSUME NEW S, NEW s \in Seq(Seq(S)), Len(s) # 0
    PROVE  \E f \in [1..Len(s) -> Seq(S)] : Joins(s, f, Len(s)) /\ FlattenSeq(s) = f[Len(s)]
<1> DEFINE n == Len(s)
           Fun(g) == g = [i \in 1..n |-> IF i = 1 THEN s[i] ELSE g[i - 1] \o s[i]]
           h == CHOOSE g : Fun(g)
<1>0. n \in Nat /\ n <= Len(s) /\ n \in 1..n OBVIOUS
<1>1. PICK f \in [1..n -> Seq(S)] : Joins(s, f, n) BY <1>0, JoinsExists
<1>2. Fun(f)
  <2>1. \A i \in 1..n : f[i] = IF i = 1 THEN s[i] ELSE f[i - 1] \o s[i] BY <1>1 DEF Joins
  <2>2. f = [i \in 1..n |-> f[i]] OBVIOUS
  <2> QED BY <2>1, <2>2
<1>3. Fun(h) BY <1>2
<1>4. FlattenSeq(s) = h[n] BY DEF FlattenSeq
<1> HIDE DEF h
<1>5. \A i \in 1..n : h[i] = IF i = 1 THEN s[i] ELSE h[i - 1] \o s[i] BY <1>3
<1>6. Joins(s, h, n)
  <2>1. \A i \in 1..n : i = 1 => h[i] = s[i] BY <1>5, Zenon
  <2>2. \A i \in 1..n : i # 1 => h[i] = h[i - 1] \o s[i] BY <1>5, Zenon
  <2> QED BY <2>1, <2>2 DEF Joins
<1> HIDE DEF Fun, n
<1>7. Agree(f, h, n) BY <1>0, <1>1, <1>6, JoinsUnique
<1>8. FlattenSeq(s) = f[n] BY <1>0, <1>4, <1>7 DEF Agree
<1> QED BY <1>1, <1>8 DEF n

\* The sequence, the empty one, and that of one sequence.
LEMMA FlattenType ==
    ASSUME NEW S, NEW s \in Seq(Seq(S)) PROVE FlattenSeq(s) \in Seq(S)
<1>1. CASE Len(s) = 0
  <2>1. FlattenSeq(s) = s /\ s = <<>> BY <1>1 DEF FlattenSeq
  <2> QED BY <2>1
<1>2. CASE Len(s) # 0
  <2>1. Len(s) \in 1..Len(s) BY <1>2
  <2>2. PICK f \in [1..Len(s) -> Seq(S)] : FlattenSeq(s) = f[Len(s)] BY <1>2, FlattenSteps
  <2> QED BY <2>1, <2>2
<1> QED BY <1>1, <1>2

\* Of nothing.
LEMMA FlattenEmpty == FlattenSeq(<<>>) = <<>>
BY DEF FlattenSeq

\* One more sequence.
LEMMA FlattenAppend ==
    ASSUME NEW S, NEW s \in Seq(Seq(S)), NEW x \in Seq(S)
    PROVE  FlattenSeq(Append(s, x)) = FlattenSeq(s) \o x
<1> DEFINE t == Append(s, x)
           m == Len(s)
<1>1. /\ t \in Seq(Seq(S)) /\ Len(t) = m + 1 /\ t[m + 1] = x /\ m \in Nat
      /\ \A i \in 1..m : t[i] = s[i]
  OBVIOUS
<1> HIDE DEF t
<1>2. PICK g \in [1..(m + 1) -> Seq(S)] : Joins(t, g, m + 1) /\ FlattenSeq(t) = g[m + 1]
  BY <1>1, FlattenSteps
<1>3. CASE m = 0
  <2>1. s = <<>> /\ FlattenSeq(s) = <<>> BY <1>3, FlattenEmpty
  <2>2. g[1] = x BY <1>1, <1>2, <1>3 DEF Joins
  <2> QED BY <1>2, <1>3, <2>1, <2>2 DEF t
<1>4. CASE m # 0
  <2>1. PICK f \in [1..m -> Seq(S)] : Joins(s, f, m) /\ FlattenSeq(s) = f[m]
    BY <1>4, FlattenSteps
  <2>2. 1..m \subseteq 1..(m + 1) /\ m + 1 \in 1..(m + 1) /\ m + 1 # 1 /\ m \in 1..m
        /\ (m + 1) - 1 = m
    BY <1>1, <1>4
  <2>3. Joins(s, g, m) BY <1>1, <1>2, <2>2 DEF Joins
  <2>4. f[m] = g[m]
    <3>1. m \in Nat /\ Joins(s, f, m) /\ Joins(s, g, m) BY <1>1, <2>1, <2>3
    <3> HIDE DEF m
    <3>2. Agree(f, g, m) BY <3>1, JoinsUnique
    <3> QED BY <2>2, <3>2 DEF Agree
  <2>5. g[m + 1] = g[m] \o t[m + 1] BY <1>2, <2>2 DEF Joins
  <2> QED BY <1>1, <1>2, <2>1, <2>4, <2>5 DEF t
<1> QED BY <1>3, <1>4

\* Of one sequence.
LEMMA FlattenOne ==
    ASSUME NEW S, NEW x \in Seq(S) PROVE FlattenSeq(<<x>>) = x
<1>1. <<x>> = Append(<<>>, x) /\ <<>> \in Seq(Seq(S)) OBVIOUS
<1>2. FlattenSeq(<<x>>) = <<>> \o x BY <1>1, FlattenAppend, FlattenEmpty
<1> QED BY <1>2

\* One more element at the end of two sequences.
LEMMA ConcatAppend ==
    ASSUME NEW S, NEW s \in Seq(S), NEW t \in Seq(S), NEW e \in S
    PROVE  s \o Append(t, e) = Append(s \o t, e) /\ s \o t \in Seq(S)
<1>1. s \o t \in Seq(S) /\ <<e>> \in Seq(S) OBVIOUS
<1>2. Append(s \o t, e) = (s \o t) \o <<e>> BY <1>1, AppendIsConcat
<1>3. Append(t, e) = t \o <<e>> BY AppendIsConcat
<1> QED BY <1>1, <1>2, <1>3, ConcatAssociative

\* Flattening two sequences, one after the other.
THEOREM FlattenConcat ==
    ASSUME NEW S, NEW s \in Seq(Seq(S)), NEW t \in Seq(Seq(S))
    PROVE  FlattenSeq(s \o t) = FlattenSeq(s) \o FlattenSeq(t)
<1> DEFINE Good(r) == FlattenSeq(s \o r) = FlattenSeq(s) \o FlattenSeq(r)
           N == {n \in Nat : n <= Len(t) => Good(SubSeq(t, 1, n))}
<1>1. 0 \in N
  <2>1. SubSeq(t, 1, 0) = <<>> BY SubSeqEmpty
  <2>2. s \o <<>> = s /\ FlattenSeq(s) \in Seq(S) BY ConcatEmptySeq, FlattenType
  <2>3. Good(<<>>) BY <2>2, ConcatEmptySeq, FlattenEmpty
  <2> QED BY <2>1, <2>3
<1>2. ASSUME NEW n \in N PROVE n + 1 \in N
  <2>1. n \in Nat /\ (n <= Len(t) => Good(SubSeq(t, 1, n))) BY <1>2
  <2>2. ASSUME n + 1 <= Len(t) PROVE Good(SubSeq(t, 1, n + 1))
    <3>1. /\ SubSeq(t, 1, n) \in Seq(Seq(S)) /\ t[n + 1] \in Seq(S)
          /\ SubSeq(t, 1, n + 1) = Append(SubSeq(t, 1, n), t[n + 1])
      BY <2>1, <2>2
    <3>2. PICK r \in Seq(Seq(S)) : r = SubSeq(t, 1, n) BY <3>1
    <3>3. PICK x \in Seq(S) : x = t[n + 1] BY <3>1
    <3>4. Good(r) BY <2>1, <2>2, <3>2
    <3>5. s \o Append(r, x) = Append(s \o r, x) /\ s \o r \in Seq(Seq(S)) BY ConcatAppend
    <3>6. FlattenSeq(s \o Append(r, x)) = FlattenSeq(s \o r) \o x BY <3>5, FlattenAppend
    <3>7. FlattenSeq(Append(r, x)) = FlattenSeq(r) \o x BY FlattenAppend
    <3>8. FlattenSeq(s) \in Seq(S) /\ FlattenSeq(r) \in Seq(S) BY FlattenType
    <3>9. (FlattenSeq(s) \o FlattenSeq(r)) \o x = FlattenSeq(s) \o (FlattenSeq(r) \o x)
      BY <3>8, ConcatAssociative
    <3>10. Good(Append(r, x)) BY <3>4, <3>6, <3>7, <3>9
    <3> QED BY <3>1, <3>2, <3>3, <3>10
  <2> HIDE DEF Good
  <2> QED BY <2>1, <2>2
<1> HIDE DEF N
<1>3. N = Nat
  <2>1. N \in SUBSET Nat BY DEF N
  <2> QED BY <1>1, <1>2, <2>1, SetInduction
<1>4. Len(t) \in N /\ Len(t) \in Nat BY <1>3
<1>5. SubSeq(t, 1, Len(t)) = t BY SubSeqFull
<1>6. Len(t) <= Len(t) => Good(SubSeq(t, 1, Len(t)))
  <2> HIDE DEF Good
  <2> QED BY <1>4 DEF N
<1>7. Good(SubSeq(t, 1, Len(t))) BY <1>4, <1>6
<1> QED BY <1>5, <1>7, Zenon

-----------------------------------------------------------------------------
\* One more sequence, given place by place.
LEMMA FlattenLonger ==
    ASSUME NEW S, NEW a \in Seq(Seq(S)), NEW b \in Seq(Seq(S)), NEW x \in Seq(S),
           Len(b) = Len(a) + 1, \A p \in 1..Len(a) : b[p] = a[p], b[Len(a) + 1] = x
    PROVE  FlattenSeq(b) = FlattenSeq(a) \o x
<1>1. /\ Append(a, x) \in Seq(Seq(S)) /\ Len(Append(a, x)) = Len(a) + 1 /\ Len(a) \in Nat
      /\ \A p \in 1..Len(a) : Append(a, x)[p] = a[p]
      /\ Append(a, x)[Len(a) + 1] = x
  BY AppendProperties
<1>2. \A p \in 1..Len(b) : b[p] = Append(a, x)[p]
  <2>1. \A p \in 1..Len(b) : p \in 1..Len(a) \/ p = Len(a) + 1 BY <1>1
  <2> QED BY <1>1, <2>1
<1>3. b = Append(a, x) BY <1>1, <1>2, SeqEqual
<1> QED BY <1>3, FlattenAppend

\* A part of a sequence.
LEMMA CutSeq ==
    ASSUME NEW S, NEW s \in Seq(S), NEW m \in 1..Len(s) + 1, NEW n \in m - 1..Len(s)
    PROVE  /\ SubSeq(s, m, n) \in Seq(S) /\ Len(SubSeq(s, m, n)) = n - m + 1
           /\ \A p \in 1..n - m + 1 : SubSeq(s, m, n)[p] = s[m + p - 1]
<1>1. Len(s) \in Nat OBVIOUS
<1>2. \A p \in m..n : s[p] \in S BY <1>1
<1>3. m \in Int /\ n \in Int /\ n - m + 1 >= 0 BY <1>1
<1>4. (IF m <= n THEN n - m + 1 ELSE 0) = n - m + 1 BY <1>3
<1> QED BY <1>2, <1>3, <1>4, SubSeqProperties

\* The beginning of a sequence.
LEMMA Prefix ==
    ASSUME NEW S, NEW s \in Seq(S), NEW k \in Nat, k <= Len(s)
    PROVE  /\ SubSeq(s, 1, k) \in Seq(S) /\ Len(SubSeq(s, 1, k)) = k
           /\ \A p \in 1..k : SubSeq(s, 1, k)[p] = s[p]
<1>1. Len(s) \in Nat /\ 1 \in 1..Len(s) + 1 /\ k \in 1 - 1..Len(s) /\ k - 1 + 1 = k OBVIOUS
<1>2. /\ SubSeq(s, 1, k) \in Seq(S) /\ Len(SubSeq(s, 1, k)) = k - 1 + 1
      /\ \A p \in 1..k - 1 + 1 : SubSeq(s, 1, k)[p] = s[1 + p - 1]
  BY <1>1, CutSeq
<1>3. \A p \in 1..k : p \in 1..k - 1 + 1 /\ 1 + p - 1 = p BY <1>1
<1>4. Len(SubSeq(s, 1, k)) = k BY <1>1, <1>2
<1>5. ASSUME NEW p \in 1..k PROVE SubSeq(s, 1, k)[p] = s[p]
  <2>1. SubSeq(s, 1, k)[p] = s[1 + p - 1] BY <1>2, <1>3
  <2> QED BY <1>3, <2>1
<1> QED BY <1>2, <1>4, <1>5

\* The first k sequences, one more, and all of them.
LEMMA FlattenPrefix ==
    ASSUME NEW S, NEW s \in Seq(Seq(S)), NEW k \in 0..Len(s)
    PROVE  /\ FlattenSeq(SubSeq(s, 1, k)) \in Seq(S)
           /\ \E r \in Seq(S) : FlattenSeq(s) = FlattenSeq(SubSeq(s, 1, k)) \o r
           /\ k < Len(s) =>
                 FlattenSeq(SubSeq(s, 1, k + 1)) = FlattenSeq(SubSeq(s, 1, k)) \o s[k + 1]
<1>0. Len(s) \in Nat /\ k \in Nat /\ k <= Len(s) OBVIOUS
<1>1. PICK Q : Q = Seq(S) OBVIOUS
<1>2. s \in Seq(Q) BY <1>1
<1>3. PICK a \in Seq(Q) : a = SubSeq(s, 1, k) /\ Len(a) = k /\ \A p \in 1..k : a[p] = s[p]
  <2>1. k \in Nat /\ k <= Len(s) BY <1>0
  <2>2. /\ SubSeq(s, 1, k) \in Seq(Q) /\ Len(SubSeq(s, 1, k)) = k
        /\ \A p \in 1..k : SubSeq(s, 1, k)[p] = s[p]
    BY <1>2, <2>1, Prefix
  <2> QED BY <2>2
<1>4. PICK c \in Seq(Q) : c = SubSeq(s, k + 1, Len(s))
  <2>1. k + 1 \in 1..Len(s) + 1 /\ Len(s) \in (k + 1) - 1..Len(s) BY <1>0
  <2> QED BY <1>2, <2>1, CutSeq
<1>5. FlattenSeq(a) \in Seq(S) /\ FlattenSeq(c) \in Seq(S) BY <1>1, FlattenType
<1>6. FlattenSeq(s) = FlattenSeq(a) \o FlattenSeq(c)
  <2>0. 1 \in 1..Len(s) + 1 /\ k \in 1 - 1..Len(s) /\ Len(s) \in k..Len(s) BY <1>0
  <2>1. SubSeq(s, 1, k) \o SubSeq(s, k + 1, Len(s)) = SubSeq(s, 1, Len(s))
    BY <1>2, <2>0, ConcatAdjacentSubSeq
  <2>2. SubSeq(s, 1, Len(s)) = s BY <1>2, SubSeqFull
  <2>3. s = a \o c BY <1>3, <1>4, <2>1, <2>2
  <2> QED BY <1>1, <2>3, FlattenConcat
<1>7. ASSUME k < Len(s)
      PROVE  FlattenSeq(SubSeq(s, 1, k + 1)) = FlattenSeq(a) \o s[k + 1]
  <2>1. k + 1 \in Nat /\ k + 1 <= Len(s) BY <1>0, <1>7
  <2>3. PICK b \in Seq(Q) :
            b = SubSeq(s, 1, k + 1) /\ Len(b) = k + 1 /\ \A p \in 1..k + 1 : b[p] = s[p]
    <3>1. /\ SubSeq(s, 1, k + 1) \in Seq(Q) /\ Len(SubSeq(s, 1, k + 1)) = k + 1
          /\ \A p \in 1..k + 1 : SubSeq(s, 1, k + 1)[p] = s[p]
      BY <1>2, <2>1, Prefix
    <3> QED BY <3>1, Zenon
  <2>4. \A p \in 1..Len(a) : b[p] = a[p] BY <1>0, <1>3, <2>3
  <2>5. b[Len(a) + 1] = s[k + 1] /\ s[k + 1] \in Seq(S) BY <1>0, <1>3, <1>7, <2>3
  <2>6. Len(b) = Len(a) + 1 BY <1>3, <2>3
  <2> QED BY <1>1, <2>3, <2>4, <2>5, <2>6, FlattenLonger
<1> QED BY <1>3, <1>5, <1>6, <1>7

\* Sequences of one element each.
LEMMA FlattenSingles ==
    ASSUME NEW S, NEW s \in Seq(S), NEW b, b = [p \in DOMAIN s |-> <<s[p]>>]
    PROVE  FlattenSeq(b) = s
<1>1. Len(s) \in Nat /\ DOMAIN s = 1..Len(s) OBVIOUS
<1>2. b \in Seq(Seq(S)) /\ Len(b) = Len(s)
  <2>1. \A p \in 1..Len(s) : <<s[p]>> \in Seq(S) OBVIOUS
  <2> QED BY <1>1, <2>1
<1> DEFINE N == {n \in Nat : n <= Len(s) => FlattenSeq(SubSeq(b, 1, n)) = SubSeq(s, 1, n)}
<1>3. 0 \in N
  <2>1. SubSeq(b, 1, 0) = <<>> /\ SubSeq(s, 1, 0) = <<>> BY SubSeqEmpty
  <2> QED BY <2>1, FlattenEmpty
<1>4. ASSUME NEW n \in N PROVE n + 1 \in N
  <2>1. n \in Nat /\ (n <= Len(s) => FlattenSeq(SubSeq(b, 1, n)) = SubSeq(s, 1, n)) BY <1>4
  <2> SUFFICES ASSUME n + 1 <= Len(s)
               PROVE  FlattenSeq(SubSeq(b, 1, n + 1)) = SubSeq(s, 1, n + 1)
    BY <2>1
  <2>2. n \in 0..Len(b) /\ n < Len(b) /\ n <= Len(s) BY <1>1, <1>2, <2>1
  <2>3. FlattenSeq(SubSeq(b, 1, n + 1)) = FlattenSeq(SubSeq(b, 1, n)) \o b[n + 1]
    <3> HIDE DEF N
    <3> QED BY <1>2, <2>2, FlattenPrefix
  <2>4. b[n + 1] = <<s[n + 1]>> BY <1>1, <2>1
  <2>5. PICK a \in Seq(S) : a = SubSeq(s, 1, n) BY <2>1
  <2>6. SubSeq(s, 1, n + 1) = Append(a, s[n + 1]) BY <2>1, <2>5
  <2>7. Append(a, s[n + 1]) = a \o <<s[n + 1]>> BY AppendIsConcat
  <2> QED BY <2>1, <2>2, <2>3, <2>4, <2>5, <2>6, <2>7, Zenon
<1> HIDE DEF N
<1>5. N = Nat
  <2>1. N \in SUBSET Nat BY DEF N
  <2> QED BY <1>3, <1>4, <2>1, SetInduction
<1>6. Len(s) \in N BY <1>1, <1>5
<1>7. SubSeq(b, 1, Len(s)) = b /\ SubSeq(s, 1, Len(s)) = s BY <1>2, SubSeqFull
<1>8. FlattenSeq(SubSeq(b, 1, Len(s))) = SubSeq(s, 1, Len(s)) BY <1>1, <1>6 DEF N
<1> QED BY <1>7, <1>8, Zenon

\* A sequence with one more element in front of it, or behind it.
LEMMA InFront ==
    ASSUME NEW S, NEW c \in S, NEW s \in Seq(S), NEW w, w = <<c>> \o s
    PROVE  /\ w \in Seq(S) /\ Len(w) = Len(s) + 1 /\ w[1] = c
           /\ \A p \in 1..Len(s) : w[p + 1] = s[p]
OBVIOUS

\* Behind it.
LEMMA Behind ==
    ASSUME NEW S, NEW c \in S, NEW s \in Seq(S), NEW w, w = s \o <<c>>
    PROVE  /\ w \in Seq(S) /\ Len(w) = Len(s) + 1
           /\ w[Len(s) + 1] = c
           /\ \A p \in 1..Len(s) : w[p] = s[p]
OBVIOUS

\* Two sequences, one after the other.
LEMMA Joined ==
    ASSUME NEW S, NEW a \in Seq(S), NEW b \in Seq(S), NEW w, w = a \o b
    PROVE  /\ w \in Seq(S) /\ Len(w) = Len(a) + Len(b)
           /\ \A p \in 1..Len(a) : w[p] = a[p]
           /\ \A p \in 1..Len(b) : w[Len(a) + p] = b[p]
OBVIOUS

\* One more element, by places and as a set.
LEMMA AppendOne ==
    ASSUME NEW S, NEW v \in Seq(S), NEW k \in S, NEW w, w = Append(v, k)
    PROVE  /\ w \in Seq(S) /\ Len(w) = Len(v) + 1 /\ w[Len(v) + 1] = k
           /\ \A p \in 1..Len(v) : w[p] = v[p]
BY AppendProperties

\* As a set.
LEMMA ToSetAppend ==
    ASSUME NEW S, NEW v \in Seq(S), NEW k \in S
    PROVE  ToSet(Append(v, k)) = ToSet(v) \cup {k}
<1>0. PICK w : w = Append(v, k) OBVIOUS
<1>1. /\ w \in Seq(S) /\ Len(w) = Len(v) + 1 /\ w[Len(v) + 1] = k
      /\ \A p \in 1..Len(v) : w[p] = v[p]
  BY <1>0, AppendOne
<1>2. DOMAIN v = 1..Len(v) /\ DOMAIN w = 1..Len(v) + 1 /\ Len(v) \in Nat BY <1>1
<1>3. \A p : p \in DOMAIN w <=> p \in DOMAIN v \/ p = Len(v) + 1 BY <1>2
<1>4. \A u : u \in ToSet(w) <=> u \in ToSet(v) \/ u = k
  BY <1>1, <1>2, <1>3 DEF ToSet
<1> QED BY <1>0, <1>4

\* A part of a sequence, by its elements.
LEMMA PartIs ==
    ASSUME NEW S, NEW s \in Seq(S), NEW b \in Nat, NEW x \in Seq(S),
           b + Len(x) <= Len(s),
           \A p \in 1..Len(x) : s[b + p] = x[p]
    PROVE  SubSeq(s, b + 1, b + Len(x)) = x
<1>1. Len(s) \in Nat /\ Len(x) \in Nat OBVIOUS
<1>2. PICK m \in Nat : m = Len(x) BY <1>1
<1>3. b + 1 \in 1..Len(s) + 1 /\ b + m \in (b + 1) - 1..Len(s) /\ (b + m) - (b + 1) + 1 = m
  BY <1>1, <1>2
<1>4. PICK y : y = SubSeq(s, b + 1, b + m) OBVIOUS
<1>5. /\ y \in Seq(S) /\ Len(y) = m
      /\ \A p \in 1..m : y[p] = s[(b + 1) + p - 1]
  <2>1. /\ SubSeq(s, b + 1, b + m) \in Seq(S)
        /\ Len(SubSeq(s, b + 1, b + m)) = (b + m) - (b + 1) + 1
        /\ \A p \in 1..(b + m) - (b + 1) + 1 : SubSeq(s, b + 1, b + m)[p] = s[(b + 1) + p - 1]
    BY <1>3, CutSeq
  <2> QED BY <1>3, <1>4, <2>1
<1>6. \A p \in 1..m : (b + 1) + p - 1 = b + p BY <1>2
<1>7. \A p \in 1..m : y[p] = x[p] BY <1>2, <1>5, <1>6
<1>8. y = x BY <1>2, <1>5, <1>7, SeqEqual
<1> QED BY <1>2, <1>4, <1>8
=============================================================================
