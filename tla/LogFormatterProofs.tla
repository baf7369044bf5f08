-------------------------- MODULE LogFormatterProofs --------------------------
(***************************************************************************)
(* Patterns of any length: what the parser takes is in the items, and a    *)
(* line has what was written in the pattern.                               *)
(***************************************************************************)
EXTENDS LogFormatter, SequenceLemmas

-----------------------------------------------------------------------------
\* Texts without their braces.
LEMMA BareType == ASSUME NEW s \in Seq(Chars) PROVE Bare(s) \in Seq(Chars)
<1> DEFINE b == [p \in 1..Len(s) |-> IF Brace(s[p]) THEN <<>> ELSE <<s[p]>>]
<1>1. b \in Seq(Seq(Chars))
  <2>1. \A p \in 1..Len(s) : (IF Brace(s[p]) THEN <<>> ELSE <<s[p]>>) \in Seq(Chars)
    OBVIOUS
  <2>2. Len(s) \in Nat OBVIOUS
  <2> QED BY <2>1, <2>2
<1> HIDE DEF b
<1>2. FlattenSeq(b) \in Seq(Chars) BY <1>1, FlattenType
<1> QED BY <1>2 DEF Bare, b

\* Two texts without their braces.
LEMMA BareConcat ==
    ASSUME NEW s \in Seq(Chars), NEW t \in Seq(Chars)
    PROVE  Bare(s \o t) = Bare(s) \o Bare(t)
<1> DEFINE B(r) == [p \in 1..Len(r) |-> IF Brace(r[p]) THEN <<>> ELSE <<r[p]>>]
<1>1. ASSUME NEW r \in Seq(Chars)
      PROVE  /\ B(r) \in Seq(Seq(Chars)) /\ Len(B(r)) = Len(r)
             /\ \A p \in 1..Len(r) : B(r)[p] = IF Brace(r[p]) THEN <<>> ELSE <<r[p]>>
  <2>1. \A p \in 1..Len(r) : (IF Brace(r[p]) THEN <<>> ELSE <<r[p]>>) \in Seq(Chars)
    OBVIOUS
  <2>2. Len(r) \in Nat OBVIOUS
  <2> QED BY <2>1, <2>2
<1>2. /\ s \o t \in Seq(Chars) /\ Len(s \o t) = Len(s) + Len(t)
      /\ Len(s) \in Nat /\ Len(t) \in Nat
      /\ \A p \in 1..Len(s) + Len(t) : (s \o t)[p] = IF p <= Len(s) THEN s[p] ELSE t[p - Len(s)]
  OBVIOUS
<1>3. /\ B(s \o t) \in Seq(Seq(Chars)) /\ Len(B(s \o t)) = Len(s) + Len(t)
      /\ \A p \in 1..Len(s) + Len(t) :
            B(s \o t)[p] = IF Brace((s \o t)[p]) THEN <<>> ELSE <<(s \o t)[p]>>
  BY <1>1, <1>2
<1> HIDE DEF B
<1>4. /\ B(s) \o B(t) \in Seq(Seq(Chars)) /\ Len(B(s) \o B(t)) = Len(s) + Len(t)
      /\ \A p \in 1..Len(s) + Len(t) :
            (B(s) \o B(t))[p] = IF p <= Len(s) THEN B(s)[p] ELSE B(t)[p - Len(s)]
  <2>1. PICK a \in Seq(Seq(Chars)) : a = B(s) /\ Len(a) = Len(s) BY <1>1
  <2>2. PICK b \in Seq(Seq(Chars)) : b = B(t) /\ Len(b) = Len(t) BY <1>1
  <2>3. /\ a \o b \in Seq(Seq(Chars)) /\ Len(a \o b) = Len(a) + Len(b)
        /\ \A p \in 1..Len(a) + Len(b) :
              (a \o b)[p] = IF p <= Len(a) THEN a[p] ELSE b[p - Len(a)]
    BY ConcatProperties
  <2> QED BY <2>1, <2>2, <2>3
<1>5. \A p \in 1..Len(s) + Len(t) : B(s \o t)[p] = (B(s) \o B(t))[p]
  <2> SUFFICES ASSUME NEW p \in 1..Len(s) + Len(t) PROVE B(s \o t)[p] = (B(s) \o B(t))[p]
    OBVIOUS
  <2>1. CASE p <= Len(s)
    <3>1. p \in 1..Len(s) /\ (s \o t)[p] = s[p] BY <1>2, <2>1
    <3> QED BY <1>1, <1>3, <1>4, <2>1, <3>1
  <2>2. CASE ~(p <= Len(s))
    <3>1. p - Len(s) \in 1..Len(t) /\ (s \o t)[p] = t[p - Len(s)] BY <1>2, <2>2
    <3> QED BY <1>1, <1>3, <1>4, <2>2, <3>1
  <2> QED BY <2>1, <2>2
<1>6. B(s \o t) = B(s) \o B(t) BY <1>3, <1>4, <1>5, SeqEqual
<1>7. FlattenSeq(B(s) \o B(t)) = FlattenSeq(B(s)) \o FlattenSeq(B(t)) BY <1>1, FlattenConcat
<1> QED BY <1>6, <1>7 DEF Bare, B

\* One character.
LEMMA BareChar ==
    ASSUME NEW c \in Chars PROVE Bare(<<c>>) = IF Brace(c) THEN <<>> ELSE <<c>>
<1> DEFINE b == [p \in 1..1 |-> IF Brace(c) THEN <<>> ELSE <<c>>]
           x == IF Brace(c) THEN <<>> ELSE <<c>>
<1>1. Bare(<<c>>) = FlattenSeq(b)
  <2>1. [p \in 1..Len(<<c>>) |-> IF Brace(<<c>>[p]) THEN <<>> ELSE <<<<c>>[p]>>] = b
    OBVIOUS
  <2> QED BY <2>1 DEF Bare
<1>2. b = <<x>> OBVIOUS
<1>3. x \in Seq(Chars) OBVIOUS
<1> HIDE DEF b, x
<1>4. FlattenSeq(<<x>>) = x BY <1>3, FlattenOne
<1> QED BY <1>1, <1>2, <1>4 DEF x

-----------------------------------------------------------------------------
(***************************************************************************)
(* The items, and how much of the pattern they stand for.                  *)
(***************************************************************************)
Items == [str : Seq(Chars), fmt : Seq(Chars), item : BOOLEAN]
PrintedAll(v) == FlattenSeq([p \in 1..Len(v) |-> Printed(v[p])])

TypeInv ==
    /\ m_pattern \in Seq(Chars)
    /\ nstr \in Seq(Chars) /\ str \in Seq(Chars) /\ fmt \in Seq(Chars)
    /\ i \in Nat \ {0} /\ n \in Nat /\ fmt_status \in {0, 1} /\ fmt_begin \in Nat
    /\ pc \in {"outer", "inner", "emit", "done"} /\ m_error \in BOOLEAN

\* Where the loops are: an item is read from its percent sign on, which is at
\* i, and n is behind it.
Places ==
    /\ i <= size + 1
    /\ pc \in {"inner", "emit"} => i <= size /\ Char(i) = "%" /\ i < n /\ n <= size + 1

\* What has been read of an item.
Reading ==
    pc = "inner" =>
        /\ fmt = <<>>
        /\ fmt_status = 0 => str = IF n <= size THEN <<>> ELSE SubSeq(m_pattern, i + 1, n - 1)
        /\ fmt_status = 1 =>
              /\ i < fmt_begin /\ fmt_begin < n /\ Brace(Char(fmt_begin))
              /\ n <= size => str = SubSeq(m_pattern, i + 1, fmt_begin - 1)

\* An item that has been read: a name, or a name and a format in braces.
HasRead ==
    pc = "emit" /\ fmt_status = 0 =>
        \/ str = SubSeq(m_pattern, i + 1, n - 1) /\ fmt = <<>>
        \/ \E b \in Nat :
              /\ i < b /\ b < n - 1 /\ Brace(Char(b)) /\ Brace(Char(n - 1))
              /\ str = SubSeq(m_pattern, i + 1, b - 1) /\ fmt = SubSeq(m_pattern, b + 1, n - 2)

\* What has been taken is in the items and in the string before the next one.
Taken ==
    ~m_error =>
        /\ vec \in Seq(Items)
        /\ Bare(PrintedAll(vec) \o nstr) = Bare(SubSeq(m_pattern, 1, i - 1))
        /\ pc = "done" => nstr = <<>> /\ i = size + 1

ParseInv == TypeInv /\ Places /\ Reading /\ HasRead /\ Taken

\* Short texts are texts.
LEMMA SpecialChars == "%" \in Chars /\ "{" \in Chars /\ "}" \in Chars
BY DEF Chars

\* One character.
LEMMA OneChar == ASSUME NEW c \in Chars PROVE <<c>> \in Seq(Chars)
OBVIOUS

\* Two of them.
LEMMA TwoChars == ASSUME NEW c \in Chars, NEW d \in Chars PROVE <<c, d>> \in Seq(Chars)
OBVIOUS

\* What an item stands for, and what one more adds.
LEMMA PrintedType == ASSUME NEW k \in Items PROVE Printed(k) \in Seq(Chars)
<1>1. <<"%">> \in Seq(Chars) BY SpecialChars, OneChar
<1>2. k.str \in Seq(Chars) /\ k.fmt \in Seq(Chars) BY DEF Items
<1>3. <<"%">> \o k.str \in Seq(Chars) BY <1>1, <1>2, ConcatProperties
<1>4. (<<"%">> \o k.str) \o k.fmt \in Seq(Chars) BY <1>2, <1>3, ConcatProperties
<1> QED BY <1>2, <1>4 DEF Printed

\* One more item.
LEMMA PrintedAppend ==
    ASSUME NEW v \in Seq(Items), NEW k \in Items
    PROVE  /\ PrintedAll(v) \in Seq(Chars)
           /\ PrintedAll(Append(v, k)) = PrintedAll(v) \o Printed(k)
<1> DEFINE w == Append(v, k)
           a == [p \in 1..Len(v) |-> Printed(v[p])]
           b == [p \in 1..Len(w) |-> Printed(w[p])]
<1>1. /\ Len(v) \in Nat /\ Len(w) = Len(v) + 1 /\ w[Len(v) + 1] = k
      /\ \A p \in 1..Len(v) : w[p] = v[p] /\ v[p] \in Items
  OBVIOUS
<1>2. a \in Seq(Seq(Chars)) /\ Len(a) = Len(v)
  <2>1. \A p \in 1..Len(v) : Printed(v[p]) \in Seq(Chars) BY <1>1, PrintedType
  <2> QED BY <1>1, <2>1
<1>3. Printed(k) \in Seq(Chars) BY PrintedType
<1>4. b = Append(a, Printed(k))
  <2>1. /\ Append(a, Printed(k)) \in Seq(Seq(Chars)) /\ Len(Append(a, Printed(k))) = Len(v) + 1
        /\ \A p \in 1..Len(v) : Append(a, Printed(k))[p] = a[p]
        /\ Append(a, Printed(k))[Len(v) + 1] = Printed(k)
    <3> HIDE DEF a
    <3> QED BY <1>2, <1>3, AppendProperties
  <2>2. \A p \in 1..Len(v) : a[p] = Printed(v[p]) OBVIOUS
  <2> HIDE DEF a, w
  <2>3. b \in Seq(Seq(Chars)) /\ Len(b) = Len(v) + 1
    <3>1. \A p \in 1..Len(w) : p \in 1..Len(v) \/ p = Len(v) + 1 BY <1>1
    <3>2. \A p \in 1..Len(w) : Printed(w[p]) \in Seq(Chars)
      BY <1>1, <1>3, <3>1, PrintedType
    <3>3. Len(w) \in Nat BY <1>1
    <3> QED BY <1>1, <3>2, <3>3
  <2>4. \A p \in 1..Len(v) + 1 : b[p] = Printed(w[p]) BY <1>1
  <2> HIDE DEF b
  <2>5. \A p \in 1..Len(v) + 1 : b[p] = Append(a, Printed(k))[p]
    <3>1. \A p \in 1..Len(v) + 1 : p \in 1..Len(v) \/ p = Len(v) + 1 BY <1>1
    <3> QED BY <1>1, <2>1, <2>2, <2>4, <3>1
  <2> QED BY <2>1, <2>3, <2>5, SeqEqual
<1>5. FlattenSeq(a) \in Seq(Chars)
  <2> HIDE DEF a
  <2> QED BY <1>2, FlattenType
<1>6. FlattenSeq(b) = FlattenSeq(a) \o Printed(k)
  <2> HIDE DEF a, b
  <2> QED BY <1>2, <1>3, <1>4, FlattenAppend
<1> QED BY <1>5, <1>6 DEF PrintedAll

\* The string before an item, and its place in the items.
LEMMA FlushedPrints ==
    ASSUME vec \in Seq(Items), nstr \in Seq(Chars)
    PROVE  Flushed \in Seq(Items) /\ PrintedAll(Flushed) = PrintedAll(vec) \o nstr
<1>1. CASE nstr = <<>>
  <2>1. Flushed = vec BY <1>1 DEF Flushed
  <2>2. PrintedAll(vec) \in Seq(Chars)
    <3>1. PICK k \in Items : k = Str(<<>>)
      <4>1. <<>> \in Seq(Chars) OBVIOUS
      <4> QED BY <4>1 DEF Items, Str
    <3> QED BY PrintedAppend
  <2>3. PrintedAll(vec) \o <<>> = PrintedAll(vec) BY <2>2, ConcatEmptySeq
  <2> QED BY <1>1, <2>1, <2>3
<1>2. CASE nstr # <<>>
  <2>1. Flushed = Append(vec, Str(nstr)) BY <1>2 DEF Flushed
  <2>2. Str(nstr) \in Items /\ Printed(Str(nstr)) = nstr
    <3>1. <<>> \in Seq(Chars) OBVIOUS
    <3> QED BY <3>1 DEF Items, Str, Printed
  <2>3. PrintedAll(Append(vec, Str(nstr))) = PrintedAll(vec) \o Printed(Str(nstr))
    BY <2>2, PrintedAppend
  <2> QED BY <2>1, <2>2, <2>3
<1> QED BY <1>1, <1>2

\* An item, its percent sign included, has what was read but braces.
LEMMA ItemIsRead ==
    ASSUME TypeInv, Places, HasRead, pc = "emit", fmt_status = 0
    PROVE  Bare((<<"%">> \o str) \o fmt) = Bare(SubSeq(m_pattern, i, n - 1))
<1> DEFINE P == m_pattern
<1>1. /\ P \in Seq(Chars) /\ i \in Nat /\ i # 0 /\ n \in Nat /\ i <= Len(P) /\ P[i] = "%"
      /\ i < n /\ n <= Len(P) + 1 /\ str \in Seq(Chars) /\ fmt \in Seq(Chars)
      /\ Len(P) \in Nat
  BY DEF TypeInv, Places, size, Char
<1> HIDE DEF P
<1>2. SubSeq(P, i, n - 1) = <<"%">> \o SubSeq(P, i + 1, n - 1) BY <1>1, SubSeqRecursiveFirst
<1>3. <<"%">> \in Seq(Chars) BY SpecialChars, OneChar
<1>4. CASE str = SubSeq(P, i + 1, n - 1) /\ fmt = <<>>
  <2>1. <<"%">> \o str \in Seq(Chars) BY <1>1, <1>3, ConcatProperties
  <2>2. (<<"%">> \o str) \o <<>> = <<"%">> \o str BY <2>1, ConcatEmptySeq
  <2>3. (<<"%">> \o str) \o fmt = <<"%">> \o str BY <1>4, <2>2
  <2> QED BY <1>2, <1>4, <2>3 DEF P
<1>5. ASSUME NEW b \in Nat, i < b, b < n - 1, Brace(P[b]), Brace(P[n - 1]),
             str = SubSeq(P, i + 1, b - 1), fmt = SubSeq(P, b + 1, n - 2)
      PROVE  Bare((<<"%">> \o str) \o fmt) = Bare(SubSeq(P, i, n - 1))
  <2>1. SubSeq(P, i + 1, n - 1) = str \o SubSeq(P, b, n - 1)
    <3>1. (b - 1) + 1 = b BY <1>5
    <3>2. i + 1 \in 1..Len(P) + 1 /\ b - 1 \in (i + 1) - 1..Len(P) /\ n - 1 \in b - 1..Len(P)
      BY <1>1, <1>5
    <3>3. SubSeq(P, i + 1, b - 1) \o SubSeq(P, (b - 1) + 1, n - 1) = SubSeq(P, i + 1, n - 1)
      BY <1>1, <3>2, ConcatAdjacentSubSeq
    <3> QED BY <1>5, <3>1, <3>3
  <2>2. b \in 1..Len(P) /\ n - 1 \in b..Len(P) /\ b + 1 \in 1..Len(P)
        /\ n - 1 \in b + 1..Len(P) /\ (n - 1) - 1 = n - 2
    BY <1>1, <1>5
  <2>3. SubSeq(P, b, n - 1) = <<P[b]>> \o SubSeq(P, b + 1, n - 1)
    BY <1>1, <2>2, SubSeqRecursiveFirst
  <2>4. SubSeq(P, b + 1, n - 1) = fmt \o <<P[n - 1]>>
    <3>1. SubSeq(P, b + 1, n - 1) = SubSeq(P, b + 1, (n - 1) - 1) \o <<P[n - 1]>>
      BY <1>1, <2>2, SubSeqRecursiveSecond
    <3> QED BY <1>5, <2>2, <3>1
  <2>5. P[b] \in Chars /\ P[n - 1] \in Chars BY <1>1, <2>2
  <2>6. PICK c \in Chars : c = P[b] BY <2>5
  <2>7. PICK d \in Chars : d = P[n - 1] BY <2>5
  <2>8. <<c>> \in Seq(Chars) /\ <<d>> \in Seq(Chars) /\ Bare(<<c>>) = <<>> /\ Bare(<<d>>) = <<>>
    BY <1>5, <2>6, <2>7, BareChar
  <2>9. fmt \o <<d>> \in Seq(Chars) /\ Bare(fmt \o <<d>>) = Bare(fmt)
    <3>1. Bare(fmt \o <<d>>) = Bare(fmt) \o Bare(<<d>>) BY <1>1, <2>8, BareConcat
    <3>2. Bare(fmt) \o <<>> = Bare(fmt) BY <1>1, BareType, ConcatEmptySeq
    <3> QED BY <1>1, <2>8, <3>1, <3>2, ConcatProperties
  <2>10. PICK r \in Seq(Chars) : r = <<c>> \o (fmt \o <<d>>) BY <2>8, <2>9, ConcatProperties
  <2>11. Bare(r) = Bare(fmt)
    <3>1. Bare(r) = Bare(<<c>>) \o Bare(fmt \o <<d>>) BY <2>8, <2>9, <2>10, BareConcat
    <3>2. <<>> \o Bare(fmt) = Bare(fmt) BY <1>1, BareType, ConcatEmptySeq
    <3> QED BY <2>8, <2>9, <3>1, <3>2
  <2>12. SubSeq(P, i, n - 1) = <<"%">> \o (str \o r)
    BY <1>2, <2>1, <2>3, <2>4, <2>6, <2>7, <2>10
  <2>13. /\ str \o r \in Seq(Chars) /\ <<"%">> \o str \in Seq(Chars)
         /\ Bare(str \o r) = Bare(str) \o Bare(fmt)
    BY <1>1, <1>3, <2>11, BareConcat, ConcatProperties
  <2>14. Bare(<<"%">> \o (str \o r)) = Bare(<<"%">>) \o (Bare(str) \o Bare(fmt))
    BY <1>3, <2>13, BareConcat
  <2>15. Bare((<<"%">> \o str) \o fmt) = (Bare(<<"%">>) \o Bare(str)) \o Bare(fmt)
    <3>1. PICK t \in Seq(Chars) : t = <<"%">> \o str BY <2>13
    <3>2. Bare(t \o fmt) = Bare(t) \o Bare(fmt) BY <1>1, BareConcat
    <3>3. Bare(<<"%">> \o str) = Bare(<<"%">>) \o Bare(str) BY <1>1, <1>3, BareConcat
    <3> QED BY <3>1, <3>2, <3>3, Zenon
  <2>16. (Bare(<<"%">>) \o Bare(str)) \o Bare(fmt) = Bare(<<"%">>) \o (Bare(str) \o Bare(fmt))
    <3>1. Bare(<<"%">>) \in Seq(Chars) BY <1>3, BareType
    <3>2. Bare(str) \in Seq(Chars) /\ Bare(fmt) \in Seq(Chars) BY <1>1, BareType
    <3>3. PICK x \in Seq(Chars), y \in Seq(Chars), z \in Seq(Chars) :
              x = Bare(<<"%">>) /\ y = Bare(str) /\ z = Bare(fmt)
      BY <3>1, <3>2, Zenon
    <3>4. (x \o y) \o z = x \o (y \o z) BY ConcatAssociative
    <3> QED BY <3>3, <3>4, Zenon
  <2> QED BY <2>12, <2>13, <2>14, <2>15, <2>16, Zenon
<1> QED BY <1>4, <1>5 DEF HasRead, P, Char

-----------------------------------------------------------------------------
\* What is written for a token is a text.
LEMMA WrittenType ==
    ASSUME NEW k \in Tokens \cup RawTokens PROVE Written(k) \in Seq(Chars)
<1>0. <<"%">> \in Seq(Chars) /\ <<"{">> \in Seq(Chars) /\ <<"}">> \in Seq(Chars)
  BY SpecialChars, OneChar
<1>1. CASE k \in RawTokens
  <2>1. PICK c \in Raw : k = [raw |-> c] BY <1>1 DEF RawTokens
  <2>2. c \in Chars BY FormatterAssumption
  <2>3. "raw" \in DOMAIN k /\ k.raw = c BY <2>1
  <2>4. Written(k) = <<c>> BY <2>3 DEF Written
  <2> QED BY <2>2, <2>4
<1>2. CASE k \in Tokens
  <2>1. "raw" \notin DOMAIN k BY <1>2 DEF Tokens, Str, Item
  <2>2. CASE \E c \in Literals : k = Str(<<c>>)
    <3>1. PICK c \in Literals : k = Str(<<c>>) BY <2>2
    <3>2. <<c>> \in Seq(Chars) BY FormatterAssumption, OneChar
    <3>3. <<"%", "%">> \in Seq(Chars) BY SpecialChars, TwoChars
    <3>4. ~k.item /\ k.str = <<c>> BY <3>1 DEF Str
    <3> QED BY <2>1, <3>2, <3>3, <3>4 DEF Written
  <2>3. CASE \E x \in Names, f \in Fmts : k = Item(x, f)
    <3>1. PICK x \in Names, f \in Fmts : k = Item(x, f) BY <2>3
    <3>2. x \in Seq(Chars) /\ f \in Seq(Chars) BY FormatterAssumption
    <3>3. k.item /\ k.str = x /\ k.fmt = f BY <3>1 DEF Item
    <3> DEFINE g == IF f = <<>> THEN <<>> ELSE <<"{">> \o f \o <<"}">>
    <3>4. g \in Seq(Chars)
      <4>1. <<"{">> \o f \in Seq(Chars) BY <1>0, <3>2, ConcatProperties
      <4>2. (<<"{">> \o f) \o <<"}">> \in Seq(Chars) BY <1>0, <4>1, ConcatProperties
      <4>3. CASE f = <<>> BY <4>3
      <4>4. CASE f # <<>>
        <5>1. g = (<<"{">> \o f) \o <<"}">> BY <4>4
        <5> HIDE DEF g
        <5> QED BY <4>2, <5>1
      <4> QED BY <4>3, <4>4
    <3>5. Written(k) = (<<"%">> \o x) \o g BY <2>1, <3>3 DEF Written
    <3> HIDE DEF g
    <3>6. <<"%">> \o x \in Seq(Chars) BY <1>0, <3>2, ConcatProperties
    <3> QED BY <3>4, <3>5, <3>6, ConcatProperties
  <2>4. (\E c \in Literals : k = Str(<<c>>)) \/ (\E x \in Names, f \in Fmts : k = Item(x, f))
    BY <1>2 DEF Tokens
  <2> QED BY <2>2, <2>3, <2>4
<1> QED BY <1>1, <1>2

\* Before the first character.
LEMMA ParseInit == Init => ParseInv
<1> SUFFICES ASSUME Init PROVE ParseInv
  OBVIOUS
<1>1. m_pattern \in Seq(Chars)
  <2> DEFINE b == [p \in 1..Len(written) |-> Written(written[p])]
  <2>1. PICK m \in 0..MaxTokens : written \in [1..m -> Tokens \cup RawTokens]
    BY DEF Init, SeqOf
  <2>2. Len(written) = m /\ m \in Nat
    <3>1. PICK T : T = Tokens \cup RawTokens OBVIOUS
    <3>2. m \in Nat
      <4>1. MaxTokens \in Nat BY FormatterAssumption
      <4> QED BY <4>1
    <3>3. written \in [1..m -> T] BY <2>1, <3>1
    <3>4. DOMAIN written = 1..m /\ written \in Seq(T) BY <3>2, <3>3
    <3> QED BY <3>2, <3>4
  <2>3. b \in Seq(Seq(Chars))
    <3>1. \A p \in 1..Len(written) : Written(written[p]) \in Seq(Chars)
      BY <2>1, <2>2, WrittenType
    <3> QED BY <2>2, <3>1
  <2> HIDE DEF b
  <2>4. FlattenSeq(b) \in Seq(Chars) BY <2>3, FlattenType
  <2> QED BY <2>4 DEF Init, b
<1>2. TypeInv
  <2>1. <<>> \in Seq(Chars) OBVIOUS
  <2>2. /\ nstr = <<>> /\ str = <<>> /\ fmt = <<>> /\ i = 1 /\ n = 1
        /\ fmt_status = 0 /\ fmt_begin = 0 /\ pc = "outer" /\ m_error = FALSE
    BY DEF Init
  <2>3. nstr \in Seq(Chars) /\ str \in Seq(Chars) /\ fmt \in Seq(Chars) BY <2>1, <2>2
  <2>4. i \in Nat \ {0} /\ n \in Nat /\ fmt_begin \in Nat BY <2>2
  <2>5. fmt_status \in {0, 1} /\ m_error \in BOOLEAN BY <2>2
  <2>6. pc \in {"outer", "inner", "emit", "done"} BY <2>2
  <2> QED BY <1>1, <2>3, <2>4, <2>5, <2>6 DEF TypeInv
<1>3. Places /\ Reading /\ HasRead
  <2>1. Len(m_pattern) \in Nat /\ i = 1 /\ pc = "outer" BY <1>1 DEF Init
  <2> QED BY <2>1 DEF Places, Reading, HasRead, size
<1>4. Taken
  <2>1. vec = <<>> /\ nstr = <<>> /\ i = 1 /\ pc = "outer" BY DEF Init
  <2>2. PrintedAll(<<>>) = <<>>
    <3>1. [p \in 1..Len(<<>>) |-> Printed(<<>>[p])] = <<>> OBVIOUS
    <3> QED BY <3>1, FlattenEmpty DEF PrintedAll
  <2>3. SubSeq(m_pattern, 1, 0) = <<>> BY SubSeqEmpty
  <2>4. <<>> \o <<>> = <<>> /\ <<>> \in Seq(Items) /\ 1 - 1 = 0 OBVIOUS
  <2> QED BY <2>1, <2>2, <2>3, <2>4 DEF Taken
<1> QED BY <1>2, <1>3, <1>4 DEF ParseInv

\* Taking one character of a string.
LEMMA TakeChar ==
    ASSUME ParseInv, i <= size
    PROVE  ~m_error => Bare(PrintedAll(vec) \o Append(nstr, Char(i)))
                         = Bare(SubSeq(m_pattern, 1, (i + 1) - 1))
<1> SUFFICES ASSUME ~m_error
             PROVE  Bare(PrintedAll(vec) \o Append(nstr, Char(i)))
                      = Bare(SubSeq(m_pattern, 1, (i + 1) - 1))
  OBVIOUS
<1>1. /\ m_pattern \in Seq(Chars) /\ nstr \in Seq(Chars) /\ i \in 1..Len(m_pattern)
      /\ Len(m_pattern) \in Nat
  BY DEF ParseInv, TypeInv, size
<1>2. PICK c \in Chars : c = m_pattern[i] BY <1>1
<1>3. vec \in Seq(Items) /\ Bare(PrintedAll(vec) \o nstr) = Bare(SubSeq(m_pattern, 1, i - 1))
  BY DEF ParseInv, Taken
<1>4. PICK a \in Seq(Chars) : a = PrintedAll(vec)
  <2>1. PICK k \in Items : k = Str(<<>>)
    <3>1. <<>> \in Seq(Chars) OBVIOUS
    <3> QED BY <3>1 DEF Items, Str
  <2> QED BY <1>3, PrintedAppend
<1>5. PICK b \in Seq(Chars) : b = SubSeq(m_pattern, 1, i - 1)
  <2>1. SubSeq(m_pattern, 1, i - 1) \in Seq(Chars) BY <1>1
  <2> QED BY <2>1
<1>6. SubSeq(m_pattern, 1, i) = b \o <<c>>
  BY <1>1, <1>2, <1>5, SubSeqRecursiveSecond
<1>7. a \o Append(nstr, c) = (a \o nstr) \o <<c>> /\ a \o nstr \in Seq(Chars)
  <2>1. a \o Append(nstr, c) = Append(a \o nstr, c) /\ a \o nstr \in Seq(Chars)
    BY <1>1, ConcatAppend
  <2>2. PICK r \in Seq(Chars) : r = a \o nstr BY <2>1
  <2>3. Append(r, c) = r \o <<c>> BY AppendIsConcat
  <2> QED BY <2>1, <2>2, <2>3, Zenon
<1>8. Bare((a \o nstr) \o <<c>>) = Bare(a \o nstr) \o Bare(<<c>>) BY <1>7, OneChar, BareConcat
<1>9. Bare(b \o <<c>>) = Bare(b) \o Bare(<<c>>) BY OneChar, BareConcat
<1>10. (i + 1) - 1 = i BY <1>1
<1> QED BY <1>2, <1>3, <1>4, <1>5, <1>6, <1>7, <1>8, <1>9, <1>10 DEF Char

\* Taking an item, with the string before it.
LEMMA TakeItem ==
    ASSUME ParseInv, pc = "emit", fmt_status = 0, ~m_error,
           NEW v, v = Append(Flushed, Item(str, fmt))
    PROVE  /\ v \in Seq(Items)
           /\ Bare(PrintedAll(v) \o <<>>) = Bare(SubSeq(m_pattern, 1, n - 1))
<1>1. /\ m_pattern \in Seq(Chars) /\ nstr \in Seq(Chars) /\ i \in 1..Len(m_pattern)
      /\ Len(m_pattern) \in Nat /\ n \in Nat /\ i < n /\ n <= Len(m_pattern) + 1
      /\ str \in Seq(Chars) /\ fmt \in Seq(Chars)
  BY DEF ParseInv, TypeInv, Places, size
<1>2. vec \in Seq(Items) /\ Bare(PrintedAll(vec) \o nstr) = Bare(SubSeq(m_pattern, 1, i - 1))
  BY DEF ParseInv, Taken
<1>3. Flushed \in Seq(Items) /\ PrintedAll(Flushed) = PrintedAll(vec) \o nstr
  BY <1>1, <1>2, FlushedPrints
<1>4. PICK k \in Items : k = Item(str, fmt) BY <1>1 DEF Items, Item
<1>5. Printed(k) = (<<"%">> \o str) \o fmt BY <1>4 DEF Item, Printed
<1>6. PICK x \in Seq(Chars) : x = Printed(k) BY PrintedType
<1>7. Bare(x) = Bare(SubSeq(m_pattern, i, n - 1)) BY <1>5, <1>6, ItemIsRead DEF ParseInv
<1>8. v \in Seq(Items) /\ PrintedAll(v) \in Seq(Chars) /\ PrintedAll(v) = PrintedAll(Flushed) \o x
  <2>1. v \in Seq(Items) BY <1>3, <1>4
  <2> QED BY <1>3, <1>4, <1>6, <2>1, PrintedAppend
<1>9. PICK a \in Seq(Chars) : a = PrintedAll(Flushed) BY <1>3, <1>4, PrintedAppend
<1>10. PICK b \in Seq(Chars) : b = SubSeq(m_pattern, 1, i - 1)
  <2>1. SubSeq(m_pattern, 1, i - 1) \in Seq(Chars) BY <1>1
  <2> QED BY <2>1
<1>11. PICK c \in Seq(Chars) : c = SubSeq(m_pattern, i, n - 1)
  <2>1. SubSeq(m_pattern, i, n - 1) \in Seq(Chars) BY <1>1
  <2> QED BY <2>1
<1>12. SubSeq(m_pattern, 1, n - 1) = b \o c
  <2>1. 1 \in 1..Len(m_pattern) + 1 /\ i - 1 \in 1 - 1..Len(m_pattern)
        /\ n - 1 \in i - 1..Len(m_pattern) /\ (i - 1) + 1 = i
    BY <1>1
  <2>2. SubSeq(m_pattern, 1, i - 1) \o SubSeq(m_pattern, (i - 1) + 1, n - 1)
          = SubSeq(m_pattern, 1, n - 1)
    BY <1>1, <2>1, ConcatAdjacentSubSeq
  <2> QED BY <1>10, <1>11, <2>1, <2>2
<1>13. PrintedAll(v) \o <<>> = a \o x BY <1>8, <1>9, ConcatEmptySeq
<1>14. Bare(a \o x) = Bare(a) \o Bare(x) /\ Bare(b \o c) = Bare(b) \o Bare(c) BY BareConcat
<1>15. Bare(a) = Bare(b) BY <1>2, <1>3, <1>9, <1>10
<1> QED BY <1>7, <1>8, <1>11, <1>12, <1>13, <1>14, <1>15

\* A part of the pattern is a text.
LEMMA CutType ==
    ASSUME NEW s \in Seq(Chars), NEW a \in Nat, a # 0, NEW b \in Int, b <= Len(s)
    PROVE  SubSeq(s, a, b) \in Seq(Chars)
<1>1. \A p \in a..b : s[p] \in Chars
  <2>1. a..b \subseteq 1..Len(s) OBVIOUS
  <2> QED BY <2>1, ElementOfSeq
<1> QED BY <1>1, SubSeqProperties

\* Every step keeps the types.
LEMMA ParseTypeStep == ParseInv /\ [Next]_vars => TypeInv'
<1> SUFFICES ASSUME ParseInv, [Next]_vars PROVE TypeInv'
  OBVIOUS
<1>0. /\ m_pattern \in Seq(Chars) /\ nstr \in Seq(Chars) /\ str \in Seq(Chars)
      /\ fmt \in Seq(Chars) /\ <<>> \in Seq(Chars) /\ Len(m_pattern) \in Nat
      /\ i \in Nat \ {0} /\ n \in Nat /\ fmt_status \in {0, 1} /\ fmt_begin \in Nat
      /\ pc \in {"outer", "inner", "emit", "done"} /\ m_error \in BOOLEAN
  BY DEF ParseInv, TypeInv
<1>1. CASE Literal
  <2>1. i \in 1..Len(m_pattern) BY <1>0, <1>1 DEF Literal, size
  <2>2. Append(nstr, Char(i)) \in Seq(Chars) BY <1>0, <2>1 DEF Char
  <2> QED BY <1>0, <1>1, <2>2 DEF Literal, TypeInv, input, item
<1>2. CASE ItemBegin
  <2>1. /\ m_pattern' = m_pattern /\ nstr' = nstr /\ str' = <<>> /\ fmt' = <<>> /\ i' = i
        /\ n' = i + 1 /\ fmt_status' = 0 /\ fmt_begin' = 0 /\ pc' = "inner"
        /\ m_error' = m_error
    BY <1>2 DEF ItemBegin, input
  <2> QED BY <1>0, <2>1 DEF TypeInv
<1>3. i + 1 \in Nat /\ i + 1 # 0 /\ n - 1 \in Int /\ fmt_begin + 1 \in Nat /\ fmt_begin + 1 # 0
  BY <1>0
<1>4. CASE NameEnd
  <2>1. /\ m_pattern' = m_pattern /\ nstr' = nstr /\ str' = SubSeq(m_pattern, i + 1, n - 1)
        /\ fmt' = fmt /\ i' = i /\ n' = n /\ fmt_status' = fmt_status
        /\ fmt_begin' = fmt_begin /\ pc' = "emit" /\ m_error' = m_error /\ n <= Len(m_pattern)
    BY <1>4 DEF NameEnd, InName, input, size
  <2>2. n - 1 <= Len(m_pattern) BY <1>0, <2>1
  <2>3. str' \in Seq(Chars) BY <1>0, <1>3, <2>1, <2>2, CutType
  <2> QED BY <1>0, <2>1, <2>3 DEF TypeInv
<1>5. CASE Open
  <2>1. /\ m_pattern' = m_pattern /\ nstr' = nstr /\ str' = SubSeq(m_pattern, i + 1, n - 1)
        /\ fmt' = fmt /\ i' = i /\ n' = n + 1 /\ fmt_status' = 1
        /\ fmt_begin' = n /\ pc' = pc /\ m_error' = m_error /\ n <= Len(m_pattern)
    BY <1>5 DEF Open, InName, input, size
  <2>2. n - 1 <= Len(m_pattern) BY <1>0, <2>1
  <2>3. str' \in Seq(Chars) BY <1>0, <1>3, <2>1, <2>2, CutType
  <2> QED BY <1>0, <2>1, <2>3 DEF TypeInv
<1>6. CASE Close
  <2>1. /\ m_pattern' = m_pattern /\ nstr' = nstr /\ str' = str
        /\ fmt' = SubSeq(m_pattern, fmt_begin + 1, n - 1) /\ i' = i /\ n' = n + 1
        /\ fmt_status' = 0 /\ fmt_begin' = fmt_begin /\ pc' = "emit" /\ m_error' = m_error
        /\ n <= Len(m_pattern)
    BY <1>6 DEF Close, InFormat, input, size
  <2>2. n - 1 <= Len(m_pattern) BY <1>0, <2>1
  <2>3. fmt' \in Seq(Chars) BY <1>0, <1>3, <2>1, <2>2, CutType
  <2> QED BY <1>0, <2>1, <2>3 DEF TypeInv
<1>7. CASE Advance
  <2>1. /\ m_pattern' = m_pattern /\ nstr' = nstr /\ fmt' = fmt /\ i' = i /\ n' = n + 1
        /\ str' = str \/ str' = SubSeq(m_pattern, i + 1, size)
        /\ fmt_status' = fmt_status /\ fmt_begin' = fmt_begin /\ pc' = pc /\ m_error' = m_error
    BY <1>7 DEF Advance, input
  <2>2. SubSeq(m_pattern, i + 1, size) \in Seq(Chars) BY <1>0, <1>3, CutType DEF size
  <2>3. str' \in Seq(Chars) BY <1>0, <2>1, <2>2
  <2>4. n' \in Nat BY <1>0, <2>1
  <2> QED BY <1>0, <2>1, <2>3, <2>4 DEF TypeInv
<1>8. CASE InnerEnd
  <2>1. /\ m_pattern' = m_pattern /\ nstr' = nstr /\ str' = str /\ fmt' = fmt /\ i' = i
        /\ n' = n /\ fmt_status' = fmt_status /\ fmt_begin' = fmt_begin /\ pc' = "emit"
        /\ m_error' = m_error
    BY <1>8 DEF InnerEnd, input, item
  <2> QED BY <1>0, <2>1 DEF TypeInv
<1>9. CASE Emit
  <2>1. /\ m_pattern' = m_pattern /\ nstr' = <<>> /\ str' = str /\ fmt' = fmt /\ i' = n
        /\ n' = n /\ fmt_status' = fmt_status /\ fmt_begin' = fmt_begin /\ pc' = "outer"
        /\ m_error' = m_error /\ pc = "emit"
    BY <1>9 DEF Emit, input, item
  <2>2. i < n BY <2>1 DEF ParseInv, Places
  <2>3. n \in Nat \ {0} BY <1>0, <2>2
  <2> QED BY <1>0, <2>1, <2>3 DEF TypeInv
<1>10. CASE EmitError BY <1>0, <1>10 DEF EmitError, TypeInv, input, item
<1>11. CASE Finish BY <1>0, <1>11 DEF Finish, TypeInv, input, item
<1>12. CASE UNCHANGED vars BY <1>0, <1>12 DEF TypeInv, vars, input, item
<1> QED BY <1>1, <1>2, <1>4, <1>5, <1>6, <1>7, <1>8, <1>9, <1>10, <1>11, <1>12 DEF Next

\* Every step keeps the places, and what is read of an item.
LEMMA PlacesStep == ParseInv /\ [Next]_vars => Places' /\ Reading' /\ HasRead'
<1> SUFFICES ASSUME ParseInv, [Next]_vars PROVE Places' /\ Reading' /\ HasRead'
  OBVIOUS
<1>0. /\ Len(m_pattern) \in Nat /\ i \in Nat /\ i # 0 /\ n \in Nat /\ fmt_begin \in Nat
      /\ fmt_status \in {0, 1} /\ m_pattern \in Seq(Chars)
  BY DEF ParseInv, TypeInv
<1> USE DEF size, Char
<1>1. CASE Literal
  <2>1. m_pattern' = m_pattern /\ i' = i + 1 /\ pc' = "outer" /\ i <= Len(m_pattern)
    BY <1>1 DEF Literal, input
  <2> QED BY <1>0, <2>1 DEF Places, Reading, HasRead
<1>2. CASE ItemBegin
  <2>1. /\ m_pattern' = m_pattern /\ i' = i /\ n' = i + 1 /\ str' = <<>> /\ fmt' = <<>>
        /\ fmt_status' = 0 /\ pc' = "inner" /\ i <= Len(m_pattern) /\ m_pattern[i] = "%"
    BY <1>2 DEF ItemBegin, input
  <2>2. i + 1 > Len(m_pattern) => SubSeq(m_pattern, i + 1, (i + 1) - 1) = <<>>
    BY <1>0, SubSeqEmpty
  <2> QED BY <1>0, <2>1, <2>2 DEF Places, Reading, HasRead
<1>3. CASE NameEnd
  <2>1. /\ m_pattern' = m_pattern /\ i' = i /\ n' = n /\ str' = SubSeq(m_pattern, i + 1, n - 1)
        /\ fmt' = fmt /\ fmt_status' = fmt_status /\ fmt_begin' = fmt_begin /\ pc' = "emit"
        /\ pc = "inner"
    BY <1>3 DEF NameEnd, InName, input
  <2>2. fmt = <<>> /\ Places BY <2>1 DEF ParseInv, Reading
  <2> QED BY <1>0, <2>1, <2>2 DEF Places, Reading, HasRead
<1>4. CASE Open
  <2>1. /\ m_pattern' = m_pattern /\ i' = i /\ n' = n + 1
        /\ str' = SubSeq(m_pattern, i + 1, n - 1)
        /\ fmt' = fmt /\ fmt_status' = 1 /\ fmt_begin' = n /\ pc' = "inner" /\ pc = "inner"
        /\ n <= Len(m_pattern) /\ Brace(m_pattern[n])
    BY <1>4 DEF Open, InName, input, Brace
  <2>2. fmt = <<>> /\ Places BY <2>1 DEF ParseInv, Reading
  <2> QED BY <1>0, <2>1, <2>2 DEF Places, Reading, HasRead
<1>5. CASE Close
  <2>1. /\ m_pattern' = m_pattern /\ i' = i /\ n' = n + 1 /\ str' = str
        /\ fmt' = SubSeq(m_pattern, fmt_begin + 1, n - 1)
        /\ fmt_status' = 0 /\ pc' = "emit" /\ pc = "inner" /\ fmt_status = 1
        /\ n <= Len(m_pattern) /\ Brace(m_pattern[n])
    BY <1>5 DEF Close, InFormat, input, Brace
  <2>2. /\ i < fmt_begin /\ fmt_begin < n /\ Brace(m_pattern[fmt_begin])
        /\ str = SubSeq(m_pattern, i + 1, fmt_begin - 1) /\ Places
    BY <2>1 DEF ParseInv, Reading
  <2>3. (n + 1) - 1 = n /\ (n + 1) - 2 = n - 1 BY <1>0
  <2>4. HasRead' BY <1>0, <2>1, <2>2, <2>3 DEF HasRead
  <2> QED BY <1>0, <2>1, <2>2, <2>4 DEF Places, Reading
<1>6. CASE Advance
  <2>1. /\ m_pattern' = m_pattern /\ i' = i /\ n' = n + 1 /\ fmt' = fmt
        /\ str' = IF n = size /\ str = <<>> THEN SubSeq(m_pattern, i + 1, size) ELSE str
        /\ fmt_status' = fmt_status /\ fmt_begin' = fmt_begin /\ pc' = pc /\ pc = "inner"
        /\ n <= Len(m_pattern)
    BY <1>6 DEF Advance, Ordinary, InName, InFormat, input
  <2>2. Places /\ Reading BY DEF ParseInv
  <2>3. (n + 1) - 1 = n BY <1>0
  <2> QED BY <1>0, <2>1, <2>2, <2>3 DEF Places, Reading, HasRead
<1>7. CASE InnerEnd
  <2>1. /\ m_pattern' = m_pattern /\ i' = i /\ n' = n /\ fmt' = fmt /\ str' = str
        /\ fmt_status' = fmt_status /\ fmt_begin' = fmt_begin /\ pc' = "emit" /\ pc = "inner"
        /\ n > Len(m_pattern)
    BY <1>7 DEF InnerEnd, input, item
  <2>2. Places /\ Reading BY DEF ParseInv
  <2> QED BY <1>0, <2>1, <2>2 DEF Places, Reading, HasRead
<1>8. CASE Emit
  <2>1. m_pattern' = m_pattern /\ i' = n /\ pc' = "outer" /\ pc = "emit"
    BY <1>8 DEF Emit, input
  <2>2. Places BY DEF ParseInv
  <2> QED BY <1>0, <2>1, <2>2 DEF Places, Reading, HasRead
<1>9. CASE EmitError
  <2>1. m_pattern' = m_pattern /\ i' = i + 1 /\ pc' = "outer" /\ pc = "emit"
    BY <1>9 DEF EmitError, input
  <2>2. Places BY DEF ParseInv
  <2> QED BY <1>0, <2>1, <2>2 DEF Places, Reading, HasRead
<1>10. CASE Finish
  <2>1. m_pattern' = m_pattern /\ i' = i /\ pc' = "done" BY <1>10 DEF Finish, input
  <2>2. Places BY DEF ParseInv
  <2> QED BY <1>0, <2>1, <2>2 DEF Places, Reading, HasRead
<1>11. CASE UNCHANGED vars
  BY <1>11 DEF ParseInv, Places, Reading, HasRead, vars, input, item
<1> QED BY <1>1, <1>2, <1>3, <1>4, <1>5, <1>6, <1>7, <1>8, <1>9, <1>10, <1>11 DEF Next

\* No step loses a character.
LEMMA TakenStep == ParseInv /\ [Next]_vars => Taken'
<1> SUFFICES ASSUME ParseInv, [Next]_vars PROVE Taken'
  OBVIOUS
<1>1. CASE Literal
  <2>1. /\ m_pattern' = m_pattern /\ i' = i + 1 /\ vec' = vec /\ m_error' = m_error
        /\ nstr' = Append(nstr, Char(i)) /\ pc' = "outer" /\ i <= size
    BY <1>1 DEF Literal, input
  <2>2. ~m_error => vec \in Seq(Items) BY DEF ParseInv, Taken
  <2> QED BY <2>1, <2>2, TakeChar DEF Taken
<1>2. CASE Emit
  <2>1. /\ m_pattern' = m_pattern /\ i' = n /\ vec' = Append(Flushed, Item(str, fmt))
        /\ m_error' = m_error /\ nstr' = <<>> /\ pc' = "outer" /\ pc = "emit" /\ fmt_status = 0
    BY <1>2 DEF Emit, input
  <2>2. ~m_error => /\ vec' \in Seq(Items)
                    /\ Bare(PrintedAll(vec') \o <<>>) = Bare(SubSeq(m_pattern, 1, n - 1))
    BY <2>1, TakeItem
  <2> QED BY <2>1, <2>2 DEF Taken
<1>3. CASE EmitError BY <1>3 DEF EmitError, Taken
<1>4. CASE Finish
  <2>1. /\ m_pattern' = m_pattern /\ i' = i /\ vec' = Flushed /\ nstr' = <<>> /\ pc' = "done"
        /\ ~m_error' => ~m_error
        /\ i > size
    BY <1>4 DEF Finish, input
  <2>2. i = size + 1
    <3>1. size \in Nat /\ i \in Nat /\ i <= size + 1
      BY DEF ParseInv, TypeInv, Places, size
    <3> QED BY <2>1, <3>1
  <2>3. ASSUME ~m_error
        PROVE  /\ Flushed \in Seq(Items)
               /\ Bare(PrintedAll(Flushed) \o <<>>) = Bare(SubSeq(m_pattern, 1, i - 1))
    <3>1. nstr \in Seq(Chars) /\ vec \in Seq(Items)
          /\ Bare(PrintedAll(vec) \o nstr) = Bare(SubSeq(m_pattern, 1, i - 1))
      BY <2>3 DEF ParseInv, TypeInv, Taken
    <3>2. Flushed \in Seq(Items) /\ PrintedAll(Flushed) = PrintedAll(vec) \o nstr
      BY <3>1, FlushedPrints
    <3>3. PICK a \in Seq(Chars) : a = PrintedAll(Flushed)
      <4>1. PICK k \in Items : k = Str(nstr)
        <5>1. <<>> \in Seq(Chars) OBVIOUS
        <5> QED BY <3>1, <5>1 DEF Items, Str
      <4> QED BY <3>2, PrintedAppend
    <3>4. a \o <<>> = a BY ConcatEmptySeq
    <3> QED BY <3>1, <3>2, <3>3, <3>4
  <2>4. size' = size BY <2>1 DEF size
  <2> QED BY <2>1, <2>2, <2>3, <2>4 DEF Taken
<1>5. CASE ItemBegin \/ NameEnd \/ Open \/ Close \/ Advance \/ InnerEnd
  <2>1. /\ m_pattern' = m_pattern /\ i' = i /\ vec' = vec /\ nstr' = nstr /\ m_error' = m_error
        /\ pc' # "done"
    BY <1>5 DEF ItemBegin, NameEnd, Open, Close, Advance, Ordinary, InnerEnd, InName, InFormat, input
  <2> QED BY <2>1 DEF ParseInv, Taken
<1>6. CASE UNCHANGED vars BY <1>6 DEF ParseInv, Taken, vars, input, size
<1> QED BY <1>1, <1>2, <1>3, <1>4, <1>5, <1>6 DEF Next

(***************************************************************************)
(* Whatever the pattern, however long and however malformed: if init       *)
(* accepts it, every character but the braces of formats is in the items,  *)
(* in its order.  A percent sign that is doubled, a name that is cut short *)
(* by the end of the pattern, or a brace out of place loses nothing.       *)
(***************************************************************************)
THEOREM NoTextLost == Spec => []NothingLost
<1>1. ParseInv /\ [Next]_vars => ParseInv'
  BY ParseTypeStep, PlacesStep, TakenStep DEF ParseInv
<1>2. ParseInv => NothingLost
  <2> SUFFICES ASSUME ParseInv, pc = "done", ~m_error
               PROVE  Bare(PrintedAll(vec)) = Bare(m_pattern)
    BY DEF NothingLost, PrintedAll
  <2>1. /\ vec \in Seq(Items) /\ nstr = <<>> /\ i = size + 1
        /\ Bare(PrintedAll(vec) \o nstr) = Bare(SubSeq(m_pattern, 1, i - 1))
    BY DEF ParseInv, Taken
  <2>2. PICK a \in Seq(Chars) : a = PrintedAll(vec)
    <3>1. PICK k \in Items : k = Str(<<>>)
      <4>1. <<>> \in Seq(Chars) OBVIOUS
      <4> QED BY <4>1 DEF Items, Str
    <3> QED BY <2>1, PrintedAppend
  <2>3. a \o <<>> = a BY ConcatEmptySeq
  <2>4. m_pattern \in Seq(Chars) /\ i - 1 = Len(m_pattern)
    BY <2>1 DEF ParseInv, TypeInv, size
  <2>5. SubSeq(m_pattern, 1, Len(m_pattern)) = m_pattern BY <2>4, SubSeqFull
  <2> QED BY <2>1, <2>2, <2>3, <2>4, <2>5
<1> QED BY <1>1, <1>2, ParseInit, PTL DEF Spec

-----------------------------------------------------------------------------
(***************************************************************************)
(* What is written comes out.  Patterns are as they are documented: no     *)
(* percent sign for itself, items named by letters, formats without the    *)
(* brace that ends them, and no longer than the buffer of %d.              *)
(***************************************************************************)
Documented ==
    /\ "%" \notin Literals
    /\ Names \subseteq Seq(Letters) \ {<<>>}
    /\ \A f \in Fmts : \A p \in DOMAIN f : f[p] # "}"
    /\ Long \cap Fmts = {}

LiteralTokens == {Str(<<c>>) : c \in Literals}
ItemTokens == {Item(x, f) : x \in Names, f \in Fmts}

\* A literal is written as it is.
LEMMA LiteralWritten ==
    ASSUME Documented, NEW k \in LiteralTokens
    PROVE  /\ ~k.item /\ k.str \in Seq(Chars) /\ Len(k.str) = 1 /\ k.str[1] # "%"
           /\ k.str[1] \in Chars
           /\ Written(k) = k.str /\ "raw" \notin DOMAIN k /\ Text(k) = k.str
<1>1. PICK c \in Literals : k = Str(<<c>>) BY DEF LiteralTokens
<1>2. c \in Chars /\ c # "%" BY FormatterAssumption DEF Documented
<1>3. ~k.item /\ k.str = <<c>> /\ "raw" \notin DOMAIN k BY <1>1 DEF Str
<1>4. <<c>> # <<"%">> BY <1>2
<1>5. Written(k) = <<c>> BY <1>3, <1>4 DEF Written
<1>6. <<c>> \in Seq(Chars) /\ Len(<<c>>) = 1 /\ <<c>>[1] = c BY <1>2
<1> QED BY <1>2, <1>3, <1>5, <1>6 DEF Text

\* What an item is written as, place by place.
LEMMA ItemText ==
    ASSUME NEW x \in Seq(Chars), NEW f \in Seq(Chars)
    PROVE  /\ Written(Item(x, f)) \in Seq(Chars)
           /\ Written(Item(x, f))[1] = "%"
           /\ \A p \in 1..Len(x) : Written(Item(x, f))[p + 1] = x[p]
           /\ Len(f) = 0 => Len(Written(Item(x, f))) = Len(x) + 1
           /\ Len(f) # 0 =>
                 /\ Len(Written(Item(x, f))) = Len(x) + Len(f) + 3
                 /\ Written(Item(x, f))[Len(x) + 2] = "{"
                 /\ Written(Item(x, f))[Len(x) + Len(f) + 3] = "}"
                 /\ \A p \in 1..Len(f) : Written(Item(x, f))[Len(x) + 2 + p] = f[p]
<1>0. Len(f) = 0 <=> f = <<>> OBVIOUS
<1>1. PICK a \in Chars, b \in Chars, c \in Chars : a = "%" /\ b = "{" /\ c = "}"
  BY SpecialChars
<1>2. PICK k : k = Item(x, f) OBVIOUS
<1>3. k.item /\ "raw" \notin DOMAIN k /\ k.str = x /\ k.fmt = f BY <1>2 DEF Item
<1>4. CASE f = <<>>
  <2>1. PICK u : u = <<a>> \o x OBVIOUS
  <2>2. /\ u \in Seq(Chars) /\ Len(u) = Len(x) + 1 /\ u[1] = a
        /\ \A p \in 1..Len(x) : u[p + 1] = x[p]
    BY <2>1, InFront
  <2>3. Written(k) = u \o <<>> BY <1>1, <1>3, <1>4, <2>1 DEF Written
  <2>4. Written(k) = u BY <2>2, <2>3, ConcatEmptySeq
  <2> QED BY <1>0, <1>1, <1>2, <1>4, <2>2, <2>4
<1>5. CASE f # <<>>
  <2>1. PICK u : u = <<a>> \o x OBVIOUS
  <2>2. PICK d : d = <<b>> \o f OBVIOUS
  <2>3. PICK e : e = d \o <<c>> OBVIOUS
  <2>4. /\ u \in Seq(Chars) /\ Len(u) = Len(x) + 1 /\ u[1] = a
        /\ \A p \in 1..Len(x) : u[p + 1] = x[p]
    BY <2>1, InFront
  <2>5. /\ d \in Seq(Chars) /\ Len(d) = Len(f) + 1 /\ d[1] = b
        /\ \A p \in 1..Len(f) : d[p + 1] = f[p]
    BY <2>2, InFront
  <2>6. /\ e \in Seq(Chars) /\ Len(e) = Len(d) + 1 /\ e[Len(d) + 1] = c
        /\ \A p \in 1..Len(d) : e[p] = d[p]
    BY <2>3, <2>5, Behind
  <2>7. PICK w : w = u \o e OBVIOUS
  <2>8. w = (<<a>> \o x) \o ((<<b>> \o f) \o <<c>>) BY <2>1, <2>2, <2>3, <2>7
  <2>9. /\ w \in Seq(Chars) /\ Len(w) = Len(u) + Len(e)
        /\ \A p \in 1..Len(u) : w[p] = u[p]
        /\ \A p \in 1..Len(e) : w[Len(u) + p] = e[p]
    <3>1. u \in Seq(Chars) /\ e \in Seq(Chars) BY <2>4, <2>6
    <3> QED BY <2>7, <3>1, Joined
  <2>10. Len(x) \in Nat /\ Len(f) \in Nat OBVIOUS
  <2>11. Len(w) = Len(x) + Len(f) + 3 BY <2>4, <2>5, <2>6, <2>9, <2>10
  <2>12. w[1] = a BY <2>4, <2>9, <2>10
  <2>13. \A p \in 1..Len(x) : w[p + 1] = x[p] BY <2>4, <2>9, <2>10
  <2>14. w[Len(x) + 2] = b
    <3>0. 1 \in 1..Len(d) /\ 1 \in 1..Len(e) BY <2>5, <2>6, <2>10
    <3>1. w[Len(u) + 1] = e[1] /\ e[1] = b BY <2>5, <2>6, <2>9, <3>0
    <3>2. Len(u) + 1 = Len(x) + 2 BY <2>4, <2>10
    <3> QED BY <3>1, <3>2
  <2>15. w[Len(x) + Len(f) + 3] = c
    <3>1. w[Len(u) + Len(e)] = c BY <2>5, <2>6, <2>9, <2>10
    <3>2. Len(u) + Len(e) = Len(x) + Len(f) + 3 BY <2>4, <2>5, <2>6, <2>10
    <3> QED BY <3>1, <3>2
  <2>16. ASSUME NEW p \in 1..Len(f) PROVE w[Len(x) + 2 + p] = f[p]
    <3>1. e[p + 1] = f[p] /\ w[Len(u) + (p + 1)] = e[p + 1] BY <2>5, <2>6, <2>9, <2>10
    <3>2. Len(u) + (p + 1) = Len(x) + 2 + p BY <2>4, <2>10
    <3> QED BY <3>1, <3>2
  <2>17. Written(k) = w BY <1>1, <1>3, <1>5, <2>8 DEF Written
  <2> QED BY <1>0, <1>1, <1>2, <1>5, <2>9, <2>11, <2>12, <2>13, <2>14, <2>15, <2>16, <2>17
<1> QED BY <1>4, <1>5

ItemAt(v, x, f, m, l) ==
    /\ v \in Seq(Chars) /\ v[1] = "%"
    /\ \A p \in 1..m : v[p + 1] = x[p]
    /\ l = 0 => Len(v) = m + 1
    /\ l # 0 => /\ Len(v) = m + l + 3 /\ v[m + 2] = "{" /\ v[m + l + 3] = "}"
                /\ \A p \in 1..l : v[m + 2 + p] = f[p]

\* The same, for an item and its text by any names.
LEMMA ItemPlaces ==
    ASSUME NEW x \in Seq(Chars), NEW f \in Seq(Chars), NEW m \in Nat, NEW l \in Nat,
           m = Len(x), l = Len(f), NEW v, v = Written(Item(x, f))
    PROVE  ItemAt(v, x, f, m, l)
<1>1. PICK y : y = Item(x, f) OBVIOUS
<1>2. Written(y) \in Seq(Chars) /\ Written(y)[1] = "%" BY <1>1, ItemText
<1>3. \A p \in 1..m : Written(y)[p + 1] = x[p]
  <2>1. \A p \in 1..Len(x) : Written(Item(x, f))[p + 1] = x[p] BY ItemText
  <2> QED BY <1>1, <2>1, Zenon
<1>4. l = 0 => Len(Written(y)) = m + 1 BY <1>1, ItemText
<1>5. ASSUME l # 0
      PROVE  /\ Len(Written(y)) = m + l + 3
             /\ Written(y)[m + 2] = "{" /\ Written(y)[m + l + 3] = "}"
             /\ \A p \in 1..l : Written(y)[m + 2 + p] = f[p]
  <2>1. Len(f) # 0 BY <1>5
  <2>2. Len(Written(y)) = Len(x) + Len(f) + 3 BY <1>1, <2>1, ItemText
  <2>3. Written(y)[Len(x) + 2] = "{" BY <1>1, <2>1, ItemText
  <2>4. Written(y)[Len(x) + Len(f) + 3] = "}" BY <1>1, <2>1, ItemText
  <2>5. \A p \in 1..Len(f) : Written(y)[Len(x) + 2 + p] = f[p]
    <3>1. \A p \in 1..Len(f) : Written(Item(x, f))[Len(x) + 2 + p] = f[p] BY <2>1, ItemText
    <3> QED BY <1>1, <3>1, Zenon
  <2> QED BY <2>2, <2>3, <2>4, <2>5
<1>6. v = Written(y) BY <1>1
<1> QED BY <1>2, <1>3, <1>4, <1>5, <1>6 DEF ItemAt

\* Names and formats of documented items.
LEMMA ItemWritten ==
    ASSUME Documented, NEW x \in Names, NEW f \in Fmts
    PROVE  /\ x \in Seq(Chars) /\ f \in Seq(Chars) /\ Len(x) \in Nat /\ Len(f) \in Nat
           /\ Len(x) >= 1
           /\ \A p \in 1..Len(x) : Alpha(x[p])
           /\ \A p \in 1..Len(f) : f[p] # "}"
<1>3. x \in Seq(Chars) /\ f \in Seq(Chars) BY FormatterAssumption
<1>4. Len(x) \in Nat /\ Len(f) \in Nat BY <1>3, LenProperties
<1>5. x \in Seq(Letters) /\ x # <<>> BY DEF Documented
<1>6. \A p \in 1..Len(x) : Alpha(x[p]) BY <1>5, ElementOfSeq DEF Alpha
<1>7. Len(x) >= 1
  <2>1. Len(x) # 0 BY <1>5, EmptySeq
  <2> QED BY <1>4, <2>1
<1>8. \A p \in 1..Len(f) : f[p] # "}"
  <2>1. DOMAIN f = 1..Len(f) BY <1>3, LenProperties
  <2> QED BY <2>1 DEF Documented
<1> QED BY <1>3, <1>4, <1>6, <1>7, <1>8

-----------------------------------------------------------------------------
\* The pattern is the text of the tokens; the first k of them end at At(k).
Pieces == [p \in 1..Len(written) |-> Written(written[p])]
At(k) == Len(FlattenSeq(SubSeq(Pieces, 1, k)))

PatternInv == written \in Seq(Tokens \cup RawTokens) /\ m_pattern = FlattenSeq(Pieces)

\* The texts of the tokens.
LEMMA PiecesType ==
    ASSUME PatternInv
    PROVE  /\ Pieces \in Seq(Seq(Chars)) /\ Len(Pieces) = Len(written) /\ Len(written) \in Nat
           /\ \A p \in 1..Len(written) : Pieces[p] = Written(written[p])
<1>1. PICK w \in Seq(Tokens \cup RawTokens) : w = written BY DEF PatternInv
<1>2. Len(w) \in Nat OBVIOUS
<1>3. \A p \in 1..Len(w) : w[p] \in Tokens \cup RawTokens BY ElementOfSeq
<1>4. \A p \in 1..Len(w) : Written(w[p]) \in Seq(Chars) BY <1>3, WrittenType
<1>5. Pieces = [p \in 1..Len(w) |-> Written(w[p])] BY <1>1 DEF Pieces
<1>6. Pieces \in Seq(Seq(Chars)) /\ Len(Pieces) = Len(w) BY <1>2, <1>4, <1>5
<1> QED BY <1>1, <1>2, <1>5, <1>6

\* Where the first k tokens end, and what the next one puts there.
LEMMA TokenPlaces ==
    ASSUME PatternInv, NEW k \in 0..Len(written)
    PROVE  /\ At(k) \in Nat /\ At(k) <= size /\ size \in Nat
           /\ k = Len(written) => At(k) = size
           /\ k < Len(written) =>
                 /\ Written(written[k + 1]) \in Seq(Chars)
                 /\ At(k + 1) = At(k) + Len(Written(written[k + 1])) /\ At(k + 1) <= size
                 /\ \A p \in 1..Len(Written(written[k + 1])) :
                       m_pattern[At(k) + p] = Written(written[k + 1])[p]
<1>1. /\ Pieces \in Seq(Seq(Chars)) /\ Len(Pieces) = Len(written) /\ Len(written) \in Nat
      /\ \A p \in 1..Len(written) : Pieces[p] = Written(written[p])
  BY PiecesType
<1>2. PICK s \in Seq(Seq(Chars)) : s = Pieces BY <1>1
<1>3. k \in 0..Len(s) BY <1>1, <1>2
<1>4. PICK b : b = FlattenSeq(SubSeq(s, 1, k)) OBVIOUS
<1>5. PICK r \in Seq(Chars) : m_pattern = b \o r
  <2>1. \E r \in Seq(Chars) : FlattenSeq(s) = FlattenSeq(SubSeq(s, 1, k)) \o r
    BY <1>3, FlattenPrefix
  <2>2. m_pattern = FlattenSeq(s) BY <1>2 DEF PatternInv
  <2> QED BY <1>4, <2>1, <2>2, Zenon
<1>6. b \in Seq(Chars) BY <1>3, <1>4, FlattenPrefix
<1>7. Len(b) \in Nat /\ Len(r) \in Nat BY <1>6
<1>8. /\ m_pattern \in Seq(Chars) /\ Len(m_pattern) = Len(b) + Len(r)
      /\ \A p \in 1..Len(b) : m_pattern[p] = b[p]
  BY <1>5, <1>6, Joined
<1>9. At(k) = Len(b) BY <1>2, <1>4 DEF At
<1>10. At(k) \in Nat /\ At(k) <= size /\ size \in Nat BY <1>7, <1>8, <1>9 DEF size
<1>11. ASSUME k = Len(written) PROVE At(k) = size
  <2>1. SubSeq(s, 1, Len(s)) = s BY SubSeqFull
  <2> QED BY <1>1, <1>2, <1>4, <1>9, <1>11, <2>1 DEF PatternInv, size
<1>12. ASSUME k < Len(written)
       PROVE  /\ Written(written[k + 1]) \in Seq(Chars)
              /\ At(k + 1) = At(k) + Len(Written(written[k + 1])) /\ At(k + 1) <= size
              /\ \A p \in 1..Len(Written(written[k + 1])) :
                    m_pattern[At(k) + p] = Written(written[k + 1])[p]
  <2>1. PICK w : w = s[k + 1] OBVIOUS
  <2>2. k + 1 \in 1..Len(s) /\ k + 1 \in 0..Len(s) /\ k < Len(s) BY <1>1, <1>2, <1>12
  <2>3. w \in Seq(Chars) /\ w = Written(written[k + 1]) BY <1>1, <1>2, <2>1, <2>2, ElementOfSeq
  <2>4. PICK c : c = FlattenSeq(SubSeq(s, 1, k + 1)) OBVIOUS
  <2>5. c = b \o w BY <1>3, <1>4, <2>1, <2>2, <2>4, FlattenPrefix
  <2>6. PICK q \in Seq(Chars) : m_pattern = c \o q
    <3>1. \E q \in Seq(Chars) : FlattenSeq(s) = FlattenSeq(SubSeq(s, 1, k + 1)) \o q
      BY <2>2, FlattenPrefix
    <3>2. m_pattern = FlattenSeq(s) BY <1>2 DEF PatternInv
    <3> QED BY <2>4, <3>1, <3>2, Zenon
  <2>7. /\ c \in Seq(Chars) /\ Len(c) = Len(b) + Len(w)
        /\ \A p \in 1..Len(w) : c[Len(b) + p] = w[p]
    BY <1>6, <2>3, <2>5, Joined
  <2>8. /\ Len(m_pattern) = Len(c) + Len(q)
        /\ \A p \in 1..Len(c) : m_pattern[p] = c[p]
    <3>1. c \in Seq(Chars) BY <2>7
    <3> QED BY <2>6, <3>1, Joined
  <2>9. At(k + 1) = Len(c) BY <1>2, <2>4 DEF At
  <2>10. Len(w) \in Nat /\ Len(q) \in Nat /\ Len(c) \in Nat BY <2>3, <2>7
  <2>11. At(k + 1) = At(k) + Len(w) /\ At(k + 1) <= size
    BY <1>9, <2>7, <2>8, <2>9, <2>10 DEF size
  <2>12. ASSUME NEW p \in 1..Len(w) PROVE m_pattern[At(k) + p] = w[p]
    <3>1. Len(b) + p \in 1..Len(c) BY <1>7, <2>7, <2>10
    <3> QED BY <1>9, <2>7, <2>8, <3>1
  <2> QED BY <2>3, <2>11, <2>12
<1> QED BY <1>10, <1>11, <1>12

\* A well-formed pattern has literals and items only.
LEMMA WellFormedTokens ==
    ASSUME PatternInv, WellFormed(written), NEW k \in 1..Len(written)
    PROVE  written[k] \in LiteralTokens \cup ItemTokens
<1>1. PICK w \in Seq(Tokens \cup RawTokens) : w = written BY DEF PatternInv
<1>2. w[k] \in Tokens \cup RawTokens BY <1>1, ElementOfSeq
<1>3. w[k] \in ToSet(w)
  <2>1. k \in DOMAIN w BY <1>1, LenProperties
  <2> QED BY <2>1 DEF ToSet
<1>4. "raw" \notin DOMAIN w[k] BY <1>1, <1>3 DEF WellFormed
<1>5. w[k] \notin RawTokens
  <2>1. \A c : "raw" \in DOMAIN [raw |-> c] OBVIOUS
  <2> QED BY <1>4, <2>1 DEF RawTokens
<1> QED BY <1>1, <1>2, <1>5 DEF Tokens, LiteralTokens, ItemTokens

\* A literal is its character.
LEMMA LiteralStands ==
    ASSUME PatternInv, Documented, WellFormed(written),
           NEW k \in 0..Len(written), k < Len(written), ~written[k + 1].item
    PROVE  /\ At(k + 1) = At(k) + 1 /\ At(k + 1) <= size
           /\ m_pattern[At(k) + 1] # "%" /\ m_pattern[At(k) + 1] = written[k + 1].str[1]
           /\ Text(written[k + 1]) = <<m_pattern[At(k) + 1]>>
<1>1. k + 1 \in 1..Len(written) BY PiecesType
<1>2. PICK t : t = written[k + 1] OBVIOUS
<1>3. t \in LiteralTokens
  <2>1. t \in LiteralTokens \cup ItemTokens BY <1>1, <1>2, WellFormedTokens
  <2>2. \A u \in ItemTokens : u.item BY DEF ItemTokens, Item
  <2> QED BY <1>2, <2>1, <2>2
<1>4. /\ t.str \in Seq(Chars) /\ Len(t.str) = 1 /\ t.str[1] # "%"
      /\ Written(t) = t.str /\ Text(t) = t.str
  BY <1>3, LiteralWritten
<1>5. PICK x \in Seq(Chars) : x = t.str BY <1>4
<1>6. Len(Written(t)) = 1 /\ Written(t)[1] = x[1] BY <1>4, <1>5
<1>7. /\ At(k + 1) = At(k) + Len(Written(t)) /\ At(k + 1) <= size
      /\ \A p \in 1..Len(Written(t)) : m_pattern[At(k) + p] = Written(t)[p]
  BY <1>2, TokenPlaces
<1>8. At(k + 1) = At(k) + 1 /\ m_pattern[At(k) + 1] = x[1] BY <1>6, <1>7
<1>9. x = <<x[1]>>
  <2>1. Len(x) = 1 BY <1>4, <1>5
  <2> QED BY <2>1
<1> QED BY <1>2, <1>4, <1>5, <1>7, <1>8, <1>9

\* Behind an item without a format there is the end of the pattern, or a
\* character that does not go on with its name.
LEMMA BehindItem ==
    ASSUME PatternInv, Documented, WellFormed(written),
           NEW k \in 1..Len(written), written[k].item, written[k].fmt = <<>>, At(k) + 1 <= size
    PROVE  ~Alpha(m_pattern[At(k) + 1]) /\ ~Brace(m_pattern[At(k) + 1])
<1>0. /\ Len(written) \in Nat /\ At(k) \in Nat /\ size \in Nat /\ k \in 0..Len(written)
      /\ k = Len(written) => At(k) = size
  BY PiecesType, TokenPlaces
<1>1. k < Len(written) BY <1>0
<1>2. k + 1 \in 1..Len(written) /\ k \in 1..Len(written) - 1 BY <1>0, <1>1
<1>3. PICK t : t = written[k + 1] OBVIOUS
<1>4. CASE ~t.item
  <2>1. ~Alpha(t.str[1]) /\ ~Brace(t.str[1]) BY <1>2, <1>3, <1>4 DEF WellFormed
  <2> QED BY <1>0, <1>1, <1>3, <1>4, <2>1, LiteralStands
<1>5. CASE t.item
  <2>1. t \in LiteralTokens \cup ItemTokens BY <1>2, <1>3, WellFormedTokens
  <2>2. \A u \in LiteralTokens : ~u.item BY DEF LiteralTokens, Str
  <2>3. PICK x \in Names, f \in Fmts : t = Item(x, f) BY <1>5, <2>1, <2>2 DEF ItemTokens
  <2>4. x \in Seq(Chars) /\ f \in Seq(Chars) /\ Len(x) \in Nat /\ Len(f) \in Nat
    BY <2>3, ItemWritten
  <2>5. Written(t)[1] = "%"
    <3>1. Written(Item(x, f))[1] = "%" BY <2>4, ItemText
    <3> QED BY <2>3, <3>1
  <2>6. Len(Written(t)) \in {Len(x) + 1, Len(x) + Len(f) + 3}
    <3>1. Len(Written(Item(x, f))) \in {Len(x) + 1, Len(x) + Len(f) + 3} BY <2>4, ItemText
    <3> QED BY <2>3, <3>1
  <2>7. 1 \in 1..Len(Written(t)) BY <2>4, <2>6
  <2>8. m_pattern[At(k) + 1] = Written(t)[1]
    BY <1>0, <1>1, <1>3, <2>7, TokenPlaces
  <2> QED BY <2>5, <2>8, FormatterAssumption DEF Alpha, Brace
<1> QED BY <1>4, <1>5

\* An item in the pattern: its percent sign, its name and its format.
ItemIn(k, x, f) ==
    /\ written[k + 1] = Item(x, f)
    /\ x \in Seq(Chars) /\ f \in Seq(Chars) /\ Len(x) \in Nat /\ Len(f) \in Nat /\ Len(x) >= 1
    /\ At(k + 1) <= size /\ m_pattern[At(k) + 1] = "%"
    /\ \A p \in 1..Len(x) : m_pattern[At(k) + 1 + p] = x[p] /\ Alpha(x[p])
    /\ Len(f) = 0 =>
          /\ At(k + 1) = At(k) + Len(x) + 1
          /\ At(k + 1) + 1 <= size =>
                ~Alpha(m_pattern[At(k + 1) + 1]) /\ ~Brace(m_pattern[At(k + 1) + 1])
    /\ Len(f) # 0 =>
          /\ At(k + 1) = At(k) + Len(x) + Len(f) + 3
          /\ m_pattern[At(k) + Len(x) + 2] = "{" /\ m_pattern[At(k) + Len(x) + Len(f) + 3] = "}"
          /\ \A p \in 1..Len(f) : m_pattern[At(k) + Len(x) + 2 + p] = f[p] /\ f[p] # "}"

\* An item stands in the pattern, and what follows does not continue it.
LEMMA ItemStands ==
    ASSUME PatternInv, Documented, WellFormed(written),
           NEW k \in 0..Len(written), k < Len(written), written[k + 1].item
    PROVE  \E x \in Names, f \in Fmts : ItemIn(k, x, f)
<1>0. /\ Len(written) \in Nat /\ At(k) \in Nat /\ size \in Nat /\ At(k + 1) \in Nat
      /\ k + 1 \in 1..Len(written)
  <2>1. Len(written) \in Nat BY PiecesType
  <2>2. At(k) \in Nat /\ size \in Nat BY TokenPlaces
  <2>3. k + 1 \in 0..Len(written) BY <2>1
  <2>4. At(k + 1) \in Nat BY <2>3, TokenPlaces
  <2> QED BY <2>1, <2>2, <2>4
<1>1. PICK t : t = written[k + 1] OBVIOUS
<1>2. PICK x \in Names, f \in Fmts : t = Item(x, f)
  <2>1. t \in LiteralTokens \cup ItemTokens BY <1>0, <1>1, WellFormedTokens
  <2>2. \A u \in LiteralTokens : ~u.item BY DEF LiteralTokens, Str
  <2> QED BY <1>1, <2>1, <2>2 DEF ItemTokens
<1>3. /\ x \in Seq(Chars) /\ f \in Seq(Chars) /\ Len(x) \in Nat /\ Len(f) \in Nat
      /\ Len(x) >= 1
      /\ \A p \in 1..Len(x) : Alpha(x[p])
      /\ \A p \in 1..Len(f) : f[p] # "}"
  BY ItemWritten
<1>4. PICK w \in Seq(Chars) : w = Written(t) BY <1>1, TokenPlaces
<1>5. PICK m \in Nat, l \in Nat : m = Len(x) /\ l = Len(f) BY <1>3
<1>6. w = Written(Item(x, f)) BY <1>2, <1>4
<1>7. /\ w[1] = "%" /\ \A p \in 1..m : w[p + 1] = x[p]
      /\ l = 0 => Len(w) = m + 1
      /\ l # 0 => /\ Len(w) = m + l + 3 /\ w[m + 2] = "{" /\ w[m + l + 3] = "}"
                  /\ \A p \in 1..l : w[m + 2 + p] = f[p]
  <2>1. x \in Seq(Chars) /\ f \in Seq(Chars) BY <1>3
  <2>2. m \in Nat /\ l \in Nat /\ m = Len(x) /\ l = Len(f) BY <1>5
  <2>3. ItemAt(w, x, f, m, l) BY <1>6, <2>1, <2>2, ItemPlaces, Zenon
  <2> QED BY <2>3 DEF ItemAt
<1>8. PICK a \in Nat, d \in Nat : a = At(k) /\ d = At(k + 1) BY <1>0
<1>9. PICK g \in Nat : g = Len(w) OBVIOUS
<1>10. d = a + g /\ d <= size /\ \A p \in 1..g : m_pattern[a + p] = w[p]
  BY <1>1, <1>4, <1>8, <1>9, TokenPlaces
<1>11. m >= 1 /\ (l = 0 => g = m + 1) /\ (l # 0 => g = m + l + 3) /\ g >= m + 1
  <2>1. m >= 1 BY <1>3, <1>5
  <2>2. (l = 0 => g = m + 1) /\ (l # 0 => g = m + l + 3) BY <1>7, <1>9
  <2> QED BY <2>1, <2>2
<1>12. m_pattern[a + 1] = "%"
  <2>1. 1 \in 1..g BY <1>11
  <2> QED BY <1>7, <1>10, <2>1
<1>13. ASSUME NEW p \in 1..m PROVE m_pattern[a + 1 + p] = x[p]
  <2>1. p + 1 \in 1..g /\ a + 1 + p = a + (p + 1) BY <1>11
  <2>2. m_pattern[a + (p + 1)] = w[p + 1] BY <1>10, <2>1
  <2> QED BY <1>7, <2>1, <2>2
<1>14. ASSUME l # 0
       PROVE  /\ m_pattern[a + m + 2] = "{" /\ m_pattern[a + m + l + 3] = "}"
              /\ \A p \in 1..l : m_pattern[a + m + 2 + p] = f[p]
  <2>1. /\ m + 2 \in 1..g /\ m + l + 3 \in 1..g
        /\ a + (m + 2) = a + m + 2 /\ a + (m + l + 3) = a + m + l + 3
    BY <1>11, <1>14
  <2>2. m_pattern[a + (m + 2)] = "{" /\ m_pattern[a + (m + l + 3)] = "}"
    BY <1>7, <1>10, <1>14, <2>1
  <2>3. ASSUME NEW p \in 1..l PROVE m_pattern[a + m + 2 + p] = f[p]
    <3>1. m + 2 + p \in 1..g /\ a + (m + 2 + p) = a + m + 2 + p BY <1>11, <1>14
    <3>2. m_pattern[a + (m + 2 + p)] = w[m + 2 + p] BY <1>10, <3>1
    <3>3. w[m + 2 + p] = f[p] BY <1>7, <1>14
    <3> QED BY <3>1, <3>2, <3>3
  <2> QED BY <2>1, <2>2, <2>3
<1>15. ASSUME l = 0, d + 1 <= size
       PROVE  ~Alpha(m_pattern[d + 1]) /\ ~Brace(m_pattern[d + 1])
  <2>0. f = <<>>
    <3>1. f \in Seq(Chars) /\ Len(f) = 0 BY <1>3, <1>5, <1>15
    <3> QED BY <3>1, EmptySeq
  <2>1. written[k + 1].item /\ written[k + 1].fmt = <<>> BY <1>1, <1>2, <2>0 DEF Item
  <2> QED BY <1>0, <1>8, <1>15, <2>1, BehindItem
<1>16. l = 0 => d = a + m + 1 BY <1>10, <1>11
<1>17. l # 0 => d = a + m + l + 3 BY <1>10, <1>11
<1>18. \A p \in 1..m : m_pattern[a + 1 + p] = x[p] /\ Alpha(x[p]) BY <1>3, <1>5, <1>13
<1>19. ASSUME l # 0 PROVE \A p \in 1..l : m_pattern[a + m + 2 + p] = f[p] /\ f[p] # "}"
  BY <1>3, <1>5, <1>14, <1>19
<1>20. written[k + 1] = Item(x, f) BY <1>1, <1>2
<1>21. ItemIn(k, x, f)
  BY <1>3, <1>5, <1>8, <1>10, <1>12, <1>14, <1>15, <1>16, <1>17, <1>18, <1>19, <1>20 DEF ItemIn
<1> QED BY <1>21

(***************************************************************************)
(* Lines: what the items of an accepted pattern write.                     *)
(***************************************************************************)

\* Items whose dates fit, and what they write.
Shapes == {k \in Items : k.item => k.fmt \notin Long}
Fields == {s_format_items[c] : c \in DOMAIN s_format_items}
Shown == Chars \cup Fields \cup {"error_format", DateFormat[1]}

\* Nothing of a documented line is undefined.
LEMMA NothingUndefined == "undefined" \notin Shown
<1>1. \A c \in DOMAIN s_format_items : s_format_items[c] # "undefined" BY DEF s_format_items
<1>2. DateFormat[1] # "undefined" BY DEF DateFormat
<1> QED BY <1>1, <1>2, FormatterAssumption DEF Shown, Fields

\* What a token prints.
LEMMA TextType == ASSUME NEW k \in Shapes PROVE Text(k) \in Seq(Shown)
<1>1. /\ k.str \in Seq(Chars) /\ k.fmt \in Seq(Chars) /\ k.item \in BOOLEAN
      /\ k.item => k.fmt \notin Long
  BY DEF Shapes, Items
<1>2. \A s \in Seq(Chars) : s \in Seq(Shown)
  <2>1. Chars \subseteq Shown BY DEF Shown
  <2> QED BY <2>1
<1>3. CASE ~k.item BY <1>1, <1>2, <1>3 DEF Text
<1>4. CASE k.item /\ ~Known(k.str)
  <2>1. Text(k) = <<"error_format">> BY <1>4 DEF Text
  <2>2. "error_format" \in Shown BY DEF Shown
  <2> QED BY <2>1, <2>2
<1>5. CASE k.item /\ Known(k.str)
  <2>1. PICK c \in DOMAIN s_format_items : c = k.str[1] BY <1>5 DEF Known
  <2>2. PICK d \in Shown : d = s_format_items[c] BY DEF Shown, Fields
  <2>3. PICK e \in Seq(Shown) : e = IF k.fmt = <<>> THEN DateFormat ELSE k.fmt
    <3>1. DateFormat = <<DateFormat[1]>> BY DEF DateFormat
    <3>2. DateFormat[1] \in Shown BY DEF Shown
    <3>3. DateFormat \in Seq(Shown) BY <3>1, <3>2
    <3> QED BY <1>1, <1>2, <3>3
  <2>4. Text(k) \in {<<d>>, <<d>> \o e} BY <1>1, <1>5, <2>1, <2>2, <2>3 DEF Text
  <2>5. <<d>> \in Seq(Shown) /\ <<d>> \o e \in Seq(Shown) OBVIOUS
  <2> QED BY <2>4, <2>5
<1> QED BY <1>1, <1>3, <1>4, <1>5

\* The texts of a sequence of items.
Texts(v) == [p \in 1..Len(v) |-> Text(v[p])]

\* What tokens print, one by one.
LEMMA TextsType ==
    ASSUME NEW v \in Seq(Shapes)
    PROVE  /\ Texts(v) \in Seq(Seq(Shown)) /\ Len(Texts(v)) = Len(v) /\ Len(v) \in Nat
           /\ \A p \in 1..Len(v) : Texts(v)[p] = Text(v[p])
<1>1. \A p \in 1..Len(v) : v[p] \in Shapes BY ElementOfSeq
<1>2. \A p \in 1..Len(v) : Text(v[p]) \in Seq(Shown) BY <1>1, TextType
<1>3. Len(v) \in Nat OBVIOUS
<1> QED BY <1>2, <1>3 DEF Texts

\* A line, and one token more in it.
LEMMA FormatType == ASSUME NEW v \in Seq(Shapes) PROVE format(v) \in Seq(Shown)
<1>1. PICK a \in Seq(Seq(Shown)) : a = Texts(v) BY TextsType
<1>2. format(v) = FlattenSeq(a) BY <1>1 DEF format, Texts
<1> QED BY <1>2, FlattenType

\* The line of one more item.
LEMMA FormatAppend ==
    ASSUME NEW v \in Seq(Shapes), NEW k \in Shapes
    PROVE  /\ Append(v, k) \in Seq(Shapes)
           /\ format(Append(v, k)) = format(v) \o Text(k)
<1>0. PICK w : w = Append(v, k) OBVIOUS
<1>1. /\ w \in Seq(Shapes) /\ Len(w) = Len(v) + 1 /\ w[Len(v) + 1] = k
      /\ \A p \in 1..Len(v) : w[p] = v[p]
  BY <1>0, AppendOne
<1>2. PICK a \in Seq(Seq(Shown)) :
          a = Texts(v) /\ Len(a) = Len(v) /\ \A p \in 1..Len(v) : a[p] = Text(v[p])
  BY TextsType
<1>3. PICK b \in Seq(Seq(Shown)) :
          b = Texts(w) /\ Len(b) = Len(w) /\ \A p \in 1..Len(w) : b[p] = Text(w[p])
  BY <1>1, TextsType
<1>4. PICK x \in Seq(Shown) : x = Text(k) BY TextType
<1>5. Len(v) \in Nat OBVIOUS
<1>6. Len(b) = Len(a) + 1 BY <1>1, <1>2, <1>3
<1>7. \A p \in 1..Len(a) : b[p] = a[p]
  <2>1. \A p \in 1..Len(v) : p \in 1..Len(w) BY <1>1, <1>5
  <2> QED BY <1>1, <1>2, <1>3, <2>1
<1>8. b[Len(a) + 1] = x
  <2>1. Len(v) + 1 \in 1..Len(w) BY <1>1, <1>5
  <2> QED BY <1>1, <1>2, <1>3, <1>4, <2>1
<1>9. FlattenSeq(b) = FlattenSeq(a) \o x BY <1>6, <1>7, <1>8, FlattenLonger
<1>10. format(w) = FlattenSeq(b) /\ format(v) = FlattenSeq(a) BY <1>2, <1>3 DEF format, Texts
<1> QED BY <1>0, <1>1, <1>4, <1>9, <1>10

\* A string prints itself.
LEMMA StrShape ==
    ASSUME NEW s \in Seq(Chars)
    PROVE  Str(s) \in Shapes /\ Text(Str(s)) = s /\ ~Str(s).item
<1>1. <<>> \in Seq(Chars) OBVIOUS
<1> QED BY <1>1 DEF Shapes, Items, Str, Text

\* The string before an item, and its place in the line.
LEMMA FlushedShows ==
    ASSUME vec \in Seq(Shapes), nstr \in Seq(Chars)
    PROVE  /\ Flushed \in Seq(Shapes) /\ format(Flushed) = format(vec) \o nstr
           /\ \A u : u.item => (u \in ToSet(Flushed) <=> u \in ToSet(vec))
<1>1. CASE nstr = <<>>
  <2>1. Flushed = vec BY <1>1 DEF Flushed
  <2>2. format(vec) \in Seq(Shown) BY FormatType
  <2>3. format(vec) \o <<>> = format(vec) BY <2>2, ConcatEmptySeq
  <2> QED BY <1>1, <2>1, <2>3
<1>2. CASE nstr # <<>>
  <2>1. PICK k \in Shapes : k = Str(nstr) /\ Text(k) = nstr /\ ~k.item BY StrShape
  <2>2. PICK v \in Seq(Shapes) : v = vec OBVIOUS
  <2>3. Flushed = Append(v, k) BY <1>2, <2>1, <2>2 DEF Flushed
  <2>4. Append(v, k) \in Seq(Shapes) /\ format(Append(v, k)) = format(v) \o Text(k)
    BY FormatAppend
  <2>5. ToSet(Append(v, k)) = ToSet(v) \cup {k} BY ToSetAppend
  <2> QED BY <2>1, <2>2, <2>3, <2>4, <2>5
<1> QED BY <1>1, <1>2

\* The line that the first k tokens make, and whether one of them has a name
\* that no item has.
Line(k) == FlattenSeq(SubSeq(Texts(written), 1, k))
Strange(k) == k.item /\ ~Known(k.str)
StrangeIn(v) == \E k \in ToSet(v) : Strange(k)
StrangeBefore(k) == \E p \in 1..k : Strange(written[p])

\* The tokens of a well-formed pattern can be printed.
LEMMA WrittenShapes ==
    ASSUME PatternInv, Documented, WellFormed(written)
    PROVE  written \in Seq(Shapes)
<1>1. ASSUME NEW k \in LiteralTokens PROVE k \in Shapes
  <2>1. PICK c \in Literals : k = Str(<<c>>) BY <1>1 DEF LiteralTokens
  <2>2. c \in Chars BY FormatterAssumption
  <2>3. <<c>> \in Seq(Chars) BY <2>2, OneChar
  <2> QED BY <2>1, <2>3, StrShape
<1>2. ASSUME NEW k \in ItemTokens PROVE k \in Shapes
  <2>1. PICK x \in Names, f \in Fmts : k = Item(x, f) BY <1>2 DEF ItemTokens
  <2>2. x \in Seq(Chars) /\ f \in Seq(Chars) BY FormatterAssumption
  <2>3. f \notin Long BY DEF Documented
  <2> QED BY <2>1, <2>2, <2>3 DEF Shapes, Items, Item
<1>3. PICK w \in Seq(Tokens \cup RawTokens) : w = written BY DEF PatternInv
<1>4. \A p \in 1..Len(w) : w[p] \in Shapes BY <1>1, <1>2, <1>3, WellFormedTokens
<1>5. DOMAIN w = 1..Len(w) /\ Len(w) \in Nat BY <1>3
<1>6. w = [p \in 1..Len(w) |-> w[p]] BY <1>3
<1>7. w \in Seq(Shapes) BY <1>4, <1>5, <1>6
<1> QED BY <1>3, <1>7

\* The line of k tokens, and that of one more.
LEMMA LineGrows ==
    ASSUME PatternInv, Documented, WellFormed(written), NEW k \in 0..Len(written)
    PROVE  /\ Line(k) \in Seq(Shown)
           /\ k < Len(written) => Line(k + 1) = Line(k) \o Text(written[k + 1])
           /\ k < Len(written) => Text(written[k + 1]) \in Seq(Shown)
           /\ k = Len(written) => Line(k) = format(written)
           /\ k = 0 => Line(k) = <<>>
<1>1. PICK w \in Seq(Shapes) : w = written BY WrittenShapes
<1>2. PICK a \in Seq(Seq(Shown)) :
          a = Texts(w) /\ Len(a) = Len(w) /\ \A p \in 1..Len(w) : a[p] = Text(w[p])
  BY TextsType
<1>3. k \in 0..Len(a) /\ Len(w) \in Nat BY <1>1, <1>2
<1>4. Line(k) = FlattenSeq(SubSeq(a, 1, k)) /\ Line(k + 1) = FlattenSeq(SubSeq(a, 1, k + 1))
  BY <1>1, <1>2 DEF Line
<1>5. Line(k) \in Seq(Shown) BY <1>3, <1>4, FlattenPrefix
<1>6. ASSUME k < Len(written)
      PROVE  /\ Line(k + 1) = Line(k) \o Text(written[k + 1])
             /\ Text(written[k + 1]) \in Seq(Shown)
  <2>1. k < Len(a) /\ k + 1 \in 1..Len(w) BY <1>1, <1>2, <1>3, <1>6
  <2>2. Line(k + 1) = Line(k) \o a[k + 1] BY <1>3, <1>4, <2>1, FlattenPrefix
  <2>3. a[k + 1] = Text(written[k + 1]) BY <1>1, <1>2, <2>1
  <2>4. k + 1 \in 1..Len(a) BY <1>2, <2>1
  <2>5. a[k + 1] \in Seq(Shown) BY <2>4, ElementOfSeq
  <2> QED BY <2>2, <2>3, <2>5
<1>7. ASSUME k = Len(written) PROVE Line(k) = format(written)
  <2>1. SubSeq(a, 1, Len(a)) = a BY SubSeqFull
  <2>2. Line(k) = FlattenSeq(a) BY <1>1, <1>2, <1>4, <1>7, <2>1
  <2> QED BY <1>1, <1>2, <2>2 DEF format, Texts
<1>8. ASSUME k = 0 PROVE Line(k) = <<>>
  <2>1. SubSeq(a, 1, 0) = <<>>
    <3>1. 1 \in Int /\ 0 \in Int /\ 1 > 0 OBVIOUS
    <3> QED BY <3>1, SubSeqEmpty
  <2> QED BY <1>4, <1>8, <2>1, FlattenEmpty
<1> QED BY <1>5, <1>6, <1>7, <1>8

\* What is known while an item is read: its name x has m characters, its
\* format f has l, and it ends at e.
ReadOf(x, f, m, l, e) ==
    /\ pc = "inner" /\ fmt_status = 0 => n <= i + 1 + m
    /\ pc = "inner" /\ fmt_status = 1 =>
          l # 0 /\ str = x /\ fmt_begin = i + 1 + m /\ n <= fmt_begin + 1 + l
    /\ pc = "emit" => fmt_status = 0 /\ str = x /\ fmt = f /\ n = e + 1

\* The first k tokens have been taken, and the next may be being read.
TokensTaken(k) ==
    /\ i = At(k) + 1
    /\ pc \in {"inner", "emit"} =>
          k < Len(written) /\ \E x \in Names, f \in Fmts : 
             ItemIn(k, x, f) /\ ReadOf(x, f, Len(x), Len(f), At(k + 1))
    /\ pc = "done" => k = Len(written) /\ nstr = <<>>
    /\ vec \in Seq(Shapes) /\ format(vec) \o nstr = Line(k)
    /\ StrangeIn(vec) <=> StrangeBefore(k)
    /\ m_error <=> pc = "done" /\ StrangeBefore(k)

ShowInv ==
    /\ PatternInv
    /\ WellFormed(written) => \E k \in 0..Len(written) : TokensTaken(k)

\* The pattern does not change while it is parsed.
LEMMA PatternStays ==
    ASSUME input' = input
    PROVE  /\ PatternInv' <=> PatternInv
           /\ WellFormed(written)' <=> WellFormed(written)
           /\ Len(written)' = Len(written)
           /\ \A k : /\ At(k)' = At(k) /\ Line(k)' = Line(k)
                     /\ StrangeBefore(k)' <=> StrangeBefore(k)
           /\ \A k, x, f : ItemIn(k, x, f)' <=> ItemIn(k, x, f)
<1>1. written' = written /\ m_pattern' = m_pattern BY DEF input
<1>2. Pieces' = Pieces /\ size' = size BY <1>1 DEF Pieces, size
<1>3. \A k : At(k)' = At(k) BY <1>2 DEF At
<1>4. \A k : Line(k)' = Line(k) BY <1>1 DEF Line, Texts
<1>5. \A k : StrangeBefore(k)' <=> StrangeBefore(k) BY <1>1 DEF StrangeBefore
<1>6. PatternInv' <=> PatternInv BY <1>1, <1>2 DEF PatternInv
<1>7. \A k, x, f : ItemIn(k, x, f)' <=> ItemIn(k, x, f)
  <2> TAKE k, x, f
  <2>1. At(k)' = At(k) /\ At(k + 1)' = At(k + 1) BY <1>3
  <2> QED BY <1>1, <1>2, <2>1, Zenon DEF ItemIn
<1> QED BY <1>1, <1>3, <1>4, <1>5, <1>6, <1>7

\* No token is taken at the start.
LEMMA TokensInit == Init /\ PatternInv /\ Documented => ShowInv
<1> SUFFICES ASSUME Init, PatternInv, Documented, WellFormed(written) PROVE TokensTaken(0)
  <2>1. Len(written) \in Nat BY PiecesType
  <2>2. 0 \in 0..Len(written) BY <2>1
  <2> QED BY <2>2 DEF ShowInv
<1>0. Len(written) \in Nat /\ 0 \in 0..Len(written)
  <2>1. Len(written) \in Nat BY PiecesType
  <2> QED BY <2>1
<1>1. At(0) = 0
  <2>1. PICK s \in Seq(Seq(Chars)) : s = Pieces BY PiecesType
  <2>2. SubSeq(s, 1, 0) = <<>>
    <3>1. 1 \in Int /\ 0 \in Int /\ 1 > 0 OBVIOUS
    <3> QED BY <3>1, SubSeqEmpty
  <2>3. FlattenSeq(SubSeq(s, 1, 0)) = <<>> BY <2>2, FlattenEmpty
  <2> QED BY <2>1, <2>3 DEF At
<1>2. Line(0) = <<>> BY <1>0, LineGrows
<1>3. /\ pc = "outer" /\ i = 1 /\ nstr = <<>> /\ vec = <<>> /\ m_error = FALSE BY DEF Init
<1>4. vec \in Seq(Shapes) BY <1>3
<1>5. format(vec) \o nstr = Line(0)
  <2>1. Texts(<<>>) = <<>> BY DEF Texts
  <2>2. format(<<>>) = <<>> BY <2>1, FlattenEmpty DEF format, Texts
  <2>3. <<>> \o <<>> = <<>> OBVIOUS
  <2> QED BY <1>2, <1>3, <2>2, <2>3
<1>6. ~StrangeIn(vec) /\ ~StrangeBefore(0)
  <2>1. ToSet(<<>>) = {} BY DEF ToSet
  <2> QED BY <1>3, <2>1 DEF StrangeIn, StrangeBefore
<1> QED BY <1>1, <1>3, <1>4, <1>5, <1>6 DEF TokensTaken

\* Where the parser is among the tokens.
LEMMA TokenOrEnd ==
    ASSUME PatternInv, Documented, WellFormed(written), NEW k \in 0..Len(written),
           i = At(k) + 1
    PROVE  /\ i <= size => k < Len(written)
           /\ i > size => k = Len(written)
<1>1. /\ At(k) \in Nat /\ size \in Nat /\ Len(written) \in Nat /\ At(k) <= size
      /\ k = Len(written) => At(k) = size
  BY TokenPlaces, PiecesType
<1>2. i <= size => k < Len(written) BY <1>1
<1>3. ASSUME k < Len(written) PROVE i <= size
  <2>1. CASE ~written[k + 1].item
    <3>1. At(k + 1) = At(k) + 1 /\ At(k + 1) <= size BY <1>3, <2>1, LiteralStands
    <3> QED BY <1>1, <3>1
  <2>2. CASE written[k + 1].item
    <3>1. PICK x \in Names, f \in Fmts : ItemIn(k, x, f) BY <1>3, <2>2, ItemStands
    <3>2. /\ Len(x) \in Nat /\ Len(f) \in Nat /\ Len(x) >= 1 /\ At(k + 1) <= size
          /\ Len(f) = 0 => At(k + 1) = At(k) + Len(x) + 1
          /\ Len(f) # 0 => At(k + 1) = At(k) + Len(x) + Len(f) + 3
      BY <3>1 DEF ItemIn
    <3> QED BY <1>1, <3>2
  <2> QED BY <2>1, <2>2
<1> QED BY <1>1, <1>2, <1>3

\* Where a percent sign stands, an item begins, and it stands nowhere else.
LEMMA PercentIsItem ==
    ASSUME PatternInv, Documented, WellFormed(written), NEW k \in 0..Len(written),
           i = At(k) + 1, i <= size
    PROVE  /\ Char(i) = "%" <=> written[k + 1].item
           /\ ~(Char(i) = "%" /\ i < size /\ Char(i + 1) = "%")
<1>1. k < Len(written) BY TokenOrEnd
<1>2. CASE ~written[k + 1].item
  <2>1. m_pattern[At(k) + 1] # "%" BY <1>1, <1>2, LiteralStands
  <2> QED BY <1>2, <2>1 DEF Char
<1>3. CASE written[k + 1].item
  <2>1. PICK x \in Names, f \in Fmts : ItemIn(k, x, f) BY <1>1, <1>3, ItemStands
  <2>2. /\ m_pattern[At(k) + 1] = "%" /\ Len(x) \in Nat /\ Len(x) >= 1
        /\ \A p \in 1..Len(x) : m_pattern[At(k) + 1 + p] = x[p] /\ Alpha(x[p])
    BY <2>1 DEF ItemIn
  <2>3. 1 \in 1..Len(x) BY <2>2
  <2>4. Alpha(m_pattern[At(k) + 1 + 1]) BY <2>2, <2>3
  <2>5. m_pattern[i + 1] # "%" BY <2>4, FormatterAssumption DEF Alpha
  <2> QED BY <1>3, <2>2, <2>5 DEF Char
<1> QED BY <1>2, <1>3

\* One token more, of a known name or not.
LEMMA StrangeNext ==
    ASSUME NEW k \in Nat
    PROVE  StrangeBefore(k + 1) <=> StrangeBefore(k) \/ Strange(written[k + 1])
<1>1. 1..k + 1 = 1..k \cup {k + 1} OBVIOUS
<1> QED BY <1>1 DEF StrangeBefore

\* The characters of an item, seen from its percent sign at i.
ItemAhead(x, f, m, l, e) ==
    /\ m \in Nat /\ l \in Nat /\ e \in Nat /\ m >= 1 /\ e <= size
    /\ \A q \in i + 1..i + m : Alpha(Char(q))
    /\ SubSeq(m_pattern, i + 1, i + m) = x /\ x # <<>>
    /\ l = 0 => /\ f = <<>> /\ e = i + m
                /\ e < size => ~Alpha(Char(e + 1)) /\ ~Brace(Char(e + 1))
    /\ l # 0 => /\ e = i + m + l + 2 /\ Char(i + m + 1) = "{" /\ Char(e) = "}"
                /\ \A q \in i + m + 2..i + m + l + 1 : Char(q) # "}"
                /\ SubSeq(m_pattern, i + m + 2, i + m + l + 1) = f

TokenAhead(k) == At(k) \in Nat /\ At(k + 1) \in Nat /\ i = At(k) + 1

\* Places after the end of a token are places after the percent sign.
LEMMA OneFurther ==
    ASSUME NEW a \in Nat, NEW m \in Nat, NEW l \in Nat
    PROVE  a + m + 2 = (a + 1) + m + 1 /\ a + m + l + 3 = (a + 1) + m + l + 2
OBVIOUS

\* What stands in the pattern lies ahead of the percent sign.
LEMMA ItemLiesAhead ==
    ASSUME TypeInv, NEW k, NEW x, NEW f, ItemIn(k, x, f), TokenAhead(k)
    PROVE  ItemAhead(x, f, Len(x), Len(f), At(k + 1))
<1>0. /\ m_pattern \in Seq(Chars) /\ At(k) \in Nat /\ At(k + 1) \in Nat
      /\ i = At(k) + 1
  BY DEF TypeInv, TokenAhead
<1>1. /\ x \in Seq(Chars) /\ f \in Seq(Chars) /\ Len(x) \in Nat /\ Len(f) \in Nat /\ Len(x) >= 1
      /\ At(k + 1) <= size
      /\ \A p \in 1..Len(x) : m_pattern[At(k) + 1 + p] = x[p] /\ Alpha(x[p])
      /\ Len(f) = 0 =>
            /\ At(k + 1) = At(k) + Len(x) + 1
            /\ At(k + 1) + 1 <= size =>
                  ~Alpha(m_pattern[At(k + 1) + 1]) /\ ~Brace(m_pattern[At(k + 1) + 1])
      /\ Len(f) # 0 =>
            /\ At(k + 1) = At(k) + Len(x) + Len(f) + 3
            /\ m_pattern[At(k) + Len(x) + 2] = "{" /\ m_pattern[At(k) + Len(x) + Len(f) + 3] = "}"
            /\ \A p \in 1..Len(f) : m_pattern[At(k) + Len(x) + 2 + p] = f[p] /\ f[p] # "}"
  BY Zenon DEF ItemIn
<1>20. x \in Seq(Chars) /\ f \in Seq(Chars) /\ Len(x) \in Nat /\ Len(f) \in Nat
  BY <1>1, Zenon
<1>2. PICK m \in Nat, l \in Nat, e \in Nat : m = Len(x) /\ l = Len(f) /\ e = At(k + 1)
  BY <1>0, <1>20
<1>21. PICK a \in Nat : a = At(k) /\ i = a + 1 BY <1>0
<1>3. PICK s \in Seq(Chars) : s = m_pattern BY <1>0
<1>4. size = Len(s) /\ size \in Nat /\ i \in Nat BY <1>3, <1>21 DEF size
<1>41. size \in Nat /\ i \in Nat BY <1>4
<1>5. /\ m >= 1 /\ e <= size
      /\ \A p \in 1..m : s[i + p] = x[p] /\ Alpha(x[p])
  <2>1. m >= 1 /\ e <= size BY <1>1, <1>2
  <2>2. \A p \in 1..Len(x) : m_pattern[At(k) + 1 + p] = x[p] /\ Alpha(x[p]) BY <1>1, Zenon
  <2>3. At(k) + 1 = i BY <1>0
  <2> QED BY <1>2, <1>3, <2>1, <2>2, <2>3
<1>6. l = 0 => /\ e = i + m
               /\ e + 1 <= size => ~Alpha(s[e + 1]) /\ ~Brace(s[e + 1])
  <2>1. At(k) + Len(x) + 1 = i + m BY <1>2, <1>21
  <2> QED BY <1>1, <1>2, <1>3, <2>1
<1>7. l # 0 => /\ e = i + m + l + 2 /\ s[i + m + 1] = "{" /\ s[i + m + l + 2] = "}"
               /\ \A p \in 1..l : s[i + m + 1 + p] = f[p] /\ f[p] # "}"
  <2>1. /\ At(k) + Len(x) + 2 = i + m + 1 /\ At(k) + Len(x) + Len(f) + 3 = i + m + l + 2
    <3>1. a + m + 2 = (a + 1) + m + 1 /\ a + m + l + 3 = (a + 1) + m + l + 2
      BY OneFurther
    <3>2. a + m + 2 = i + m + 1 /\ a + m + l + 3 = i + m + l + 2 BY <1>21, <3>1, Zenon
    <3> QED BY <1>2, <1>21, <3>2, Zenon
  <2> QED BY <1>1, <1>2, <1>3, <2>1
<1>8. e <= Len(s) /\ (l # 0 => e = i + m + l + 2) /\ (l = 0 => e = i + m) BY <1>4, <1>5, <1>6, <1>7
<1>9. SubSeq(s, i + 1, i + m) = x
  <2>0. i + m <= Len(s) BY <1>4, <1>8
  <2>1. i + Len(x) <= Len(s) /\ x \in Seq(Chars) BY <1>2, <1>20, <2>0
  <2>2. \A p \in 1..Len(x) : s[i + p] = x[p] BY <1>2, <1>5
  <2>3. SubSeq(s, i + 1, i + Len(x)) = x BY <1>4, <2>1, <2>2, PartIs
  <2> QED BY <1>2, <2>3
<1>10. ASSUME l # 0 PROVE SubSeq(s, i + m + 2, i + m + l + 1) = f
  <2>1. PICK b \in Nat : b = i + m + 1 BY <1>4
  <2>20. b + l <= Len(s)
    <3>1. e <= size /\ e = i + m + l + 2 BY <1>5, <1>7, <1>10
    <3>3. b + l <= size BY <1>41, <2>1, <3>1
    <3> QED BY <1>4, <3>3
  <2>2. b + Len(f) <= Len(s) /\ f \in Seq(Chars) BY <1>2, <1>20, <2>20
  <2>3. \A p \in 1..Len(f) : s[b + p] = f[p] BY <1>2, <1>7, <1>10, <2>1
  <2>4. SubSeq(s, b + 1, b + Len(f)) = f BY <2>2, <2>3, PartIs
  <2>5. b + 1 = i + m + 2 /\ b + l = i + m + l + 1 BY <1>4, <2>1
  <2> QED BY <1>2, <2>4, <2>5
<1>11. ASSUME NEW q \in i + 1..i + m PROVE Alpha(s[q])
  <2>1. q - i \in 1..m /\ q = i + (q - i) BY <1>4
  <2> QED BY <1>5, <2>1
<1>12. ASSUME l # 0, NEW q \in i + m + 2..i + m + l + 1 PROVE s[q] # "}"
  <2>1. PICK b \in Nat : b = i + m + 1 BY <1>4
  <2>2. i + m + 2 = b + 1 /\ i + m + l + 1 = b + l BY <1>41, <2>1
  <2>3. q - b \in 1..l /\ q = b + (q - b) BY <2>2
  <2>4. s[b + (q - b)] = f[q - b] /\ f[q - b] # "}" BY <1>7, <1>12, <2>1, <2>3
  <2> QED BY <2>3, <2>4
<1>13. l = 0 => f = <<>>
  <2>1. f \in Seq(Chars) BY <1>1
  <2> QED BY <1>2, <2>1, EmptySeq
<1>14. e < size => e + 1 <= size BY <1>41
<1>16. x # <<>>
  <2>1. x \in Seq(Chars) /\ Len(x) # 0 BY <1>2, <1>5, <1>20
  <2> QED BY <2>1, EmptySeq
<1>15. ItemAhead(x, f, m, l, e)
  BY <1>3, <1>5, <1>6, <1>7, <1>9, <1>10, <1>11, <1>12, <1>13, <1>14, <1>16 DEF ItemAhead, Char
<1> QED BY <1>2, <1>15

\* Reading an item stays within it.
LEMMA ReadStep ==
    ASSUME ParseInv, NEW x, NEW f, NEW m, NEW l, NEW e, ItemAhead(x, f, m, l, e),
           ReadOf(x, f, m, l, e), NameEnd \/ Open \/ Close \/ Advance \/ InnerEnd
    PROVE  ReadOf(x, f, m, l, e)'
<1>1. /\ m \in Nat /\ l \in Nat /\ e \in Nat /\ m >= 1 /\ e <= size
      /\ \A q \in i + 1..i + m : Alpha(Char(q))
      /\ SubSeq(m_pattern, i + 1, i + m) = x
      /\ l = 0 => /\ f = <<>> /\ e = i + m
                  /\ e < size => ~Alpha(Char(e + 1)) /\ ~Brace(Char(e + 1))
      /\ l # 0 => /\ e = i + m + l + 2 /\ Char(i + m + 1) = "{" /\ Char(e) = "}"
                  /\ \A q \in i + m + 2..i + m + l + 1 : Char(q) # "}"
                  /\ SubSeq(m_pattern, i + m + 2, i + m + l + 1) = f
  BY DEF ItemAhead
<1>11. /\ m \in Nat /\ l \in Nat /\ e \in Nat /\ m >= 1 /\ e <= size
       /\ l = 0 => e = i + m
       /\ l # 0 => e = i + m + l + 2
  BY <1>1
<1>13. /\ l = 0 /\ e < size => ~Alpha(Char(e + 1)) /\ ~Brace(Char(e + 1))
       /\ l # 0 => Char(i + m + 1) = "{" /\ Char(e) = "}"
  BY <1>1
<1>2. /\ pc = "inner" /\ fmt_status = 0 => n <= i + 1 + m
      /\ pc = "inner" /\ fmt_status = 1 =>
            l # 0 /\ str = x /\ fmt_begin = i + 1 + m /\ n <= fmt_begin + 1 + l
  BY DEF ReadOf
<1>3. /\ size \in Nat /\ i \in Nat /\ n \in Nat /\ i < n /\ n <= size + 1
      /\ fmt_status \in {0, 1} /\ fmt_begin \in Nat
      /\ pc = "inner" => /\ fmt = <<>>
                         /\ fmt_status = 0 =>
                               str = IF n <= size THEN <<>> ELSE SubSeq(m_pattern, i + 1, n - 1)
                         /\ fmt_status = 1 => fmt_begin < n
  <2>1. /\ size \in Nat /\ i \in Nat /\ n \in Nat /\ fmt_status \in {0, 1} /\ fmt_begin \in Nat
    BY DEF ParseInv, TypeInv, size
  <2>2. pc \in {"inner", "emit"}
    BY DEF NameEnd, Open, Close, Advance, Ordinary, InnerEnd, InName, InFormat
  <2>3. i < n /\ n <= size + 1 BY <2>2 DEF ParseInv, Places
  <2>4. pc = "inner" => /\ fmt = <<>>
                        /\ fmt_status = 0 =>
                              str = IF n <= size THEN <<>> ELSE SubSeq(m_pattern, i + 1, n - 1)
                        /\ fmt_status = 1 => fmt_begin < n
    BY DEF ParseInv, Reading
  <2> QED BY <2>1, <2>3, <2>4
<1>31. /\ size \in Nat /\ i \in Nat /\ n \in Nat /\ i < n /\ n <= size + 1
       /\ fmt_begin \in Nat /\ (pc = "inner" /\ fmt_status = 1 => fmt_begin < n)
  BY <1>3
<1>4. ~Alpha("{") /\ ~Alpha("}") BY FormatterAssumption DEF Alpha
<1> SUFFICES /\ pc' = "inner" /\ fmt_status' = 0 => n' <= i' + 1 + m
             /\ pc' = "inner" /\ fmt_status' = 1 =>
                   l # 0 /\ str' = x /\ fmt_begin' = i' + 1 + m /\ n' <= fmt_begin' + 1 + l
             /\ pc' = "emit" => fmt_status' = 0 /\ str' = x /\ fmt' = f /\ n' = e + 1
  BY DEF ReadOf
<1>5. ASSUME pc = "inner", fmt_status = 0, n <= size, ~Alpha(Char(n))
      PROVE  n = i + m + 1
  <2>1. n \notin i + 1..i + m BY <1>1, <1>5
  <2>2. n <= i + 1 + m BY <1>2, <1>5
  <2> QED BY <1>11, <1>31, <2>1, <2>2
<1>6. CASE NameEnd
  <2>1. /\ pc = "inner" /\ n <= size /\ fmt_status = 0 /\ ~Alpha(Char(n)) /\ ~Brace(Char(n))
        /\ str' = SubSeq(m_pattern, i + 1, n - 1) /\ pc' = "emit" /\ i' = i /\ n' = n
        /\ fmt' = fmt /\ fmt_status' = fmt_status
    BY <1>6 DEF NameEnd, InName, NameEnds
  <2>2. n = i + m + 1 BY <1>5, <2>1
  <2>3. l = 0 BY <1>1, <2>1, <2>2 DEF Brace
  <2>4. n - 1 = i + m /\ n = e + 1 BY <1>11, <1>31, <2>2, <2>3
  <2> QED BY <1>1, <1>3, <2>1, <2>3, <2>4
<1>7. CASE Open
  <2>1. /\ pc = "inner" /\ n <= size /\ fmt_status = 0 /\ Char(n) = "{"
        /\ str' = SubSeq(m_pattern, i + 1, n - 1) /\ pc' = pc /\ i' = i /\ n' = n + 1
        /\ fmt_status' = 1 /\ fmt_begin' = n
    BY <1>7 DEF Open, InName
  <2>2. n = i + m + 1 BY <1>4, <1>5, <2>1
  <2>3. l # 0
    <3>1. Brace(Char(n)) BY <2>1 DEF Brace
    <3>2. ASSUME l = 0 PROVE FALSE
      <4>1. e + 1 = n /\ e < size
        <5>1. n <= size BY <2>1
        <5> QED BY <1>11, <1>31, <2>2, <3>2, <5>1
      <4> QED BY <1>1, <3>1, <3>2, <4>1
    <3> QED BY <3>2
  <2>4. n - 1 = i + m /\ n = i + 1 + m /\ n + 1 <= n + 1 + l BY <1>11, <1>31, <2>2
  <2>5. str' = x BY <1>1, <2>1, <2>4
  <2>6. pc' = "inner" /\ fmt_status' = 1 /\ i' = i /\ n' = n + 1 /\ fmt_begin' = n BY <2>1
  <2> QED BY <2>3, <2>4, <2>5, <2>6
<1>8. ASSUME pc = "inner", fmt_status = 1, n <= size, Char(n) = "}"
      PROVE  n = e
  <2>1. l # 0 /\ fmt_begin = i + 1 + m /\ n <= fmt_begin + 1 + l BY <1>2, <1>8
  <2>2. n \notin i + m + 2..i + m + l + 1 BY <1>1, <1>8, <2>1
  <2>3. l \in Nat /\ m \in Nat /\ fmt_begin < n /\ e = i + m + l + 2 BY <1>11, <1>31, <1>8, <2>1
  <2> QED BY <1>31, <2>1, <2>2, <2>3
<1>9. CASE Close
  <2>1. /\ pc = "inner" /\ n <= size /\ fmt_status = 1 /\ Char(n) = "}"
        /\ fmt' = SubSeq(m_pattern, fmt_begin + 1, n - 1) /\ fmt_status' = 0
        /\ n' = n + 1 /\ pc' = "emit" /\ i' = i /\ str' = str
    BY <1>9 DEF Close, InFormat
  <2>2. n = e BY <1>8, <2>1
  <2>3. l # 0 /\ str = x /\ fmt_begin = i + 1 + m BY <1>2, <2>1
  <2>4. fmt_begin + 1 = i + m + 2 /\ n - 1 = i + m + l + 1 BY <1>11, <1>31, <2>2, <2>3
  <2>5. fmt' = f BY <1>1, <2>1, <2>3, <2>4
  <2>6. n' = e + 1 /\ pc' = "emit" /\ fmt_status' = 0 /\ str' = x BY <2>1, <2>2, <2>3
  <2>7. pc' # "inner" BY <2>6
  <2>8. fmt_status' = 0 /\ str' = x /\ fmt' = f /\ n' = e + 1 BY <2>5, <2>6
  <2> QED BY <2>7, <2>8, Zenon
<1>10. CASE Advance
  <2>1. /\ pc = "inner" /\ n <= size /\ n' = n + 1 /\ pc' = pc /\ i' = i
        /\ fmt_status' = fmt_status /\ fmt_begin' = fmt_begin
        /\ str # <<>> => str' = str
    BY <1>10 DEF Advance, Ordinary, InName, InFormat
  <2>2. CASE InName /\ ~NameEnds /\ Char(n) # "{"
    <3>0. fmt_status = 0 BY <2>2 DEF InName
    <3>1. n # i + m + 1
      <4>1. ASSUME n = i + m + 1, l = 0 PROVE FALSE
        <5>1. n <= size BY <2>1
        <5>2. n = e + 1 /\ e < size BY <1>11, <1>31, <4>1, <5>1
        <5>3. NameEnds BY <1>13, <4>1, <5>2 DEF NameEnds
        <5> QED BY <2>2, <5>3
      <4>2. ASSUME n = i + m + 1, l # 0 PROVE FALSE
        <5>1. Char(n) = "{" BY <1>13, <4>2
        <5> QED BY <2>2, <5>1
      <4> QED BY <4>1, <4>2
    <3>2. n <= i + 1 + m BY <1>2, <2>1, <3>0
    <3>3. n + 1 <= i + 1 + m BY <1>11, <1>31, <3>1, <3>2
    <3>4. pc' = "inner" /\ fmt_status' = 0 /\ i' = i /\ n' = n + 1 BY <2>1, <3>0
    <3> QED BY <3>3, <3>4
  <2>3. CASE InFormat /\ Char(n) # "}"
    <3>0. fmt_status = 1 BY <2>3 DEF InFormat
    <3>1. l # 0 /\ str = x /\ fmt_begin = i + 1 + m /\ n <= fmt_begin + 1 + l
      BY <1>2, <2>1, <3>0
    <3>2. l # 0 /\ fmt_begin = i + 1 + m /\ n <= fmt_begin + 1 + l BY <3>1
    <3>3. Char(e) = "}" BY <1>13, <3>2
    <3>4. n # e BY <2>3, <3>3
    <3>5. e = i + m + l + 2 BY <1>11, <3>2
    <3>6. n + 1 <= fmt_begin + 1 + l BY <1>11, <1>31, <3>2, <3>4, <3>5
    <3>7. str' = x
      <4>1. x # <<>> BY DEF ItemAhead
      <4> QED BY <2>1, <3>1, <4>1
    <3>8. /\ pc' = "inner" /\ fmt_status' = 1 /\ i' = i /\ n' = n + 1
          /\ fmt_begin' = fmt_begin
      BY <2>1, <3>0
    <3> QED BY <3>2, <3>6, <3>7, <3>8
  <2> QED BY <1>10, <2>2, <2>3 DEF Advance, Ordinary
<1>12. CASE InnerEnd
  <2>1. /\ pc = "inner" /\ n > size /\ pc' = "emit" /\ i' = i /\ n' = n /\ str' = str
        /\ fmt' = fmt /\ fmt_status' = fmt_status
    BY <1>12 DEF InnerEnd, item
  <2>2. fmt_status = 0
    <3>1. ASSUME fmt_status = 1 PROVE FALSE
      <4>1. l # 0 /\ fmt_begin = i + 1 + m /\ n <= fmt_begin + 1 + l BY <1>2, <2>1, <3>1
      <4>2. e = i + m + l + 2 /\ n > size BY <1>11, <2>1, <4>1
      <4>3. fmt_begin = i + 1 + m /\ n <= fmt_begin + 1 + l BY <4>1
      <4> QED BY <1>11, <1>31, <4>2, <4>3
    <3> QED BY <1>3, <3>1
  <2>3. n <= i + 1 + m BY <1>2, <2>1, <2>2
  <2>31. n > size BY <2>1
  <2>4. l = 0 BY <1>11, <1>31, <2>31, <2>3
  <2>5. n = e + 1 /\ n - 1 = i + m BY <1>11, <1>31, <2>31, <2>3, <2>4
  <2>6. str = SubSeq(m_pattern, i + 1, n - 1) /\ fmt = <<>> BY <1>3, <2>1, <2>2
  <2> QED BY <1>1, <2>1, <2>2, <2>4, <2>5, <2>6
<1> QED BY <1>6, <1>7, <1>9, <1>10, <1>12

\* A token that is taken makes the line longer.
LEMMA OneMoreToken ==
    ASSUME PatternInv, Documented, WellFormed(written), NEW k \in 0..Len(written), k < Len(written),
           input' = input, pc' = "outer", i' = At(k + 1) + 1, m_error' = FALSE,
           vec' \in Seq(Shapes), format(vec') \o nstr' = Line(k) \o Text(written[k + 1]),
           StrangeIn(vec') <=> StrangeBefore(k) \/ Strange(written[k + 1])
    PROVE  k + 1 \in 0..Len(written) /\ TokensTaken(k + 1)'
<1>1. k + 1 \in 0..Len(written)
  <2>1. Len(written) \in Nat BY PiecesType
  <2> QED BY <2>1
<1>2. Line(k + 1) = Line(k) \o Text(written[k + 1]) BY LineGrows
<1>3. StrangeBefore(k + 1) <=> StrangeBefore(k) \/ Strange(written[k + 1])
  <2>1. k \in Nat OBVIOUS
  <2> QED BY <2>1, StrangeNext
<1>4. /\ At(k + 1)' = At(k + 1) /\ Line(k + 1)' = Line(k + 1)
      /\ StrangeBefore(k + 1)' <=> StrangeBefore(k + 1)
  BY PatternStays
<1>5. i' = At(k + 1)' + 1 BY <1>4
<1>6. format(vec') \o nstr' = Line(k + 1)' BY <1>2, <1>4
<1>7. StrangeIn(vec') <=> StrangeBefore(k + 1)' BY <1>3, <1>4
<1>8. pc' \notin {"inner", "emit"} /\ pc' # "done" OBVIOUS
<1> QED BY <1>1, <1>5, <1>6, <1>7, <1>8 DEF TokensTaken, StrangeIn

\* A character outside of items takes the next literal.
LEMMA LiteralTaken ==
    ASSUME PatternInv, Documented, WellFormed(written), ParseInv,
           NEW k \in 0..Len(written), TokensTaken(k), Literal
    PROVE  k + 1 \in 0..Len(written) /\ TokensTaken(k + 1)'
<1>1. /\ pc = "outer" /\ i <= size /\ nstr' = Append(nstr, Char(i)) /\ i' = i + 1
      /\ input' = input /\ vec' = vec /\ m_error' = m_error /\ pc' = "outer"
      /\ Char(i) # "%" \/ (i < size /\ Char(i + 1) = "%")
  BY DEF Literal, input
<1>2. i = At(k) + 1 /\ vec \in Seq(Shapes) /\ format(vec) \o nstr = Line(k)
      /\ (StrangeIn(vec) <=> StrangeBefore(k)) /\ (m_error <=> pc = "done" /\ StrangeBefore(k))
  BY DEF TokensTaken
<1>3. k < Len(written) BY <1>1, <1>2, TokenOrEnd
<1>4. ~written[k + 1].item BY <1>1, <1>2, PercentIsItem
<1>5. At(k + 1) = At(k) + 1 /\ Text(written[k + 1]) = <<m_pattern[At(k) + 1]>>
  BY <1>3, <1>4, LiteralStands
<1>6. Text(written[k + 1]) = <<Char(i)>> BY <1>2, <1>5 DEF Char
<1>7. i' = At(k + 1) + 1 /\ m_error' = FALSE
  <2>1. pc # "done" BY <1>1
  <2>2. m_error \in BOOLEAN BY DEF ParseInv, TypeInv
  <2> QED BY <1>1, <1>2, <1>5, <2>1, <2>2
<1>8. format(vec') \o nstr' = Line(k) \o Text(written[k + 1])
  <2>1. PICK a \in Seq(Shown) : a = format(vec) BY <1>2, FormatType
  <2>2. PICK c \in Chars : c = Char(i)
    <3>1. m_pattern \in Seq(Chars) /\ i \in 1..Len(m_pattern)
      BY <1>1 DEF ParseInv, TypeInv, size
    <3> QED BY <3>1, ElementOfSeq DEF Char
  <2>3. c \in Shown BY <2>2 DEF Shown
  <2>4. PICK s \in Seq(Chars) : s = nstr BY DEF ParseInv, TypeInv
  <2>5. s \in Seq(Shown)
    <3>1. Chars \subseteq Shown BY DEF Shown
    <3> QED BY <3>1
  <2>6. a \o Append(s, c) = Append(a \o s, c) /\ a \o s \in Seq(Shown)
    BY <2>3, <2>5, ConcatAppend
  <2>7. Append(a \o s, c) = (a \o s) \o <<c>> BY <2>3, <2>6, AppendIsConcat
  <2> QED BY <1>1, <1>2, <1>6, <2>1, <2>2, <2>4, <2>6, <2>7
<1>9. StrangeIn(vec') <=> StrangeBefore(k) \/ Strange(written[k + 1])
  BY <1>1, <1>2, <1>4 DEF Strange
<1> QED BY <1>1, <1>2, <1>3, <1>7, <1>8, <1>9, OneMoreToken

\* The end of an item takes it, with its name and format.
LEMMA ItemTaken ==
    ASSUME PatternInv, Documented, WellFormed(written), ParseInv,
           NEW k \in 0..Len(written), TokensTaken(k), Emit
    PROVE  k + 1 \in 0..Len(written) /\ TokensTaken(k + 1)'
<1>1. /\ pc = "emit" /\ vec' = Append(Flushed, Item(str, fmt)) /\ nstr' = <<>> /\ i' = n
      /\ pc' = "outer" /\ input' = input /\ m_error' = m_error
  BY DEF Emit, input
<1>2. i = At(k) + 1 /\ vec \in Seq(Shapes) /\ format(vec) \o nstr = Line(k)
      /\ (StrangeIn(vec) <=> StrangeBefore(k)) /\ (m_error <=> pc = "done" /\ StrangeBefore(k))
  BY DEF TokensTaken
<1>3. PICK x \in Names, f \in Fmts : ItemIn(k, x, f) /\ ReadOf(x, f, Len(x), Len(f), At(k + 1))
  BY <1>1 DEF TokensTaken
<1>4. k < Len(written) BY <1>1 DEF TokensTaken
<1>5. str = x /\ fmt = f /\ n = At(k + 1) + 1 BY <1>1, <1>3 DEF ReadOf
<1>6. written[k + 1] = Item(x, f) BY <1>3 DEF ItemIn
<1>7. PICK t \in Shapes : t = written[k + 1] /\ t = Item(str, fmt)
  <2>1. PICK w \in Seq(Shapes) : w = written BY WrittenShapes
  <2>2. k + 1 \in 1..Len(w) BY <1>4, <2>1
  <2>3. w[k + 1] \in Shapes BY <2>2, ElementOfSeq
  <2> QED BY <1>5, <1>6, <2>1, <2>3
<1>8. nstr \in Seq(Chars) BY DEF ParseInv, TypeInv
<1>9. PICK v \in Seq(Shapes) :
          /\ v = Flushed /\ format(v) = format(vec) \o nstr
          /\ \A u : u.item => (u \in ToSet(v) <=> u \in ToSet(vec))
  BY <1>2, <1>8, FlushedShows
<1>10. vec' = Append(v, t) BY <1>1, <1>7, <1>9
<1>11. vec' \in Seq(Shapes) /\ format(vec') = format(v) \o Text(t) BY <1>10, FormatAppend
<1>12. format(vec') \o nstr' = Line(k) \o Text(written[k + 1])
  <2>1. PICK a \in Seq(Shown) : a = format(vec') BY <1>11, FormatType
  <2>2. a \o <<>> = a BY ConcatEmptySeq
  <2> QED BY <1>1, <1>2, <1>7, <1>9, <1>11, <2>1, <2>2
<1>13. StrangeIn(vec') <=> StrangeBefore(k) \/ Strange(written[k + 1])
  <2>1. ToSet(vec') = ToSet(v) \cup {t} BY <1>10, ToSetAppend
  <2>2. StrangeIn(vec') <=> StrangeIn(v) \/ Strange(t) BY <2>1 DEF StrangeIn
  <2>3. StrangeIn(v) <=> StrangeIn(vec) BY <1>9 DEF StrangeIn, Strange
  <2> QED BY <1>2, <1>7, <2>2, <2>3
<1>14. m_error' = FALSE
  <2>1. pc # "done" BY <1>1
  <2>2. m_error \in BOOLEAN BY DEF ParseInv, TypeInv
  <2> QED BY <1>1, <1>2, <2>1, <2>2
<1>15. i' = At(k + 1) + 1 BY <1>1, <1>5
<1> QED BY <1>1, <1>4, <1>11, <1>12, <1>13, <1>14, <1>15, OneMoreToken

\* Within a token nothing of the line changes.
LEMMA SameToken ==
    ASSUME PatternInv, NEW k \in 0..Len(written), TokensTaken(k),
           input' = input, i' = i, vec' = vec, nstr' = nstr, m_error' = m_error,
           pc # "done", pc' # "done",
           pc' \in {"inner", "emit"} =>
              k < Len(written) /\ \E x \in Names, f \in Fmts :
                 ItemIn(k, x, f) /\ ReadOf(x, f, Len(x), Len(f), At(k + 1))'
    PROVE  TokensTaken(k)'
<1>1. /\ i = At(k) + 1 /\ vec \in Seq(Shapes) /\ format(vec) \o nstr = Line(k)
      /\ (StrangeIn(vec) <=> StrangeBefore(k)) /\ (m_error <=> pc = "done" /\ StrangeBefore(k))
  BY DEF TokensTaken
<1>2. /\ At(k)' = At(k) /\ Line(k)' = Line(k) /\ (StrangeBefore(k)' <=> StrangeBefore(k))
      /\ Len(written)' = Len(written)
      /\ \A x, f : ItemIn(k, x, f)' <=> ItemIn(k, x, f)
  BY PatternStays
<1>3. i' = At(k)' + 1 /\ vec' \in Seq(Shapes) BY <1>1, <1>2
<1>4. format(vec') \o nstr' = Line(k)' BY <1>1, <1>2
<1>5. StrangeIn(vec)' <=> StrangeBefore(k)' BY <1>1, <1>2 DEF StrangeIn
<1>6. m_error' <=> pc' = "done" /\ StrangeBefore(k)' BY <1>1
<1>7. pc' \in {"inner", "emit"} =>
         /\ k < Len(written)'
         /\ \E x \in Names, f \in Fmts :
               ItemIn(k, x, f)' /\ ReadOf(x, f, Len(x), Len(f), At(k + 1))'
  BY <1>2
<1> QED BY <1>3, <1>4, <1>5, <1>6, <1>7 DEF TokensTaken

\* A percent sign begins the next item.
LEMMA ItemBegun ==
    ASSUME PatternInv, Documented, WellFormed(written), ParseInv,
           NEW k \in 0..Len(written), TokensTaken(k), ItemBegin
    PROVE  TokensTaken(k)'
<1>1. /\ pc = "outer" /\ i <= size /\ Char(i) = "%" /\ n' = i + 1 /\ fmt_status' = 0
      /\ pc' = "inner" /\ input' = input /\ i' = i /\ nstr' = nstr /\ vec' = vec
      /\ m_error' = m_error
  BY DEF ItemBegin, input
<1>2. i = At(k) + 1 BY DEF TokensTaken
<1>3. k < Len(written) BY <1>1, <1>2, TokenOrEnd
<1>4. written[k + 1].item BY <1>1, <1>2, PercentIsItem
<1>5. PICK x \in Names, f \in Fmts : ItemIn(k, x, f) BY <1>3, <1>4, ItemStands
<1>6. Len(x) \in Nat BY <1>5 DEF ItemIn
<1>7. PICK m \in Nat : m = Len(x) BY <1>6
<1>8. i \in Nat BY DEF ParseInv, TypeInv
<1>9. n' <= i' + 1 + m BY <1>1, <1>7, <1>8
<1>10. ReadOf(x, f, Len(x), Len(f), At(k + 1))'
  <2>1. pc' # "emit" /\ fmt_status' # 1 BY <1>1
  <2>2. Len(x)' = m BY <1>7
  <2> QED BY <1>9, <2>1, <2>2, Zenon DEF ReadOf
<1>11. pc # "done" /\ pc' # "done" BY <1>1
<1> QED BY <1>1, <1>3, <1>5, <1>10, <1>11, SameToken

\* While an item is read no token is taken.
LEMMA ItemGoesOn ==
    ASSUME PatternInv, Documented, WellFormed(written), ParseInv,
           NEW k \in 0..Len(written), TokensTaken(k),
           NameEnd \/ Open \/ Close \/ Advance \/ InnerEnd
    PROVE  TokensTaken(k)'
<1>1. /\ pc = "inner" /\ pc' \in {"inner", "emit"} /\ input' = input /\ i' = i
      /\ nstr' = nstr /\ vec' = vec /\ m_error' = m_error
  BY DEF NameEnd, Open, Close, Advance, Ordinary, InnerEnd, InName, InFormat, input
<1>2. k < Len(written) BY <1>1 DEF TokensTaken
<1>3. PICK x \in Names, f \in Fmts :
          ItemIn(k, x, f) /\ ReadOf(x, f, Len(x), Len(f), At(k + 1))
  BY <1>1 DEF TokensTaken
<1>4. TokenAhead(k)
  <2>1. Len(written) \in Nat BY PiecesType
  <2>2. k + 1 \in 0..Len(written) BY <1>2, <2>1
  <2>3. At(k) \in Nat /\ At(k + 1) \in Nat BY <2>2, TokenPlaces
  <2> QED BY <2>3 DEF TokenAhead, TokensTaken
<1>5. ItemAhead(x, f, Len(x), Len(f), At(k + 1))
  <2>1. TypeInv BY DEF ParseInv
  <2> QED BY <1>3, <1>4, <2>1, ItemLiesAhead
<1>6. PICK m, l, e : m = Len(x) /\ l = Len(f) /\ e = At(k + 1) OBVIOUS
<1>7. ReadOf(x, f, m, l, e)'
  <2>1. ItemAhead(x, f, m, l, e) /\ ReadOf(x, f, m, l, e) BY <1>3, <1>5, <1>6
  <2> QED BY <2>1, ReadStep
<1>8. ReadOf(x, f, Len(x), Len(f), At(k + 1))'
  <2>1. At(k + 1)' = e BY <1>1, <1>6, PatternStays
  <2> QED BY <1>6, <1>7, <2>1
<1>9. pc # "done" /\ pc' # "done" BY <1>1
<1> QED BY <1>1, <1>2, <1>3, <1>8, <1>9, SameToken

\* The last string completes the line, and unknown names are errors.
LEMMA LineFinished ==
    ASSUME PatternInv, Documented, WellFormed(written), ParseInv,
           NEW k \in 0..Len(written), TokensTaken(k), Finish
    PROVE  TokensTaken(k)'
<1>1. /\ pc = "outer" /\ i > size /\ vec' = Flushed /\ nstr' = <<>> /\ pc' = "done"
      /\ input' = input /\ i' = i
      /\ m_error' = (m_error \/ \E t \in ToSet(vec) : t.item /\ ~Known(t.str))
  BY DEF Finish, input
<1>2. /\ i = At(k) + 1 /\ vec \in Seq(Shapes) /\ format(vec) \o nstr = Line(k)
      /\ (StrangeIn(vec) <=> StrangeBefore(k)) /\ (m_error <=> pc = "done" /\ StrangeBefore(k))
  BY DEF TokensTaken
<1>3. k = Len(written) BY <1>1, <1>2, TokenOrEnd
<1>4. /\ At(k)' = At(k) /\ Line(k)' = Line(k) /\ (StrangeBefore(k)' <=> StrangeBefore(k))
      /\ Len(written)' = Len(written)
  BY <1>1, PatternStays
<1>5. nstr \in Seq(Chars) BY DEF ParseInv, TypeInv
<1>6. PICK v \in Seq(Shapes) :
          /\ v = Flushed /\ format(v) = format(vec) \o nstr
          /\ \A u : u.item => (u \in ToSet(v) <=> u \in ToSet(vec))
  BY <1>2, <1>5, FlushedShows
<1>7. vec' = v BY <1>1, <1>6
<1>8. format(vec') \o nstr' = Line(k)'
  <2>1. PICK a \in Seq(Shown) : a = format(v) BY FormatType
  <2>2. a \o <<>> = a BY ConcatEmptySeq
  <2> QED BY <1>1, <1>2, <1>4, <1>6, <1>7, <2>1, <2>2
<1>9. StrangeIn(v) <=> StrangeIn(vec) BY <1>6 DEF StrangeIn, Strange
<1>10. StrangeIn(vec)' <=> StrangeBefore(k)' BY <1>2, <1>4, <1>7, <1>9 DEF StrangeIn
<1>11. m_error' <=> StrangeBefore(k)'
  <2>1. pc # "done" BY <1>1
  <2>2. m_error' <=> StrangeIn(vec) BY <1>1, <1>2, <2>1 DEF StrangeIn, Strange
  <2> QED BY <1>2, <1>4, <2>2
<1>12. i' = At(k)' + 1 /\ k = Len(written)' /\ vec' \in Seq(Shapes) BY <1>1, <1>2, <1>3, <1>4, <1>7
<1>13. pc' = "done" /\ pc' \notin {"inner", "emit"} BY <1>1
<1> QED BY <1>1, <1>8, <1>10, <1>11, <1>12, <1>13 DEF TokensTaken

\* Every step keeps the items with the tokens.
LEMMA ShowStep == Documented /\ ParseInv /\ ShowInv /\ [Next]_vars => ShowInv'
<1> SUFFICES ASSUME Documented, ParseInv, ShowInv, [Next]_vars PROVE ShowInv'
  OBVIOUS
<1>1. input' = input
  BY DEF Next, vars, Literal, ItemBegin, NameEnd, Open, Close, Advance, InnerEnd, Emit,
         EmitError, Finish
<1>2. PatternInv BY DEF ShowInv
<1>3. /\ PatternInv' /\ (WellFormed(written)' <=> WellFormed(written))
      /\ Len(written)' = Len(written)
  BY <1>1, <1>2, PatternStays
<1> SUFFICES ASSUME WellFormed(written)
             PROVE  \E k \in 0..Len(written) : TokensTaken(k)'
  BY <1>3 DEF ShowInv
<1>4. PICK k \in 0..Len(written) : TokensTaken(k) BY DEF ShowInv
<1>5. CASE Literal BY <1>2, <1>4, <1>5, LiteralTaken
<1>6. CASE ItemBegin BY <1>2, <1>4, <1>6, ItemBegun
<1>7. CASE NameEnd \/ Open \/ Close \/ Advance \/ InnerEnd
  BY <1>2, <1>4, <1>7, ItemGoesOn
<1>8. CASE Emit BY <1>2, <1>4, <1>8, ItemTaken
<1>9. CASE EmitError
  <2>1. pc = "emit" /\ fmt_status = 1 BY <1>9 DEF EmitError
  <2>2. fmt_status = 0 BY <1>4, <2>1 DEF TokensTaken, ReadOf
  <2> QED BY <2>1, <2>2
<1>10. CASE Finish BY <1>2, <1>4, <1>10, LineFinished
<1>11. CASE UNCHANGED vars
  <2>1. \A j : TokensTaken(j)' <=> TokensTaken(j)
    BY <1>11 DEF vars, item, input, TokensTaken, At, Pieces, Line, Texts, ItemIn, ReadOf, size,
                 StrangeIn, StrangeBefore, format
  <2> QED BY <1>4, <2>1
<1> QED BY <1>5, <1>6, <1>7, <1>8, <1>9, <1>10, <1>11 DEF Next

\* The pattern is that of the tokens.
LEMMA PatternInit == Init => PatternInv
BY DEF Init, PatternInv, Pieces, SeqOf

(***************************************************************************)
(* A pattern made of literals and of items, as long as it may be, is       *)
(* accepted if every name is known, and a line then has the literals and   *)
(* the fields, with their formats, as they were written: the loops of init *)
(* cut the pattern where its tokens end.                                   *)
(***************************************************************************)
THEOREM LinesAsWritten ==
    ASSUME Documented PROVE Spec => []Rendered
<1>1. Init => ShowInv BY PatternInit, TokensInit
<1>2. ParseInv /\ [Next]_vars => ParseInv'
  BY ParseTypeStep, PlacesStep, TakenStep DEF ParseInv
<1>3. ParseInv /\ ShowInv /\ [Next]_vars => ShowInv' BY ShowStep
<1>4. ShowInv => Rendered
  <2> SUFFICES ASSUME ShowInv, pc = "done", WellFormed(written)
               PROVE  /\ m_error <=> \E k \in ToSet(written) : k.item /\ ~Known(k.str)
                      /\ format(vec) = format(written)
                      /\ "undefined" \notin ToSet(format(vec))
    BY DEF Rendered
  <2>1. PICK k \in 0..Len(written) : TokensTaken(k) BY DEF ShowInv
  <2>2. PatternInv BY DEF ShowInv
  <2>3. /\ k = Len(written) /\ nstr = <<>> /\ vec \in Seq(Shapes)
        /\ format(vec) \o nstr = Line(k) /\ (m_error <=> StrangeBefore(k))
    BY <2>1 DEF TokensTaken
  <2>4. PICK w \in Seq(Shapes) : w = written BY <2>2, WrittenShapes
  <2>5. StrangeBefore(k) <=> StrangeIn(w)
    <3>1. DOMAIN w = 1..k BY <2>3, <2>4
    <3> QED BY <2>4, <3>1 DEF StrangeBefore, StrangeIn, ToSet
  <2>6. PICK a \in Seq(Shown) : a = format(vec) BY <2>3, FormatType
  <2>7. a \o <<>> = a BY ConcatEmptySeq
  <2>8. Line(k) = format(written) BY <2>2, <2>3, LineGrows
  <2>9. "undefined" \notin ToSet(a)
    <3>1. \A p \in DOMAIN a : a[p] \in Shown BY ElementOfSeq, LenProperties
    <3> QED BY <3>1, NothingUndefined DEF ToSet
  <2> QED BY <2>3, <2>4, <2>5, <2>6, <2>7, <2>8, <2>9 DEF StrangeIn, Strange
<1> QED BY <1>1, <1>2, <1>3, <1>4, ParseInit, PTL DEF Spec
=============================================================================
