--------------------------- MODULE LogConfigProofs ---------------------------
(***************************************************************************)
(* Loggers follow their configuration, for every number of loggers and     *)
(* texts.                                                                  *)
(***************************************************************************)
EXTENDS LogConfig, SequenceLemmas

-----------------------------------------------------------------------------
Values == [Names -> LogDefines \cup {Absent}]
CallSet ==
    [do : {"setLevel", "clearAppenders"}, name : Names, v : Nat]
      \cup [do : {"setFormatter"}, name : Names, v : STRING]
      \cup [do : {"addAppender"}, name : Names, v : AppenderDefines]

\* The calls the listener makes for one name.
CallsFor(old, new, x) ==
    CASE new[x] # Absent /\ ~Equal(old[x], new[x]) -> Update(x, new[x])
      [] new[x] = Absent /\ old[x] # Absent -> Retire(x)
      [] OTHER -> <<>>

\* In q the calls for x are those of u, one after the other.
Block(q, x, u) ==
    \E lo \in 0..Len(q) :
        /\ lo + Len(u) <= Len(q)
        /\ \A j \in DOMAIN u : q[lo + j] = u[j]
        /\ \A k \in DOMAIN q : k <= lo \/ k > lo + Len(u) => q[k].name # x

\* The value of the variable is one that was loaded.
Loadable(v) ==
    \/ v = [x \in Names |-> Absent]
    \/ \E text \in Texts : ~Throws(text) /\ v = Parsed(text)

\* Where setFormatter is in the calls of Update, if it is there.
HasFormat(d) == IF d.formatter = None THEN 0 ELSE 1

AppenderMatches(a, def, formatter) ==
    /\ a.type = def.type /\ a.file = def.file /\ a.level = def.level
    /\ a.own = Valid(def.formatter)
    /\ a.formatter = IF Valid(def.formatter) THEN def.formatter ELSE formatter

\* A logger after the first n calls for its name: those of Update, or of Retire.
Progress(lg, d, n) ==
    IF d = Absent THEN n = 2 => lg.appenders = <<>>
    ELSE LET h == HasFormat(d) IN
         /\ lg.formatter \notin Bad
         /\ n >= 1 => lg.level = d.level
         /\ n >= 1 + h /\ Valid(d.formatter) => lg.formatter = d.formatter
         /\ n >= 2 + h =>
              /\ Len(lg.appenders) = n - 2 - h
              /\ \A p \in DOMAIN lg.appenders :
                    AppenderMatches(lg.appenders[p], d.appenders[p], lg.formatter)

\* Of a logger x while its configuration becomes new instead of old, with the
\* calls of q to come: either it is left as it is, or the first n of the calls
\* for it have been made.
Underway(q, x, lg, old, new) ==
    LET u == CallsFor(old, new, x) IN
    \E n \in 0..Len(u) : /\ Block(q, x, SubSeq(u, n + 1, Len(u)))
                         /\ Progress(lg, new[x], n)
Following(q, x, lg, old, new) ==
    IF Equal(old[x], new[x]) THEN Matches(lg, new[x]) /\ Block(q, x, <<>>)
    ELSE Underway(q, x, lg, old, new)

\* No logger has a formatter with an error; outside of the listener the loggers
\* are as the last text says, and in it they are on their way.
MatchInv ==
    /\ \A x \in Names : loggers[x].formatter \notin Bad
    /\ Loadable(m_val)
    /\ \A t \in Setters :
        /\ Loadable(arg[t])
        /\ pc[t] = "idle" => m_val = arg[t]
        /\ pc[t] # "notify" => \A x \in Names : Matches(loggers[x], arg[t][x])
        /\ pc[t] = "notify" =>
              \A x \in Names : Following(todo[t], x, loggers[x], m_val, arg[t])

Strings == STRING \cup {Stdout, None, Default}
AppenderStates == [type : Strings, file : Strings, level : Nat, own : BOOLEAN, formatter : Strings]
LoggerStates == [level : Nat, formatter : Strings, appenders : Seq(AppenderStates)]

\* The variables keep their types.
TypeInv ==
    /\ m_val \in Values /\ arg \in [Setters -> Values]
    /\ loggers \in [Names -> LoggerStates]
    /\ pc \in [Setters -> {"idle", "notify", "write"}]
    /\ todo \in [Setters -> Seq(CallSet)]

\* Calls that are to come are for names whose definition changes.
ChangesOnly ==
    \A t \in Setters : pc[t] = "notify" => \A k \in DOMAIN todo[t] :
        ~Equal(m_val[todo[t][k].name], arg[t][todo[t][k].name])

-----------------------------------------------------------------------------
\* Blocks of sequences that are joined: of calls, or of nodes.
LEMMA BlockLeft ==
    ASSUME NEW S, NEW q \in Seq(S), NEW r \in Seq(S), NEW u \in Seq(S), NEW x,
           Block(q, x, u), Block(r, x, <<>>)
    PROVE  Block(q \o r, x, u)
<1> DEFINE s == q \o r
<1>1. PICK lo \in 0..Len(q) :
        /\ lo + Len(u) <= Len(q)
        /\ \A j \in DOMAIN u : q[lo + j] = u[j]
        /\ \A k \in DOMAIN q : k <= lo \/ k > lo + Len(u) => q[k].name # x
  BY DEF Block
<1>2. \A k \in DOMAIN r : r[k].name # x BY DEF Block
<1>3. /\ Len(s) = Len(q) + Len(r) /\ Len(q) \in Nat /\ Len(r) \in Nat /\ Len(u) \in Nat
      /\ DOMAIN s = 1..Len(s) /\ DOMAIN q = 1..Len(q) /\ DOMAIN r = 1..Len(r)
      /\ DOMAIN u = 1..Len(u)
      /\ \A k \in 1..Len(s) : s[k] = IF k <= Len(q) THEN q[k] ELSE r[k - Len(q)]
  OBVIOUS
<1> HIDE DEF s
<1>4. \A j \in DOMAIN u : lo + j \in 1..Len(s) /\ lo + j <= Len(q) BY <1>1, <1>3
<1>5. \A j \in DOMAIN u : s[lo + j] = u[j] BY <1>1, <1>3, <1>4
<1>6. ASSUME NEW k \in DOMAIN s, k <= lo \/ k > lo + Len(u) PROVE s[k].name # x
  <2>1. CASE k <= Len(q) BY <1>1, <1>3, <1>6, <2>1
  <2>2. CASE k > Len(q)
    <3>1. k - Len(q) \in DOMAIN r /\ s[k] = r[k - Len(q)] BY <1>3, <2>2
    <3> QED BY <1>2, <3>1
  <2> QED BY <1>3, <2>1, <2>2
<1>7. lo \in 0..Len(s) /\ lo + Len(u) <= Len(s) BY <1>1, <1>3
<1>8. Block(s, x, u) BY <1>5, <1>6, <1>7 DEF Block
<1> QED BY <1>8 DEF s

\* The block is in the second sequence.
LEMMA BlockRight ==
    ASSUME NEW S, NEW q \in Seq(S), NEW r \in Seq(S), NEW u \in Seq(S), NEW x,
           Block(q, x, <<>>), Block(r, x, u)
    PROVE  Block(q \o r, x, u)
<1> DEFINE s == q \o r
<1>1. PICK at \in 0..Len(r) :
        /\ at + Len(u) <= Len(r)
        /\ \A j \in DOMAIN u : r[at + j] = u[j]
        /\ \A k \in DOMAIN r : k <= at \/ k > at + Len(u) => r[k].name # x
  BY DEF Block
<1>2. \A k \in DOMAIN q : q[k].name # x BY DEF Block
<1>3. /\ Len(s) = Len(q) + Len(r) /\ Len(q) \in Nat /\ Len(r) \in Nat /\ Len(u) \in Nat
      /\ DOMAIN s = 1..Len(s) /\ DOMAIN q = 1..Len(q) /\ DOMAIN r = 1..Len(r)
      /\ DOMAIN u = 1..Len(u)
      /\ \A k \in 1..Len(s) : s[k] = IF k <= Len(q) THEN q[k] ELSE r[k - Len(q)]
  OBVIOUS
<1> HIDE DEF s
<1>4. PICK lo \in Nat : lo = at + Len(q) BY <1>1, <1>3
<1>5. ASSUME NEW j \in DOMAIN u PROVE s[lo + j] = u[j]
  <2>1. lo + j \in 1..Len(s) /\ lo + j > Len(q) /\ (lo + j) - Len(q) = at + j
    BY <1>1, <1>3, <1>4
  <2>2. ~(lo + j <= Len(q)) BY <1>3, <1>4, <2>1
  <2>3. s[lo + j] = r[(lo + j) - Len(q)] BY <1>3, <2>1, <2>2, Zenon
  <2> QED BY <1>1, <2>1, <2>3, Zenon
<1>6. ASSUME NEW k \in DOMAIN s, k <= lo \/ k > lo + Len(u) PROVE s[k].name # x
  <2>1. CASE k <= Len(q) BY <1>2, <1>3, <2>1
  <2>2. CASE k > Len(q)
    <3>1. PICK i \in DOMAIN r : i = k - Len(q) BY <1>3, <2>2
    <3>2. s[k] = r[i] /\ (i <= at \/ i > at + Len(u)) BY <1>1, <1>3, <1>4, <1>6, <2>2, <3>1
    <3> QED BY <1>1, <3>2
  <2> QED BY <1>3, <2>1, <2>2
<1>7. lo \in 0..Len(s) /\ lo + Len(u) <= Len(s) BY <1>1, <1>3, <1>4
<1>8. Block(s, x, u) BY <1>5, <1>6, <1>7 DEF Block
<1> QED BY <1>8 DEF s

\* Calls for one name.
LEMMA BlockOwn ==
    ASSUME NEW S, NEW q \in Seq(S), NEW x, NEW y, \A k \in DOMAIN q : q[k].name = y
    PROVE  Block(q, x, IF x = y THEN q ELSE <<>>)
<1>1. Len(q) \in Nat /\ DOMAIN q = 1..Len(q) OBVIOUS
<1>2. CASE x = y
  <2>1. /\ 0 \in 0..Len(q) /\ 0 + Len(q) <= Len(q)
        /\ \A j \in DOMAIN q : q[0 + j] = q[j]
        /\ \A k \in DOMAIN q : ~(k <= 0 \/ k > 0 + Len(q))
    BY <1>1
  <2>2. Block(q, x, q) BY <2>1 DEF Block
  <2> QED BY <1>2, <2>2
<1>3. CASE x # y
  <2>1. \A k \in DOMAIN q : q[k].name # x BY <1>3
  <2>2. Block(q, x, <<>>) BY <1>1, <2>1 DEF Block
  <2> QED BY <1>3, <2>2
<1> QED BY <1>2, <1>3

\* Taking the first call.
LEMMA BlockTail ==
    ASSUME NEW S, NEW q \in Seq(S), NEW u \in Seq(S), NEW x, Block(q, x, u), q # <<>>,
           \A j \in DOMAIN u : u[j].name = x
    PROVE  /\ q[1].name # x => Block(Tail(q), x, u)
           /\ q[1].name = x => u # <<>> /\ q[1] = u[1] /\ Block(Tail(q), x, Tail(u))
<1> DEFINE s == Tail(q)
           v == Tail(u)
<1>1. PICK lo \in 0..Len(q) :
        /\ lo + Len(u) <= Len(q)
        /\ \A j \in DOMAIN u : q[lo + j] = u[j]
        /\ \A k \in DOMAIN q : k <= lo \/ k > lo + Len(u) => q[k].name # x
  BY DEF Block
<1>2. /\ Len(q) \in Nat /\ Len(q) > 0 /\ DOMAIN q = 1..Len(q)
      /\ Len(s) = Len(q) - 1 /\ DOMAIN s = 1..(Len(q) - 1)
      /\ \A k \in 1..(Len(q) - 1) : s[k] = q[k + 1]
      /\ Len(u) \in Nat /\ DOMAIN u = 1..Len(u)
  OBVIOUS
<1>3. u # <<>> => /\ Len(u) > 0 /\ Len(v) = Len(u) - 1 /\ DOMAIN v = 1..(Len(u) - 1)
                  /\ \A k \in 1..(Len(u) - 1) : v[k] = u[k + 1]
  OBVIOUS
<1> HIDE DEF s, v
<1>4. ASSUME q[1].name # x PROVE Block(s, x, u)
  <2>1. CASE lo = 0
    <3>1. Len(u) = 0
      <4>1. Len(u) > 0 => 1 \in DOMAIN u /\ q[0 + 1] = u[1] BY <1>1, <1>2, <2>1
      <4> QED BY <1>2, <1>4, <4>1
    <3>2. 0 \in 0..Len(s) /\ 0 + Len(u) <= Len(s) /\ DOMAIN u = {} BY <1>2, <3>1
    <3>3. \A k \in DOMAIN s : s[k].name # x
      <4>1. \A k \in DOMAIN s : k + 1 \in DOMAIN q /\ k + 1 > lo + Len(u) BY <1>2, <2>1, <3>1
      <4> QED BY <1>1, <1>2, <4>1
    <3> QED BY <3>2, <3>3 DEF Block
  <2>2. CASE lo # 0
    <3>1. PICK m \in Nat : lo = m + 1 BY <2>2
    <3>2. m \in 0..Len(s) /\ m + Len(u) <= Len(s) BY <1>1, <1>2, <3>1
    <3>3. ASSUME NEW j \in DOMAIN u PROVE s[m + j] = u[j]
      <4>1. j \in 1..Len(u) /\ q[lo + j] = u[j] BY <1>1, <1>2
      <4>2. m + j \in 1..(Len(q) - 1) BY <1>1, <1>2, <3>1, <4>1
      <4>3. (m + j) + 1 = lo + j BY <3>1, <4>1
      <4> QED BY <1>2, <4>1, <4>2, <4>3
    <3>4. ASSUME NEW k \in DOMAIN s, k <= m \/ k > m + Len(u) PROVE s[k].name # x
      <4>1. k + 1 \in DOMAIN q /\ (k + 1 <= lo \/ k + 1 > lo + Len(u)) BY <1>2, <3>1, <3>4
      <4> QED BY <1>1, <1>2, <4>1
    <3> QED BY <3>2, <3>3, <3>4 DEF Block
  <2> QED BY <2>1, <2>2
<1>5. ASSUME q[1].name = x PROVE u # <<>> /\ q[1] = u[1] /\ Block(s, x, v)
  <2>1. 1 \in DOMAIN q BY <1>2
  <2>2. lo = 0 /\ Len(u) > 0 BY <1>1, <1>2, <1>5, <2>1
  <2>3. u # <<>> BY <2>2
  <2>4. 1 \in DOMAIN u /\ q[0 + 1] = u[1] BY <1>1, <1>2, <2>2
  <2>5. 0 \in 0..Len(s) /\ 0 + Len(v) <= Len(s) BY <1>1, <1>2, <1>3, <2>2, <2>3
  <2>6. ASSUME NEW j \in DOMAIN v PROVE s[0 + j] = v[j]
    <3>1. j \in 1..(Len(q) - 1) /\ j \in 1..(Len(u) - 1) /\ j + 1 \in DOMAIN u
          /\ 0 + (j + 1) = j + 1 /\ 0 + j = j
      BY <1>1, <1>2, <1>3, <2>2, <2>3
    <3> QED BY <1>1, <1>2, <1>3, <2>2, <2>3, <3>1
  <2>7. ASSUME NEW k \in DOMAIN s, k <= 0 \/ k > 0 + Len(v) PROVE s[k].name # x
    <3>1. k + 1 \in DOMAIN q /\ k + 1 > lo + Len(u) BY <1>2, <1>3, <2>2, <2>3, <2>7
    <3> QED BY <1>1, <1>2, <3>1
  <2> QED BY <2>3, <2>4, <2>5, <2>6, <2>7 DEF Block
<1> QED BY <1>4, <1>5 DEF s, v

\* In calls that are listed per name, those for one name are together.
LEMMA FlattenBlocks ==
    ASSUME NEW S, NEW b \in Seq(Seq(S)), DOMAIN b = DOMAIN LogNames,
           \A p \in DOMAIN b : \A k \in DOMAIN b[p] : b[p][k].name = LogNames[p]
    PROVE  /\ FlattenSeq(b) \in Seq(S)
           /\ \A p \in DOMAIN b : Block(FlattenSeq(b), LogNames[p], b[p])
<1>1. /\ Len(b) \in Nat /\ DOMAIN b = 1..Len(b)
      /\ Len(b) # 0 => Len(b) \in 1..Len(b)
      /\ \A p \in DOMAIN b : b[p] \in Seq(S)
  OBVIOUS
<1>2. CASE Len(b) = 0
  <2>1. FlattenSeq(b) = b /\ b = <<>> BY <1>2 DEF FlattenSeq
  <2>2. DOMAIN b = {} BY <1>1, <1>2
  <2> QED BY <2>1, <2>2
<1>3. CASE Len(b) # 0
  <2>1. PICK f \in [1..Len(b) -> Seq(S)] :
          Joins(b, f, Len(b)) /\ FlattenSeq(b) = f[Len(b)]
    BY <1>3, FlattenSteps
  <2> DEFINE Part(n, p) == IF p <= n THEN b[p] ELSE <<>>
             Good(n) == \A p \in DOMAIN b : Block(f[n], LogNames[p], Part(n, p))
             N == {n \in Nat : n \in 1..Len(b) => Good(n)}
  <2>2. \A p, n \in DOMAIN b :
          Block(b[n], LogNames[p], IF LogNames[p] = LogNames[n] THEN b[n] ELSE <<>>)
    BY <1>1, BlockOwn
  <2>3. \A p, n \in DOMAIN b : Block(b[n], LogNames[p], IF p = n THEN b[n] ELSE <<>>)
    <3>1. \A p, n \in DOMAIN b : LogNames[p] = LogNames[n] <=> p = n BY LogConfigAssumption
    <3> QED BY <2>2, <3>1
  <2>4. 0 \in N OBVIOUS
  <2>5. ASSUME NEW n \in N PROVE n + 1 \in N
    <3>1. n \in Nat /\ (n \in 1..Len(b) => Good(n)) BY <2>5
    <3>2. ASSUME n + 1 \in 1..Len(b) PROVE Good(n + 1)
      <4>1. CASE n = 0
        <5>1. f[1] = b[1] /\ 1 \in DOMAIN b BY <1>1, <2>1, <3>2, <4>1 DEF Joins
        <5>2. \A p \in DOMAIN b : Part(1, p) = IF p = 1 THEN b[1] ELSE <<>> BY <1>1
        <5> QED BY <2>3, <4>1, <5>1, <5>2
      <4>2. CASE n # 0
        <5>1. n \in 1..Len(b) /\ n + 1 # 1 /\ (n + 1) - 1 = n BY <3>1, <3>2, <4>2
        <5>2. f[n + 1] = f[n] \o b[n + 1] BY <2>1, <3>2, <5>1 DEF Joins
        <5>3. f[n] \in Seq(S) /\ b[n + 1] \in Seq(S) BY <1>1, <2>1, <3>2, <5>1
        <5>4. ASSUME NEW p \in DOMAIN b PROVE Block(f[n + 1], LogNames[p], Part(n + 1, p))
          <6>1. Block(f[n], LogNames[p], Part(n, p)) BY <3>1, <5>1
          <6>2. Block(b[n + 1], LogNames[p], IF p = n + 1 THEN b[n + 1] ELSE <<>>)
            BY <1>1, <2>3, <3>2
          <6>3. CASE p = n + 1
            <7>1. Part(n, p) = <<>> /\ Part(n + 1, p) = b[n + 1] BY <3>1, <6>3
            <7> QED BY <5>2, <5>3, <6>1, <6>2, <6>3, <7>1, BlockRight
          <6>4. CASE p # n + 1
            <7>1. Part(n + 1, p) = Part(n, p) /\ Part(n, p) \in Seq(S)
              BY <1>1, <3>1, <6>4
            <7>2. Block(b[n + 1], LogNames[p], <<>>) BY <6>2, <6>4
            <7> HIDE DEF Part
            <7> QED BY <5>2, <5>3, <6>1, <7>1, <7>2, BlockLeft
          <6> QED BY <6>3, <6>4
        <5> QED BY <5>4
      <4> QED BY <4>1, <4>2
    <3> HIDE DEF Good
    <3> QED BY <3>1, <3>2
  <2> HIDE DEF N
  <2>6. N = Nat
    <3>1. N \in SUBSET Nat BY DEF N
    <3> QED BY <2>4, <2>5, <3>1, SetInduction
  <2>7. Len(b) \in N BY <1>1, <2>6
  <2>8. Good(Len(b)) BY <1>1, <1>3, <2>7 DEF N
  <2>9. \A p \in DOMAIN b : Part(Len(b), p) = b[p] BY <1>1
  <2> QED BY <1>1, <1>3, <2>1, <2>8, <2>9
<1> QED BY <1>2, <1>3

-----------------------------------------------------------------------------
\* Two sequences joined, place by place.
LEMMA ConcatFacts ==
    ASSUME NEW S, NEW q \in Seq(S), NEW r \in Seq(S)
    PROVE  /\ q \o r \in Seq(S) /\ Len(q \o r) = Len(q) + Len(r)
           /\ \A k \in 1..Len(q) : (q \o r)[k] = q[k]
           /\ \A k \in 1..Len(r) : (q \o r)[Len(q) + k] = r[k]
OBVIOUS

\* The calls for a name that is new or changed, and for one that is gone.
LEMMA UpdateCalls ==
    ASSUME NEW x \in Names, NEW d \in LogDefines
    PROVE  LET u == Update(x, d)
               h == HasFormat(d)
           IN  /\ u \in Seq(CallSet) /\ Len(u) = 2 + h + Len(d.appenders)
               /\ \A j \in DOMAIN u : u[j].name = x
               /\ u[1] = Do("setLevel", x, d.level)
               /\ h = 1 => u[2] = Do("setFormatter", x, d.formatter)
               /\ u[2 + h] = Do("clearAppenders", x, 0)
               /\ \A p \in DOMAIN d.appenders :
                     u[2 + h + p] = Do("addAppender", x, d.appenders[p])
<1> DEFINE u == Update(x, d)
           h == HasFormat(d)
           as == d.appenders
           a == <<Do("setLevel", x, d.level)>>
           b == IF d.formatter = None THEN <<>> ELSE <<Do("setFormatter", x, d.formatter)>>
           c == <<Do("clearAppenders", x, 0)>>
           e == [p \in DOMAIN as |-> Do("addAppender", x, as[p])]
<1>1. /\ d.level \in Nat /\ d.formatter \in STRING /\ as \in Seq(AppenderDefines)
      /\ Len(as) \in Nat /\ DOMAIN as = 1..Len(as)
      /\ \A p \in DOMAIN as : as[p] \in AppenderDefines
  BY DEF LogDefines
<1>2. u = ((a \o b) \o c) \o e BY DEF Update, Calls
<1>3. /\ a \in Seq(CallSet) /\ c \in Seq(CallSet) /\ Len(a) = 1 /\ Len(c) = 1
  BY <1>1 DEF CallSet, Do
<1>4. b \in Seq(CallSet) /\ Len(b) = h /\ h \in Nat /\ (h = 0 \/ h = 1)
  <2>1. Do("setFormatter", x, d.formatter) \in CallSet BY <1>1 DEF CallSet, Do
  <2>2. CASE d.formatter = None BY <2>2 DEF HasFormat
  <2>3. CASE d.formatter # None BY <2>1, <2>3 DEF HasFormat
  <2> QED BY <2>2, <2>3
<1>5. e \in Seq(CallSet) /\ Len(e) = Len(as)
  <2>1. \A p \in 1..Len(as) : Do("addAppender", x, as[p]) \in CallSet BY <1>1 DEF CallSet, Do
  <2>2. e = [p \in 1..Len(as) |-> Do("addAppender", x, as[p])] BY <1>1
  <2> QED BY <1>1, <2>1, <2>2
<1>6. /\ a[1] = Do("setLevel", x, d.level) /\ c[1] = Do("clearAppenders", x, 0)
      /\ h = 1 => b[1] = Do("setFormatter", x, d.formatter)
      /\ \A p \in 1..Len(as) : e[p] = Do("addAppender", x, as[p])
  BY <1>1 DEF HasFormat
<1> HIDE DEF a, b, c, e, h, u
<1> DEFINE ab == a \o b
           abc == ab \o c
<1>7. /\ ab \in Seq(CallSet) /\ Len(ab) = 1 + h
      /\ \A k \in 1..1 : ab[k] = a[k]
      /\ \A k \in 1..h : ab[1 + k] = b[k]
  BY <1>3, <1>4, ConcatFacts
<1>8. ab[1] = a[1] /\ (h = 1 => ab[2] = b[1]) BY <1>4, <1>7
<1> HIDE DEF ab
<1>9. /\ abc \in Seq(CallSet) /\ Len(abc) = (1 + h) + 1
      /\ \A k \in 1..(1 + h) : abc[k] = ab[k]
      /\ \A k \in 1..1 : abc[(1 + h) + k] = c[k]
  BY <1>3, <1>7, ConcatFacts
<1>10. Len(abc) = 2 + h /\ abc[2 + h] = c[1]
  <2>1. (1 + h) + 1 = 2 + h /\ 1 \in 1..1 BY <1>4
  <2>2. abc[(1 + h) + 1] = c[1] BY <1>9, <2>1, Zenon
  <2> QED BY <1>9, <2>1, <2>2
<1> HIDE DEF abc
<1>11. u = abc \o e BY <1>2 DEF ab, abc
<1>12. /\ u \in Seq(CallSet) /\ Len(u) = 2 + h + Len(as)
       /\ \A k \in 1..(2 + h) : u[k] = abc[k]
       /\ \A p \in 1..Len(as) : u[2 + h + p] = e[p]
  <2>1. abc \in Seq(CallSet) /\ e \in Seq(CallSet) BY <1>5, <1>9
  <2>2. /\ u \in Seq(CallSet) /\ Len(u) = Len(abc) + Len(e)
        /\ \A k \in 1..Len(abc) : u[k] = abc[k]
        /\ \A p \in 1..Len(e) : u[Len(abc) + p] = e[p]
    BY <1>11, <2>1, Joined
  <2> QED BY <1>5, <1>10, <2>2, Zenon
<1>13. DOMAIN u = 1..(2 + h + Len(as))
  <2>1. DOMAIN u = 1..Len(u) BY <1>12
  <2> QED BY <1>12, <2>1
<1>14. u[1] = Do("setLevel", x, d.level)
  <2>1. 1 \in 1..(2 + h) /\ 1 \in 1..(1 + h) BY <1>4
  <2>2. u[1] = abc[1] /\ abc[1] = ab[1] BY <1>9, <1>12, <2>1
  <2> QED BY <1>6, <1>8, <2>2
<1>15. h = 1 => u[2] = Do("setFormatter", x, d.formatter) BY <1>4, <1>6, <1>8, <1>9, <1>12
<1>16. u[2 + h] = Do("clearAppenders", x, 0)
  <2>1. 2 + h \in 1..(2 + h) BY <1>4
  <2>2. u[2 + h] = abc[2 + h] BY <1>12, <2>1
  <2> QED BY <1>6, <1>10, <2>2
<1>17. \A p \in 1..Len(as) : u[2 + h + p] = Do("addAppender", x, as[p]) BY <1>6, <1>12
<1>18. ASSUME NEW j \in DOMAIN u PROVE u[j].name = x
  <2>1. j \in 1..(2 + h + Len(as)) /\ h \in Nat BY <1>13, <1>4
  <2>2. j = 1 \/ (j = 2 /\ h = 1) \/ j = 2 + h \/ \E p \in 1..Len(as) : j = 2 + h + p
    <3>1. j > 2 + h => j - (2 + h) \in 1..Len(as) /\ j = (2 + h) + (j - (2 + h))
      <4>1. PICK n \in Nat : n = Len(as) BY <1>1
      <4>2. j \in 1..(2 + h + n) BY <2>1, <4>1
      <4>3. j > 2 + h => j - (2 + h) \in 1..n /\ j = (2 + h) + (j - (2 + h))
        BY <2>1, <4>2
      <4> QED BY <4>1, <4>3
    <3>2. j <= 2 + h => j = 1 \/ (j = 2 /\ h = 1) \/ j = 2 + h BY <1>4, <2>1
    <3> QED BY <1>4, <2>1, <3>1, <3>2
  <2>3. \A what, v : Do(what, x, v).name = x BY DEF Do
  <2> QED BY <1>14, <1>15, <1>16, <1>17, <2>2, <2>3
<1> QED BY <1>1, <1>12, <1>14, <1>15, <1>16, <1>17, <1>18 DEF u, h

\* The two calls for a name that is gone.
LEMMA RetireCalls ==
    ASSUME NEW x \in Names
    PROVE  /\ Retire(x) \in Seq(CallSet) /\ Len(Retire(x)) = 2
           /\ \A j \in DOMAIN Retire(x) : Retire(x)[j].name = x
           /\ Retire(x)[2] = Do("clearAppenders", x, 0)
BY DEF Retire, Do, CallSet, UNKNOW

\* The calls for a name are for no other one.
LEMMA CallsAreOwn ==
    ASSUME NEW old \in Values, NEW new \in Values, NEW x \in Names
    PROVE  /\ CallsFor(old, new, x) \in Seq(CallSet)
           /\ \A j \in DOMAIN CallsFor(old, new, x) : CallsFor(old, new, x)[j].name = x
<1>1. CASE new[x] # Absent /\ ~Equal(old[x], new[x])
  <2>1. new[x] \in LogDefines BY <1>1 DEF Values
  <2>2. CallsFor(old, new, x) = Update(x, new[x]) BY <1>1 DEF CallsFor
  <2> QED BY <2>1, <2>2, UpdateCalls
<1>2. CASE new[x] = Absent /\ old[x] # Absent
  <2>1. CallsFor(old, new, x) = Retire(x) BY <1>2 DEF CallsFor
  <2> QED BY <2>1, RetireCalls
<1>3. CASE (new[x] = Absent \/ Equal(old[x], new[x])) /\ (new[x] # Absent \/ old[x] = Absent)
  <2>1. CallsFor(old, new, x) = <<>> BY <1>3 DEF CallsFor
  <2> QED BY <2>1
<1> QED BY <1>1, <1>2, <1>3

\* The listener makes the calls for each name one after the other.
LEMMA ListenerCalls ==
    ASSUME NEW old \in Values, NEW new \in Values
    PROVE  /\ Listener(old, new) \in Seq(CallSet)
           /\ \A x \in Names : Block(Listener(old, new), x, CallsFor(old, new, x))
<1> DEFINE Set(x) == IF new[x] = Absent \/ Equal(old[x], new[x]) THEN <<>> ELSE Update(x, new[x])
           Gone(x) == IF old[x] # Absent /\ new[x] = Absent THEN Retire(x) ELSE <<>>
           s == [p \in DOMAIN LogNames |-> Set(LogNames[p])]
           g == [p \in DOMAIN LogNames |-> Gone(LogNames[p])]
<1>1. Listener(old, new) = FlattenSeq(s) \o FlattenSeq(g) BY DEF Listener, PerName
<1>2. \A p \in DOMAIN LogNames : LogNames[p] \in Names BY LogConfigAssumption DEF Names, ToSet
<1>3. \A x \in Names : \E p \in DOMAIN LogNames : LogNames[p] = x
  BY LogConfigAssumption DEF Names, ToSet
<1>4. ASSUME NEW x \in Names
      PROVE  /\ Set(x) \in Seq(CallSet) /\ Gone(x) \in Seq(CallSet)
             /\ \A j \in DOMAIN Set(x) : Set(x)[j].name = x
             /\ \A j \in DOMAIN Gone(x) : Gone(x)[j].name = x
             /\ \/ Gone(x) = <<>> /\ Set(x) = CallsFor(old, new, x)
                \/ Set(x) = <<>> /\ Gone(x) = CallsFor(old, new, x)
  <2>1. \/ Gone(x) = <<>> /\ Set(x) = CallsFor(old, new, x)
        \/ Set(x) = <<>> /\ Gone(x) = CallsFor(old, new, x)
    BY DEF CallsFor, Equal
  <2>2. \A j \in DOMAIN <<>> : <<>>[j].name = x OBVIOUS
  <2> QED BY <2>1, <2>2, CallsAreOwn
<1> HIDE DEF Set, Gone
<1>5. LogNames \in Seq(STRING) /\ DOMAIN LogNames = 1..Len(LogNames) /\ Len(LogNames) \in Nat
  BY LogConfigAssumption
<1>6. s \in Seq(Seq(CallSet)) /\ g \in Seq(Seq(CallSet)) BY <1>2, <1>4, <1>5
<1>7. /\ FlattenSeq(s) \in Seq(CallSet)
      /\ \A p \in DOMAIN LogNames : Block(FlattenSeq(s), LogNames[p], Set(LogNames[p]))
  <2>1. \A p \in DOMAIN s : \A k \in DOMAIN s[p] : s[p][k].name = LogNames[p] BY <1>2, <1>4
  <2>2. DOMAIN s = DOMAIN LogNames OBVIOUS
  <2>3. FlattenSeq(s) \in Seq(CallSet) /\ \A p \in DOMAIN s : Block(FlattenSeq(s), LogNames[p], s[p])
    <3> HIDE DEF s
    <3> QED BY <1>6, <2>1, <2>2, FlattenBlocks
  <2>4. \A p \in DOMAIN s : s[p] = Set(LogNames[p]) OBVIOUS
  <2> HIDE DEF s
  <2> QED BY <2>2, <2>3, <2>4
<1>8. /\ FlattenSeq(g) \in Seq(CallSet)
      /\ \A p \in DOMAIN LogNames : Block(FlattenSeq(g), LogNames[p], Gone(LogNames[p]))
  <2>1. \A p \in DOMAIN g : \A k \in DOMAIN g[p] : g[p][k].name = LogNames[p] BY <1>2, <1>4
  <2>2. DOMAIN g = DOMAIN LogNames OBVIOUS
  <2>3. FlattenSeq(g) \in Seq(CallSet) /\ \A p \in DOMAIN g : Block(FlattenSeq(g), LogNames[p], g[p])
    <3> HIDE DEF g
    <3> QED BY <1>6, <2>1, <2>2, FlattenBlocks
  <2>4. \A p \in DOMAIN g : g[p] = Gone(LogNames[p]) OBVIOUS
  <2> HIDE DEF g
  <2> QED BY <2>2, <2>3, <2>4
<1> HIDE DEF s, g
<1>9. ASSUME NEW x \in Names PROVE Block(Listener(old, new), x, CallsFor(old, new, x))
  <2>1. PICK p \in DOMAIN LogNames : LogNames[p] = x BY <1>3
  <2>2. Block(FlattenSeq(s), x, Set(x)) /\ Block(FlattenSeq(g), x, Gone(x))
    BY <1>7, <1>8, <2>1
  <2>3. CASE Gone(x) = <<>> /\ Set(x) = CallsFor(old, new, x)
    BY <1>1, <1>4, <1>7, <1>8, <2>2, <2>3, BlockLeft
  <2>4. CASE Set(x) = <<>> /\ Gone(x) = CallsFor(old, new, x)
    BY <1>1, <1>4, <1>7, <1>8, <2>2, <2>4, BlockRight
  <2> QED BY <1>4, <2>3, <2>4
<1> QED BY <1>1, <1>7, <1>8, <1>9

-----------------------------------------------------------------------------
(***************************************************************************)
(* Types, and the names the listener calls loggers of.                     *)
(***************************************************************************)
\* What a LogDefine that was read can be: the level of an appender is not read,
\* and only one of type FileLogAppender has a file.
ReadAppenders ==
    {a \in AppenderDefines : /\ a.level = UNKNOW /\ a.type \in {File, Stdout}
                             /\ a.type = Stdout => a.file = None}
ReadDefines ==
    {d \in LogDefines : d.level \in 0..Len(LevelNames) /\ d.appenders \in Seq(ReadAppenders)}
ReadValues == [Names -> ReadDefines \cup {Absent}]

\* The level of a name.
LEMMA LevelRead == \A str : LevelFromString(str) \in 0..Len(LevelNames)
<1>1. DOMAIN LevelNames = 1..5 /\ Len(LevelNames) = 5 BY DEF LevelNames
<1> QED BY <1>1 DEF LevelFromString, UNKNOW

\* A field that is a text, or missing, is read as a text.
LEMMA GetText ==
    ASSUME NEW node, NEW F, TextIn(node, F), NEW f \in F PROVE Get(node, f) \in STRING
BY LiteralsAreStrings DEF TextIn, Get, None

\* An appender that is taken, and all that are.
LEMMA AppenderRead ==
    ASSUME NEW a, TextIn(a, {"type", "file", "formatter"}), Taken(a)
    PROVE  AppenderDefine(a) \in ReadAppenders
<1>1. Get(a, "type") \in {File, Stdout} /\ (Get(a, "type") = File => "file" \in DOMAIN a)
  BY DEF Taken, File, Stdout
<1>2. "type" \in DOMAIN a /\ a.type = Get(a, "type") BY <1>1 DEF Get, File, Stdout
<1>3. a.type \in STRING /\ Get(a, "formatter") \in STRING /\ (a.type = File => a.file \in STRING)
  BY <1>1, <1>2, GetText DEF TextIn
<1>4. File # Stdout /\ None \in STRING BY LiteralsAreStrings DEF File, Stdout
<1>5. UNKNOW \in Nat BY DEF UNKNOW
<1> QED BY <1>1, <1>2, <1>3, <1>4, <1>5 DEF AppenderDefine, ReadAppenders, AppenderDefines

\* The appenders that are read of a sequence of nodes are of the kind above.
LEMMA AppendersRead ==
    ASSUME NEW S, NEW list \in Seq(S), \A a \in S : TextIn(a, {"type", "file", "formatter"}),
           NEW b, b = [p \in DOMAIN list |-> IF Taken(list[p]) THEN <<AppenderDefine(list[p])>> ELSE <<>>]
    PROVE  FlattenSeq(b) \in Seq(ReadAppenders)
<1>1. DOMAIN list = 1..Len(list) /\ Len(list) \in Nat OBVIOUS
<1>2. ASSUME NEW p \in 1..Len(list) PROVE b[p] \in Seq(ReadAppenders)
  <2>1. list[p] \in S BY <1>1
  <2>2. CASE Taken(list[p])
    <3>1. PICK d \in ReadAppenders : d = AppenderDefine(list[p]) BY <2>1, <2>2, AppenderRead
    <3>2. b[p] = <<d>> BY <1>1, <2>2, <3>1
    <3> QED BY <3>2
  <2>3. CASE ~Taken(list[p])
    <3>1. b[p] = <<>> BY <1>1, <2>3
    <3> QED BY <3>1
  <2> QED BY <2>2, <2>3
<1>3. DOMAIN b = 1..Len(list) /\ b = [p \in 1..Len(list) |-> b[p]] BY <1>1
<1>4. b \in Seq(Seq(ReadAppenders)) BY <1>1, <1>2, <1>3
<1> QED BY <1>4, FlattenType

\* A node that is well formed is read as a LogDefine.
LEMMA DefinedRead ==
    ASSUME NEW text, WellFormed(text), NEW node \in ToSet(text) PROVE Defined(node) \in ReadDefines
<1>0. PICK list : list = IF "appenders" \in DOMAIN node THEN node.appenders ELSE <<>> OBVIOUS
<1> DEFINE b == [p \in DOMAIN list |-> IF Taken(list[p]) THEN <<AppenderDefine(list[p])>> ELSE <<>>]
<1>1. TextIn(node, {"level", "formatter"}) BY DEF WellFormed
<1>2. list \in Seq(ToSet(list)) /\ \A a \in ToSet(list) : TextIn(a, {"type", "file", "formatter"})
  <2>1. CASE "appenders" \in DOMAIN node
    <3>1. list = node.appenders BY <1>0, <2>1
    <3> QED BY <2>1, <3>1 DEF WellFormed
  <2>2. CASE "appenders" \notin DOMAIN node
    <3>1. list = <<>> BY <1>0, <2>2
    <3>2. ToSet(list) = {} BY <3>1 DEF ToSet
    <3> QED BY <3>1, <3>2
  <2> QED BY <2>1, <2>2
<1>3. Defined(node) = [level |-> LevelFromString(Get(node, "level")),
                       formatter |-> Get(node, "formatter"), appenders |-> FlattenSeq(b)]
  BY <1>0 DEF Defined, Mapped
<1>4. FlattenSeq(b) \in Seq(ReadAppenders) BY <1>2, AppendersRead
<1> HIDE DEF b
<1>5. FlattenSeq(b) \in Seq(AppenderDefines) BY <1>4 DEF ReadAppenders
<1>6. LevelFromString(Get(node, "level")) \in 0..Len(LevelNames) BY LevelRead
<1>7. Get(node, "formatter") \in STRING BY <1>1, GetText
<1>8. Len(LevelNames) \in Nat BY DEF LevelNames
<1> QED BY <1>3, <1>4, <1>5, <1>6, <1>7, <1>8 DEF ReadDefines, LogDefines

\* A text that is well formed is read as a set of LogDefines.
LEMMA ParsedRead == ASSUME NEW text, WellFormed(text) PROVE Parsed(text) \in ReadValues
<1>1. ASSUME NEW x \in Names PROVE Parsed(text)[x] \in ReadDefines \cup {Absent}
  <2> DEFINE at == {p \in DOMAIN text : text[p].name = x}
  <2>1. Parsed(text)[x] = IF at = {} THEN Absent
                          ELSE Defined(text[CHOOSE p \in at : \A q \in at : p <= q])
    BY DEF Parsed
  <2>2. CASE at = {} BY <2>1, <2>2
  <2>3. CASE at # {}
    <3>1. at \in SUBSET Nat BY DEF WellFormed
    <3>2. \E p \in at : \A q \in at : p <= q BY <2>3, <3>1, LeastElement
    <3>3. PICK p \in at : p = CHOOSE r \in at : \A q \in at : r <= q BY <3>2
    <3>4. p \in DOMAIN text OBVIOUS
    <3>5. text[p] \in ToSet(text) BY <3>4 DEF ToSet
    <3> QED BY <2>1, <2>3, <3>3, <3>5, DefinedRead
  <2> QED BY <2>2, <2>3
<1>2. Parsed(text) = [x \in Names |-> Parsed(text)[x]] BY DEF Parsed
<1> QED BY <1>1, <1>2 DEF ReadValues

\* In particular what is loaded.
LEMMA ParsedIsValue ==
    ASSUME NEW text \in Texts PROVE Parsed(text) \in ReadValues /\ Parsed(text) \in Values
<1>1. Parsed(text) \in ReadValues BY TextsAssumption, ParsedRead
<1>2. ReadDefines \subseteq LogDefines BY DEF ReadDefines
<1> QED BY <1>1, <1>2 DEF ReadValues, Values

\* A call makes a logger of a logger.
LEMMA ApplyType ==
    ASSUME NEW lg \in LoggerStates, NEW c \in CallSet
    PROVE  Apply(lg, c) \in LoggerStates
<1>1. CASE c.do = "setLevel"
  <2>1. c.v \in Nat BY <1>1 DEF CallSet
  <2> QED BY <1>1, <2>1 DEF Apply, LoggerStates
<1>2. CASE c.do = "setFormatter"
  <2>1. c.v \in Strings BY <1>2 DEF CallSet, Strings
  <2>2. CASE ~Valid(c.v) BY <1>2, <2>2 DEF Apply
  <2>3. CASE Valid(c.v)
    <3> DEFINE as == lg.appenders
               bs == [p \in DOMAIN as |-> IF as[p].own THEN as[p] ELSE [as[p] EXCEPT !.formatter = c.v]]
    <3>1. as \in Seq(AppenderStates) /\ lg.level \in Nat BY DEF LoggerStates
    <3>2. \A a \in AppenderStates : [a EXCEPT !.formatter = c.v] \in AppenderStates
      BY <2>1 DEF AppenderStates
    <3>3. bs \in Seq(AppenderStates) BY <3>1, <3>2
    <3>4. Apply(lg, c) = [lg EXCEPT !.formatter = c.v, !.appenders = bs]
      BY <1>2, <2>3 DEF Apply
    <3> HIDE DEF bs, as
    <3>5. Apply(lg, c) = [level |-> lg.level, formatter |-> c.v, appenders |-> bs]
      BY <3>4 DEF LoggerStates
    <3> QED BY <2>1, <3>1, <3>3, <3>5 DEF LoggerStates
  <2> QED BY <2>2, <2>3
<1>3. CASE c.do = "clearAppenders"
  <2>1. Apply(lg, c) = [lg EXCEPT !.appenders = <<>>] BY <1>3 DEF Apply
  <2>2. Apply(lg, c) = [level |-> lg.level, formatter |-> lg.formatter, appenders |-> <<>>]
    BY <2>1 DEF LoggerStates
  <2>3. <<>> \in Seq(AppenderStates) OBVIOUS
  <2> QED BY <2>2, <2>3 DEF LoggerStates
<1>4. CASE c.do = "addAppender"
  <2>1. c.v \in AppenderDefines BY <1>4 DEF CallSet
  <2> DEFINE a == [type |-> c.v.type, file |-> c.v.file, level |-> c.v.level,
                   own |-> Valid(c.v.formatter),
                   formatter |-> IF Valid(c.v.formatter) THEN c.v.formatter ELSE lg.formatter]
  <2>2. lg.formatter \in Strings /\ lg.appenders \in Seq(AppenderStates) BY DEF LoggerStates
  <2>3. Valid(c.v.formatter) \in BOOLEAN BY DEF Valid
  <2>4. a \in AppenderStates
    BY <2>1, <2>2, <2>3 DEF AppenderDefines, AppenderStates, Strings
  <2>5. Apply(lg, c) = [lg EXCEPT !.appenders = Append(lg.appenders, a)] BY <1>4 DEF Apply
  <2> HIDE DEF a
  <2>6. Append(lg.appenders, a) \in Seq(AppenderStates) BY <2>2, <2>4
  <2> QED BY <2>5, <2>6 DEF LoggerStates
<1> QED BY <1>1, <1>2, <1>3, <1>4 DEF CallSet

\* The next call, and those after it.
LEMMA HeadCall ==
    ASSUME NEW q \in Seq(CallSet), q # <<>>
    PROVE  /\ Head(q) = q[1] /\ q[1] \in CallSet /\ 1 \in DOMAIN q
           /\ q[1].name \in Names /\ Tail(q) \in Seq(CallSet)
           /\ \A k \in DOMAIN Tail(q) : k + 1 \in DOMAIN q /\ Tail(q)[k] = q[k + 1]
<1>1. Head(q) = q[1] /\ q[1] \in CallSet /\ 1 \in DOMAIN q /\ Tail(q) \in Seq(CallSet)
  OBVIOUS
<1>2. \A k \in DOMAIN Tail(q) : k + 1 \in DOMAIN q /\ Tail(q)[k] = q[k + 1] OBVIOUS
<1>3. q[1].name \in Names BY <1>1 DEF CallSet
<1> QED BY <1>1, <1>2, <1>3

\* The types at the start.
LEMMA TypeInit == Init => TypeInv
<1> SUFFICES ASSUME Init PROVE TypeInv
  OBVIOUS
<1>1. {Stdout, None, Default} \subseteq Strings BY DEF Strings
<1>2. Console \in AppenderStates BY <1>1 DEF Console, AppenderStates, DEBUG
<1>3. Fresh \in [Names -> LoggerStates]
  <2>1. <<Console>> \in Seq(AppenderStates) /\ <<>> \in Seq(AppenderStates) BY <1>2
  <2> QED BY <1>1, <2>1 DEF Fresh, LoggerStates, DEBUG
<1>4. m_val \in Values BY DEF Init, Values
<1>5. \A t \in Setters : <<>> \in Seq(CallSet) OBVIOUS
<1> QED BY <1>3, <1>4, <1>5 DEF Init, TypeInv

\* Every step keeps the types.
LEMMA TypeStep == TypeInv /\ [Next]_vars => TypeInv'
<1> SUFFICES ASSUME TypeInv, [Next]_vars PROVE TypeInv'
  OBVIOUS
<1> USE DEF TypeInv
<1>1. ASSUME NEW t \in Setters, NEW text \in Texts, Load(t, text) PROVE TypeInv'
  <2>1. Parsed(text) \in Values BY <1>1, ParsedIsValue DEF Load
  <2>2. Listener(m_val, Parsed(text)) \in Seq(CallSet) BY <2>1, ListenerCalls
  <2> QED BY <1>1, <2>1, <2>2 DEF Load
<1>2. ASSUME NEW t \in Setters, NEW text \in Texts, LoadNothing(t, text) PROVE TypeInv'
  <2>1. ~Throws(text) => Parsed(text) \in Values BY ParsedIsValue
  <2> QED BY <1>2, <2>1 DEF LoadNothing
<1>3. ASSUME NEW t \in Setters, Call(t) PROVE TypeInv'
  <2> DEFINE c == Head(todo[t])
  <2>1. c \in CallSet /\ c.name \in Names /\ Tail(todo[t]) \in Seq(CallSet)
    BY <1>3, HeadCall DEF Call
  <2>2. Apply(loggers[c.name], c) \in LoggerStates BY <2>1, ApplyType
  <2>3. loggers' = [loggers EXCEPT ![c.name] = Apply(loggers[c.name], c)] BY <1>3 DEF Call
  <2> HIDE DEF c
  <2>4. loggers' \in [Names -> LoggerStates] BY <2>1, <2>2, <2>3
  <2> QED BY <1>3, <2>1, <2>4 DEF Call
<1>4. ASSUME NEW t \in Setters, Return(t) PROVE TypeInv' BY <1>4 DEF Return
<1>5. ASSUME NEW t \in Setters, Store(t) PROVE TypeInv'
  <2>1. arg[t] \in Values OBVIOUS
  <2> QED BY <1>5, <2>1 DEF Store
<1>6. CASE UNCHANGED vars BY <1>6 DEF vars
<1> QED BY <1>1, <1>2, <1>3, <1>4, <1>5, <1>6 DEF Next

\* Nothing is called for a name whose definition stays.
LEMMA EqualNoCalls ==
    ASSUME NEW old \in Values, NEW new \in Values, NEW x \in Names
    PROVE  CallsFor(old, new, x) = <<>> <=> Equal(old[x], new[x])
<1>1. Equal(old[x], new[x]) => CallsFor(old, new, x) = <<>> BY DEF CallsFor, Equal
<1>2. ASSUME ~Equal(old[x], new[x]) PROVE CallsFor(old, new, x) # <<>>
  <2>1. CASE new[x] = Absent
    <3>1. CallsFor(old, new, x) = Retire(x) BY <1>2, <2>1 DEF CallsFor, Equal
    <3>2. Len(Retire(x)) = 2 /\ Len(<<>>) = 0 BY RetireCalls
    <3> QED BY <3>1, <3>2
  <2>2. CASE new[x] # Absent
    <3>1. CallsFor(old, new, x) = Update(x, new[x]) BY <1>2, <2>2 DEF CallsFor
    <3>2. new[x] \in LogDefines BY <2>2 DEF Values
    <3>3. Len(Update(x, new[x])) = 2 + HasFormat(new[x]) + Len(new[x].appenders)
      BY <3>2, UpdateCalls
    <3>4. Len(new[x].appenders) \in Nat /\ HasFormat(new[x]) \in Nat
      BY <3>2 DEF LogDefines, HasFormat
    <3>5. Len(Update(x, new[x])) # 0 BY <3>3, <3>4
    <3> QED BY <3>1, <3>5
  <2> QED BY <2>1, <2>2
<1> QED BY <1>1, <1>2

\* Every step keeps that calls are for names that change.
LEMMA ChangesStep == TypeInv /\ ChangesOnly /\ [Next]_vars => ChangesOnly'
<1> SUFFICES ASSUME TypeInv, ChangesOnly, [Next]_vars PROVE ChangesOnly'
  OBVIOUS
<1>0. /\ todo \in [Setters -> Seq(CallSet)] /\ m_val \in Values
      /\ arg \in [Setters -> Values] /\ pc \in [Setters -> {"idle", "notify", "write"}]
  BY DEF TypeInv
<1>1. ASSUME NEW t \in Setters, NEW text \in Texts, Load(t, text) PROVE ChangesOnly'
  <2> DEFINE new == Parsed(text)
             q == Listener(m_val, new)
  <2>1. new \in Values BY <1>1, ParsedIsValue DEF Load
  <2>2. q \in Seq(CallSet) /\ \A x \in Names : Block(q, x, CallsFor(m_val, new, x))
    BY <1>0, <2>1, ListenerCalls
  <2>3. arg' = [arg EXCEPT ![t] = new] /\ todo' = [todo EXCEPT ![t] = q] /\ m_val' = m_val
        /\ pc' = [pc EXCEPT ![t] = "notify"]
    BY <1>1 DEF Load
  <2> HIDE DEF new, q
  <2>4. ASSUME NEW k \in DOMAIN q PROVE ~Equal(m_val[q[k].name], new[q[k].name])
    <3>1. q[k] \in CallSet BY <2>2
    <3>2. PICK x \in Names : x = q[k].name BY <3>1 DEF CallSet
    <3>3. Block(q, x, <<>>) => q[k].name # x BY DEF Block
    <3>4. CallsFor(m_val, new, x) # <<>> BY <2>2, <3>2, <3>3
    <3> QED BY <1>0, <2>1, <3>2, <3>4, EqualNoCalls
  <2>5. \A u \in Setters : u # t =>
          arg'[u] = arg[u] /\ todo'[u] = todo[u] /\ pc'[u] = pc[u]
    BY <1>0, <2>3
  <2>6. arg'[t] = new /\ todo'[t] = q BY <1>0, <2>3
  <2> QED BY <2>3, <2>4, <2>5, <2>6 DEF ChangesOnly
<1>2. ASSUME NEW t \in Setters, NEW text \in Texts, LoadNothing(t, text) PROVE ChangesOnly'
  <2>1. \A u \in Setters : pc[u] = "notify" => arg'[u] = arg[u]
    BY <1>0, <1>2 DEF LoadNothing
  <2>2. todo' = todo /\ pc' = pc /\ m_val' = m_val BY <1>2 DEF LoadNothing
  <2> QED BY <2>1, <2>2 DEF ChangesOnly
<1>3. ASSUME NEW t \in Setters, Call(t) PROVE ChangesOnly'
  <2>1. m_val' = m_val /\ arg' = arg /\ pc' = pc BY <1>3 DEF Call
  <2>2. \A u \in Setters : u # t => todo'[u] = todo[u] BY <1>0, <1>3 DEF Call
  <2>3. todo[t] # <<>> /\ pc[t] = "notify" /\ todo'[t] = Tail(todo[t])
    BY <1>0, <1>3 DEF Call
  <2>4. \A k \in DOMAIN todo'[t] : k + 1 \in DOMAIN todo[t] /\ todo'[t][k] = todo[t][k + 1]
    BY <1>0, <2>3, HeadCall
  <2>5. \A k \in DOMAIN todo'[t] : ~Equal(m_val[todo'[t][k].name], arg[t][todo'[t][k].name])
    BY <2>3, <2>4 DEF ChangesOnly
  <2>6. \A u \in Setters : u # t /\ pc[u] = "notify" => \A k \in DOMAIN todo'[u] :
          ~Equal(m_val[todo'[u][k].name], arg[u][todo'[u][k].name])
    BY <2>2 DEF ChangesOnly
  <2> QED BY <2>1, <2>5, <2>6 DEF ChangesOnly
<1>4. ASSUME NEW t \in Setters, Return(t) PROVE ChangesOnly'
  <2>1. m_val' = m_val /\ arg' = arg /\ todo' = todo BY <1>4 DEF Return
  <2>2. \A u \in Setters : pc'[u] = "notify" => pc[u] = "notify" BY <1>0, <1>4 DEF Return
  <2> QED BY <2>1, <2>2 DEF ChangesOnly
<1>5. ASSUME NEW t \in Setters, Store(t) PROVE ChangesOnly'
  <2>1. \A u \in Setters : pc'[u] # "notify" BY <1>0, <1>5 DEF Store
  <2> QED BY <2>1 DEF ChangesOnly
<1>6. CASE UNCHANGED vars BY <1>6 DEF vars, ChangesOnly
<1> QED BY <1>1, <1>2, <1>3, <1>4, <1>5, <1>6 DEF Next

(***************************************************************************)
(* While a configuration is brought into effect, by any number of threads, *)
(* a logger whose definition compares equal is left alone.                 *)
(***************************************************************************)
THEOREM EqualLeftAlone == Spec => OthersUntouched
<1>1. Init => TypeInv /\ ChangesOnly BY TypeInit DEF Init, ChangesOnly
<1>2. ASSUME TypeInv, ChangesOnly, [Next]_vars, NEW x \in Names, loggers'[x] # loggers[x]
      PROVE  \E t \in Setters : pc[t] = "notify" /\ ~Equal(m_val[x], arg[t][x])
  <2>1. PICK t \in Setters : Call(t)
    BY <1>2 DEF Next, Load, LoadNothing, Return, Store, vars
  <2>2. todo[t] \in Seq(CallSet) /\ loggers \in [Names -> LoggerStates] BY <1>2 DEF TypeInv
  <2>3. pc[t] = "notify" /\ todo[t] # <<>> BY <2>1 DEF Call
  <2>4. Head(todo[t]).name = x BY <1>2, <2>1, <2>2 DEF Call
  <2>5. 1 \in DOMAIN todo[t] /\ todo[t][1].name = x BY <2>2, <2>3, <2>4, HeadCall
  <2> QED BY <1>2, <2>3, <2>5 DEF ChangesOnly
<1>3. TypeInv /\ ChangesOnly /\ [Next]_vars
        => [\A x \in Names : loggers'[x] # loggers[x]
              => \E t \in Setters : pc[t] = "notify" /\ ~Equal(m_val[x], arg[t][x])]_vars
  BY <1>2
<1>4. TypeInv /\ ChangesOnly /\ [Next]_vars => TypeInv' /\ ChangesOnly'
  BY TypeStep, ChangesStep
<1> QED BY <1>1, <1>3, <1>4, PTL DEF Spec, OthersUntouched

-----------------------------------------------------------------------------
(***************************************************************************)
(* Loggers and their configuration.  This takes one setter, and texts that *)
(* compare equal only if they are, since appenders are not compared; the   *)
(* root logger has an appender before it has a definition.                 *)
(***************************************************************************)
OneSetter == \E t : Setters = {t}
EqualIsSame ==
    \A a, b \in Texts : ~Throws(a) /\ ~Throws(b) => \A x \in Names :
        Equal(Parsed(a)[x], Parsed(b)[x]) => Parsed(a)[x] = Parsed(b)[x]
NoRoot == "root" \notin Names

\* What each kind of call makes of a logger.
LEMMA SetLevelEffect ==
    ASSUME NEW lg \in LoggerStates, NEW x, NEW v, NEW l, l = Apply(lg, Do("setLevel", x, v))
    PROVE  l.level = v /\ l.formatter = lg.formatter /\ l.appenders = lg.appenders
<1>1. Do("setLevel", x, v).do = "setLevel" /\ Do("setLevel", x, v).v = v BY DEF Do
<1>2. l = [lg EXCEPT !.level = v] BY <1>1 DEF Apply
<1> QED BY <1>2 DEF LoggerStates

\* No appender is left.
LEMMA ClearAppendersEffect ==
    ASSUME NEW lg \in LoggerStates, NEW x, NEW v, NEW l, l = Apply(lg, Do("clearAppenders", x, v))
    PROVE  l.level = lg.level /\ l.formatter = lg.formatter /\ l.appenders = <<>>
<1>1. Do("clearAppenders", x, v).do = "clearAppenders" BY DEF Do
<1>2. l = [lg EXCEPT !.appenders = <<>>] BY <1>1 DEF Apply
<1> QED BY <1>2 DEF LoggerStates

\* A formatter with an error is not taken.
LEMMA SetFormatterEffect ==
    ASSUME NEW lg \in LoggerStates, NEW x, NEW v, NEW l, l = Apply(lg, Do("setFormatter", x, v))
    PROVE  l.level = lg.level /\ l.formatter = IF Valid(v) THEN v ELSE lg.formatter
<1>1. Do("setFormatter", x, v).do = "setFormatter" /\ Do("setFormatter", x, v).v = v BY DEF Do
<1>2. CASE ~Valid(v)
  <2>1. l = lg BY <1>1, <1>2 DEF Apply
  <2> QED BY <1>2, <2>1
<1>3. CASE Valid(v)
  <2>1. PICK as : l = [lg EXCEPT !.formatter = v, !.appenders = as] BY <1>1, <1>3 DEF Apply
  <2> QED BY <1>3, <2>1 DEF LoggerStates
<1> QED BY <1>2, <1>3

\* The appender that is added for a definition.
NewAppender(v, formatter) ==
    [type |-> v.type, file |-> v.file, level |-> v.level, own |-> Valid(v.formatter),
     formatter |-> IF Valid(v.formatter) THEN v.formatter ELSE formatter]

\* An appender is made as its definition says.
LEMMA NewAppenderMatches ==
    ASSUME NEW v, NEW formatter PROVE AppenderMatches(NewAppender(v, formatter), v, formatter)
BY DEF NewAppender, AppenderMatches

\* One appender more, behind the others.
LEMMA AddAppenderEffect ==
    ASSUME NEW lg \in LoggerStates, NEW x, NEW v, NEW l, l = Apply(lg, Do("addAppender", x, v))
    PROVE  /\ l.level = lg.level /\ l.formatter = lg.formatter
           /\ l.appenders = Append(lg.appenders, NewAppender(v, lg.formatter))
<1>1. Do("addAppender", x, v).do = "addAppender" /\ Do("addAppender", x, v).v = v BY DEF Do
<1>2. l = [lg EXCEPT !.appenders = Append(lg.appenders, NewAppender(v, lg.formatter))]
  BY <1>1 DEF Apply, NewAppender
<1> QED BY <1>2 DEF LoggerStates

\* Each call of the listener takes a changed logger one step further.
LEMMA ProgressStep ==
    ASSUME NEW x \in Names, NEW d \in LogDefines, d # Absent, NEW lg \in LoggerStates,
           NEW n \in Nat, n < Len(Update(x, d)), Progress(lg, d, n)
    PROVE  Progress(Apply(lg, Update(x, d)[n + 1]), d, n + 1)
<1> DEFINE u == Update(x, d)
           h == HasFormat(d)
           as == d.appenders
           l == Apply(lg, u[n + 1])
<1>1. /\ u[1] = Do("setLevel", x, d.level)
      /\ h = 1 => u[2] = Do("setFormatter", x, d.formatter)
      /\ u[2 + h] = Do("clearAppenders", x, 0)
      /\ \A p \in DOMAIN as : u[2 + h + p] = Do("addAppender", x, as[p])
      /\ Len(u) = 2 + h + Len(as)
  BY UpdateCalls
<1>2. /\ as \in Seq(AppenderDefines) /\ Len(as) \in Nat /\ DOMAIN as = 1..Len(as)
      /\ \A p \in 1..Len(as) : as[p] \in AppenderDefines
      /\ d.formatter \notin Bad \/ ~Valid(d.formatter)
  BY DEF LogDefines, Valid
<1>3. h \in Nat /\ (h = 0 \/ h = 1) /\ (Valid(d.formatter) => h = 1) BY DEF HasFormat, Valid
<1>4. /\ lg.formatter \notin Bad
      /\ n >= 1 => lg.level = d.level
      /\ n >= 1 + h /\ Valid(d.formatter) => lg.formatter = d.formatter
      /\ n >= 2 + h =>
            /\ Len(lg.appenders) = n - 2 - h
            /\ \A p \in DOMAIN lg.appenders : AppenderMatches(lg.appenders[p], as[p], lg.formatter)
  BY DEF Progress
<1>5. n < 2 + h + Len(as) BY <1>1
<1>6. lg.appenders \in Seq(AppenderStates) BY DEF LoggerStates
<1> HIDE DEF u, h, as
<1> SUFFICES /\ l.formatter \notin Bad
             /\ n + 1 >= 1 => l.level = d.level
             /\ n + 1 >= 1 + h /\ Valid(d.formatter) => l.formatter = d.formatter
             /\ n + 1 >= 2 + h =>
                  /\ Len(l.appenders) = (n + 1) - 2 - h
                  /\ \A p \in DOMAIN l.appenders : AppenderMatches(l.appenders[p], as[p], l.formatter)
  BY DEF Progress, h, as, u
<1>7. CASE n = 0
  <2>1. n + 1 = 1 BY <1>7
  <2>2. u[n + 1] = Do("setLevel", x, d.level) BY <1>1, <2>1
  <2>3. l = Apply(lg, Do("setLevel", x, d.level)) BY <2>2
  <2> HIDE DEF l
  <2>4. l.level = d.level /\ l.formatter = lg.formatter BY <2>3, SetLevelEffect
  <2>5. ~(n + 1 >= 2 + h) /\ ~(n + 1 >= 1 + h /\ Valid(d.formatter)) BY <1>3, <1>7
  <2> QED BY <1>4, <2>4, <2>5
<1>8. CASE n = 1 /\ h = 1
  <2>1. n + 1 = 2 BY <1>8
  <2>2. u[n + 1] = Do("setFormatter", x, d.formatter) BY <1>1, <1>8, <2>1
  <2>3. l = Apply(lg, Do("setFormatter", x, d.formatter)) BY <2>2
  <2> HIDE DEF l
  <2>4. /\ l.level = lg.level
        /\ l.formatter = IF Valid(d.formatter) THEN d.formatter ELSE lg.formatter
    BY <2>3, SetFormatterEffect
  <2>5. ~(n + 1 >= 2 + h) BY <1>8
  <2> QED BY <1>2, <1>4, <1>8, <2>4, <2>5
<1>9. CASE n = 1 + h
  <2>1. n + 1 = 2 + h BY <1>3, <1>9
  <2>2. u[n + 1] = Do("clearAppenders", x, 0) BY <1>1, <2>1
  <2>3. l = Apply(lg, Do("clearAppenders", x, 0)) BY <2>2
  <2> HIDE DEF l
  <2>4. l.level = lg.level /\ l.formatter = lg.formatter /\ l.appenders = <<>>
    BY <2>3, ClearAppendersEffect
  <2>5. Len(l.appenders) = 0 /\ DOMAIN l.appenders = {} /\ (n + 1) - 2 - h = 0
    BY <1>3, <1>9, <2>4
  <2>6. n >= 1 /\ n >= 1 + h BY <1>3, <1>9
  <2> QED BY <1>4, <2>4, <2>5, <2>6
<1>10. CASE n >= 2 + h
  <2>1. PICK p \in Nat : p = n - 1 - h BY <1>3, <1>10
  <2>2. p \in 1..Len(as) /\ n + 1 = 2 + h + p
    <3>1. PICK k \in Nat : k = Len(as) BY <1>2
    <3>2. n < 2 + h + k BY <1>5, <3>1
    <3>3. p \in 1..k /\ n + 1 = 2 + h + p BY <1>3, <1>10, <2>1, <3>2
    <3> QED BY <3>1, <3>3
  <2>3. Len(lg.appenders) = p - 1
    <3>1. Len(lg.appenders) = n - 2 - h BY <1>4, <1>10
    <3> QED BY <1>3, <2>1, <3>1
  <2>4. u[n + 1] = Do("addAppender", x, as[p]) /\ as[p] \in AppenderDefines
    BY <1>1, <1>2, <2>2
  <2>5. l = Apply(lg, Do("addAppender", x, as[p])) BY <2>4
  <2> HIDE DEF l
  <2>6. /\ l.level = lg.level /\ l.formatter = lg.formatter
        /\ l.appenders = Append(lg.appenders, NewAppender(as[p], lg.formatter))
    <3>1. PICK v : v = as[p] OBVIOUS
    <3>2. l = Apply(lg, Do("addAppender", x, v)) BY <2>5, <3>1
    <3>3. l.level = lg.level BY <3>2, AddAppenderEffect
    <3>4. l.formatter = lg.formatter BY <3>2, AddAppenderEffect
    <3>5. l.appenders = Append(lg.appenders, NewAppender(v, lg.formatter))
      BY <3>2, AddAppenderEffect
    <3> QED BY <3>1, <3>3, <3>4, <3>5
  <2>7. PICK a : AppenderMatches(a, as[p], lg.formatter)
                 /\ l.appenders = Append(lg.appenders, a)
    BY <2>6, NewAppenderMatches
  <2>8. /\ Len(l.appenders) = p
        /\ \A i \in DOMAIN l.appenders :
              l.appenders[i] = IF i = p THEN a ELSE lg.appenders[i]
        /\ \A i \in DOMAIN l.appenders : i # p => i \in DOMAIN lg.appenders
    BY <1>6, <2>2, <2>3, <2>7
  <2>9. (n + 1) - 2 - h = p /\ n >= 1 /\ n >= 1 + h BY <1>3, <1>10, <2>1
  <2>10. \A i \in DOMAIN l.appenders : AppenderMatches(l.appenders[i], as[i], l.formatter)
    BY <1>4, <1>10, <2>6, <2>7, <2>8
  <2> QED BY <1>4, <2>6, <2>8, <2>9, <2>10
<1>11. n = 0 \/ (n = 1 /\ h = 1) \/ n = 1 + h \/ n >= 2 + h BY <1>3
<1> QED BY <1>7, <1>8, <1>9, <1>10, <1>11

\* So do the calls for a logger that is retired.
LEMMA RetireProgress ==
    ASSUME NEW x \in Names, NEW lg \in LoggerStates, NEW n \in Nat, n < 2
    PROVE  Progress(Apply(lg, Retire(x)[n + 1]), Absent, n + 1)
<1>1. CASE n = 1
  <2>1. Retire(x)[n + 1] = Do("clearAppenders", x, 0) BY <1>1, RetireCalls
  <2>2. PICK l : l = Apply(lg, Do("clearAppenders", x, 0)) OBVIOUS
  <2>3. l.appenders = <<>> BY <2>2, ClearAppendersEffect
  <2> QED BY <2>1, <2>2, <2>3 DEF Progress
<1>2. CASE n # 1 BY <1>2 DEF Progress
<1> QED BY <1>1, <1>2

\* The calls that are left after the first n.
LEMMA RestCalls ==
    ASSUME NEW u \in Seq(CallSet), NEW n \in 0..Len(u), NEW r, r = SubSeq(u, n + 1, Len(u))
    PROVE  /\ r \in Seq(CallSet) /\ Len(r) = Len(u) - n
           /\ \A j \in DOMAIN r : r[j] = u[n + j] /\ n + j \in DOMAIN u
           /\ n = 0 => r = u
           /\ r # <<>> => /\ n < Len(u) /\ r[1] = u[n + 1]
                          /\ Tail(r) = SubSeq(u, n + 2, Len(u))
<1>1. n \in Nat /\ Len(u) \in Nat /\ n <= Len(u) OBVIOUS
<1>2. r \in Seq(CallSet) /\ Len(r) = Len(u) - n BY <1>1
<1>3. \A j \in DOMAIN r : r[j] = u[n + j] /\ n + j \in DOMAIN u BY <1>1
<1>4. n = 0 => r = u
  <2>1. ASSUME n = 0 PROVE r = u
    <3>1. DOMAIN r = DOMAIN u BY <1>1, <1>2, <2>1
    <3>2. \A j \in DOMAIN u : r[j] = u[j] BY <1>1, <1>3, <2>1, <3>1
    <3> QED BY <1>2, <3>1, <3>2
  <2> QED BY <2>1
<1>5. ASSUME r # <<>>
      PROVE  n < Len(u) /\ r[1] = u[n + 1] /\ Tail(r) = SubSeq(u, n + 2, Len(u))
  <2>1. Len(r) # 0 BY <1>2, <1>5
  <2>2. n < Len(u) BY <1>1, <1>2, <2>1
  <2>3. r[1] = u[n + 1] BY <1>1, <1>2, <1>3, <2>2
  <2> DEFINE v == SubSeq(u, n + 2, Len(u))
             w == Tail(r)
  <2>4. v \in Seq(CallSet) /\ Len(v) = Len(u) - n - 1
        /\ \A j \in 1..(Len(u) - n - 1) : v[j] = u[n + 1 + j]
    BY <1>1, <2>2
  <2>5. w \in Seq(CallSet) /\ Len(w) = Len(u) - n - 1
        /\ \A j \in 1..(Len(u) - n - 1) : w[j] = r[j + 1] /\ j + 1 \in DOMAIN r
    BY <1>1, <1>2, <1>5
  <2> HIDE DEF v, w
  <2>6. \A j \in 1..(Len(u) - n - 1) : w[j] = v[j]
    <3>1. \A j \in 1..(Len(u) - n - 1) : n + (j + 1) = n + 1 + j BY <1>1
    <3> QED BY <1>3, <2>4, <2>5, <3>1
  <2>7. w = v
    <3>1. DOMAIN w = 1..(Len(u) - n - 1) /\ DOMAIN v = DOMAIN w BY <1>1, <2>2, <2>4, <2>5
    <3>2. \A j \in DOMAIN w : w[j] = v[j] BY <2>6, <3>1
    <3>3. w \in [DOMAIN w -> CallSet] /\ v \in [DOMAIN w -> CallSet] BY <2>4, <2>5, <3>1
    <3> QED BY <3>2, <3>3
  <2> QED BY <2>2, <2>3, <2>7 DEF v, w
<1> QED BY <1>2, <1>3, <1>4, <1>5

\* What has been done for a logger when a call for it has been made.
LEMMA CallProgress ==
    ASSUME NEW old \in Values, NEW new \in Values, NEW x \in Names, ~Equal(old[x], new[x]),
           NEW lg \in LoggerStates, NEW n \in Nat, n < Len(CallsFor(old, new, x)),
           Progress(lg, new[x], n)
    PROVE  Progress(Apply(lg, CallsFor(old, new, x)[n + 1]), new[x], n + 1)
<1>1. CASE new[x] = Absent
  <2>1. CallsFor(old, new, x) = Retire(x) BY <1>1 DEF CallsFor, Equal
  <2>2. n < 2 BY <2>1, RetireCalls
  <2> QED BY <1>1, <2>1, <2>2, RetireProgress
<1>2. CASE new[x] # Absent
  <2>1. CallsFor(old, new, x) = Update(x, new[x]) BY <1>2 DEF CallsFor
  <2>2. new[x] \in LogDefines BY <1>2 DEF Values
  <2> QED BY <1>2, <2>1, <2>2, ProgressStep
<1> QED BY <1>1, <1>2

\* What is under way stays so when the next call is made, and is done when there
\* is none.
LEMMA FollowingCall ==
    ASSUME NEW old \in Values, NEW new \in Values, NEW x \in Names, NEW lg \in LoggerStates,
           NEW q \in Seq(CallSet), q # <<>>, Following(q, x, lg, old, new)
    PROVE  Following(Tail(q), x, IF q[1].name = x THEN Apply(lg, q[1]) ELSE lg, old, new)
<1>1. CASE Equal(old[x], new[x])
  <2>1. Matches(lg, new[x]) /\ Block(q, x, <<>>) BY <1>1 DEF Following
  <2>2. <<>> \in Seq(CallSet) /\ DOMAIN <<>> = {} OBVIOUS
  <2>3. q[1].name # x /\ Block(Tail(q), x, <<>>) BY <2>1, <2>2, BlockTail
  <2> QED BY <1>1, <2>1, <2>3 DEF Following
<1>2. CASE ~Equal(old[x], new[x])
  <2> DEFINE u == CallsFor(old, new, x)
  <2>1. PICK n \in 0..Len(u) : Block(q, x, SubSeq(u, n + 1, Len(u))) /\ Progress(lg, new[x], n)
    BY <1>2 DEF Following, Underway
  <2>2. u \in Seq(CallSet) /\ \A j \in DOMAIN u : u[j].name = x BY CallsAreOwn
  <2>3. PICK r : r = SubSeq(u, n + 1, Len(u)) OBVIOUS
  <2> HIDE DEF u
  <2>4. /\ r \in Seq(CallSet) /\ \A j \in DOMAIN r : r[j] = u[n + j] /\ n + j \in DOMAIN u
        /\ r # <<>> => /\ n < Len(u) /\ r[1] = u[n + 1]
                       /\ Tail(r) = SubSeq(u, n + 2, Len(u))
    BY <2>2, <2>3, RestCalls
  <2>5. \A j \in DOMAIN r : r[j].name = x BY <2>2, <2>4
  <2>6. Block(q, x, r) BY <2>1, <2>3
  <2>7. CASE q[1].name # x
    <3>1. Block(Tail(q), x, r) BY <2>4, <2>5, <2>6, <2>7, BlockTail
    <3>2. Underway(Tail(q), x, lg, old, new) BY <2>1, <2>3, <3>1 DEF Underway, u
    <3> QED BY <1>2, <2>7, <3>2 DEF Following
  <2>8. CASE q[1].name = x
    <3>1. r # <<>> /\ q[1] = r[1] /\ Block(Tail(q), x, Tail(r))
      BY <2>4, <2>5, <2>6, <2>8, BlockTail
    <3>2. n < Len(u) /\ q[1] = u[n + 1] /\ Block(Tail(q), x, SubSeq(u, n + 2, Len(u)))
      BY <2>4, <3>1
    <3>3. PICK l : l = Apply(lg, q[1]) OBVIOUS
    <3>4. Progress(l, new[x], n + 1) BY <1>2, <2>1, <3>2, <3>3, CallProgress DEF u
    <3>5. n + 1 \in 0..Len(u) /\ (n + 1) + 1 = n + 2 BY <2>1, <2>2, <3>2
    <3>6. Underway(Tail(q), x, l, old, new) BY <3>2, <3>4, <3>5 DEF Underway, u
    <3> QED BY <1>2, <2>8, <3>3, <3>6 DEF Following
  <2> QED BY <2>7, <2>8
<1> QED BY <1>1, <1>2

\* When the listener begins, all its calls are to come.
LEMMA FollowingStart ==
    ASSUME NEW old \in Values, NEW new \in Values, NEW x \in Names, NEW lg,
           lg.formatter \notin Bad, Equal(old[x], new[x]) => Matches(lg, new[x])
    PROVE  Following(Listener(old, new), x, lg, old, new)
<1> DEFINE u == CallsFor(old, new, x)
           q == Listener(old, new)
<1>1. Block(q, x, u) /\ u \in Seq(CallSet) BY ListenerCalls, CallsAreOwn
<1>2. CASE Equal(old[x], new[x])
  <2>1. u = <<>> BY <1>2, EqualNoCalls
  <2> QED BY <1>1, <1>2, <2>1 DEF Following
<1>3. CASE ~Equal(old[x], new[x])
  <2>1. Progress(lg, new[x], 0) BY DEF Progress, HasFormat
  <2> HIDE DEF u
  <2>2. 0 \in 0..Len(u) /\ SubSeq(u, 0 + 1, Len(u)) = u BY <1>1, RestCalls
  <2>3. Block(q, x, SubSeq(u, 0 + 1, Len(u))) BY <1>1, <2>2
  <2> HIDE DEF q
  <2>4. Underway(q, x, lg, old, new) BY <2>1, <2>2, <2>3 DEF Underway, u
  <2> QED BY <1>3, <2>4 DEF Following, q
<1> QED BY <1>2, <1>3

\* When no call is left, all those for a changed logger have been made.
LEMMA FollowingDone ==
    ASSUME NEW old \in Values, NEW new \in Values, NEW x \in Names, NEW lg \in LoggerStates,
           Following(<<>>, x, lg, old, new), ~Equal(old[x], new[x])
    PROVE  Progress(lg, new[x], Len(CallsFor(old, new, x)))
<1> DEFINE u == CallsFor(old, new, x)
<1>1. PICK n \in 0..Len(u) : /\ Block(<<>>, x, SubSeq(u, n + 1, Len(u)))
                             /\ Progress(lg, new[x], n)
  BY DEF Following, Underway
<1>2. u \in Seq(CallSet) /\ Len(u) \in Nat BY CallsAreOwn
<1>3. n = Len(u)
  <2> HIDE DEF u
  <2>1. PICK r : r = SubSeq(u, n + 1, Len(u)) OBVIOUS
  <2>2. r \in Seq(CallSet) /\ Len(r) = Len(u) - n BY <1>2, <2>1, RestCalls
  <2>3. Block(<<>>, x, r) BY <1>1, <2>1
  <2>4. Len(r) <= 0 BY <2>2, <2>3 DEF Block
  <2> QED BY <1>1, <1>2, <2>2, <2>4
<1> QED BY <1>1, <1>3

\* Then the logger is as the new value says.
LEMMA FollowingEnd ==
    ASSUME NEW old \in Values, NEW new \in Values, NEW x \in Names, NEW lg \in LoggerStates,
           Following(<<>>, x, lg, old, new)
    PROVE  Matches(lg, new[x])
<1>1. CASE Equal(old[x], new[x]) BY <1>1 DEF Following
<1>2. CASE ~Equal(old[x], new[x])
  <2> DEFINE u == CallsFor(old, new, x)
  <2>1. PICK n \in Nat : n = Len(u) BY CallsAreOwn
  <2>2. Progress(lg, new[x], n) BY <1>2, <2>1, FollowingDone
  <2>4. CASE new[x] = Absent
    <3>1. u = Retire(x) BY <1>2, <2>4 DEF CallsFor, Equal
    <3>2. n = 2 BY <2>1, <3>1, RetireCalls
    <3> QED BY <2>2, <2>4, <3>2 DEF Progress, Matches
  <2>5. CASE new[x] # Absent
    <3>1. u = Update(x, new[x]) /\ new[x] \in LogDefines BY <1>2, <2>5 DEF CallsFor, Values
    <3>2. n = 2 + HasFormat(new[x]) + Len(new[x].appenders) BY <2>1, <3>1, UpdateCalls
    <3>3. /\ HasFormat(new[x]) \in {0, 1} /\ Len(new[x].appenders) \in Nat
          /\ DOMAIN new[x].appenders = 1..Len(new[x].appenders)
          /\ DOMAIN lg.appenders = 1..Len(lg.appenders)
      BY <3>1 DEF HasFormat, LogDefines, LoggerStates
    <3>4. n >= 1 /\ n >= 1 + HasFormat(new[x]) /\ n >= 2 + HasFormat(new[x])
          /\ n - 2 - HasFormat(new[x]) = Len(new[x].appenders)
      BY <3>2, <3>3
    <3>5. /\ lg.formatter \notin Bad /\ lg.level = new[x].level
          /\ Valid(new[x].formatter) => lg.formatter = new[x].formatter
          /\ Len(lg.appenders) = Len(new[x].appenders)
          /\ \A p \in DOMAIN lg.appenders :
                AppenderMatches(lg.appenders[p], new[x].appenders[p], lg.formatter)
      BY <2>2, <2>5, <3>4 DEF Progress
    <3> QED BY <2>5, <3>3, <3>5 DEF Matches, AppenderMatches
  <2> QED BY <2>4, <2>5
<1> QED BY <1>1, <1>2

\* Loggers and value agree at the start.
LEMMA MatchInit == NoRoot /\ Init => MatchInv
<1> SUFFICES ASSUME NoRoot, Init PROVE MatchInv
  OBVIOUS
<1>1. \A x \in Names : x # "root" BY DEF NoRoot
<1>2. \A x \in Names : loggers[x].formatter = Default /\ loggers[x].appenders = <<>>
  BY <1>1 DEF Init, Fresh
<1>3. Loadable(m_val) BY DEF Init, Loadable
<1>4. \A t \in Setters : pc[t] = "idle" /\ arg[t] = m_val BY DEF Init
<1>5. \A x \in Names : m_val[x] = Absent BY DEF Init
<1>6. \A x \in Names : Matches(loggers[x], m_val[x]) BY <1>2, <1>5 DEF Matches
<1>7. \A x \in Names : loggers[x].formatter \notin Bad BY <1>2, LogConfigAssumption
<1> QED BY <1>3, <1>4, <1>6, <1>7 DEF MatchInv

\* No call gives a logger a formatter with an error.
LEMMA ApplyFormatter ==
    ASSUME NEW lg \in LoggerStates, lg.formatter \notin Bad, NEW c \in CallSet
    PROVE  Apply(lg, c).formatter \notin Bad
<1>1. CASE c.do = "setLevel" BY <1>1 DEF Apply, LoggerStates
<1>2. CASE c.do = "setFormatter"
  <2>1. CASE ~Valid(c.v) BY <1>2, <2>1 DEF Apply
  <2>2. CASE Valid(c.v)
    <3>1. PICK as : Apply(lg, c) = [lg EXCEPT !.formatter = c.v, !.appenders = as]
      BY <1>2, <2>2 DEF Apply
    <3> QED BY <2>2, <3>1 DEF LoggerStates, Valid
  <2> QED BY <2>1, <2>2
<1>3. CASE c.do = "clearAppenders" BY <1>3 DEF Apply, LoggerStates
<1>4. CASE c.do = "addAppender"
  <2>1. PICK as : Apply(lg, c) = [lg EXCEPT !.appenders = as] BY <1>4 DEF Apply
  <2> QED BY <2>1 DEF LoggerStates
<1> QED BY <1>1, <1>2, <1>3, <1>4 DEF CallSet

\* Definitions that compare equal are the same.
LEMMA EqualLoaded ==
    ASSUME EqualIsSame, NEW old, Loadable(old), NEW text \in Texts, ~Throws(text),
           NEW x \in Names, Equal(old[x], Parsed(text)[x])
    PROVE  old[x] = Parsed(text)[x]
<1>1. CASE old = [y \in Names |-> Absent] BY <1>1 DEF Equal
<1>2. CASE \E b \in Texts : ~Throws(b) /\ old = Parsed(b)
  BY <1>2 DEF EqualIsSame
<1> QED BY <1>1, <1>2 DEF Loadable

\* Every step keeps the loggers with the value, or on the way to it.
LEMMA MatchStep == OneSetter /\ EqualIsSame /\ TypeInv /\ MatchInv /\ [Next]_vars => MatchInv'
<1> SUFFICES ASSUME OneSetter, EqualIsSame, TypeInv, MatchInv, [Next]_vars PROVE MatchInv'
  OBVIOUS
<1>0. /\ todo \in [Setters -> Seq(CallSet)] /\ m_val \in Values
      /\ arg \in [Setters -> Values] /\ pc \in [Setters -> {"idle", "notify", "write"}]
      /\ loggers \in [Names -> LoggerStates]
  BY DEF TypeInv
<1>a. \A x \in Names : loggers[x].formatter \notin Bad BY DEF MatchInv
<1>b. Loadable(m_val) BY DEF MatchInv
<1>c. \A t, u \in Setters : t = u BY DEF OneSetter
<1>1. ASSUME NEW t \in Setters, NEW text \in Texts, Load(t, text) PROVE MatchInv'
  <2> DEFINE new == Parsed(text)
             q == Listener(m_val, new)
  <2>1. new \in Values /\ ~Throws(text) BY <1>1, ParsedIsValue DEF Load
  <2>2. /\ m_val' = m_val /\ loggers' = loggers
        /\ arg'[t] = new /\ todo'[t] = q /\ pc'[t] = "notify"
    BY <1>0, <1>1 DEF Load
  <2>3. Loadable(new) BY <2>1 DEF Loadable
  <2>4. ASSUME NEW x \in Names PROVE Following(q, x, loggers[x], m_val, new)
    <3>1. Matches(loggers[x], m_val[x]) BY <1>1 DEF MatchInv, Load
    <3>2. Equal(m_val[x], new[x]) => m_val[x] = new[x] BY <1>b, <2>1, EqualLoaded
    <3> QED BY <1>0, <1>a, <2>1, <3>1, <3>2, FollowingStart
  <2> HIDE DEF new, q
  <2> QED BY <1>a, <1>b, <1>c, <2>2, <2>3, <2>4 DEF MatchInv
<1>2. ASSUME NEW t \in Setters, NEW text \in Texts, LoadNothing(t, text) PROVE MatchInv'
  <2>1. pc[t] = "idle" /\ m_val' = m_val /\ loggers' = loggers /\ pc' = pc /\ todo' = todo
    BY <1>2 DEF LoadNothing
  <2>2. arg'[t] = arg[t]
    <3>1. CASE Throws(text) BY <1>2, <3>1 DEF LoadNothing
    <3>2. CASE ~Throws(text)
      <4>1. Parsed(text) \in Values BY <3>2, ParsedIsValue
      <4>2. \A x \in Names : Equal(m_val[x], Parsed(text)[x]) BY <1>2, <3>2 DEF LoadNothing
      <4>3. \A x \in Names : m_val[x] = Parsed(text)[x] BY <1>b, <3>2, <4>2, EqualLoaded
      <4>4. m_val = Parsed(text) BY <1>0, <4>1, <4>3 DEF Values
      <4>5. m_val = arg[t] BY <2>1 DEF MatchInv
      <4>6. arg' = [arg EXCEPT ![t] = Parsed(text)] BY <1>2, <3>2 DEF LoadNothing
      <4> QED BY <1>0, <4>4, <4>5, <4>6
    <3> QED BY <3>1, <3>2
  <2> QED BY <1>c, <2>1, <2>2 DEF MatchInv
<1>3. ASSUME NEW t \in Setters, Call(t) PROVE MatchInv'
  <2> DEFINE q == todo[t]
  <2>1. q \in Seq(CallSet) /\ q # <<>> /\ pc[t] = "notify" BY <1>0, <1>3 DEF Call
  <2>2. q[1] \in CallSet /\ q[1].name \in Names /\ Head(q) = q[1] BY <2>1, HeadCall
  <2>3. /\ loggers' = [loggers EXCEPT ![q[1].name] = Apply(loggers[q[1].name], q[1])]
        /\ todo'[t] = Tail(q) /\ m_val' = m_val /\ pc' = pc /\ arg' = arg
    BY <1>0, <1>3, <2>2 DEF Call
  <2> HIDE DEF q
  <2>4. \A x \in Names : loggers'[x] = IF q[1].name = x THEN Apply(loggers[x], q[1]) ELSE loggers[x]
    BY <1>0, <2>2, <2>3
  <2>5. ASSUME NEW x \in Names PROVE loggers'[x].formatter \notin Bad
    BY <1>0, <1>a, <2>2, <2>4, ApplyFormatter
  <2>6. ASSUME NEW x \in Names PROVE Following(Tail(q), x, loggers'[x], m_val, arg[t])
    <3>1. Following(q, x, loggers[x], m_val, arg[t]) BY <2>1 DEF MatchInv, q
    <3>2. arg[t] \in Values /\ loggers[x] \in LoggerStates BY <1>0
    <3> QED BY <1>0, <2>1, <2>4, <3>1, <3>2, FollowingCall
  <2> QED BY <1>b, <1>c, <2>1, <2>3, <2>5, <2>6 DEF MatchInv
<1>4. ASSUME NEW t \in Setters, Return(t) PROVE MatchInv'
  <2>1. /\ pc[t] = "notify" /\ todo[t] = <<>> /\ pc'[t] = "write"
        /\ m_val' = m_val /\ loggers' = loggers /\ arg' = arg /\ todo' = todo
    BY <1>0, <1>4 DEF Return
  <2>2. ASSUME NEW x \in Names PROVE Matches(loggers[x], arg[t][x])
    <3>1. Following(<<>>, x, loggers[x], m_val, arg[t]) BY <2>1 DEF MatchInv
    <3>2. arg[t] \in Values /\ loggers[x] \in LoggerStates BY <1>0
    <3> QED BY <1>0, <3>1, <3>2, FollowingEnd
  <2> QED BY <1>a, <1>b, <1>c, <2>1, <2>2 DEF MatchInv
<1>5. ASSUME NEW t \in Setters, Store(t) PROVE MatchInv'
  <2>1. /\ pc[t] = "write" /\ m_val' = arg[t] /\ pc'[t] = "idle"
        /\ loggers' = loggers /\ arg' = arg /\ todo' = todo
    BY <1>0, <1>5 DEF Store
  <2>2. Loadable(arg[t]) /\ \A x \in Names : Matches(loggers[x], arg[t][x])
    BY <2>1 DEF MatchInv
  <2> QED BY <1>a, <1>c, <2>1, <2>2 DEF MatchInv
<1>6. CASE UNCHANGED vars BY <1>6 DEF vars, MatchInv
<1> QED BY <1>1, <1>2, <1>3, <1>4, <1>5, <1>6 DEF Next

\* The invariant of a setter that is alone.
LEMMA Matching ==
    ASSUME OneSetter, EqualIsSame, NoRoot PROVE Spec => [](TypeInv /\ MatchInv)
<1>1. Init => TypeInv /\ MatchInv BY TypeInit, MatchInit
<1>2. TypeInv /\ MatchInv /\ [Next]_vars => TypeInv' /\ MatchInv' BY TypeStep, MatchStep
<1> QED BY <1>1, <1>2, PTL DEF Spec

(***************************************************************************)
(* When setValue has returned, every logger is as the value of the         *)
(* variable says: level, formatter, and each of its appenders in order,    *)
(* whatever was loaded before.                                             *)
(***************************************************************************)
THEOREM LoggersAsConfigured ==
    ASSUME OneSetter, EqualIsSame, NoRoot PROVE Spec => []LoggersMatch
<1>1. MatchInv => LoggersMatch
  <2> SUFFICES ASSUME MatchInv, \A t \in Setters : pc[t] = "idle", NEW x \in Names
               PROVE  Matches(loggers[x], m_val[x])
    BY DEF LoggersMatch
  <2>1. PICK t : t \in Setters BY DEF OneSetter
  <2>2. pc[t] = "idle" /\ m_val = arg[t] BY <2>1 DEF MatchInv
  <2> QED BY <2>1, <2>2 DEF MatchInv
<1> QED BY <1>1, Matching, PTL

(***************************************************************************)
(* And as the text says that was loaded last.                              *)
(***************************************************************************)
THEOREM TextsTakeEffect ==
    ASSUME OneSetter, EqualIsSame, NoRoot PROVE Spec => []AsLoaded
<1>1. MatchInv => AsLoaded BY DEF MatchInv, AsLoaded
<1> QED BY <1>1, Matching, PTL

-----------------------------------------------------------------------------
(***************************************************************************)
(* What is written is read back.  The invariant says what loggers and      *)
(* calls can be when their settings were read from texts: an appender      *)
(* without a formatter of its own has the logger's, and no formatter has   *)
(* an error.  It holds for any number of setters.                          *)
(***************************************************************************)
KeptAppender(a, formatter) ==
    /\ a.level = UNKNOW /\ a.type \in {File, Stdout} /\ (a.type = Stdout => a.file = None)
    /\ IF a.own THEN Valid(a.formatter) ELSE a.formatter = formatter
KeptLogger(lg) ==
    /\ lg.level \in 0..Len(LevelNames) /\ Valid(lg.formatter)
    /\ \A p \in DOMAIN lg.appenders : KeptAppender(lg.appenders[p], lg.formatter)
ReadCalls ==
    {c \in CallSet : /\ c.do = "setLevel" => c.v \in 0..Len(LevelNames)
                     /\ c.do = "addAppender" => c.v \in ReadAppenders}
ReadInv ==
    /\ m_val \in ReadValues /\ arg \in [Setters -> ReadValues]
    /\ todo \in [Setters -> Seq(ReadCalls)]
    /\ \A x \in Names : KeptLogger(loggers[x])

\* The calls of the listener set what was read.
LEMMA CallsRead ==
    ASSUME NEW x \in Names, NEW d \in ReadDefines PROVE Update(x, d) \in Seq(ReadCalls)
<1> DEFINE sets == <<Do("setLevel", x, d.level)>>
           format == IF d.formatter = None THEN <<>> ELSE <<Do("setFormatter", x, d.formatter)>>
           clear == <<Do("clearAppenders", x, 0)>>
           adds == [p \in DOMAIN d.appenders |-> Do("addAppender", x, d.appenders[p])]
<1>0. /\ d.level \in 0..Len(LevelNames) /\ d.level \in Nat /\ d.formatter \in STRING
      /\ d.appenders \in Seq(ReadAppenders)
  BY DEF ReadDefines, LogDefines
<1>1. Do("setLevel", x, d.level) \in ReadCalls /\ Do("clearAppenders", x, 0) \in ReadCalls
      /\ Do("setFormatter", x, d.formatter) \in ReadCalls
  BY <1>0 DEF ReadCalls, CallSet, Do
<1>2. \A a \in ReadAppenders : Do("addAppender", x, a) \in ReadCalls
  BY DEF ReadCalls, CallSet, Do, ReadAppenders
<1>3. sets \in Seq(ReadCalls) /\ clear \in Seq(ReadCalls) BY <1>1
<1>4. format \in Seq(ReadCalls) BY <1>1
<1>5. adds \in Seq(ReadCalls)
  <2>1. PICK list : list = d.appenders OBVIOUS
  <2>2. list \in Seq(ReadAppenders) BY <1>0, <2>1
  <2>3. [p \in DOMAIN list |-> Do("addAppender", x, list[p])] \in Seq(ReadCalls) BY <1>2, <2>2
  <2> QED BY <2>1, <2>3
<1>6. Update(x, d) = ((sets \o format) \o clear) \o adds BY DEF Update, Calls
<1> HIDE DEF sets, format, clear, adds
<1> QED BY <1>3, <1>4, <1>5, <1>6

\* Those for all names.
LEMMA ListenerRead ==
    ASSUME NEW old \in ReadValues, NEW new \in ReadValues
    PROVE  Listener(old, new) \in Seq(ReadCalls)
<1> DEFINE Set(x) == IF new[x] = Absent \/ Equal(old[x], new[x]) THEN <<>> ELSE Update(x, new[x])
           Gone(x) == IF old[x] # Absent /\ new[x] = Absent THEN Retire(x) ELSE <<>>
           s == [p \in DOMAIN LogNames |-> Set(LogNames[p])]
           g == [p \in DOMAIN LogNames |-> Gone(LogNames[p])]
<1>1. Listener(old, new) = FlattenSeq(s) \o FlattenSeq(g) BY DEF Listener, PerName
<1>2. \A p \in DOMAIN LogNames : LogNames[p] \in Names BY LogConfigAssumption DEF Names, ToSet
<1>3. DOMAIN LogNames = 1..Len(LogNames) /\ Len(LogNames) \in Nat BY LogConfigAssumption
<1>4. ASSUME NEW x \in Names PROVE Set(x) \in Seq(ReadCalls) /\ Gone(x) \in Seq(ReadCalls)
  <2>1. new[x] # Absent => new[x] \in ReadDefines BY DEF ReadValues
  <2>2. new[x] # Absent => Update(x, new[x]) \in Seq(ReadCalls) BY <2>1, CallsRead
  <2>3. Retire(x) \in Seq(ReadCalls)
    <3>1. Do("setLevel", x, UNKNOW) \in ReadCalls /\ Do("clearAppenders", x, 0) \in ReadCalls
      BY DEF ReadCalls, CallSet, Do, UNKNOW, LevelNames
    <3> QED BY <3>1 DEF Retire
  <2> QED BY <2>2, <2>3
<1> HIDE DEF Set, Gone
<1>5. s \in Seq(Seq(ReadCalls)) /\ g \in Seq(Seq(ReadCalls)) BY <1>2, <1>3, <1>4
<1> HIDE DEF s, g
<1>6. FlattenSeq(s) \in Seq(ReadCalls) /\ FlattenSeq(g) \in Seq(ReadCalls) BY <1>5, FlattenType
<1> QED BY <1>1, <1>6

\* Such a call keeps what a logger can be.
LEMMA ApplyKept ==
    ASSUME NEW lg \in LoggerStates, KeptLogger(lg), NEW c \in ReadCalls
    PROVE  KeptLogger(Apply(lg, c))
<1>0. PICK list \in Seq(AppenderStates) : list = lg.appenders BY DEF LoggerStates
<1>1. \A p \in DOMAIN list : KeptAppender(list[p], lg.formatter) BY <1>0 DEF KeptLogger
<1>2. CASE c.do = "setLevel"
  <2>1. Apply(lg, c) = [lg EXCEPT !.level = c.v] BY <1>2 DEF Apply
  <2>2. c.v \in 0..Len(LevelNames) BY <1>2 DEF ReadCalls
  <2> QED BY <2>1, <2>2 DEF KeptLogger, LoggerStates
<1>3. CASE c.do = "setFormatter"
  <2>1. CASE ~Valid(c.v) BY <1>3, <2>1 DEF Apply
  <2>2. CASE Valid(c.v)
    <3> DEFINE b == [p \in DOMAIN list |-> IF list[p].own THEN list[p]
                                           ELSE [list[p] EXCEPT !.formatter = c.v]]
    <3>1. Apply(lg, c) = [lg EXCEPT !.formatter = c.v, !.appenders = b]
      BY <1>0, <1>3, <2>2 DEF Apply
    <3>2. ASSUME NEW p \in DOMAIN list PROVE KeptAppender(b[p], c.v)
      <4>1. KeptAppender(list[p], lg.formatter) /\ list[p] \in AppenderStates BY <1>1
      <4> QED BY <2>2, <4>1 DEF KeptAppender, AppenderStates
    <3>3. DOMAIN b = DOMAIN list OBVIOUS
    <3> HIDE DEF b
    <3>4. PICK l : l = Apply(lg, c) OBVIOUS
    <3>5. l.level = lg.level /\ l.formatter = c.v /\ l.appenders = b
      BY <3>1, <3>4 DEF LoggerStates
    <3> QED BY <2>2, <3>2, <3>3, <3>4, <3>5 DEF KeptLogger
  <2> QED BY <2>1, <2>2
<1>4. CASE c.do = "clearAppenders"
  <2>1. Apply(lg, c) = [lg EXCEPT !.appenders = <<>>] BY <1>4 DEF Apply
  <2>2. PICK l : l = Apply(lg, c) OBVIOUS
  <2>3. l.level = lg.level /\ l.formatter = lg.formatter /\ l.appenders = <<>>
    BY <2>1, <2>2 DEF LoggerStates
  <2> QED BY <2>2, <2>3 DEF KeptLogger
<1>5. CASE c.do = "addAppender"
  <2> DEFINE a == [type |-> c.v.type, file |-> c.v.file, level |-> c.v.level,
                   own |-> Valid(c.v.formatter),
                   formatter |-> IF Valid(c.v.formatter) THEN c.v.formatter ELSE lg.formatter]
  <2>1. c.v \in ReadAppenders BY <1>5 DEF ReadCalls
  <2>2. KeptAppender(a, lg.formatter) BY <2>1 DEF KeptAppender, ReadAppenders
  <2>3. Apply(lg, c) = [lg EXCEPT !.appenders = Append(list, a)] BY <1>0, <1>5 DEF Apply
  <2> HIDE DEF a
  <2>4. PICK l : l = Apply(lg, c) OBVIOUS
  <2>5. l.level = lg.level /\ l.formatter = lg.formatter /\ l.appenders = Append(list, a)
    BY <2>3, <2>4 DEF LoggerStates
  <2>6. \A p \in DOMAIN Append(list, a) :
          Append(list, a)[p] = IF p \in DOMAIN list THEN list[p] ELSE a
    OBVIOUS
  <2>7. \A p \in DOMAIN l.appenders : KeptAppender(l.appenders[p], lg.formatter)
    BY <1>1, <2>2, <2>5, <2>6
  <2> QED BY <2>4, <2>5, <2>7 DEF KeptLogger
<1> QED BY <1>2, <1>3, <1>4, <1>5 DEF ReadCalls, CallSet

\* The loggers of a new program have no appenders.
LEMMA ReadInit == NoRoot /\ Init => ReadInv
<1> SUFFICES ASSUME NoRoot, Init PROVE ReadInv
  OBVIOUS
<1>1. m_val \in ReadValues BY DEF Init, ReadValues
<1>2. \A t \in Setters : <<>> \in Seq(ReadCalls) OBVIOUS
<1>3. ASSUME NEW x \in Names PROVE KeptLogger(loggers[x])
  <2>1. loggers[x] = [level |-> DEBUG, formatter |-> Default, appenders |-> <<>>]
    BY DEF NoRoot, Init, Fresh
  <2>2. DEBUG \in 0..Len(LevelNames) BY DEF DEBUG, LevelNames
  <2> QED BY <2>1, <2>2, LogConfigAssumption DEF KeptLogger, Valid
<1> QED BY <1>1, <1>2, <1>3 DEF Init, ReadInv

\* Every step keeps what values, calls and loggers can be.
LEMMA ReadStep == TypeInv /\ ReadInv /\ [Next]_vars => ReadInv'
<1> SUFFICES ASSUME TypeInv, ReadInv, [Next]_vars PROVE ReadInv'
  OBVIOUS
<1>0. /\ todo \in [Setters -> Seq(ReadCalls)] /\ m_val \in ReadValues
      /\ arg \in [Setters -> ReadValues] /\ \A x \in Names : KeptLogger(loggers[x])
      /\ loggers \in [Names -> LoggerStates]
  BY DEF ReadInv, TypeInv
<1>1. ASSUME NEW t \in Setters, NEW text \in Texts, Load(t, text) PROVE ReadInv'
  <2>1. Parsed(text) \in ReadValues BY ParsedIsValue
  <2>2. Listener(m_val, Parsed(text)) \in Seq(ReadCalls) BY <1>0, <2>1, ListenerRead
  <2> QED BY <1>0, <1>1, <2>1, <2>2 DEF Load, ReadInv
<1>2. ASSUME NEW t \in Setters, NEW text \in Texts, LoadNothing(t, text) PROVE ReadInv'
  <2>1. Parsed(text) \in ReadValues BY ParsedIsValue
  <2> QED BY <1>0, <1>2, <2>1 DEF LoadNothing, ReadInv
<1>3. ASSUME NEW t \in Setters, Call(t) PROVE ReadInv'
  <2>1. PICK q \in Seq(ReadCalls) : q = todo[t] BY <1>0
  <2>2. q # <<>> BY <1>3, <2>1 DEF Call
  <2>3. Head(q) \in ReadCalls /\ Tail(q) \in Seq(ReadCalls) BY <2>2
  <2>4. PICK c \in ReadCalls : c = Head(q) BY <2>3
  <2>5. c.name \in Names BY DEF ReadCalls, CallSet
  <2>6. /\ loggers' = [loggers EXCEPT ![c.name] = Apply(loggers[c.name], c)]
        /\ todo' = [todo EXCEPT ![t] = Tail(q)] /\ m_val' = m_val /\ arg' = arg
    BY <1>3, <2>1, <2>4 DEF Call
  <2>7. KeptLogger(Apply(loggers[c.name], c)) BY <1>0, <2>5, ApplyKept
  <2>8. ASSUME NEW x \in Names PROVE KeptLogger(loggers'[x])
    <3>1. CASE x = c.name
      <4>1. loggers'[x] = Apply(loggers[c.name], c) BY <1>0, <2>6, <3>1
      <4> QED BY <2>7, <4>1
    <3>2. CASE x # c.name
      <4>1. loggers'[x] = loggers[x] BY <1>0, <2>6, <3>2
      <4> QED BY <1>0, <4>1
    <3> QED BY <3>1, <3>2
  <2> QED BY <1>0, <2>3, <2>6, <2>8 DEF ReadInv
<1>4. ASSUME NEW t \in Setters, Return(t) PROVE ReadInv' BY <1>0, <1>4 DEF Return, ReadInv
<1>5. ASSUME NEW t \in Setters, Store(t) PROVE ReadInv'
  <2>1. arg[t] \in ReadValues BY <1>0
  <2> QED BY <1>0, <1>5, <2>1 DEF Store, ReadInv
<1>6. CASE UNCHANGED vars BY <1>0, <1>6 DEF vars, ReadInv
<1> QED BY <1>1, <1>2, <1>3, <1>4, <1>5, <1>6 DEF Next

\* No level is without a name.
LEMMA LevelsNamed == \A v \in 1..5 : LevelNames[v] # "" /\ LowerNames[v] # ""
<1>1. LevelNames[1] # "" /\ LevelNames[2] # "" /\ LevelNames[3] # "" /\ LevelNames[4] # ""
      /\ LevelNames[5] # ""
  BY DEF LevelNames
<1>2. LowerNames[1] # "" /\ LowerNames[2] # "" /\ LowerNames[3] # "" /\ LowerNames[4] # ""
      /\ LowerNames[5] # ""
  BY DEF LowerNames
<1>3. ASSUME NEW v \in 1..5 PROVE v \in {1, 2, 3, 4, 5} OBVIOUS
<1>4. ASSUME NEW v \in {1, 2, 3, 4, 5} PROVE LevelNames[v] # "" /\ LowerNames[v] # ""
  BY <1>1, <1>2, Zenon
<1> QED BY <1>3, <1>4, Zenon

\* A level that is written is read as the same one.
LEMMA LevelAgain ==
    ASSUME NEW l \in 0..Len(LevelNames)
    PROVE  LevelFromString(IF l = UNKNOW THEN "" ELSE LevelToString(l)) = l
<1>1. DOMAIN LevelNames = 1..5 /\ Len(LevelNames) = 5 BY DEF LevelNames
<1>2. CASE l = UNKNOW
  <2>1. {v \in DOMAIN LevelNames : "" \in {LevelNames[v], LowerNames[v]}} = {}
    BY <1>1, LevelsNamed
  <2> QED BY <1>2, <2>1 DEF LevelFromString
<1>3. CASE l # UNKNOW
  <2>1. l \in 1..5 BY <1>1, <1>3 DEF UNKNOW
  <2>2. LevelToString(l) = LevelNames[l] BY <1>1, <2>1 DEF LevelToString
  <2>3. {v \in DOMAIN LevelNames : LevelNames[l] \in {LevelNames[v], LowerNames[v]}} = {l}
    BY <1>1, <2>1 DEF LevelNames, LowerNames
  <2> QED BY <1>3, <2>2, <2>3 DEF LevelFromString
<1> QED BY <1>2, <1>3

\* An appender that is written is taken, and read as the same one.
LEMMA AppenderAgain ==
    ASSUME NEW a \in ReadAppenders, NEW n, n = AppenderNode(a)
    PROVE  Taken(n) /\ AppenderDefine(n) = a
<1>1. /\ DOMAIN a = {"type", "file", "level", "formatter"} /\ a.level = UNKNOW
      /\ a.type \in {File, Stdout} /\ (a.type = Stdout => a.file = None) /\ File # Stdout
  BY DEF ReadAppenders, AppenderDefines, File, Stdout
<1>2. /\ "type" \in DOMAIN n /\ ("file" \in DOMAIN n <=> a.type = File)
      /\ ("formatter" \in DOMAIN n <=> a.formatter # None)
  BY DEF AppenderNode, Fields
<1>3. \A f \in DOMAIN n : f # "level" => n[f] = a[f] BY DEF AppenderNode
<1>4. n.type = a.type /\ (a.type = File => n.file = a.file)
      /\ (a.formatter # None => n.formatter = a.formatter)
  BY <1>2, <1>3
<1>5. Get(n, "type") = a.type /\ Get(n, "formatter") = a.formatter BY <1>2, <1>4 DEF Get, None
<1>6. Taken(n) BY <1>1, <1>2, <1>5 DEF Taken
<1>7. AppenderDefine(n) = [type |-> a.type, file |-> a.file, level |-> a.level, formatter |-> a.formatter]
  BY <1>1, <1>4, <1>5 DEF AppenderDefine
<1> QED BY <1>6, <1>7 DEF ReadAppenders, AppenderDefines

\* A definition that is written is read as the same one.
LEMMA DefinedAgain ==
    ASSUME NEW x, NEW d \in ReadDefines, NEW n, n = Node(x, d) PROVE n.name = x /\ Defined(n) = d
<1>0. PICK list \in Seq(ReadAppenders) : list = d.appenders BY DEF ReadDefines
<1>1. /\ "name" \in DOMAIN n /\ ("level" \in DOMAIN n <=> d.level # UNKNOW)
      /\ ("formatter" \in DOMAIN n <=> d.formatter # None)
      /\ ("appenders" \in DOMAIN n <=> list # <<>>)
  BY <1>0 DEF Node, Fields
<1>2. /\ n.name = x /\ (d.level # UNKNOW => n.level = LevelToString(d.level))
      /\ (d.formatter # None => n.formatter = d.formatter)
      /\ (list # <<>> => n.appenders = Mapped(AppenderNode, list))
  BY <1>0, <1>1 DEF Node
<1>3. Get(n, "formatter") = d.formatter BY <1>1, <1>2 DEF Get, None
<1>4. LevelFromString(Get(n, "level")) = d.level
  <2>1. Get(n, "level") = IF d.level = UNKNOW THEN "" ELSE LevelToString(d.level)
    BY <1>1, <1>2 DEF Get
  <2> QED BY <2>1, LevelAgain DEF ReadDefines
<1>5. PICK nodes : nodes = IF "appenders" \in DOMAIN n THEN n.appenders ELSE <<>> OBVIOUS
<1>6. DOMAIN nodes = DOMAIN list /\ \A p \in DOMAIN list : nodes[p] = AppenderNode(list[p])
  BY <1>1, <1>2, <1>5 DEF Mapped
<1> DEFINE b == [p \in DOMAIN nodes |-> IF Taken(nodes[p]) THEN <<AppenderDefine(nodes[p])>> ELSE <<>>]
<1>7. b = [p \in DOMAIN list |-> <<list[p]>>]
  <2>1. \A p \in DOMAIN list : Taken(nodes[p]) /\ AppenderDefine(nodes[p]) = list[p]
    BY <1>6, AppenderAgain
  <2> QED BY <1>6, <2>1
<1>8. Defined(n) = [level |-> LevelFromString(Get(n, "level")),
                    formatter |-> Get(n, "formatter"), appenders |-> FlattenSeq(b)]
  BY <1>5 DEF Defined, Mapped
<1> HIDE DEF b
<1>9. FlattenSeq(b) = list BY <1>7, FlattenSingles
<1>10. Defined(n) = [level |-> d.level, formatter |-> d.formatter, appenders |-> d.appenders]
  BY <1>0, <1>3, <1>4, <1>8, <1>9, Zenon
<1> QED BY <1>2, <1>10 DEF ReadDefines, LogDefines

\* The text of the definitions of the names in K.
NodesOf(K, v) ==
    [p \in DOMAIN LogNames |-> IF LogNames[p] \in K THEN <<Node(LogNames[p], v[LogNames[p]])>> ELSE <<>>]

\* It is well formed, and read as those definitions.
LEMMA ParsedAgain ==
    ASSUME NEW v, NEW K \in SUBSET Names,
           \A x \in K : v[x] \in ReadDefines, NEW T, T = FlattenSeq(NodesOf(K, v))
    PROVE  \A x \in Names : Parsed(T)[x] = IF x \in K THEN v[x] ELSE Absent
<1> DEFINE S == {Node(x, v[x]) : x \in K}
           b == NodesOf(K, v)
<1>1. /\ \A p \in DOMAIN LogNames : LogNames[p] \in Names
      /\ \A x \in Names : \E p \in DOMAIN LogNames : LogNames[p] = x
      /\ DOMAIN LogNames = 1..Len(LogNames) /\ Len(LogNames) \in Nat
  BY LogConfigAssumption DEF Names, ToSet
<1>2. DOMAIN b = DOMAIN LogNames
      /\ \A p \in DOMAIN LogNames : b[p] = IF LogNames[p] \in K
                                           THEN <<Node(LogNames[p], v[LogNames[p]])>> ELSE <<>>
  BY DEF NodesOf
<1>3. \A x \in K : Node(x, v[x]).name = x BY DefinedAgain
<1>4. ASSUME NEW p \in DOMAIN LogNames
      PROVE  b[p] \in Seq(S) /\ \A k \in DOMAIN b[p] : b[p][k].name = LogNames[p]
  <2>1. CASE LogNames[p] \in K
    <3>1. PICK n \in S : n = Node(LogNames[p], v[LogNames[p]]) BY <2>1
    <3>2. n.name = LogNames[p] BY <1>3, <2>1, <3>1
    <3>3. b[p] = <<n>> BY <1>2, <2>1, <3>1
    <3> HIDE DEF S, b
    <3> QED BY <3>2, <3>3
  <2>2. CASE LogNames[p] \notin K
    <3>1. b[p] = <<>> BY <1>2, <2>2
    <3> HIDE DEF S, b
    <3> QED BY <3>1
  <2> QED BY <2>1, <2>2
<1>5. b = [p \in 1..Len(LogNames) |-> b[p]] BY <1>1 DEF NodesOf
<1> HIDE DEF S, b
<1>6. b \in Seq(Seq(S)) BY <1>1, <1>4, <1>5
<1>7. T \in Seq(S) /\ \A p \in DOMAIN b : Block(T, LogNames[p], b[p])
  <2>1. FlattenSeq(b) \in Seq(S) /\ \A p \in DOMAIN b : Block(FlattenSeq(b), LogNames[p], b[p])
    BY <1>2, <1>4, <1>6, FlattenBlocks
  <2> QED BY <2>1 DEF b
<1>8. ASSUME NEW x \in Names PROVE Parsed(T)[x] = IF x \in K THEN v[x] ELSE Absent
  <2> DEFINE at == {p \in DOMAIN T : T[p].name = x}
  <2>1. PICK p \in DOMAIN LogNames : LogNames[p] = x BY <1>1
  <2>2. Parsed(T)[x] = IF at = {} THEN Absent
                       ELSE Defined(T[CHOOSE i \in at : \A q \in at : i <= q])
    BY DEF Parsed
  <2>3. Block(T, x, b[p]) /\ DOMAIN T = 1..Len(T) /\ Len(T) \in Nat BY <1>2, <1>7, <2>1
  <2>4. CASE x \in K
    <3>1. PICK n : n = Node(x, v[x]) OBVIOUS
    <3>2. n.name = x /\ Defined(n) = v[x] BY <2>4, <3>1, DefinedAgain
    <3>3. PICK u : u = <<n>> OBVIOUS
    <3>4. Block(T, x, u) /\ Len(u) = 1 /\ DOMAIN u = {1} /\ u[1] = n
      BY <1>2, <2>1, <2>3, <2>4, <3>1, <3>3
    <3>5. PICK lo \in 0..Len(T) :
            /\ lo + 1 <= Len(T) /\ T[lo + 1] = n
            /\ \A k \in DOMAIN T : k <= lo \/ k > lo + 1 => T[k].name # x
      BY <3>4 DEF Block
    <3>6. at = {lo + 1}
      <4>1. lo + 1 \in DOMAIN T /\ T[lo + 1].name = x BY <2>3, <3>2, <3>5
      <4>2. \A k \in DOMAIN T : T[k].name = x => k = lo + 1 BY <2>3, <3>5
      <4> QED BY <4>1, <4>2
    <3>7. (CHOOSE i \in at : \A q \in at : i <= q) = lo + 1 BY <2>3, <3>5, <3>6
    <3> HIDE DEF at
    <3> QED BY <2>2, <2>4, <3>2, <3>5, <3>6, <3>7
  <2>5. CASE x \notin K
    <3>1. b[p] = <<>> BY <1>2, <2>1, <2>5
    <3>2. \A k \in DOMAIN T : T[k].name # x BY <2>3, <3>1 DEF Block
    <3>3. at = {} BY <3>2
    <3> QED BY <2>2, <2>5, <3>3
  <2> QED BY <2>4, <2>5
<1> QED BY <1>8

\* What a logger is written as, it is again when that is all its calls set.
LEMMA WrittenRead ==
    ASSUME NEW lg \in LoggerStates, KeptLogger(lg), NEW d, d = Written(lg)
    PROVE  /\ d \in ReadDefines /\ d.level = lg.level /\ d.formatter = lg.formatter
           /\ Len(d.appenders) = Len(lg.appenders)
           /\ \A p \in DOMAIN lg.appenders :
                 LET a == lg.appenders[p]
                 IN  d.appenders[p] = [type |-> a.type, file |-> a.file, level |-> a.level,
                                       formatter |-> IF a.own THEN a.formatter ELSE None]
<1> DEFINE Own(a) == [type |-> a.type, file |-> a.file, level |-> a.level,
                      formatter |-> IF a.own THEN a.formatter ELSE None]
<1>0. PICK list \in Seq(AppenderStates) : list = lg.appenders BY DEF LoggerStates
<1>1. Strings = STRING BY LogConfigAssumption, LiteralsAreStrings DEF Strings
<1>2. ASSUME NEW p \in DOMAIN list PROVE Own(list[p]) \in ReadAppenders
  <2>1. list[p] \in AppenderStates /\ KeptAppender(list[p], lg.formatter)
    BY <1>0 DEF KeptLogger
  <2>2. None \in STRING /\ UNKNOW \in Nat BY LiteralsAreStrings DEF UNKNOW
  <2> QED BY <1>1, <2>1, <2>2 DEF AppenderStates, KeptAppender, ReadAppenders, AppenderDefines
<1>3. d = [lg EXCEPT !.appenders = [p \in DOMAIN list |-> Own(list[p])]]
  BY <1>0 DEF Written, Mapped
<1> HIDE DEF Own
<1>4. PICK nodes : nodes = [p \in DOMAIN list |-> Own(list[p])] OBVIOUS
<1>5. nodes \in Seq(ReadAppenders) /\ Len(nodes) = Len(list)
  BY <1>2, <1>4
<1>6. d = [level |-> lg.level, formatter |-> lg.formatter, appenders |-> nodes]
  BY <1>3, <1>4 DEF LoggerStates
<1>7. lg.level \in Nat /\ lg.formatter \in STRING /\ lg.level \in 0..Len(LevelNames)
  BY <1>1 DEF LoggerStates, KeptLogger
<1>8. nodes \in Seq(AppenderDefines) BY <1>5 DEF ReadAppenders
<1>9. d \in ReadDefines BY <1>5, <1>6, <1>7, <1>8 DEF ReadDefines, LogDefines
<1>10. \A p \in DOMAIN list : nodes[p] = Own(list[p]) BY <1>4
<1> QED BY <1>0, <1>5, <1>6, <1>9, <1>10 DEF Own

\* A new logger that has had all calls for what was written is the old one.
LEMMA SameLogger ==
    ASSUME NEW lg \in LoggerStates, KeptLogger(lg), NEW d, d = Written(lg), d # Absent,
           NEW l \in LoggerStates, Progress(l, d, 2 + HasFormat(d) + Len(d.appenders))
    PROVE  l = lg
<1>1. /\ d.level = lg.level /\ d.formatter = lg.formatter
      /\ Len(d.appenders) = Len(lg.appenders)
      /\ \A p \in DOMAIN lg.appenders :
            LET a == lg.appenders[p]
            IN  d.appenders[p] = [type |-> a.type, file |-> a.file, level |-> a.level,
                                  formatter |-> IF a.own THEN a.formatter ELSE None]
  BY WrittenRead
<1>2. PICK k \in Nat : k = Len(lg.appenders) BY DEF LoggerStates
<1>3. HasFormat(d) \in {0, 1} BY DEF HasFormat
<1>4. PICK n \in Nat : n = 2 + HasFormat(d) + k BY <1>3
<1>5. Progress(l, d, n) BY <1>1, <1>2, <1>4
<1>6. n >= 1 /\ n >= 1 + HasFormat(d) /\ n >= 2 + HasFormat(d) /\ n - 2 - HasFormat(d) = k
  BY <1>3, <1>4
<1>7. Valid(lg.formatter) /\ \A p \in DOMAIN lg.appenders : KeptAppender(lg.appenders[p], lg.formatter)
  BY DEF KeptLogger
<1>8. /\ l.level = lg.level /\ l.formatter = lg.formatter /\ Len(l.appenders) = k
      /\ \A p \in DOMAIN l.appenders : AppenderMatches(l.appenders[p], d.appenders[p], lg.formatter)
  BY <1>1, <1>5, <1>6, <1>7 DEF Progress
<1>9. PICK q \in Seq(AppenderStates), r \in Seq(AppenderStates) : q = l.appenders /\ r = lg.appenders
  BY DEF LoggerStates
<1>10. DOMAIN q = DOMAIN r BY <1>2, <1>8, <1>9
<1>11. ASSUME NEW p \in DOMAIN q PROVE q[p] = r[p]
  <2>1. PICK a \in AppenderStates, b \in AppenderStates : a = q[p] /\ b = r[p] BY <1>10
  <2>2. /\ AppenderMatches(a, d.appenders[p], lg.formatter)
        /\ KeptAppender(b, lg.formatter)
        /\ d.appenders[p] = [type |-> b.type, file |-> b.file, level |-> b.level,
                             formatter |-> IF b.own THEN b.formatter ELSE None]
    BY <1>1, <1>7, <1>8, <1>9, <1>10, <2>1
  <2>3. ~Valid(None) BY DEF Valid
  <2>4. a.type = b.type /\ a.file = b.file /\ a.level = b.level
    BY <2>2 DEF AppenderMatches
  <2>5. a.own = b.own /\ a.formatter = b.formatter
    BY <2>1, <2>2, <2>3 DEF AppenderMatches, KeptAppender, AppenderStates
  <2>6. a = [type |-> a.type, file |-> a.file, level |-> a.level, own |-> a.own, formatter |-> a.formatter]
    BY DEF AppenderStates
  <2>7. b = [type |-> b.type, file |-> b.file, level |-> b.level, own |-> b.own, formatter |-> b.formatter]
    BY DEF AppenderStates
  <2>8. a = b BY <2>4, <2>5, <2>6, <2>7, Zenon
  <2> QED BY <2>1, <2>8
<1>12. q = r BY <1>10, <1>11
<1>13. l = [level |-> l.level, formatter |-> l.formatter, appenders |-> q] BY <1>9 DEF LoggerStates
<1>14. lg = [level |-> lg.level, formatter |-> lg.formatter, appenders |-> r] BY <1>9 DEF LoggerStates
<1> QED BY <1>8, <1>12, <1>13, <1>14, Zenon

\* h gives the loggers after each of the first m calls on those of a new program.
MadeStep(before, c) == [before EXCEPT ![c.name] = Apply(before[c.name], c)]
Made(calls, h, m) == h[0] = Fresh /\ \A n \in 1..m : h[n] = MadeStep(h[n - 1], calls[n])

\* A call makes loggers of loggers.
LEMMA MadeType ==
    ASSUME NEW before \in [Names -> LoggerStates], NEW c \in CallSet, NEW l, l = MadeStep(before, c)
    PROVE  /\ l \in [Names -> LoggerStates]
           /\ \A x \in Names : l[x] = IF c.name = x THEN Apply(before[x], c) ELSE before[x]
<1>1. c.name \in Names BY DEF CallSet
<1>2. Apply(before[c.name], c) \in LoggerStates BY <1>1, ApplyType
<1> QED BY <1>1, <1>2 DEF MadeStep

\* There are such loggers, and the last of them are those of a program that
\* loads a text.
LEMMA MadeExist ==
    ASSUME NEW calls \in Seq(CallSet), NEW m \in 0..Len(calls)
    PROVE  \E h \in [0..m -> [Names -> LoggerStates]] : Made(calls, h, m)
<1> DEFINE L == [Names -> LoggerStates]
           N == {n \in Nat : n <= Len(calls) => \E h \in [0..n -> L] : Made(calls, h, n)}
<1>0. Len(calls) \in Nat OBVIOUS
<1>1. 0 \in N
  <2>1. Fresh \in L
    <3>1. {Stdout, None, Default} \subseteq Strings BY DEF Strings
    <3>2. Console \in AppenderStates BY <3>1 DEF Console, AppenderStates, DEBUG
    <3>3. <<Console>> \in Seq(AppenderStates) /\ <<>> \in Seq(AppenderStates) BY <3>2
    <3> QED BY <3>1, <3>3 DEF Fresh, LoggerStates, DEBUG
  <2> HIDE DEF L
  <2>2. PICK h \in [0..0 -> L] : h[0] = Fresh
    <3>1. PICK h : h = [n \in 0..0 |-> Fresh] OBVIOUS
    <3>2. h \in [0..0 -> L] BY <2>1, <3>1
    <3>3. h[0] = Fresh BY <3>1
    <3> QED BY <3>2, <3>3
  <2>3. Made(calls, h, 0) BY <2>2 DEF Made
  <2> QED BY <2>2, <2>3
<1>2. ASSUME NEW n \in N PROVE n + 1 \in N
  <2>0. n \in Nat BY <1>2
  <2> SUFFICES ASSUME n + 1 <= Len(calls)
               PROVE  \E h \in [0..(n + 1) -> L] : Made(calls, h, n + 1)
    BY <2>0
  <2>1. PICK h \in [0..n -> L] : Made(calls, h, n) BY <1>0, <2>0, <1>2
  <2>2. PICK c \in CallSet : c = calls[n + 1] BY <1>0, <2>0
  <2> DEFINE last == MadeStep(h[n], c)
             g == [i \in 0..(n + 1) |-> IF i = n + 1 THEN last ELSE h[i]]
  <2>3. h[n] \in L BY <2>0
  <2>4. last \in L BY <2>3, MadeType
  <2> HIDE DEF L, N, last
  <2>5. /\ g \in [0..(n + 1) -> L] /\ g[n + 1] = last
        /\ \A i \in 0..n : g[i] = h[i]
    BY <2>0, <2>4
  <2> HIDE DEF g
  <2>6. Made(calls, g, n + 1)
    <3>1. g[0] = Fresh BY <2>0, <2>1, <2>5 DEF Made
    <3>2. ASSUME NEW i \in 1..n PROVE g[i] = MadeStep(g[i - 1], calls[i])
      <4>1. i \in 0..n /\ i - 1 \in 0..n BY <2>0
      <4>2. h[i] = MadeStep(h[i - 1], calls[i]) BY <2>1 DEF Made
      <4> QED BY <2>5, <4>1, <4>2, Zenon
    <3>3. g[n + 1] = MadeStep(g[(n + 1) - 1], calls[n + 1])
      <4>1. (n + 1) - 1 = n /\ n \in 0..n BY <2>0
      <4> QED BY <2>2, <2>5, <4>1, Zenon DEF last
    <3>4. \A i \in 1..(n + 1) : i = n + 1 \/ i \in 1..n BY <2>0
    <3> QED BY <3>1, <3>2, <3>3, <3>4, Zenon DEF Made
  <2> QED BY <2>5, <2>6
<1> HIDE DEF N
<1>3. N = Nat
  <2>1. N \in SUBSET Nat BY DEF N
  <2> QED BY <1>1, <1>2, <2>1, SetInduction
<1>4. m \in N /\ m <= Len(calls) BY <1>0, <1>3
<1> QED BY <1>4 DEF N

\* Reload makes the calls of the listener, one after the other.
LEMMA ReloadMade ==
    ASSUME NEW text, NEW calls \in Seq(CallSet),
           calls = Listener([x \in Names |-> Absent], Parsed(text))
    PROVE  \E h : Made(calls, h, Len(calls)) /\ Reload(text) = h[Len(calls)]
<1> DEFINE k == Len(calls)
           Fun(h) == h = [n \in 0..k |-> IF n = 0 THEN Fresh
                                         ELSE [h[n - 1] EXCEPT ![calls[n].name] = Apply(@, calls[n])]]
           f == CHOOSE h : Fun(h)
<1>0. k \in Nat OBVIOUS
<1>1. PICK g \in [0..k -> [Names -> LoggerStates]] : Made(calls, g, k) BY <1>0, MadeExist
<1>2. Fun(g)
  <2>1. \A n \in 0..k : g[n] = IF n = 0 THEN Fresh
                               ELSE [g[n - 1] EXCEPT ![calls[n].name] = Apply(@, calls[n])]
    <3>1. \A n \in 0..k : n = 0 \/ n \in 1..k BY <1>0
    <3> QED BY <1>1, <3>1 DEF Made, MadeStep
  <2>2. g = [n \in 0..k |-> g[n]] OBVIOUS
  <2> QED BY <2>1, <2>2
<1>3. Fun(f) BY <1>2
<1>4. Reload(text) = f[k] BY DEF Reload
<1> HIDE DEF f
<1>5. Made(calls, f, k)
  <2>1. \A n \in 0..k : f[n] = IF n = 0 THEN Fresh
                               ELSE [f[n - 1] EXCEPT ![calls[n].name] = Apply(@, calls[n])]
    BY <1>3
  <2>2. 0 \in 0..k /\ \A n \in 1..k : n \in 0..k /\ n # 0 BY <1>0
  <2> HIDE DEF Fun, k
  <2> QED BY <2>1, <2>2, Zenon DEF Made, MadeStep
<1> QED BY <1>4, <1>5

\* A new program that loads the loggers as they are written has the same ones.
LEMMA ReloadAgain ==
    ASSUME loggers \in [Names -> LoggerStates], \A x \in Names : KeptLogger(loggers[x]),
           NEW T, Parsed(T) = [x \in Names |-> Written(loggers[x])]
    PROVE  Reload(T) = loggers
<1> DEFINE L == [Names -> LoggerStates]
<1>1. PICK old \in Values : old = [x \in Names |-> Absent] BY DEF Values
<1>2. PICK new : new = Parsed(T) OBVIOUS
<1>3. ASSUME NEW x \in Names
      PROVE  new[x] = Written(loggers[x]) /\ new[x] \in LogDefines /\ new[x] # Absent
             /\ ~Equal(old[x], new[x])
  <2>1. new[x] = Written(loggers[x]) BY <1>2
  <2>2. new[x] \in LogDefines BY <2>1, WrittenRead DEF ReadDefines
  <2>3. new[x] # Absent BY <2>2, TextsAssumption
  <2> QED BY <1>1, <2>1, <2>2, <2>3 DEF Equal
<1>4. new \in Values
  <2>1. new = [x \in Names |-> new[x]] BY <1>2
  <2> QED BY <1>3, <2>1 DEF Values
<1>5. PICK calls \in Seq(CallSet) : calls = Listener(old, new) BY <1>4, ListenerCalls
<1>6. PICK k \in Nat : k = Len(calls) OBVIOUS
<1>7. PICK h : Made(calls, h, k) /\ Reload(T) = h[k] BY <1>1, <1>2, <1>5, <1>6, ReloadMade
<1> DEFINE Rest(n) == SubSeq(calls, n + 1, Len(calls))
           N == {n \in Nat : n <= k => /\ h[n] \in L
                                       /\ \A x \in Names : Following(Rest(n), x, h[n][x], old, new)}
<1> HIDE DEF Rest
<1>8. 0 \in N
  <2>1. Rest(0) = calls BY <1>6, RestCalls DEF Rest
  <2>2. h[0] = Fresh BY <1>7 DEF Made
  <2>3. Fresh \in L
    <3>1. {Stdout, None, Default} \subseteq Strings BY DEF Strings
    <3>2. Console \in AppenderStates BY <3>1 DEF Console, AppenderStates, DEBUG
    <3>3. <<Console>> \in Seq(AppenderStates) /\ <<>> \in Seq(AppenderStates) BY <3>2
    <3> QED BY <3>1, <3>3 DEF Fresh, LoggerStates, DEBUG
  <2>4. ASSUME NEW x \in Names PROVE Following(calls, x, Fresh[x], old, new)
    <3>1. Fresh[x].formatter \notin Bad BY LogConfigAssumption DEF Fresh
    <3> QED BY <1>3, <1>4, <1>5, <3>1, FollowingStart
  <2> QED BY <2>1, <2>2, <2>3, <2>4
<1>9. ASSUME NEW n \in N PROVE n + 1 \in N
  <2>0. n \in Nat BY <1>9
  <2> SUFFICES ASSUME n + 1 <= k
               PROVE  /\ h[n + 1] \in L
                      /\ \A x \in Names : Following(Rest(n + 1), x, h[n + 1][x], old, new)
    BY <2>0
  <2>1. /\ n <= k /\ n \in 0..k /\ n < k /\ n + 1 \in 1..k /\ (n + 1) - 1 = n /\ (n + 1) + 1 = n + 2
    BY <2>0
  <2>2. h[n] \in L /\ \A x \in Names : Following(Rest(n), x, h[n][x], old, new) BY <1>9, <2>1
  <2>3. PICK c \in CallSet : c = calls[n + 1] BY <1>6, <2>1
  <2>4. PICK q \in Seq(CallSet) : q = Rest(n)
    <3>1. n \in 0..Len(calls) BY <1>6, <2>1
    <3> QED BY <3>1, RestCalls DEF Rest
  <2>5. q # <<>> /\ q[1] = c /\ Tail(q) = Rest(n + 1)
    <3>1. n \in 0..Len(calls) BY <1>6, <2>1
    <3>2. q = SubSeq(calls, n + 1, Len(calls)) BY <2>4 DEF Rest
    <3>3. Len(q) = Len(calls) - n BY <3>1, <3>2, RestCalls
    <3>4. q # <<>> BY <1>6, <2>1, <3>3
    <3>5. q[1] = calls[n + 1] /\ Tail(q) = SubSeq(calls, n + 2, Len(calls))
      BY <3>1, <3>2, <3>4, RestCalls
    <3>6. Tail(q) = Rest(n + 1) BY <2>1, <3>5, Zenon DEF Rest
    <3> QED BY <2>3, <3>4, <3>5, <3>6
  <2>6. h[n + 1] = MadeStep(h[n], c) BY <1>7, <2>1, <2>3 DEF Made
  <2>7. /\ h[n + 1] \in L
        /\ \A x \in Names : h[n + 1][x] = IF c.name = x THEN Apply(h[n][x], c) ELSE h[n][x]
    <3>1. PICK before \in L : before = h[n] BY <2>2
    <3>2. PICK after : after = h[n + 1] /\ after = MadeStep(before, c) BY <2>6, <3>1
    <3>3. after \in L BY <3>2, MadeType
    <3>4. \A x \in Names : after[x] = IF c.name = x THEN Apply(before[x], c) ELSE before[x]
      BY <3>2, MadeType
    <3> QED BY <3>1, <3>2, <3>3, <3>4
  <2>8. ASSUME NEW x \in Names PROVE Following(Rest(n + 1), x, h[n + 1][x], old, new)
    <3>1. PICK lg \in LoggerStates : lg = h[n][x] BY <2>2
    <3>2. Following(q, x, lg, old, new) BY <2>2, <2>4, <3>1
    <3>3. Following(Tail(q), x, IF q[1].name = x THEN Apply(lg, q[1]) ELSE lg, old, new)
      BY <1>4, <2>5, <3>2, FollowingCall
    <3>4. h[n + 1][x] = IF q[1].name = x THEN Apply(lg, q[1]) ELSE lg BY <2>5, <2>7, <3>1
    <3> QED BY <2>5, <3>3, <3>4
  <2> QED BY <2>7, <2>8
<1> HIDE DEF N
<1>10. N = Nat
  <2>1. N \in SUBSET Nat BY DEF N
  <2> QED BY <1>8, <1>9, <2>1, SetInduction
<1>11. k \in N /\ k <= k BY <1>10
<1>12. h[k] \in L /\ \A x \in Names : Following(Rest(k), x, h[k][x], old, new)
  BY <1>11 DEF N
<1>13. Rest(k) = <<>>
  <2>1. k \in 0..Len(calls) BY <1>6
  <2>2. Rest(k) \in Seq(CallSet) /\ Len(Rest(k)) = Len(calls) - k BY <2>1, RestCalls DEF Rest
  <2> QED BY <1>6, <2>2
<1>14. ASSUME NEW x \in Names PROVE h[k][x] = loggers[x]
  <2>1. PICK l \in LoggerStates : l = h[k][x] BY <1>12
  <2>2. Following(<<>>, x, l, old, new) BY <1>12, <1>13, <2>1
  <2>3. Progress(l, new[x], Len(CallsFor(old, new, x))) BY <1>3, <1>4, <2>2, FollowingDone
  <2>4. CallsFor(old, new, x) = Update(x, new[x]) BY <1>3 DEF CallsFor
  <2>5. Len(Update(x, new[x])) = 2 + HasFormat(new[x]) + Len(new[x].appenders)
    BY <1>3, UpdateCalls
  <2>6. Progress(l, new[x], 2 + HasFormat(new[x]) + Len(new[x].appenders)) BY <2>3, <2>4, <2>5
  <2> QED BY <1>3, <2>1, <2>6, SameLogger
<1>15. h[k] = loggers BY <1>12, <1>14
<1> QED BY <1>7, <1>15

(***************************************************************************)
(* What the program writes, it reads, however many setters there are: the  *)
(* value of the variable "logs" from its text (ConfigVar::toString), and   *)
(* in a new program the loggers, with their levels, formatters and         *)
(* appenders, from LoggerManager::toYamlString.                            *)
(***************************************************************************)
THEOREM WrittenIsRead == ASSUME NoRoot PROVE Spec => []Reloads
<1>1. Init => TypeInv /\ ReadInv BY TypeInit, ReadInit
<1>2. TypeInv /\ ReadInv /\ [Next]_vars => TypeInv' /\ ReadInv' BY TypeStep, ReadStep
<1>3. ASSUME TypeInv, ReadInv PROVE Reloads
  <2> DEFINE value(x) == IF m_val[x] = Absent THEN <<>> ELSE <<Node(x, m_val[x])>>
             logger(x) == <<Node(x, Written(loggers[x]))>>
             Set == {x \in Names : m_val[x] # Absent}
             now == [x \in Names |-> Written(loggers[x])]
  <2>1. \A p \in DOMAIN LogNames : LogNames[p] \in Names BY LogConfigAssumption DEF Names, ToSet
  <2>2. Parsed(PerName(value)) = m_val
    <3>1. \A x \in Set : m_val[x] \in ReadDefines BY <1>3 DEF ReadInv, ReadValues
    <3>2. PerName(value) = FlattenSeq(NodesOf(Set, m_val)) BY <2>1 DEF PerName, NodesOf
    <3>3. PICK T : T = PerName(value) OBVIOUS
    <3> HIDE DEF value
    <3>4. \A x \in Names : Parsed(T)[x] = IF x \in Set THEN m_val[x] ELSE Absent
      BY <3>1, <3>2, <3>3, ParsedAgain
    <3>5. \A x \in Names : Parsed(T)[x] = m_val[x] BY <3>4
    <3>6. Parsed(T) = [x \in Names |-> Parsed(T)[x]] BY DEF Parsed
    <3>7. m_val = [x \in Names |-> m_val[x]] BY <1>3 DEF ReadInv, ReadValues
    <3> QED BY <3>3, <3>5, <3>6, <3>7
  <2>3. Reload(PerName(logger)) = loggers
    <3>1. \A x \in Names : loggers[x] \in LoggerStates /\ KeptLogger(loggers[x])
      BY <1>3 DEF TypeInv, ReadInv
    <3>2. \A x \in Names : now[x] \in ReadDefines BY <3>1, WrittenRead
    <3>3. PerName(logger) = FlattenSeq(NodesOf(Names, now)) BY <2>1 DEF PerName, NodesOf
    <3>4. PICK T : T = PerName(logger) OBVIOUS
    <3> HIDE DEF logger, now
    <3>5. \A x \in Names : Parsed(T)[x] = now[x] BY <3>2, <3>3, <3>4, ParsedAgain
    <3>6. Parsed(T) = [x \in Names |-> Parsed(T)[x]] BY DEF Parsed
    <3>7. now = [x \in Names |-> Written(loggers[x])] BY DEF now
    <3>8. Parsed(T) = [x \in Names |-> Written(loggers[x])] BY <3>5, <3>6, <3>7
    <3>9. loggers \in [Names -> LoggerStates] BY <1>3 DEF TypeInv
    <3> QED BY <3>1, <3>4, <3>8, <3>9, ReloadAgain
  <2> QED BY <2>2, <2>3 DEF Reloads
<1>4. TypeInv /\ ReadInv => Reloads BY <1>3
<1> QED BY <1>1, <1>2, <1>4, PTL DEF Spec
=============================================================================
