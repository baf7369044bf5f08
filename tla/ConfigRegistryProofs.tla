------------------------- MODULE ConfigRegistryProofs -------------------------
(***************************************************************************)
(* One variable for each name, for any number of threads and documents;    *)
(* and a loader that is alone gives variables what its document says.      *)
(***************************************************************************)
EXTENDS ConfigRegistry, SequenceLemmas

-----------------------------------------------------------------------------
\* A map of variables, which are records.
Table(d) ==
    /\ d = [n \in DOMAIN d |-> d[n]]
    /\ \A n \in DOMAIN d : d[n] = Variable(d[n].id, d[n].type, d[n].m_val)

RegistryInv ==
    /\ Table(s_datas)
    /\ pc \in [Threads -> {"idle", "lookup", "set"}]
    /\ var = [t \in Loaders |-> var[t]]
    /\ \A t \in Loaders : pc[t] = "set" => Exists(var[t])

\* A variable that is stored is the one of its name, and the others stay.
LEMMA StoredTable ==
    ASSUME Table(s_datas), NEW n, NEW id, NEW type, NEW v,
           s_datas' = Stored(n, Variable(id, type, v))
    PROVE  /\ Table(s_datas)' /\ DOMAIN s_datas' = DOMAIN s_datas \cup {n}
           /\ s_datas'[n] = Variable(id, type, v)
           /\ \A m \in DOMAIN s_datas : m # n => s_datas'[m] = s_datas[m]
<1>1. DOMAIN s_datas' = DOMAIN s_datas \cup {n} BY DEF Stored
<1>2. s_datas'[n] = Variable(id, type, v) BY DEF Stored
<1>3. \A m \in DOMAIN s_datas : m # n => s_datas'[m] = s_datas[m] BY DEF Stored
<1>4. s_datas' = [m \in DOMAIN s_datas' |-> s_datas'[m]] BY DEF Stored
<1>5. Variable(id, type, v) = Variable(Variable(id, type, v).id, Variable(id, type, v).type,
                                       Variable(id, type, v).m_val)
  BY DEF Variable
<1>6. \A m \in DOMAIN s_datas' : s_datas'[m] = Variable(s_datas'[m].id, s_datas'[m].type, s_datas'[m].m_val)
  BY <1>1, <1>2, <1>3, <1>5 DEF Table
<1> QED BY <1>1, <1>2, <1>3, <1>4, <1>6 DEF Table

\* A value that converts, or does not, leaves a variable its address and type.
LEMMA SetTable ==
    ASSUME Table(s_datas), NEW n \in DOMAIN s_datas, NEW node,
           s_datas' = [s_datas EXCEPT ![n] = Assigned(s_datas[n], node)]
    PROVE  /\ Table(s_datas)' /\ DOMAIN s_datas' = DOMAIN s_datas
           /\ s_datas'[n].id = s_datas[n].id /\ s_datas'[n].type = s_datas[n].type
           /\ LET result == FromStr(s_datas[n].type, Text(node))
              IN  s_datas'[n].m_val = IF result = {} THEN s_datas[n].m_val
                                      ELSE CHOOSE r \in result : TRUE
           /\ \A m \in DOMAIN s_datas : m # n => s_datas'[m] = s_datas[m]
<1>1. PICK id, type, v : s_datas[n] = Variable(id, type, v) BY DEF Table
<1>2. s_datas[n].id = id /\ s_datas[n].type = type /\ s_datas[n].m_val = v BY <1>1 DEF Variable
<1>3. PICK w : w = IF FromStr(type, Text(node)) = {} THEN v ELSE CHOOSE r \in FromStr(type, Text(node)) : TRUE
  OBVIOUS
<1>4. Assigned(s_datas[n], node) = Variable(id, type, w)
  BY <1>1, <1>2, <1>3 DEF Assigned, Variable
<1>5. /\ DOMAIN s_datas' = DOMAIN s_datas /\ s_datas'[n] = Variable(id, type, w)
      /\ \A m \in DOMAIN s_datas : m # n => s_datas'[m] = s_datas[m]
      /\ s_datas' = [m \in DOMAIN s_datas' |-> s_datas'[m]]
  BY <1>4 DEF Table
<1>6. s_datas'[n].id = id /\ s_datas'[n].type = type /\ s_datas'[n].m_val = w
  BY <1>5 DEF Variable
<1>7. Table(s_datas)' BY <1>5, <1>6 DEF Table
<1> QED BY <1>2, <1>3, <1>5, <1>6, <1>7

\* The registry is empty at first, and every step keeps it a map of variables.
LEMMA RegistryInit == Init => RegistryInv
<1> SUFFICES ASSUME Init PROVE RegistryInv
  OBVIOUS
<1>1. Table(s_datas) BY DEF Init, Table
<1> QED BY <1>1 DEF Init, RegistryInv, Threads

\* A step of LookUp stores a variable, one of LoadFromYaml sets the value of one.
LEMMA RegistryStep == RegistryInv /\ [Next]_vars => RegistryInv'
<1> SUFFICES ASSUME RegistryInv, [Next]_vars PROVE RegistryInv'
  OBVIOUS
<1> USE DEF RegistryInv, Exists
<1>1. ASSUME NEW t \in Registrars, NEW n \in Names, NEW type \in Types, NEW v, Create(t, n, type, v)
      PROVE  RegistryInv'
  BY <1>1, StoredTable DEF Create, local
<1>2. ASSUME NEW t \in Registrars, NEW n \in Names, NEW type \in Types,
             Find(t, n, type) \/ FindNothing(t, n, type)
      PROVE  RegistryInv'
  BY <1>2 DEF Find, FindNothing, local, vars
<1>3. ASSUME NEW t \in Loaders, NEW y \in Documents, LoadBegin(t, y) PROVE RegistryInv'
  BY <1>3 DEF LoadBegin, Goto, Threads
<1>4. ASSUME NEW t \in Loaders, LoadLookup(t) PROVE RegistryInv'
  BY <1>4 DEF LoadLookup, Goto, Threads
<1>5. ASSUME NEW t \in Loaders, LoadSet(t) PROVE RegistryInv'
  <2>1. s_datas' = [s_datas EXCEPT ![var[t]] = Assigned(s_datas[var[t]], Head(all_nodes[t]).node)]
    BY <1>5 DEF LoadSet
  <2>2. var[t] \in DOMAIN s_datas BY <1>5 DEF LoadSet
  <2>3. Table(s_datas)' /\ DOMAIN s_datas' = DOMAIN s_datas BY <2>1, <2>2, SetTable
  <2> QED BY <1>5, <2>3 DEF LoadSet, Goto, Threads
<1>6. ASSUME NEW t \in Loaders, LoadEnd(t) PROVE RegistryInv'
  BY <1>6 DEF LoadEnd, Goto, Threads, local
<1>7. CASE UNCHANGED vars BY <1>7 DEF vars, local
<1> QED BY <1>1, <1>2, <1>3, <1>4, <1>5, <1>6, <1>7 DEF Next, RegistrarNext, LoaderNext

(***************************************************************************)
(* All threads that look a name up get the same variable, and documents    *)
(* set that one.                                                           *)
(***************************************************************************)
THEOREM OneForAll == Spec => []OneVariable
<1>1. Init => OneVariable BY DEF Init, OneVariable
<1>2. RegistryInv /\ OneVariable /\ [Next]_vars => OneVariable'
  <2> SUFFICES ASSUME RegistryInv, OneVariable, [Next]_vars PROVE OneVariable'
    OBVIOUS
  <2> USE DEF OneVariable, Exists
  <2>1. ASSUME NEW t \in Registrars, NEW n \in Names, NEW type \in Types, NEW v,
               Create(t, n, type, v)
        PROVE  OneVariable'
    <3>1. /\ DOMAIN s_datas' = DOMAIN s_datas \cup {n} /\ s_datas'[n] = Variable(nextVar, type, v)
          /\ \A m \in DOMAIN s_datas : m # n => s_datas'[m] = s_datas[m]
      BY <2>1, StoredTable DEF Create, RegistryInv
    <3>2. got' = got \cup {[name |-> n, id |-> nextVar]} /\ n \notin DOMAIN s_datas
      BY <2>1 DEF Create
    <3>3. s_datas'[n].id = nextVar BY <3>1 DEF Variable
    <3> QED BY <3>1, <3>2, <3>3
  <2>2. ASSUME NEW t \in Registrars, NEW n \in Names, NEW type \in Types, Find(t, n, type)
        PROVE  OneVariable'
    BY <2>2 DEF Find
  <2>3. ASSUME NEW t \in Loaders, LoadSet(t) PROVE OneVariable'
    <3>1. s_datas' = [s_datas EXCEPT ![var[t]] = Assigned(s_datas[var[t]], Head(all_nodes[t]).node)]
      BY <2>3 DEF LoadSet
    <3>2. var[t] \in DOMAIN s_datas BY <2>3 DEF LoadSet, RegistryInv
    <3>3. /\ DOMAIN s_datas' = DOMAIN s_datas /\ s_datas'[var[t]].id = s_datas[var[t]].id
          /\ \A m \in DOMAIN s_datas : m # var[t] => s_datas'[m] = s_datas[m]
      BY <3>1, <3>2, SetTable DEF RegistryInv
    <3> QED BY <2>3, <3>3 DEF LoadSet
  <2>4. CASE UNCHANGED <<s_datas, got>> BY <2>4
  <2>5. \A t \in Registrars : \A n, type : FindNothing(t, n, type) => UNCHANGED <<s_datas, got>>
    BY DEF FindNothing, vars
  <2>6. \A t \in Loaders : \A y : LoadBegin(t, y) \/ LoadLookup(t) \/ LoadEnd(t) => UNCHANGED <<s_datas, got>>
    BY DEF LoadBegin, LoadLookup, LoadEnd
  <2>7. UNCHANGED vars => UNCHANGED <<s_datas, got>> BY DEF vars
  <2> QED BY <2>1, <2>2, <2>3, <2>4, <2>5, <2>6, <2>7 DEF Next, RegistrarNext, LoaderNext
<1> QED BY <1>1, <1>2, RegistryInit, RegistryStep, PTL DEF Spec

-----------------------------------------------------------------------------
(***************************************************************************)
(* What is listed of a document: a node is listed under a name if and only *)
(* if the document has it at that name.                                    *)
(***************************************************************************)
Listable(q) == q \in Seq(ToSet(q))

\* Sequences, whatever their elements.
LEMMA ListableIn == ASSUME NEW S, NEW q \in Seq(S) PROVE Listable(q)
<1>1. Len(q) \in Nat /\ q \in [1..Len(q) -> ToSet(q)] BY DEF ToSet
<1>2. PICK T : T = ToSet(q) OBVIOUS
<1> QED BY <1>1, <1>2 DEF Listable

\* A first element, and the rest.
LEMMA ListableHead ==
    ASSUME NEW q, Listable(q), q # <<>>
    PROVE  /\ Listable(Tail(q)) /\ ToSet(q) = {Head(q)} \cup ToSet(Tail(q))
<1>1. PICK S : S = ToSet(q) OBVIOUS
<1>2. q \in Seq(S) BY <1>1 DEF Listable
<1>3. PICK r : r = Tail(q) OBVIOUS
<1>4. /\ Len(q) \in Nat /\ Len(q) # 0 /\ r \in Seq(S) /\ Len(r) = Len(q) - 1
      /\ \A p \in 1..Len(r) : r[p] = q[p + 1]
      /\ Head(q) = q[1]
  BY <1>2, <1>3
<1>5. DOMAIN q = 1..Len(q) /\ DOMAIN r = 1..Len(r) BY <1>2, <1>4
<1>6. \A p : p \in DOMAIN q <=> p = 1 \/ \E i \in DOMAIN r : p = i + 1
  <2>1. ASSUME NEW p \in 1..Len(q), p # 1 PROVE \E i \in 1..Len(r) : p = i + 1
    <3>1. p - 1 \in 1..Len(r) /\ p = (p - 1) + 1 BY <1>4, <2>1
    <3> QED BY <3>1
  <2>2. \A i \in 1..Len(r) : i + 1 \in 1..Len(q) BY <1>4
  <2>3. 1 \in 1..Len(q) BY <1>4
  <2> QED BY <1>5, <2>1, <2>2, <2>3
<1>7. ToSet(q) = {q[1]} \cup ToSet(r)
  <2>1. ToSet(q) = {q[p] : p \in DOMAIN q} /\ ToSet(r) = {r[p] : p \in DOMAIN r} BY DEF ToSet
  <2>2. \A p \in DOMAIN r : r[p] = q[p + 1] BY <1>4, <1>5
  <2> QED BY <1>6, <2>1, <2>2
<1>8. Listable(r) BY <1>4, ListableIn
<1> QED BY <1>3, <1>4, <1>7, <1>8

\* Two, one after the other.
LEMMA ListableConcat ==
    ASSUME NEW a, NEW b, Listable(a), Listable(b)
    PROVE  Listable(a \o b) /\ ToSet(a \o b) = ToSet(a) \cup ToSet(b)
<1>1. PICK S : S = ToSet(a) \cup ToSet(b) OBVIOUS
<1>2. PICK A, B : A = ToSet(a) /\ B = ToSet(b) OBVIOUS
<1>3. a \in Seq(A) /\ b \in Seq(B) /\ A \subseteq S /\ B \subseteq S BY <1>1, <1>2 DEF Listable
<1>4. a \in Seq(S) /\ b \in Seq(S) BY <1>3
<1>5. PICK w : w = a \o b OBVIOUS
<1>6. /\ w \in Seq(S) /\ Len(w) = Len(a) + Len(b)
      /\ \A p \in 1..Len(a) : w[p] = a[p]
      /\ \A p \in 1..Len(b) : w[Len(a) + p] = b[p]
  BY <1>4, <1>5, Joined
<1>7. /\ DOMAIN a = 1..Len(a) /\ DOMAIN b = 1..Len(b) /\ DOMAIN w = 1..Len(a) + Len(b)
      /\ Len(a) \in Nat /\ Len(b) \in Nat
  BY <1>4, <1>6
<1>8. \A p : p \in DOMAIN w <=> p \in DOMAIN a \/ \E i \in DOMAIN b : p = Len(a) + i
  <2>1. ASSUME NEW p \in 1..Len(a) + Len(b), p \notin 1..Len(a) PROVE \E i \in 1..Len(b) : p = Len(a) + i
    <3>1. p - Len(a) \in 1..Len(b) /\ p = Len(a) + (p - Len(a)) BY <1>7, <2>1
    <3> QED BY <3>1
  <2>2. \A i \in 1..Len(b) : Len(a) + i \in 1..Len(a) + Len(b) BY <1>7
  <2>3. 1..Len(a) \subseteq 1..Len(a) + Len(b) BY <1>7
  <2> QED BY <1>7, <2>1, <2>2, <2>3
<1>9. ToSet(w) = ToSet(a) \cup ToSet(b)
  <2>1. /\ ToSet(a) = {a[p] : p \in DOMAIN a} /\ ToSet(b) = {b[p] : p \in DOMAIN b}
        /\ ToSet(w) = {w[p] : p \in DOMAIN w}
    BY DEF ToSet
  <2>2. \A p \in DOMAIN a : w[p] = a[p] BY <1>6, <1>7
  <2>3. \A p \in DOMAIN b : w[Len(a) + p] = b[p] BY <1>6, <1>7
  <2> HIDE DEF ToSet
  <2> QED BY <1>8, <2>1, <2>2, <2>3
<1> QED BY <1>5, <1>6, <1>9, ListableIn

\* One more at the end.
LEMMA ListableAppend ==
    ASSUME NEW a, NEW e, Listable(a)
    PROVE  Listable(Append(a, e)) /\ ToSet(Append(a, e)) = ToSet(a) \cup {e}
<1>1. PICK S : S = ToSet(a) \cup {e} OBVIOUS
<1>2. PICK A : A = ToSet(a) OBVIOUS
<1>3. a \in Seq(A) /\ A \subseteq S BY <1>1, <1>2 DEF Listable
<1>4. a \in Seq(S) /\ e \in S BY <1>1, <1>3
<1>5. ToSet(Append(a, e)) = ToSet(a) \cup {e} BY <1>4, ToSetAppend
<1>6. Append(a, e) \in Seq(S) BY <1>4
<1> QED BY <1>5, <1>6, ListableIn

\* One call of ListAllMember.
CallStep(call) ==
    LET e == Head(call.rest)
    IN  IF call.rest = <<>> THEN call
        ELSE IF ~ValidName(e.name) THEN [call EXCEPT !.rest = Tail(@)]
        ELSE [output |-> Append(call.output, e), rest |-> Below(e) \o Tail(call.rest)]
CallsBegin(root) == [output |-> <<>>, rest |-> <<Member(<<>>, root)>>]
Made(root, h, m) ==
    /\ h = [n \in 0..m |-> h[n]] /\ h[0] = CallsBegin(root)
    /\ \A n \in 1..m : h[n] = CallStep(h[n - 1])

\* The calls can be made, and Calls is what they make.
LEMMA MadeExist == ASSUME NEW root, NEW m \in Nat PROVE \E h : Made(root, h, m)
<1> DEFINE N == {n \in Nat : \E h : Made(root, h, n)}
<1>1. 0 \in N
  <2>1. PICK h : h = [n \in 0..0 |-> CallsBegin(root)] OBVIOUS
  <2>2. h[0] = CallsBegin(root) /\ h = [n \in 0..0 |-> h[n]] BY <2>1
  <2>3. Made(root, h, 0) BY <2>2 DEF Made
  <2> QED BY <2>3
<1>2. ASSUME NEW n \in N PROVE n + 1 \in N
  <2>1. n \in Nat OBVIOUS
  <2>2. PICK h : Made(root, h, n) OBVIOUS
  <2> HIDE DEF N
  <2>3. PICK last : last = CallStep(h[n]) OBVIOUS
  <2>4. PICK g : g = [i \in 0..n + 1 |-> IF i = n + 1 THEN last ELSE h[i]] OBVIOUS
  <2>5. /\ g[n + 1] = last /\ \A i \in 0..n : g[i] = h[i]
        /\ g = [i \in 0..n + 1 |-> g[i]]
    BY <2>1, <2>4
  <2>6. g[0] = CallsBegin(root)
    <3>1. 0 \in 0..n BY <2>1
    <3>2. h[0] = CallsBegin(root) BY <2>2 DEF Made
    <3> QED BY <2>5, <3>1, <3>2, Zenon
  <2>7. ASSUME NEW i \in 1..n PROVE g[i] = CallStep(g[i - 1])
    <3>1. i \in 0..n /\ i - 1 \in 0..n BY <2>1
    <3>2. h[i] = CallStep(h[i - 1]) BY <2>2 DEF Made
    <3> QED BY <2>5, <3>1, <3>2, Zenon
  <2>8. g[n + 1] = CallStep(g[(n + 1) - 1])
    <3>1. (n + 1) - 1 = n /\ n \in 0..n BY <2>1
    <3> QED BY <2>3, <2>5, <3>1, Zenon
  <2>9. \A i \in 1..n + 1 : i = n + 1 \/ i \in 1..n BY <2>1
  <2>10. Made(root, g, n + 1) BY <2>5, <2>6, <2>7, <2>8, <2>9, Zenon DEF Made
  <2> QED BY <2>1, <2>10 DEF N
<1> HIDE DEF N
<1>3. N = Nat
  <2>1. N \in SUBSET Nat BY DEF N
  <2> QED BY <1>1, <1>2, <2>1, SetInduction
<1> QED BY <1>3 DEF N

\* So Calls is a walk of that kind.
LEMMA CallsMade == ASSUME NEW root PROVE Made(root, Calls(root), MaxCalls)
<1> DEFINE Fun(h) ==
      h = [n \in 0..MaxCalls |->
             IF n = 0 THEN [output |-> <<>>, rest |-> <<Member(<<>>, root)>>]
             ELSE LET call == h[n - 1]
                      e == Head(call.rest)
                  IN  IF call.rest = <<>> THEN call
                      ELSE IF ~ValidName(e.name) THEN [call EXCEPT !.rest = Tail(@)]
                      ELSE [output |-> Append(call.output, e), rest |-> Below(e) \o Tail(call.rest)]]
           f == CHOOSE h : Fun(h)
<1>0. MaxCalls \in Nat BY DocumentsAssumption
<1>1. PICK g : Made(root, g, MaxCalls) BY <1>0, MadeExist
<1>2. Fun(g)
  <2>1. \A n \in 0..MaxCalls : n = 0 \/ n \in 1..MaxCalls BY <1>0
  <2>2. \A n \in 0..MaxCalls : g[n] = IF n = 0 THEN CallsBegin(root) ELSE CallStep(g[n - 1])
    BY <1>1, <2>1 DEF Made
  <2>3. g = [n \in 0..MaxCalls |-> IF n = 0 THEN CallsBegin(root) ELSE CallStep(g[n - 1])]
    BY <1>1, <2>2 DEF Made
  <2> QED BY <2>3 DEF CallsBegin, CallStep
<1>3. Fun(f) BY <1>2
<1>4. Calls(root) = f BY DEF Calls
<1> HIDE DEF f
<1>5. f = [n \in 0..MaxCalls |-> IF n = 0 THEN CallsBegin(root) ELSE CallStep(f[n - 1])]
  BY <1>3 DEF CallsBegin, CallStep
<1> HIDE DEF Fun
<1>6. \A n \in 0..MaxCalls : f[n] = IF n = 0 THEN CallsBegin(root) ELSE CallStep(f[n - 1])
  BY <1>5
<1>7. f = [n \in 0..MaxCalls |-> f[n]] BY <1>5
<1>8. f[0] = CallsBegin(root) /\ \A n \in 1..MaxCalls : f[n] = CallStep(f[n - 1])
  BY <1>0, <1>6
<1> QED BY <1>4, <1>7, <1>8 DEF Made

-----------------------------------------------------------------------------
\* The nodes at each beginning of a name.
AtSteps(root, n, h, m) ==
    /\ h = [k \in 0..m |-> h[k]] /\ h[0] = {root}
    /\ \A k \in 1..m : h[k] = UNION {Under(node, n[k]) : node \in h[k - 1]}

\* The keys of a name can be followed.
LEMMA AtStepsExist == ASSUME NEW root, NEW n, NEW m \in Nat PROVE \E h : AtSteps(root, n, h, m)
<1> DEFINE N == {j \in Nat : \E h : AtSteps(root, n, h, j)}
<1>1. 0 \in N
  <2>1. PICK h : h = [k \in 0..0 |-> {root}] OBVIOUS
  <2>2. h[0] = {root} /\ h = [k \in 0..0 |-> h[k]] BY <2>1
  <2>3. AtSteps(root, n, h, 0) BY <2>2 DEF AtSteps
  <2> QED BY <2>3
<1>2. ASSUME NEW j \in N PROVE j + 1 \in N
  <2>1. j \in Nat OBVIOUS
  <2>2. PICK h : AtSteps(root, n, h, j) OBVIOUS
  <2> HIDE DEF N
  <2>3. PICK last : last = UNION {Under(node, n[j + 1]) : node \in h[j]} OBVIOUS
  <2>4. PICK g : g = [k \in 0..j + 1 |-> IF k = j + 1 THEN last ELSE h[k]] OBVIOUS
  <2>5. /\ g[j + 1] = last /\ \A k \in 0..j : g[k] = h[k]
        /\ g = [k \in 0..j + 1 |-> g[k]]
    BY <2>1, <2>4
  <2>6. g[0] = {root}
    <3>1. 0 \in 0..j BY <2>1
    <3>2. h[0] = {root} BY <2>2 DEF AtSteps
    <3> QED BY <2>5, <3>1, <3>2, Zenon
  <2>7. ASSUME NEW k \in 1..j PROVE g[k] = UNION {Under(node, n[k]) : node \in g[k - 1]}
    <3>1. k \in 0..j /\ k - 1 \in 0..j BY <2>1
    <3>2. h[k] = UNION {Under(node, n[k]) : node \in h[k - 1]} BY <2>2 DEF AtSteps
    <3>3. g[k] = h[k] /\ g[k - 1] = h[k - 1] BY <2>5, <3>1
    <3> QED BY <3>2, <3>3, Zenon
  <2>8. g[j + 1] = UNION {Under(node, n[j + 1]) : node \in g[(j + 1) - 1]}
    <3>1. (j + 1) - 1 = j /\ j \in 0..j BY <2>1
    <3>2. g[(j + 1) - 1] = h[j] BY <2>5, <3>1
    <3> QED BY <2>3, <2>5, <3>2, Zenon
  <2>9. \A k \in 1..j + 1 : k = j + 1 \/ k \in 1..j BY <2>1
  <2>10. ASSUME NEW k \in 1..j + 1 PROVE g[k] = UNION {Under(node, n[k]) : node \in g[k - 1]}
    <3>1. CASE k = j + 1 BY <2>8, <3>1
    <3>2. CASE k \in 1..j BY <2>7, <3>2
    <3> QED BY <2>9, <3>1, <3>2
  <2>11. AtSteps(root, n, g, j + 1) BY <2>5, <2>6, <2>10, Zenon DEF AtSteps
  <2> QED BY <2>1, <2>11 DEF N
<1> HIDE DEF N
<1>3. N = Nat
  <2>1. N \in SUBSET Nat BY DEF N
  <2> QED BY <1>1, <1>2, <2>1, SetInduction
<1> QED BY <1>3 DEF N

SameKeys(n, o, m) == \A k \in 1..m : n[k] = o[k]

\* In one way; the nodes at a beginning depend on the keys up to there.
LEMMA AtStepsAgree ==
    ASSUME NEW root, NEW n, NEW o, NEW f, NEW h, NEW m \in Nat, NEW l \in Nat, m <= l,
           AtSteps(root, n, f, m), AtSteps(root, o, h, l), SameKeys(n, o, m)
    PROVE  f[m] = h[m]
<1> DEFINE N == {k \in Nat : k <= m => f[k] = h[k]}
<1>1. 0 \in N
  <2>1. f[0] = {root} /\ h[0] = {root} BY DEF AtSteps
  <2> QED BY <2>1
<1>2. ASSUME NEW k \in N PROVE k + 1 \in N
  <2>1. k \in Nat /\ (k <= m => f[k] = h[k]) OBVIOUS
  <2> SUFFICES ASSUME k + 1 <= m PROVE f[k + 1] = h[k + 1]
    BY <2>1
  <2> HIDE DEF N
  <2>2. k + 1 \in 1..m /\ k + 1 \in 1..l /\ (k + 1) - 1 = k /\ k <= m BY <2>1
  <2>3. f[k + 1] = UNION {Under(node, n[k + 1]) : node \in f[k]}
    <3>1. f[k + 1] = UNION {Under(node, n[k + 1]) : node \in f[(k + 1) - 1]}
      BY <2>2, Zenon DEF AtSteps
    <3> QED BY <2>2, <3>1
  <2>4. h[k + 1] = UNION {Under(node, o[k + 1]) : node \in h[k]}
    <3>1. h[k + 1] = UNION {Under(node, o[k + 1]) : node \in h[(k + 1) - 1]}
      BY <2>2, Zenon DEF AtSteps
    <3> QED BY <2>2, <3>1
  <2>5. n[k + 1] = o[k + 1] BY <2>2 DEF SameKeys
  <2> QED BY <2>1, <2>2, <2>3, <2>4, <2>5, Zenon
<1> HIDE DEF N
<1>3. N = Nat
  <2>1. N \in SUBSET Nat BY DEF N
  <2> QED BY <1>1, <1>2, <2>1, SetInduction
<1>4. m \in N BY <1>3
<1> QED BY <1>4 DEF N

\* At follows them.
LEMMA AtIs ==
    ASSUME NEW root, NEW n, Len(n) \in Nat
    PROVE  \E f : AtSteps(root, n, f, Len(n)) /\ At(root, n) = f[Len(n)]
<1> DEFINE Fun(h) ==
      h = [k \in 0..Len(n) |->
             IF k = 0 THEN {root} ELSE UNION {Under(node, n[k]) : node \in h[k - 1]}]
           f == CHOOSE h : Fun(h)
<1>1. PICK g : AtSteps(root, n, g, Len(n)) BY AtStepsExist
<1>2. Fun(g)
  <2>1. \A k \in 0..Len(n) : k = 0 \/ k \in 1..Len(n) OBVIOUS
  <2>2. \A k \in 0..Len(n) :
          g[k] = IF k = 0 THEN {root} ELSE UNION {Under(node, n[k]) : node \in g[k - 1]}
    BY <1>1, <2>1 DEF AtSteps
  <2>3. g = [k \in 0..Len(n) |->
               IF k = 0 THEN {root} ELSE UNION {Under(node, n[k]) : node \in g[k - 1]}]
    BY <1>1, <2>2 DEF AtSteps
  <2> QED BY <2>3
<1>3. Fun(f) BY <1>2
<1>4. At(root, n) = f[Len(n)] BY DEF At
<1> HIDE DEF f
<1>5. \A k \in 0..Len(n) :
        f[k] = IF k = 0 THEN {root} ELSE UNION {Under(node, n[k]) : node \in f[k - 1]}
  BY <1>3
<1>6. f = [k \in 0..Len(n) |-> f[k]] BY <1>3
<1> HIDE DEF Fun
<1>7. f[0] = {root}
  <2>1. 0 \in 0..Len(n) OBVIOUS
  <2> QED BY <1>5, <2>1
<1>8. \A k \in 1..Len(n) : f[k] = UNION {Under(node, n[k]) : node \in f[k - 1]}
  <2>1. \A k \in 1..Len(n) : k \in 0..Len(n) /\ k # 0 OBVIOUS
  <2> QED BY <1>5, <2>1
<1>9. AtSteps(root, n, f, Len(n)) BY <1>6, <1>7, <1>8 DEF AtSteps
<1> QED BY <1>4, <1>9

\* The document is at the empty name.
LEMMA AtEmpty == ASSUME NEW root PROVE At(root, <<>>) = {root}
<1>1. Len(<<>>) = 0 OBVIOUS
<1>2. PICK f : AtSteps(root, <<>>, f, Len(<<>>)) /\ At(root, <<>>) = f[Len(<<>>)] BY <1>1, AtIs
<1> QED BY <1>1, <1>2 DEF AtSteps

\* One more key leads to the nodes under it.
LEMMA AtAppend ==
    ASSUME NEW root, NEW S, NEW n \in Seq(S), NEW key \in S
    PROVE  \A x : x \in At(root, Append(n, key)) <=> \E node \in At(root, n) : x \in Under(node, key)
<1>1. PICK o, m : o = Append(n, key) /\ m = Len(n) OBVIOUS
<1>2. m \in Nat /\ Len(o) = m + 1 /\ o[m + 1] = key /\ \A k \in 1..m : n[k] = o[k]
  BY <1>1, AppendProperties
<1>3. PICK f : AtSteps(root, n, f, m) /\ At(root, n) = f[m] BY <1>1, <1>2, AtIs
<1>4. PICK h : AtSteps(root, o, h, m + 1) /\ At(root, o) = h[m + 1]
  <2>1. Len(o) \in Nat BY <1>2
  <2>2. PICK h : AtSteps(root, o, h, Len(o)) /\ At(root, o) = h[Len(o)] BY <2>1, AtIs
  <2> QED BY <1>2, <2>2
<1>5. f[m] = h[m]
  <2>1. PICK l : l = m + 1 OBVIOUS
  <2>2. m \in Nat /\ l \in Nat /\ m <= l BY <1>2, <2>1
  <2>3. SameKeys(n, o, m) BY <1>2 DEF SameKeys
  <2>4. AtSteps(root, n, f, m) /\ AtSteps(root, o, h, l) BY <1>3, <1>4, <2>1
  <2> QED BY <2>2, <2>3, <2>4, AtStepsAgree
<1>6. h[m + 1] = UNION {Under(node, o[m + 1]) : node \in h[m]}
  <2>1. m + 1 \in 1..m + 1 /\ (m + 1) - 1 = m BY <1>2
  <2>2. h[m + 1] = UNION {Under(node, o[m + 1]) : node \in h[(m + 1) - 1]}
    BY <1>4, <2>1, Zenon DEF AtSteps
  <2> QED BY <2>1, <2>2
<1>7. At(root, o) = UNION {Under(node, key) : node \in At(root, n)}
  <2>1. h[m] = At(root, n) /\ o[m + 1] = key /\ At(root, o) = h[m + 1]
    BY <1>2, <1>3, <1>4, <1>5, Zenon
  <2> QED BY <1>6, <2>1
<1>8. \A x : x \in At(root, o) <=> \E node \in At(root, n) : x \in Under(node, key) BY <1>7
<1> QED BY <1>1, <1>8, Zenon

-----------------------------------------------------------------------------
\* A node under the name where the document has it, and one whose keys a name
\* may have.
Entry(root, e) ==
    /\ e = Member(e.name, e.node) /\ Listable(e.name) /\ ValidName(e.name)
    /\ e.node \in At(root, e.name)
Legal(e) ==
    Is(e.node, "map") =>
        /\ Listable(e.node.map)
        /\ \A p \in DOMAIN e.node.map : e.node.map[p].key \notin Upper \cup Illegal

\* After any number of calls everything listed, or still to be looked at, is an
\* entry; and what is below a node that is listed is one or the other.
Walk(root, output, rest) ==
    /\ Listable(output) /\ Listable(rest)
    /\ \A e \in ToSet(output) \cup ToSet(rest) : Entry(root, e)
    /\ Member(<<>>, root) \in ToSet(output) \cup ToSet(rest)
    /\ \A e \in ToSet(output) :
          Legal(e) /\ ToSet(Below(e)) \subseteq ToSet(output) \cup ToSet(rest)

\* The parts of an entry are its own.
LEMMA MemberIs == \A name, node : /\ Member(name, node).name = name
                                  /\ Member(name, node).node = node
BY DEF Member

\* What is below an entry: sequences of entries of the same document.
LEMMA BelowEntry ==
    ASSUME NEW root, NEW e, Entry(root, e), Legal(e)
    PROVE  Listable(Below(e)) /\ \A b \in ToSet(Below(e)) : Entry(root, b)
<1>1. CASE ~Is(e.node, "map")
  <2>1. Below(e) = <<>> BY <1>1 DEF Below
  <2>2. Listable(<<>>)
    <3>1. <<>> \in Seq({}) OBVIOUS
    <3> QED BY <3>1, ListableIn
  <2>3. ToSet(<<>>) = {} BY DEF ToSet
  <2> QED BY <2>1, <2>2, <2>3
<1>2. CASE Is(e.node, "map")
  <2>1. PICK map, name, node : map = e.node.map /\ name = e.name /\ node = e.node OBVIOUS
  <2>2. Below(e) = [p \in DOMAIN map |-> Member(Append(name, map[p].key), map[p].node)]
    BY <1>2, <2>1 DEF Below
  <2>3. Listable(map) /\ \A p \in DOMAIN map : map[p].key \notin Upper \cup Illegal
    BY <1>2, <2>1 DEF Legal
  <2>4. PICK M : M = ToSet(map) OBVIOUS
  <2>5. map \in Seq(M) BY <2>3, <2>4 DEF Listable
  <2>6. PICK b : b = Below(e) OBVIOUS
  <2>7. Listable(b)
    <3>1. PICK S : S = {b[p] : p \in DOMAIN map} OBVIOUS
    <3>2. DOMAIN map = 1..Len(map) /\ Len(map) \in Nat BY <2>5
    <3>3. b = [p \in 1..Len(map) |-> b[p]] /\ \A p \in 1..Len(map) : b[p] \in S
      BY <2>2, <2>6, <3>1, <3>2
    <3>4. b \in Seq(S) BY <3>2, <3>3
    <3> QED BY <3>4, ListableIn
  <2>8. ASSUME NEW p \in DOMAIN map PROVE Entry(root, b[p])
    <3>1. PICK key, under : key = map[p].key /\ under = map[p].node OBVIOUS
    <3>2. b[p] = Member(Append(name, key), under) BY <2>2, <2>6, <3>1
    <3>3. b[p].name = Append(name, key) /\ b[p].node = under BY <3>2 DEF Member
    <3>4. PICK S : S = ToSet(name) \cup {key} OBVIOUS
    <3>5. name \in Seq(S) /\ key \in S
      <4>1. PICK T : T = ToSet(name) OBVIOUS
      <4>2. name \in Seq(T) BY <2>1, <4>1 DEF Entry, Listable
      <4> QED BY <3>4, <4>1, <4>2
    <3>6. Listable(Append(name, key)) BY <3>5, ListableIn, AppendProperties
    <3>7. ValidName(Append(name, key))
      <4>1. key \notin Upper \cup Illegal BY <2>3, <3>1
      <4>2. PICK o : o = Append(name, key) OBVIOUS
      <4>3. /\ o \in Seq(S) /\ Len(o) = Len(name) + 1 /\ o[Len(name) + 1] = key
            /\ \A i \in 1..Len(name) : o[i] = name[i]
        BY <3>5, <4>2, AppendProperties
      <4>4. DOMAIN o = 1..Len(name) + 1 /\ DOMAIN name = 1..Len(name) /\ Len(name) \in Nat
        BY <3>5, <4>3
      <4>5. \A i \in DOMAIN name : name[i] \notin Upper \cup Illegal BY <2>1 DEF Entry, ValidName
      <4>6. \A i \in 1..Len(name) + 1 : i = Len(name) + 1 \/ i \in 1..Len(name) BY <4>4
      <4>7. \A i \in DOMAIN o : o[i] \notin Upper \cup Illegal
        BY <4>1, <4>3, <4>4, <4>5, <4>6
      <4> QED BY <4>2, <4>7 DEF ValidName
    <3>8. under \in At(root, Append(name, key))
      <4>1. node \in At(root, name) BY <2>1 DEF Entry
      <4>2. under \in Under(node, key)
        <5>1. Lowered(key) = key BY <2>3, <3>1 DEF Lowered
        <5>2. Lowered(map[p].key) = key /\ map[p].node = under BY <3>1, <5>1
        <5>3. Under(node, key) = {map[i].node : i \in {q \in DOMAIN map : Lowered(map[q].key) = key}}
          BY <1>2, <2>1 DEF Under
        <5> QED BY <5>2, <5>3
      <4> QED BY <3>5, <4>1, <4>2, AtAppend
    <3> QED BY <3>2, <3>3, <3>6, <3>7, <3>8 DEF Entry
  <2>9. DOMAIN b = DOMAIN map BY <2>2, <2>6
  <2>10. \A x \in ToSet(b) : Entry(root, x) BY <2>8, <2>9 DEF ToSet
  <2> QED BY <2>6, <2>7, <2>10
<1> QED BY <1>1, <1>2

\* One more call.
LEMMA WalkStep ==
    ASSUME NEW root, NEW output, NEW rest, Walk(root, output, rest), rest # <<>>,
           Legal(Head(rest))
    PROVE  Walk(root, Append(output, Head(rest)), Below(Head(rest)) \o Tail(rest))
<1>1. PICK e, tail, below : e = Head(rest) /\ tail = Tail(rest) /\ below = Below(e) OBVIOUS
<1>2. PICK O, R, T, B : O = ToSet(output) /\ R = ToSet(rest) /\ T = ToSet(tail) /\ B = ToSet(below)
  OBVIOUS
<1>3. Listable(tail) /\ R = {e} \cup T BY <1>1, <1>2, ListableHead DEF Walk
<1>4. Entry(root, e) /\ Legal(e) BY <1>1, <1>2, <1>3 DEF Walk
<1>5. Listable(below) /\ \A b \in B : Entry(root, b) BY <1>1, <1>2, <1>4, BelowEntry
<1>6. PICK output1, rest1 : output1 = Append(output, e) /\ rest1 = below \o tail OBVIOUS
<1>7. Listable(rest1) /\ ToSet(rest1) = B \cup T BY <1>2, <1>3, <1>5, <1>6, ListableConcat
<1>8. Listable(output1) /\ ToSet(output1) = O \cup {e}
  BY <1>2, <1>6, ListableAppend DEF Walk
<1>9. \A x \in ToSet(output1) \cup ToSet(rest1) : Entry(root, x)
  BY <1>2, <1>3, <1>5, <1>7, <1>8 DEF Walk
<1>10. Member(<<>>, root) \in ToSet(output1) \cup ToSet(rest1)
  BY <1>2, <1>3, <1>7, <1>8 DEF Walk
<1>11. \A x \in ToSet(output1) :
          Legal(x) /\ ToSet(Below(x)) \subseteq ToSet(output1) \cup ToSet(rest1)
  <2>1. \A x \in O : Legal(x) /\ ToSet(Below(x)) \subseteq O \cup R BY <1>2 DEF Walk
  <2>2. ToSet(Below(e)) = B BY <1>1, <1>2
  <2> QED BY <1>3, <1>4, <1>7, <1>8, <2>1, <2>2
<1>12. Walk(root, output1, rest1) BY <1>7, <1>8, <1>9, <1>10, <1>11 DEF Walk
<1> QED BY <1>1, <1>6, <1>12

(***************************************************************************)
(* The hypotheses: no key of a document has a character that names may not *)
(* have, and no document has two nodes at one name.                        *)
(***************************************************************************)
LegalDocuments ==
    \A y \in Documents : \A n \in 0..MaxCalls : \A e \in ToSet(Calls(y)[n].rest) :
        Is(e.node, "map") => \A p \in DOMAIN e.node.map : e.node.map[p].key \notin Upper \cup Illegal
OneNode == \A y \in Documents, n \in Names : \E node : At(y, n) \subseteq {node}

\* All calls together.
LEMMA WalkAll ==
    ASSUME LegalDocuments, NEW y \in Documents
    PROVE  Walk(y, ListAllMember(y), <<>>)
<1>1. PICK h, m : h = Calls(y) /\ m = MaxCalls OBVIOUS
<1>2. Made(y, h, m) /\ m \in Nat BY <1>1, CallsMade, DocumentsAssumption
<1>3. \A n \in 0..m : \A e \in ToSet(h[n].rest) : Legal(e)
  BY <1>1, DocumentsAssumption DEF LegalDocuments, Legal, Listable
<1>4. h[m].rest = <<>> /\ ListAllMember(y) = h[m].output
  BY <1>1, DocumentsAssumption DEF ListAllMember
<1> DEFINE Good(call) == /\ call = [output |-> call.output, rest |-> call.rest]
                         /\ Walk(y, call.output, call.rest)
           N == {n \in Nat : n <= m => Good(h[n])}
<1>5. 0 \in N
  <2>1. PICK e : e = Member(<<>>, y) OBVIOUS
  <2>2. h[0] = [output |-> <<>>, rest |-> <<e>>] BY <1>2, <2>1 DEF Made, CallsBegin
  <2>3. e.name = <<>> /\ e.node = y BY <2>1 DEF Member
  <2>4. Listable(<<>>) /\ Listable(<<e>>) /\ ToSet(<<>>) = {} /\ ToSet(<<e>>) = {e}
    <3>1. <<>> \in Seq({}) /\ <<e>> \in Seq({e}) OBVIOUS
    <3>2. ToSet(<<>>) = {} BY DEF ToSet
    <3>3. DOMAIN <<e>> = {1} /\ <<e>>[1] = e OBVIOUS
    <3>4. ToSet(<<e>>) = {e} BY <3>3 DEF ToSet
    <3> QED BY <3>1, <3>2, <3>4, ListableIn
  <2>5. Entry(y, e)
    <3>1. ValidName(<<>>) BY DEF ValidName
    <3> QED BY <2>1, <2>3, <2>4, <3>1, AtEmpty DEF Entry
  <2>6. Walk(y, <<>>, <<e>>) BY <2>1, <2>4, <2>5 DEF Walk
  <2> QED BY <2>2, <2>6
<1>6. ASSUME NEW n \in N PROVE n + 1 \in N
  <2>1. n \in Nat /\ (n <= m => Good(h[n])) OBVIOUS
  <2> SUFFICES ASSUME n + 1 <= m PROVE Good(h[n + 1])
    BY <2>1
  <2>2. PICK call : call = h[n] OBVIOUS
  <2>3. n <= m /\ n \in 0..m /\ n + 1 \in 1..m /\ (n + 1) - 1 = n BY <1>2, <2>1
  <2>4. PICK output, rest : output = call.output /\ rest = call.rest OBVIOUS
  <2>5. call = [output |-> output, rest |-> rest] /\ Walk(y, output, rest)
    BY <2>1, <2>2, <2>3, <2>4
  <2> HIDE DEF N, Good
  <2>6. h[n + 1] = CallStep(call)
    <3>1. h[n + 1] = CallStep(h[(n + 1) - 1]) BY <1>2, <2>3, Zenon DEF Made
    <3> QED BY <2>2, <2>3, <3>1
  <2>7. CASE rest = <<>>
    <3>1. h[n + 1] = call BY <2>4, <2>6, <2>7 DEF CallStep
    <3> QED BY <2>1, <2>2, <2>3, <3>1
  <2>8. CASE rest # <<>>
    <3>1. PICK e : e = Head(rest) OBVIOUS
    <3>2. e \in ToSet(rest) BY <2>5, <2>8, <3>1, ListableHead DEF Walk
    <3>3. Entry(y, e) /\ Legal(e) BY <1>3, <2>2, <2>3, <2>4, <2>5, <3>2 DEF Walk
    <3>4. h[n + 1] = [output |-> Append(output, e), rest |-> Below(e) \o Tail(rest)]
      BY <2>4, <2>6, <2>8, <3>1, <3>3 DEF CallStep, Entry
    <3>5. Walk(y, Append(output, e), Below(e) \o Tail(rest))
      BY <2>5, <2>8, <3>1, <3>3, WalkStep
    <3> QED BY <3>4, <3>5 DEF Good
  <2> QED BY <2>7, <2>8
<1> HIDE DEF N, Good
<1>7. N = Nat
  <2>1. N \in SUBSET Nat BY DEF N
  <2> QED BY <1>5, <1>6, <2>1, SetInduction
<1>8. Good(h[m]) BY <1>2, <1>7 DEF N
<1> QED BY <1>4, <1>8 DEF Good

\* A node that the document has at a name is listed under it.
LEMMA AllListed ==
    ASSUME NEW root, NEW output, Walk(root, output, <<>>), NEW S
    PROVE  \A n \in Seq(S) : \A x \in At(root, n) : Member(n, x) \in ToSet(output)
<1>1. PICK O : O = ToSet(output) OBVIOUS
<1>2. /\ Member(<<>>, root) \in O
      /\ \A e \in O : Entry(root, e) /\ Legal(e) /\ ToSet(Below(e)) \subseteq O
  <2>1. ToSet(<<>>) = {} BY DEF ToSet
  <2> QED BY <1>1, <2>1 DEF Walk
<1> DEFINE N == {k \in Nat : \A n \in Seq(S) : Len(n) = k =>
                   \A x \in At(root, n) : Member(n, x) \in O}
<1>3. 0 \in N
  <2>1. \A n \in Seq(S) : Len(n) = 0 => n = <<>> OBVIOUS
  <2> QED BY <1>2, <2>1, AtEmpty
<1>4. ASSUME NEW k \in N PROVE k + 1 \in N
  <2>1. /\ k \in Nat
        /\ \A n \in Seq(S) : Len(n) = k => \A x \in At(root, n) : Member(n, x) \in O
    OBVIOUS
  <2> SUFFICES ASSUME NEW n \in Seq(S), Len(n) = k + 1, NEW x \in At(root, n)
               PROVE  Member(n, x) \in O
    BY <2>1
  <2> HIDE DEF N
  <2>2. PICK front, key : front = SubSeq(n, 1, k) /\ key = n[k + 1] OBVIOUS
  <2>3. /\ front \in Seq(S) /\ Len(front) = k /\ key \in S /\ n = Append(front, key)
    <3>1. k <= Len(n) BY <2>1
    <3>2. /\ front \in Seq(S) /\ Len(front) = k /\ \A p \in 1..k : front[p] = n[p]
      BY <2>1, <2>2, <3>1, Prefix
    <3>3. key \in S BY <2>1, <2>2
    <3>4. PICK o : o = Append(front, key) OBVIOUS
    <3>5. /\ o \in Seq(S) /\ Len(o) = k + 1 /\ o[k + 1] = key
          /\ \A p \in 1..k : o[p] = front[p]
      BY <3>2, <3>3, <3>4, AppendOne
    <3>6. \A p \in 1..k + 1 : o[p] = n[p]
      <4>1. \A p \in 1..k + 1 : p = k + 1 \/ p \in 1..k BY <2>1
      <4> QED BY <2>2, <3>2, <3>5, <4>1
    <3>7. o = n BY <3>5, <3>6
    <3> QED BY <3>2, <3>3, <3>4, <3>7
  <2>4. PICK node \in At(root, front) : x \in Under(node, key) BY <2>3, AtAppend
  <2>5. PICK e : e = Member(front, node) OBVIOUS
  <2>6. e \in O /\ e.name = front /\ e.node = node BY <2>1, <2>3, <2>5 DEF Member
  <2>7. PICK map : map = node.map OBVIOUS
  <2>8. Is(node, "map") BY <2>4 DEF Under
  <2>9. PICK p \in DOMAIN map : x = map[p].node /\ Lowered(map[p].key) = key
    <3>1. Under(node, key) = {map[q].node : q \in {i \in DOMAIN map : Lowered(map[i].key) = key}}
      BY <2>7, <2>8 DEF Under
    <3> QED BY <2>4, <3>1
  <2>10. map[p].key = key
    <3>1. map[p].key \notin Upper BY <1>2, <2>6, <2>7, <2>8 DEF Legal
    <3> QED BY <2>9, <3>1 DEF Lowered
  <2>11. Below(e) = [q \in DOMAIN map |-> Member(Append(front, map[q].key), map[q].node)]
    BY <2>6, <2>7, <2>8 DEF Below
  <2>12. PICK b : b = Below(e) OBVIOUS
  <2>13. b[p] = Member(n, x) /\ p \in DOMAIN b BY <2>3, <2>9, <2>10, <2>11, <2>12
  <2>14. b[p] \in ToSet(b) BY <2>13 DEF ToSet
  <2> QED BY <1>2, <2>6, <2>12, <2>13, <2>14
<1> HIDE DEF N
<1>5. N = Nat
  <2>1. N \in SUBSET Nat BY DEF N
  <2> QED BY <1>3, <1>4, <2>1, SetInduction
<1>6. \A n \in Seq(S) : Len(n) \in Nat OBVIOUS
<1> QED BY <1>1, <1>5, <1>6 DEF N

-----------------------------------------------------------------------------
(***************************************************************************)
(* While the loader works through the list, a variable that was registered *)
(* at the call has the value the document gives it, or it has the value it *)
(* had and what the document gives it is still to come.                    *)
(***************************************************************************)
OneLoader == \E l : Loaders = {l}

Given(t, n, type) == UNION {FromStr(type, Text(x)) : x \in At(doc[t], n)}
Value(values, v) == IF values = {} THEN v ELSE CHOOSE r \in values : TRUE
Done(t, n) ==
    s_datas[n].m_val = Value(Given(t, n, before[t][n].type), before[t][n].m_val)
Pending(t, n) ==
    /\ pc[t] # "idle" /\ s_datas[n].m_val = before[t][n].m_val
    /\ \A x \in At(doc[t], n) : Member(n, x) \in ToSet(all_nodes[t])

Working(t) ==
    /\ doc[t] \in Documents /\ Listable(all_nodes[t])
    /\ \A e \in ToSet(all_nodes[t]) : Entry(doc[t], e)
    /\ pc[t] = "set" => all_nodes[t] # <<>> /\ var[t] = Head(all_nodes[t]).name
Kept(t) ==
    \A n \in DOMAIN before[t] \ {<<>>} :
        /\ n \in DOMAIN s_datas /\ s_datas[n].type = before[t][n].type
        /\ Done(t, n) \/ Pending(t, n)

LoadInv ==
    /\ DOMAIN s_datas \subseteq Names
    /\ \A t \in Loaders : DOMAIN before[t] \subseteq Names
    /\ all_nodes = [t \in Loaders |-> all_nodes[t]]
    /\ doc = [t \in Loaders |-> doc[t]]
    /\ before = [t \in Loaders |-> before[t]]
    /\ \A t \in Loaders : Kept(t) /\ (pc[t] # "idle" => Working(t))

\* A name of a listed node is that of a variable as it is: nothing is lowered.
LEMMA KeyIs ==
    ASSUME NEW t, Working(t), all_nodes[t] # <<>>
    PROVE  Key(t) = Head(all_nodes[t]).name
<1>1. PICK n : n = Head(all_nodes[t]).name OBVIOUS
<1>2. Listable(n) /\ ValidName(n) BY <1>1, ListableHead DEF Working, Entry
<1>3. \A p \in DOMAIN n : Lowered(n[p]) = n[p] BY <1>2 DEF ValidName, Lowered
<1>4. n = [p \in DOMAIN n |-> n[p]]
  <2>1. PICK S : S = ToSet(n) OBVIOUS
  <2>2. n \in Seq(S) BY <1>2, <2>1 DEF Listable
  <2> QED BY <2>2
<1>5. Key(t) = [p \in DOMAIN n |-> Lowered(n[p])] BY <1>1 DEF Key
<1> QED BY <1>1, <1>3, <1>4, <1>5

\* Before the first call there is nothing to load.
LEMMA LoadInit == Init => LoadInv
<1> SUFFICES ASSUME Init PROVE LoadInv
  OBVIOUS
<1>1. DOMAIN s_datas = {} BY DEF Init
<1>2. \A t \in Loaders : DOMAIN before[t] = {} /\ pc[t] = "idle" BY <1>1 DEF Init, Threads
<1>3. /\ all_nodes = [t \in Loaders |-> all_nodes[t]] /\ doc = [t \in Loaders |-> doc[t]]
      /\ before = [t \in Loaders |-> before[t]]
  BY DEF Init
<1> QED BY <1>1, <1>2, <1>3 DEF LoadInv, Kept

\* A variable that is created had not been registered at the call.
LEMMA LoadCreate ==
    ASSUME LoadInv, RegistryInv, NEW l \in Registrars, NEW n \in Names, NEW type \in Types, NEW v,
           Create(l, n, type, v)
    PROVE  LoadInv'
<1>1. /\ DOMAIN s_datas' = DOMAIN s_datas \cup {n}
      /\ \A m \in DOMAIN s_datas : m # n => s_datas'[m] = s_datas[m]
  BY StoredTable DEF Create, RegistryInv
<1>2. n \notin DOMAIN s_datas /\ UNCHANGED <<pc, all_nodes, var, doc, before>>
  BY DEF Create, local, Exists
<1>3. \A m \in DOMAIN s_datas : s_datas'[m] = s_datas[m] BY <1>1, <1>2
<1>4. ASSUME NEW t \in Loaders PROVE Kept(t)' /\ (pc'[t] # "idle" => Working(t)')
  <2>1. pc'[t] # "idle" => Working(t)' BY <1>2 DEF LoadInv, Working
  <2>2. ASSUME NEW m \in DOMAIN before[t] \ {<<>>}
        PROVE  m \in DOMAIN s_datas' /\ s_datas'[m].type = before[t][m].type
               /\ (Done(t, m)' \/ Pending(t, m)')
    <3>1. /\ m \in DOMAIN s_datas /\ s_datas[m].type = before[t][m].type
          /\ Done(t, m) \/ Pending(t, m)
      BY DEF LoadInv, Kept
    <3>2. s_datas'[m] = s_datas[m] BY <1>3, <3>1
    <3>3. Done(t, m) => Done(t, m)' BY <1>2, <3>2 DEF Done, Given
    <3>4. Pending(t, m) => Pending(t, m)' BY <1>2, <3>2 DEF Pending
    <3> QED BY <1>1, <3>1, <3>2, <3>3, <3>4
  <2> QED BY <1>2, <2>1, <2>2 DEF Kept
<1> QED BY <1>1, <1>2, <1>4 DEF LoadInv

\* At the call everything is still to come.
LEMMA LoadBegun ==
    ASSUME LoadInv, RegistryInv, OneLoader, LegalDocuments, NEW t \in Loaders, NEW y \in Documents,
           LoadBegin(t, y)
    PROVE  LoadInv'
<1>1. \A l \in Loaders : l = t BY DEF OneLoader
<1>2. PICK all : all = ListAllMember(y) OBVIOUS
<1>3. Walk(y, all, <<>>) BY <1>2, WalkAll
<1>4. /\ all_nodes'[t] = all /\ doc'[t] = y /\ before'[t] = s_datas /\ pc'[t] = "lookup"
      /\ s_datas' = s_datas
      /\ all_nodes' = [l \in Loaders |-> all_nodes'[l]] /\ doc' = [l \in Loaders |-> doc'[l]]
      /\ before' = [l \in Loaders |-> before'[l]]
  BY <1>2 DEF LoadBegin, LoadInv, RegistryInv, Threads, Goto
<1>5. Working(t)' BY <1>3, <1>4 DEF Walk, Working
<1>6. Kept(t)'
  <2>1. ASSUME NEW n \in DOMAIN s_datas PROVE Pending(t, n)'
    <3>1. n \in Seq(Keys) BY RegistryAssumption DEF LoadInv
    <3>2. \A x \in At(y, n) : Member(n, x) \in ToSet(all) BY <1>3, <3>1, AllListed
    <3> QED BY <1>4, <3>2 DEF Pending
  <2> QED BY <1>4, <2>1 DEF Kept
<1> QED BY <1>1, <1>4, <1>5, <1>6 DEF LoadInv

\* A node that is passed over is at the name of no variable; one that is found
\* is looked at next.
LEMMA LoadLookedUp ==
    ASSUME LoadInv, RegistryInv, OneLoader, NEW t \in Loaders, LoadLookup(t)
    PROVE  LoadInv'
<1>1. \A l \in Loaders : l = t BY DEF OneLoader
<1>2. /\ pc[t] = "lookup" /\ all_nodes[t] # <<>> /\ Working(t) /\ Kept(t)
      /\ UNCHANGED <<s_datas, doc, before>>
  BY DEF LoadLookup, LoadInv
<1>3. PICK e, tail : e = Head(all_nodes[t]) /\ tail = Tail(all_nodes[t]) OBVIOUS
<1>4. Key(t) = e.name BY <1>2, <1>3, KeyIs
<1>5. Listable(tail) /\ ToSet(all_nodes[t]) = {e} \cup ToSet(tail)
  BY <1>2, <1>3, ListableHead DEF Working
<1>6. CASE e.name # <<>> /\ Exists(e.name)
  <2>1. var'[t] = e.name /\ pc'[t] = "set" /\ all_nodes' = all_nodes
    BY <1>4, <1>6 DEF LoadLookup, Goto, RegistryInv, Threads
  <2>2. Working(t)' BY <1>2, <1>3, <2>1 DEF Working
  <2>3. Kept(t)'
    <3>1. \A n : Done(t, n) => Done(t, n)' BY <1>2 DEF Done, Given
    <3>2. \A n : Pending(t, n) => Pending(t, n)' BY <1>2, <2>1 DEF Pending
    <3> QED BY <1>2, <3>1, <3>2 DEF Kept
  <2> QED BY <1>1, <1>2, <2>1, <2>2, <2>3 DEF LoadInv
<1>7. CASE ~(e.name # <<>> /\ Exists(e.name))
  <2>1. /\ all_nodes'[t] = tail /\ all_nodes' = [l \in Loaders |-> all_nodes'[l]]
        /\ pc' = pc /\ var' = var
    BY <1>3, <1>4, <1>7 DEF LoadLookup, LoadInv
  <2>2. Working(t)' BY <1>2, <1>5, <2>1 DEF Working
  <2>3. ASSUME NEW n \in DOMAIN s_datas \ {<<>>} PROVE Pending(t, n) => Pending(t, n)'
    <3>1. \A x : Member(n, x) # e BY <1>7 DEF Member, Exists
    <3> QED BY <1>2, <1>5, <2>1, <3>1 DEF Pending
  <2>4. \A n : Done(t, n) => Done(t, n)' BY <1>2 DEF Done, Given
  <2>5. Kept(t)' BY <1>2, <2>3, <2>4 DEF Kept
  <2> QED BY <1>1, <1>2, <2>1, <2>2, <2>5 DEF LoadInv
<1> QED BY <1>6, <1>7

\* The one node that the document has at a name gives its variable the value.
LEMMA LoadIsSet ==
    ASSUME LoadInv, RegistryInv, OneLoader, OneNode, NEW t \in Loaders, LoadSet(t)
    PROVE  LoadInv'
<1>1. \A l \in Loaders : l = t BY DEF OneLoader
<1>2. pc[t] = "set" /\ Working(t) /\ Kept(t) /\ UNCHANGED <<doc, before>>
  BY DEF LoadSet, LoadInv
<1>3. PICK e, tail : e = Head(all_nodes[t]) /\ tail = Tail(all_nodes[t]) OBVIOUS
<1>4. PICK name, node : name = e.name /\ node = e.node OBVIOUS
<1>5. all_nodes[t] # <<>> /\ var[t] = name BY <1>2, <1>3, <1>4 DEF Working
<1>6. Listable(tail) /\ ToSet(all_nodes[t]) = {e} \cup ToSet(tail)
  BY <1>2, <1>3, <1>5, ListableHead DEF Working
<1>7. /\ all_nodes'[t] = tail /\ all_nodes' = [l \in Loaders |-> all_nodes'[l]]
      /\ pc'[t] = "lookup"
  BY <1>3 DEF LoadSet, LoadInv, Goto, RegistryInv, Threads
<1>8. name \in DOMAIN s_datas BY <1>2, <1>5 DEF RegistryInv, Exists
<1>9. /\ DOMAIN s_datas' = DOMAIN s_datas
      /\ s_datas'[name].type = s_datas[name].type
      /\ s_datas'[name].m_val = Value(FromStr(s_datas[name].type, Text(node)), s_datas[name].m_val)
      /\ \A m \in DOMAIN s_datas : m # name => s_datas'[m] = s_datas[m]
  <2>1. s_datas' = [s_datas EXCEPT ![name] = Assigned(s_datas[name], node)]
    BY <1>3, <1>4, <1>5 DEF LoadSet
  <2>2. Table(s_datas) BY DEF RegistryInv
  <2> QED BY <1>8, <2>1, <2>2, SetTable DEF Value
<1>10. Working(t)' BY <1>2, <1>6, <1>7 DEF Working
<1>11. At(doc[t], name) = {node}
  <2>1. node \in At(doc[t], name) BY <1>2, <1>4, <1>6 DEF Working, Entry
  <2>2. PICK x : At(doc[t], name) \subseteq {x}
    BY <1>2, <1>8 DEF Working, OneNode, LoadInv
  <2> QED BY <2>1, <2>2
<1>12. \A n : Given(t, n, before[t][n].type)' = Given(t, n, before[t][n].type)
  BY <1>2 DEF Given
<1>13. ASSUME NEW n \in DOMAIN before[t] \ {<<>>}, n # name
       PROVE  /\ n \in DOMAIN s_datas' /\ s_datas'[n].type = before[t][n].type
              /\ (Done(t, n)' \/ Pending(t, n)')
  <2>1. /\ n \in DOMAIN s_datas /\ s_datas[n].type = before[t][n].type
        /\ Done(t, n) \/ Pending(t, n)
    BY <1>2 DEF Kept
  <2>2. s_datas'[n] = s_datas[n] BY <1>9, <1>13, <2>1
  <2>3. Done(t, n) => Done(t, n)' BY <1>2, <1>12, <2>2 DEF Done
  <2>4. ASSUME Pending(t, n) PROVE Pending(t, n)'
    <3>1. \A x : Member(n, x) # e BY <1>4, <1>13 DEF Member
    <3> QED BY <1>2, <1>6, <1>7, <2>2, <2>4, <3>1 DEF Pending
  <2> QED BY <1>9, <2>1, <2>2, <2>3, <2>4
<1>14. ASSUME name \in DOMAIN before[t] \ {<<>>}
       PROVE  s_datas'[name].type = before[t][name].type /\ Done(t, name)'
  <2>1. PICK type, v, values :
          type = before[t][name].type /\ v = before[t][name].m_val /\ values = FromStr(type, Text(node))
    OBVIOUS
  <2>2. Given(t, name, type) = values BY <1>11, <2>1 DEF Given
  <2>3. s_datas[name].type = type /\ (Done(t, name) \/ Pending(t, name))
    BY <1>2, <1>14, <2>1 DEF Kept
  <2>4. s_datas'[name].m_val = Value(values, s_datas[name].m_val) BY <1>9, <2>1, <2>3
  <2>5. s_datas[name].m_val = v \/ s_datas[name].m_val = Value(values, v)
    BY <2>1, <2>2, <2>3 DEF Done, Pending
  <2>6. s_datas'[name].m_val = Value(values, v) BY <2>4, <2>5 DEF Value
  <2> QED BY <1>2, <1>9, <1>12, <2>1, <2>2, <2>3, <2>6 DEF Done
<1>15. Kept(t)' BY <1>2, <1>8, <1>9, <1>13, <1>14 DEF Kept
<1> QED BY <1>1, <1>2, <1>7, <1>9, <1>10, <1>15 DEF LoadInv

\* At the end nothing is still to come.
LEMMA LoadEnded ==
    ASSUME LoadInv, RegistryInv, OneLoader, NEW t \in Loaders, LoadEnd(t)
    PROVE  LoadInv'
<1>1. \A l \in Loaders : l = t BY DEF OneLoader
<1>2. /\ all_nodes[t] = <<>> /\ Kept(t)
      /\ UNCHANGED <<s_datas, all_nodes, doc, before>> /\ pc'[t] = "idle"
  BY DEF LoadEnd, LoadInv, local, Goto, RegistryInv, Threads
<1>3. ToSet(<<>>) = {} BY DEF ToSet
<1>4. ASSUME NEW n, Pending(t, n) PROVE Done(t, n)
  <2>1. At(doc[t], n) = {} BY <1>2, <1>3, <1>4 DEF Pending
  <2>2. Given(t, n, before[t][n].type) = {} BY <2>1 DEF Given
  <2> QED BY <1>4, <2>2 DEF Pending, Done, Value
<1>5. \A n : Done(t, n) => Done(t, n)' BY <1>2 DEF Done, Given
<1>6. Kept(t)' BY <1>2, <1>4, <1>5 DEF Kept
<1> QED BY <1>1, <1>2, <1>6 DEF LoadInv

\* Every step, of a program with one loader, keeps the invariant.
LEMMA LoadStep ==
    ASSUME OneLoader, LegalDocuments, OneNode
    PROVE  RegistryInv /\ LoadInv /\ [Next]_vars => LoadInv'
<1> SUFFICES ASSUME RegistryInv, LoadInv, [Next]_vars PROVE LoadInv'
  OBVIOUS
<1>1. CASE UNCHANGED vars
  <2>1. \A t, n : Done(t, n)' = Done(t, n) /\ Pending(t, n)' = Pending(t, n)
    BY <1>1 DEF Done, Pending, Given, vars, local
  <2> QED BY <1>1, <2>1 DEF LoadInv, Kept, Working, vars, local
<1>2. ASSUME NEW t \in Registrars, NEW n \in Names, NEW type \in Types,
             Find(t, n, type) \/ FindNothing(t, n, type)
      PROVE  LoadInv'
  <2>1. UNCHANGED <<s_datas, pc, all_nodes, var, doc, before>>
    BY <1>2 DEF Find, FindNothing, vars, local
  <2>2. \A l, m : Done(l, m)' = Done(l, m) /\ Pending(l, m)' = Pending(l, m)
    BY <2>1 DEF Done, Pending, Given
  <2> QED BY <2>1, <2>2 DEF LoadInv, Kept, Working
<1> QED BY <1>1, <1>2, LoadCreate, LoadBegun, LoadLookedUp, LoadIsSet, LoadEnded
     DEF Next, RegistrarNext, LoaderNext

(***************************************************************************)
(* A document takes effect: when LoadFromYaml has returned, every variable *)
(* that was registered at its call has the value the document gives it, or *)
(* the one it had if the document gives none that converts, whatever the   *)
(* registrars did in between.                                              *)
(***************************************************************************)
THEOREM DocumentsTakeEffect ==
    ASSUME OneLoader, LegalDocuments, OneNode
    PROVE  Spec => []Loaded
<1>1. LoadInv => Loaded
  <2> SUFFICES ASSUME LoadInv, NEW t \in Loaders, pc[t] = "idle", NEW n \in DOMAIN before[t] \ {<<>>}
               PROVE  LET v == before[t][n]
                          given == UNION {FromStr(v.type, Text(y)) : y \in At(doc[t], n)}
                      IN  s_datas[n].m_val = IF given = {} THEN v.m_val
                                             ELSE CHOOSE r \in given : TRUE
    BY DEF Loaded
  <2>1. Done(t, n) BY DEF LoadInv, Kept, Pending
  <2> QED BY <2>1 DEF Done, Value, Given
<1>2. RegistryInv /\ LoadInv /\ [Next]_vars => LoadInv' BY LoadStep
<1> QED BY <1>1, <1>2, LoadInit, RegistryInit, RegistryStep, PTL DEF Spec
=============================================================================
