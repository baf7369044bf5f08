---------------------------- MODULE ConfigRegistry ----------------------------
(***************************************************************************)
(* The registry of configuration variables (class Config in config.h,      *)
(* config.cc): LookUp creates or finds a variable, and LoadFromYaml walks  *)
(* a YAML document and sets the variables it names.                        *)
(*                                                                         *)
(* A name is a sequence of keys, written with dots in the code.  Types,    *)
(* nodes and texts are those of LexicalCast, whose conversions are         *)
(* constants here.  The regions under the registry's lock are single       *)
(* steps, and so is fromString, whose own locks are the subject of         *)
(* ConfigVar.                                                              *)
(***************************************************************************)
EXTENDS Naturals, Sequences, SequencesExt

CONSTANTS
    Registrars, \* threads that call LookUp
    Loaders,    \* threads that call LoadFromYaml
    Names,      \* the names LookUp is called with
    Types,      \* the T of the ConfigVar<T> it is called for
    Defaults(_), \* of a type: the default values it is called with
    Keys,       \* the keys of documents, and the parts of names
    Upper,      \* keys with an upper case letter
    Lower,      \* [Upper -> Keys]: tolower
    Illegal,    \* keys with another character that names may not have
    Documents,
    MaxCalls,   \* bound: calls of ListAllMember for a document
    FromStr(_, _), \* the values a text converts to: one, or none
    ToStr(_, _),
    Same(_, _, _),  \* whether two values of a type say the same
    Dump(_)     \* a node as a text

Threads == Registrars \cup Loaders

ASSUME RegistryAssumption ==
    /\ Registrars \cap Loaders = {} /\ Upper \cup Illegal \subseteq Keys
    /\ Names \subseteq Seq(Keys)

VARIABLES
    s_datas,    \* from names to their variables
    nextVar,    \* the address of the next variable
    got,        \* the pointers LookUp has returned: name and variable
    pc,         \* of each thread
    all_nodes,  \* of each loader: the nodes it has still to look at
    var,        \* of each loader: the variable found for the first of them
    doc, before \* of each loader: its document, and the variables at the call

local == <<all_nodes, var, doc, before>>
vars == <<s_datas, nextVar, got, pc, local>>

Goto(t, where) == pc' = [pc EXCEPT ![t] = where]
Exists(n) == n \in DOMAIN s_datas
Variable(id, type, v) == [id |-> id, type |-> type, m_val |-> v]

\* find_first_not_of: no upper case letter, and not the digit 9 or any other.
ValidName(n) == \A p \in DOMAIN n : n[p] \notin Upper \cup Illegal

\* GetDatas()[n] = v
Stored(n, v) == [m \in DOMAIN s_datas \cup {n} |-> IF m = n THEN v ELSE s_datas[m]]

-----------------------------------------------------------------------------
\* Mutant of Create: a variable that exists is replaced.
CreateAlways(t, n, type, v) ==
    /\ pc[t] = "idle" /\ ValidName(n)
    /\ s_datas' = Stored(n, Variable(nextVar, type, v))
    /\ got' = got \cup {[name |-> n, id |-> nextVar]}
    /\ nextVar' = nextVar + 1
    /\ UNCHANGED <<pc, local>>

\* LookUp with a default value, of a name that is new.
Create(t, n, type, v) ==
    /\ pc[t] = "idle" /\ ~Exists(n) /\ ValidName(n)
    /\ s_datas' = Stored(n, Variable(nextVar, type, v))
    /\ got' = got \cup {[name |-> n, id |-> nextVar]}
    /\ nextVar' = nextVar + 1
    /\ UNCHANGED <<pc, local>>

\* Either LookUp finds a variable of the type it is called with.
Find(t, n, type) ==
    /\ pc[t] = "idle" /\ Exists(n) /\ s_datas[n].type = type
    /\ got' = got \cup {[name |-> n, id |-> s_datas[n].id]}
    /\ UNCHANGED <<s_datas, nextVar, pc, local>>

\* LookUp throws (an invalid name) or returns null (another type, no such
\* variable).
FindNothing(t, n, type) ==
    /\ pc[t] = "idle"
    /\ IF Exists(n) THEN s_datas[n].type # type ELSE TRUE
    /\ UNCHANGED vars

-----------------------------------------------------------------------------
Is(node, kind) == kind \in DOMAIN node
Member(name, node) == [name |-> name, node |-> node]
Below(e) ==
    IF Is(e.node, "map")
    THEN [p \in DOMAIN e.node.map |->
            Member(Append(e.name, e.node.map[p].key), e.node.map[p].node)]
    ELSE <<>>

\* ListAllMember(prefix, node, output), after each of its calls for a document:
\* rest are the calls still to be made, those for the nodes below one in front.
\* Below an invalid name nothing is listed.
Calls(root) ==
    LET after[n \in 0..MaxCalls] ==
          IF n = 0 THEN [output |-> <<>>, rest |-> <<Member(<<>>, root)>>]
          ELSE LET call == after[n - 1]
                   e == Head(call.rest)
               IN  IF call.rest = <<>> THEN call
                   ELSE IF ~ValidName(e.name) THEN [call EXCEPT !.rest = Tail(@)]
                   ELSE [output |-> Append(call.output, e), rest |-> Below(e) \o Tail(call.rest)]
    IN  after
ListAllMember(root) == Calls(root)[MaxCalls].output

\* The bound is large enough, and the pairs of a map are a sequence.
ASSUME DocumentsAssumption ==
    /\ MaxCalls \in Nat
    /\ \A y \in Documents :
        /\ Calls(y)[MaxCalls].rest = <<>>
        /\ \A n \in 0..MaxCalls : \A e \in ToSet(Calls(y)[n].rest) :
              Is(e.node, "map") => e.node.map \in Seq(ToSet(e.node.map))

\* Mutant of LoadBegin: the children of the root only.
LoadTop(t, y) ==
    /\ pc[t] = "idle"
    /\ all_nodes' = [all_nodes EXCEPT ![t] =
          SelectSeq(ListAllMember(y), LAMBDA e : Len(e.name) = 1)]
    /\ doc' = [doc EXCEPT ![t] = y]
    /\ before' = [before EXCEPT ![t] = s_datas]
    /\ Goto(t, "lookup")
    /\ UNCHANGED <<s_datas, nextVar, got, var>>

\* LoadFromYaml lists the nodes.
LoadBegin(t, y) ==
    /\ pc[t] = "idle"
    /\ all_nodes' = [all_nodes EXCEPT ![t] = ListAllMember(y)]
    /\ doc' = [doc EXCEPT ![t] = y]
    /\ before' = [before EXCEPT ![t] = s_datas]
    /\ Goto(t, "lookup")
    /\ UNCHANGED <<s_datas, nextVar, got, var>>

\* tolower, of a key and of the name of the first node.
Lowered(k) == IF k \in Upper THEN Lower[k] ELSE k
Key(t) ==
    LET n == Head(all_nodes[t]).name IN [p \in DOMAIN n |-> Lowered(n[p])]

\* LookupBase; the root, whose name is empty, and names without a variable
\* are passed over.
LoadLookup(t) ==
    /\ pc[t] = "lookup" /\ all_nodes[t] # <<>>
    /\ IF Key(t) # <<>> /\ Exists(Key(t))
       THEN /\ var' = [var EXCEPT ![t] = Key(t)]
            /\ Goto(t, "set") /\ UNCHANGED all_nodes
       ELSE all_nodes' = [all_nodes EXCEPT ![t] = Tail(@)] /\ UNCHANGED <<pc, var>>
    /\ UNCHANGED <<s_datas, nextVar, got, doc, before>>

\* The text fromString gets: what a scalar contains, or a node written out.
Text(node) == IF Is(node, "scalar") THEN node.scalar ELSE Dump(node)

Assigned(v, node) ==
    LET result == FromStr(v.type, Text(node))
    IN  IF result = {} THEN v ELSE [v EXCEPT !.m_val = CHOOSE r \in result : TRUE]

\* fromString; text that does not convert leaves the value as it is.
LoadSet(t) ==
    /\ pc[t] = "set"
    /\ s_datas' = [s_datas EXCEPT ![var[t]] = Assigned(@, Head(all_nodes[t]).node)]
    /\ all_nodes' = [all_nodes EXCEPT ![t] = Tail(@)]
    /\ Goto(t, "lookup")
    /\ UNCHANGED <<nextVar, got, var, doc, before>>

LoadEnd(t) ==
    /\ pc[t] = "lookup" /\ all_nodes[t] = <<>>
    /\ Goto(t, "idle")
    /\ UNCHANGED <<s_datas, nextVar, got, local>>

-----------------------------------------------------------------------------
Init ==
    /\ s_datas = <<>>
    /\ nextVar = 1 /\ got = {}
    /\ pc = [t \in Threads |-> "idle"]
    /\ all_nodes = [t \in Loaders |-> <<>>]
    /\ var = [t \in Loaders |-> <<>>]
    /\ doc = [t \in Loaders |-> [map |-> <<>>]]
    /\ before = [t \in Loaders |-> s_datas]

RegistrarNext(t) == \E n \in Names, type \in Types :
    (\E v \in Defaults(type) : Create(t, n, type, v)) \/ Find(t, n, type) \/ FindNothing(t, n, type)
LoaderNext(t) ==
    \/ \E y \in Documents : LoadBegin(t, y)
    \/ LoadLookup(t) \/ LoadSet(t) \/ LoadEnd(t)

Next ==
    \/ \E t \in Registrars : RegistrarNext(t)
    \/ \E t \in Loaders : LoaderNext(t)

Spec == Init /\ [][Next]_vars

-----------------------------------------------------------------------------
\* Everyone who has looked a name up holds the one variable of that name,
\* which is the one that documents set.
OneVariable ==
    \A g \in got : Exists(g.name) /\ s_datas[g.name].id = g.id

\* The nodes a document has at a name, following the keys whatever their case.
Under(node, key) ==
    IF ~Is(node, "map") THEN {}
    ELSE {node.map[p].node : p \in {q \in DOMAIN node.map : Lowered(node.map[q].key) = key}}
At(root, n) ==
    LET at[k \in 0..Len(n)] ==
          IF k = 0 THEN {root} ELSE UNION {Under(node, n[k]) : node \in at[k - 1]}
    IN  at[Len(n)]

\* After a document is loaded, a variable that was registered before, under a
\* name that is not empty, has the value the document gives it, if it gives one
\* that converts, and otherwise the value it had.  (For a loader that is alone.)
Loaded ==
    \A t \in Loaders : pc[t] = "idle" =>
        \A n \in DOMAIN before[t] \ {<<>>} :
            LET v == before[t][n]
                given == UNION {FromStr(v.type, Text(y)) : y \in At(doc[t], n)}
            IN  s_datas[n].m_val = IF given = {} THEN v.m_val
                                   ELSE CHOOSE r \in given : TRUE

\* What v is after toString() and fromString().
ReadBack(v) == FromStr(v.type, ToStr(v.type, v.m_val))

\* What toString() writes, fromString() reads back as a value that says the
\* same, however deep containers are nested in each other and whether a default
\* value or a document gave it.  Strings in containers are loaded as YAML on the
\* way: one that is YAML may come back laid out in another way, or without its
\* quotes, but still for the same node, and what has come back stays as it is.
RoundTrip ==
    \A n \in DOMAIN s_datas :
        \E w \in ReadBack(s_datas[n]) :
            /\ Same(s_datas[n].type, s_datas[n].m_val, w)
            /\ ReadBack([s_datas[n] EXCEPT !.m_val = w]) = {w}

\* Every value is read back as it was.  The code does not keep this: config.h
\* line 91 loads the string "[1,2]" of a vector of strings as a sequence, which
\* is written as "[1, 2]".
ReadBackSame == \A n \in DOMAIN s_datas : ReadBack(s_datas[n]) = {s_datas[n].m_val}
=============================================================================
