------------------------------ MODULE LogConfig ------------------------------
(***************************************************************************)
(* The configuration variable "logs" and its listener (log.cc): texts are  *)
(* read into a set of LogDefines, setValue calls the listener with the old *)
(* and the new set, and the listener brings the loggers up to date, call   *)
(* by call.                                                                *)
(*                                                                         *)
(* A set of LogDefines, ordered and distinct by name, is a function from   *)
(* logger names.  The lock of the variable is in the guards: the listener  *)
(* runs under the read lock, the value is stored under the write lock.     *)
(* Each call on a logger is one step; what it does is in Logger.           *)
(*                                                                         *)
(* A YAML node is a record of the fields it has: texts are sequences of    *)
(* nodes, and so is what the program writes, a LogDefine as a text         *)
(* (ConfigVar::toString) and the loggers as they are (toYamlString).       *)
(***************************************************************************)
EXTENDS Naturals, Sequences, SequencesExt

CONSTANTS
    Setters,    \* threads that load configurations
    LogNames,   \* the names of the loggers, in the order of std::string
    Absent,     \* no LogDefine for a name
    Texts,      \* what is loaded: sequences of nodes
    Default,    \* the formatter a new logger has
    Bad         \* formatters whose pattern has an error

Names == ToSet(LogNames)
None == ""  \* no formatter, no file

\* LogLevel; what is not the name of a level is read as UNKNOW.
UNKNOW == 0
DEBUG == 1  \* the level a new logger or appender has
LevelNames == <<"DEBUG", "INFO", "WARN", "ERROR", "FATAL">>
LowerNames == <<"debug", "info", "warn", "error", "fatal">>
LevelToString(level) == IF level \in DOMAIN LevelNames THEN LevelNames[level] ELSE "UNKNOW"
LevelFromString(str) ==
    LET at == {v \in DOMAIN LevelNames : str \in {LevelNames[v], LowerNames[v]}}
    IN  IF at = {} THEN UNKNOW ELSE CHOOSE v \in at : TRUE

ASSUME LogConfigAssumption ==
    /\ Default \in STRING /\ Default \notin Bad \cup {None} /\ None \notin Bad
    /\ LogNames \in Seq(STRING)
    /\ \A p, q \in DOMAIN LogNames : LogNames[p] = LogNames[q] => p = q

VARIABLES
    m_val,      \* of each name: its LogDefine, or Absent
    loggers,    \* of each name: level, formatter and appenders of its logger
    pc, arg,    \* of each setter: where it is, and the value it sets or has set
    todo        \* of each setter: the calls its listener has still to make

vars == <<m_val, loggers, pc, arg, todo>>

-----------------------------------------------------------------------------
File == "FileLogAppender"
Stdout == "StdoutLogAppender"

\* That literals are strings, which is true, and which proofs have to be told.
ASSUME LiteralsAreStrings == {File, Stdout, None} \subseteq STRING

Get(node, field) == IF field \in DOMAIN node THEN node[field] ELSE ""
Mapped(F(_), seq) == [p \in DOMAIN seq |-> F(seq[p])]

\* LexicalCast<std::string, LogDefine>: appenders of an unknown type, or
\* without a file, are left out, and the level of an appender is not read.
Taken(a) == Get(a, "type") = Stdout \/ (Get(a, "type") = File /\ "file" \in DOMAIN a)
AppenderDefine(a) ==
    [type |-> a.type, file |-> IF a.type = File THEN a.file ELSE None,
     level |-> UNKNOW, formatter |-> Get(a, "formatter")]
Defined(node) ==
    LET as == IF "appenders" \in DOMAIN node THEN node.appenders ELSE <<>>
        push(a) == IF Taken(a) THEN <<AppenderDefine(a)>> ELSE <<>>
    IN  [level |-> LevelFromString(Get(node, "level")), formatter |-> Get(node, "formatter"),
         appenders |-> FlattenSeq(Mapped(push, as))]

\* std::set keeps the first entry of a name; one without a name throws.
Parsed(text) ==
    [x \in Names |->
       LET at == {p \in DOMAIN text : text[p].name = x}
       IN  IF at = {} THEN Absent ELSE Defined(text[CHOOSE p \in at : \A q \in at : p <= q])]
Throws(text) == \E p \in DOMAIN text : "name" \notin DOMAIN text[p]

AppenderDefines == [type : STRING, file : STRING, level : Nat, formatter : STRING]
LogDefines == [level : Nat, formatter : STRING, appenders : Seq(AppenderDefines)]

\* Nodes have texts in their fields, and appenders are a sequence of nodes.
TextIn(node, fields) == \A f \in fields \cap DOMAIN node : node[f] \in STRING
WellFormed(text) ==
    /\ text \in Seq(ToSet(text))
    /\ \A node \in ToSet(text) :
        /\ TextIn(node, {"level", "formatter"})
        /\ "appenders" \in DOMAIN node =>
            /\ node.appenders \in Seq(ToSet(node.appenders))
            /\ \A a \in ToSet(node.appenders) : TextIn(a, {"type", "file", "formatter"})

ASSUME TextsAssumption == Absent \notin LogDefines /\ \A text \in Texts : WellFormed(text)

\* The fields that are written of a definition: those of Always, and those set.
Fields(d, Always) ==
    Always \cup {f \in {"level"} : d.level # UNKNOW} \cup {f \in {"formatter"} : d.formatter # None}

\* Mutant of AppenderNode: a formatter is written whether or not there is one.
AppenderNodeAlways(a) ==
    [f \in {"formatter"} \cup Fields(a, {"type"} \cup {g \in {"file"} : a.type = File}) |->
        CASE f = "level" -> LevelToString(a.level)
          [] f = "formatter" -> IF a.formatter = None THEN Default ELSE a.formatter
          [] OTHER -> a[f]]

\* LexicalCast<LogDefine, std::string>
AppenderNode(a) ==
    [f \in Fields(a, {"type"} \cup {g \in {"file"} : a.type = File}) |->
        IF f = "level" THEN LevelToString(a.level) ELSE a[f]]
Node(x, d) ==
    [f \in Fields(d, {"name"} \cup {g \in {"appenders"} : d.appenders # <<>>}) |->
        CASE f = "name" -> x
          [] f = "level" -> LevelToString(d.level)
          [] f = "formatter" -> d.formatter
          [] f = "appenders" -> Mapped(AppenderNode, d.appenders)]

\* Logger::toYamlString: what a logger or an appender would be defined by.  A
\* formatter an appender inherits is not written.
Written(lg) ==
    LET own(a) == [type |-> a.type, file |-> a.file, level |-> a.level,
                   formatter |-> IF a.own THEN a.formatter ELSE None]
    IN  [lg EXCEPT !.appenders = Mapped(own, @)]

\* LogDefine::operator==, where "appenders == appenders" is always true.
Equal(d, e) ==
    IF d = Absent \/ e = Absent THEN d = e
    ELSE d.level = e.level /\ d.formatter = e.formatter

\* The calls of the listener for a name that is new or changed (Update), and
\* for one that is gone (Retire).
Do(what, x, v) == [do |-> what, name |-> x, v |-> v]
Calls(x, d, clear) ==
    <<Do("setLevel", x, d.level)>>
      \o (IF d.formatter = None THEN <<>> ELSE <<Do("setFormatter", x, d.formatter)>>)
      \o clear
      \o [p \in DOMAIN d.appenders |-> Do("addAppender", x, d.appenders[p])]

\* Mutant of Update: the old appenders stay.
UpdateAdds(x, d) == Calls(x, d, <<>>)
Update(x, d) == Calls(x, d, <<Do("clearAppenders", x, 0)>>)
Retire(x) == <<Do("setLevel", x, UNKNOW), Do("clearAppenders", x, 0)>>

PerName(For(_)) ==
    FlattenSeq([p \in DOMAIN LogNames |-> For(LogNames[p])])

\* Mutant of Listener: loggers that are gone are forgotten.
ListenerKeeps(old, new) ==
    LET set(x) == IF new[x] = Absent \/ Equal(old[x], new[x]) THEN <<>> ELSE Update(x, new[x])
    IN  PerName(set)

\* Mutant of Listener: every logger is set up again.
ListenerAll(old, new) ==
    LET set(x) == IF new[x] = Absent THEN <<>> ELSE Update(x, new[x])
        gone(x) == IF old[x] # Absent /\ new[x] = Absent THEN Retire(x) ELSE <<>>
    IN  PerName(set) \o PerName(gone)

Listener(old, new) ==
    LET set(x) == IF new[x] = Absent \/ Equal(old[x], new[x]) THEN <<>> ELSE Update(x, new[x])
        gone(x) == IF old[x] # Absent /\ new[x] = Absent THEN Retire(x) ELSE <<>>
    IN  PerName(set) \o PerName(gone)

\* A formatter that is taken: given, and without an error in its pattern.
Valid(f) == f # None /\ f \notin Bad

\* What a call does to a logger; an appender without a valid formatter
\* inherits the logger's.
Apply(lg, c) ==
    CASE c.do = "setLevel" -> [lg EXCEPT !.level = c.v]
      [] c.do = "setFormatter" ->
           IF Valid(c.v)
           THEN [lg EXCEPT !.formatter = c.v,
                   !.appenders = [p \in DOMAIN @ |->
                       IF @[p].own THEN @[p] ELSE [@[p] EXCEPT !.formatter = c.v]]]
           ELSE lg
      [] c.do = "clearAppenders" -> [lg EXCEPT !.appenders = <<>>]
      [] c.do = "addAppender" ->
           [lg EXCEPT !.appenders = Append(@,
              [type |-> c.v.type, file |-> c.v.file, level |-> c.v.level,
               own |-> Valid(c.v.formatter),
               formatter |-> IF Valid(c.v.formatter) THEN c.v.formatter ELSE lg.formatter])]

-----------------------------------------------------------------------------
\* The loggers before anything is loaded: the root logger writes to stdout.
Console == [type |-> Stdout, file |-> None, level |-> DEBUG, own |-> FALSE, formatter |-> Default]
Fresh ==
    [x \in Names |-> [level |-> DEBUG, formatter |-> Default,
                      appenders |-> IF x = "root" THEN <<Console>> ELSE <<>>]]

Init ==
    /\ m_val = [x \in Names |-> Absent]
    /\ loggers = Fresh
    /\ pc = [t \in Setters |-> "idle"]
    /\ arg = [t \in Setters |-> m_val]
    /\ todo = [t \in Setters |-> <<>>]

\* fromString and the first half of setValue, for a value that is new.
Load(t, text) ==
    /\ pc[t] = "idle" /\ ~Throws(text)
    /\ \E x \in Names : ~Equal(m_val[x], Parsed(text)[x])
    /\ arg' = [arg EXCEPT ![t] = Parsed(text)]
    /\ todo' = [todo EXCEPT ![t] = Listener(m_val, Parsed(text))]
    /\ pc' = [pc EXCEPT ![t] = "notify"]
    /\ UNCHANGED <<m_val, loggers>>

\* A text that does not parse, or whose value compares equal.
LoadNothing(t, text) ==
    /\ pc[t] = "idle"
    /\ \/ Throws(text) /\ arg' = arg
       \/ /\ ~Throws(text) /\ \A x \in Names : Equal(m_val[x], Parsed(text)[x])
          /\ arg' = [arg EXCEPT ![t] = Parsed(text)]
    /\ UNCHANGED <<m_val, loggers, pc, todo>>

\* The listener makes its next call.
Call(t) ==
    /\ pc[t] = "notify" /\ todo[t] # <<>>
    /\ loggers' = [loggers EXCEPT ![Head(todo[t]).name] = Apply(@, Head(todo[t]))]
    /\ todo' = [todo EXCEPT ![t] = Tail(@)]
    /\ UNCHANGED <<m_val, pc, arg>>

\* The listener returns and the read lock is released.
Return(t) ==
    /\ pc[t] = "notify" /\ todo[t] = <<>>
    /\ pc' = [pc EXCEPT ![t] = "write"]
    /\ UNCHANGED <<m_val, loggers, arg, todo>>

\* setValue stores the value, when no thread is in a listener.
Store(t) ==
    /\ pc[t] = "write" /\ \A u \in Setters : pc[u] # "notify"
    /\ m_val' = arg[t]
    /\ pc' = [pc EXCEPT ![t] = "idle"]
    /\ UNCHANGED <<loggers, arg, todo>>

Next == \E t \in Setters :
    \/ \E text \in Texts : Load(t, text) \/ LoadNothing(t, text)
    \/ Call(t) \/ Return(t) \/ Store(t)

Spec == Init /\ [][Next]_vars

-----------------------------------------------------------------------------
\* A logger is as its LogDefine says: its level; its formatter, if the define
\* has a valid one; its appenders, each with its own formatter or the
\* logger's.  A logger without a LogDefine has no appenders.  No logger and no
\* appender writes with a pattern that has an error.
Matches(lg, d) ==
    IF d = Absent THEN lg.appenders = <<>>
    ELSE /\ lg.level = d.level
         /\ lg.formatter \notin Bad
         /\ Valid(d.formatter) => lg.formatter = d.formatter
         /\ Len(lg.appenders) = Len(d.appenders)
         /\ \A p \in DOMAIN d.appenders :
              LET a == lg.appenders[p]
                  def == d.appenders[p]
              IN  /\ a.type = def.type /\ a.file = def.file /\ a.level = def.level
                  /\ a.formatter = IF Valid(def.formatter) THEN def.formatter ELSE lg.formatter

\* Between calls of setValue every logger is as the configuration that was
\* loaded last says.
LoggersMatch ==
    (\A t \in Setters : pc[t] = "idle")
      => \A x \in Names : Matches(loggers[x], m_val[x])

\* When a setter that is alone has loaded a text, the loggers are as the text
\* says.
AsLoaded ==
    \A t \in Setters :
        pc[t] = "idle" => \A x \in Names : Matches(loggers[x], arg[t][x])

\* The loggers of a new program after its listener of "logs" got a text.
Reload(text) ==
    LET calls == Listener([x \in Names |-> Absent], Parsed(text))
        after[n \in 0..Len(calls)] ==
            IF n = 0 THEN Fresh
            ELSE [after[n - 1] EXCEPT ![calls[n].name] = Apply(@, calls[n])]
    IN  after[Len(calls)]

\* What the program writes, it reads: the text of the variable "logs" is the
\* text of its value, and a new program that loads the loggers as
\* LoggerManager::toYamlString writes them gets the same ones.
Reloads ==
    LET value(x) == IF m_val[x] = Absent THEN <<>> ELSE <<Node(x, m_val[x])>>
        logger(x) == <<Node(x, Written(loggers[x]))>>
    IN  Parsed(PerName(value)) = m_val /\ Reload(PerName(logger)) = loggers

\* A logger whose LogDefine stays as it was keeps its appenders and its
\* settings while others change.
OthersUntouched ==
    [][\A x \in Names : loggers'[x] # loggers[x]
         => \E t \in Setters : pc[t] = "notify" /\ ~Equal(m_val[x], arg[t][x])]_vars
=============================================================================
