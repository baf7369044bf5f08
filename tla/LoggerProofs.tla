----------------------------- MODULE LoggerProofs -----------------------------
(***************************************************************************)
(* Proofs about Logger: type correctness with the discipline of the        *)
(* loggers' locks; that log never meets an appender without a formatter;   *)
(* that no event is written twice; that formatters are inherited, and an   *)
(* appender's own is kept; that the lines of an event have one format; and *)
(* what a file that is opened again may lose.  They hold for any threads,  *)
(* loggers and appenders; what a result asks of the program, that          *)
(* appenders are not shared or are not detached for example, is a named    *)
(* hypothesis of its theorem.                                              *)
(***************************************************************************)
EXTENDS Logger, TLAPS

\* LogAppender::setFormatter is given a formatter.
NoNull == NoFormatter \notin OwnFormats

-----------------------------------------------------------------------------
\* What the steps of a call rely on: the argument is what the call was given,
\* and a file appender is reached only while the loop has one to go to.
ArgOK ==
    \A t \in Threads :
        /\ pc[t] \in {"add", "push"} => arg[t] \in Appenders
        /\ pc[t] \in {"event", "root", "log", "reopen", "stamp", "write"} =>
             arg[t] \in [ev : Events, time : Times]
        /\ pc[t] \in {"reopen", "stamp", "write"} =>
             todo[t] # <<>> /\ Head(todo[t]) \in FileAppenders

\* The inductive invariant for the types.
TypeInv == Types /\ ArgOK

-----------------------------------------------------------------------------
\* In the initial state the root logger has its console and nobody logs.
LEMMA InitTypeInv == Init => TypeInv
<1> SUFFICES ASSUME Init PROVE TypeInv OBVIOUS
<1> USE LoggerAssumption DEF Init, TypeInv, Types, ArgOK, Loggers, Threads, Times
<1>1. m_appenders \in [Loggers -> Seq(Appenders)] OBVIOUS
<1>2. out \in [Appenders -> Seq(Line)] OBVIOUS
<1> QED BY <1>1, <1>2

\* Whoever takes a free lock is not inside the logger yet, and nobody is.
LEMMA FreeMeansAlone ==
  ASSUME Types, NEW l \in Loggers, Free(l), NEW u \in Threads,
         pc[u] \notin {"idle", "event"}
  PROVE  lg[u] # l
  BY LoggerAssumption DEF Types, Free

\* What UnlockAll and Lock leave of the type of m_mutex.
LEMMA LockTypes ==
  ASSUME Types, NEW t \in Threads
  PROVE  /\ UnlockAll(t) =>
              /\ m_mutex' \in [Loggers -> Threads \cup {NoThread}]
              /\ \A u \in Threads : u # t /\ pc[u] \notin {"idle", "event"} => m_mutex'[lg[u]] = u
         /\ \A l \in Loggers : Free(l) /\ Lock(t, l) =>
              /\ m_mutex' \in [Loggers -> Threads \cup {NoThread}]
              /\ m_mutex'[l] = t
              /\ \A u \in Threads : pc[u] \notin {"idle", "event"} => m_mutex'[lg[u]] = u
<1>1. ASSUME UnlockAll(t)
      PROVE  /\ m_mutex' \in [Loggers -> Threads \cup {NoThread}]
             /\ \A u \in Threads : u # t /\ pc[u] \notin {"idle", "event"} => m_mutex'[lg[u]] = u
  BY <1>1 DEF UnlockAll, Types
<1>2. ASSUME NEW l \in Loggers, Free(l), Lock(t, l)
      PROVE  /\ m_mutex' \in [Loggers -> Threads \cup {NoThread}]
             /\ m_mutex'[l] = t
             /\ \A u \in Threads : pc[u] \notin {"idle", "event"} => m_mutex'[lg[u]] = u
  BY <1>2, FreeMeansAlone DEF Lock, Types
<1> QED BY <1>1, <1>2

\* RemoveAt leaves a sequence of the elements there were.
LEMMA RemoveAtType ==
  ASSUME NEW S, NEW s \in Seq(S), NEW p \in 1..Len(s)
  PROVE  /\ RemoveAt(s, p) \in Seq(S)
         /\ Len(RemoveAt(s, p)) = Len(s) - 1
         /\ \A j \in 1..Len(s) - 1 : RemoveAt(s, p)[j] = s[IF j < p THEN j ELSE j + 1]
         /\ \A j \in DOMAIN RemoveAt(s, p) : \E k \in DOMAIN s : RemoveAt(s, p)[j] = s[k]
<1>1. /\ SubSeq(s, 1, p - 1) \in Seq(S) /\ Len(SubSeq(s, 1, p - 1)) = p - 1
      /\ \A j \in 1..p - 1 : SubSeq(s, 1, p - 1)[j] = s[j]
  OBVIOUS
<1>2. /\ SubSeq(s, p + 1, Len(s)) \in Seq(S) /\ Len(SubSeq(s, p + 1, Len(s))) = Len(s) - p
      /\ \A j \in 1..Len(s) - p : SubSeq(s, p + 1, Len(s))[j] = s[p + j]
  OBVIOUS
<1> DEFINE a == SubSeq(s, 1, p - 1)
           b == SubSeq(s, p + 1, Len(s))
<1>3. RemoveAt(s, p) = a \o b BY DEF RemoveAt
<1>a. a \in Seq(S) /\ Len(a) = p - 1 /\ b \in Seq(S) /\ Len(b) = Len(s) - p
  BY <1>1, <1>2
<1>b. /\ \A j \in 1..p - 1 : a[j] = s[j]
      /\ \A j \in 1..Len(s) - p : b[j] = s[p + j]
  BY <1>1, <1>2
<1> HIDE DEF a, b
<1>4. a \o b \in Seq(S) BY <1>a
<1>c. Len(s) \in Nat OBVIOUS
<1>6. Len(a \o b) = Len(s) - 1 /\ a \o b \in Seq(S) BY <1>a, <1>c
<1>5. ASSUME NEW j \in 1..Len(s) - 1 PROVE (a \o b)[j] = s[IF j < p THEN j ELSE j + 1]
  <2>1. CASE j <= p - 1
    <3>1. (a \o b)[j] = a[j] BY <1>a, <1>c, <2>1
    <3> QED BY <3>1, <1>b, <2>1
  <2>2. CASE j > p - 1
    <3>1. (a \o b)[j] = b[j - (p - 1)] BY <1>a, <1>c, <2>2
    <3>2. j - (p - 1) \in 1..Len(s) - p BY <1>c, <2>2
    <3>3. b[j - (p - 1)] = s[j + 1] BY <1>b, <3>2
    <3> QED BY <3>1, <3>3, <2>2
  <2>3. j <= p - 1 \/ j > p - 1 BY <1>c
  <2> QED BY <2>1, <2>2, <2>3
<1>7. ASSUME NEW j \in DOMAIN (a \o b) PROVE \E k \in DOMAIN s : (a \o b)[j] = s[k]
  <2>1. j \in 1..Len(s) - 1 BY <1>6
  <2>2. (IF j < p THEN j ELSE j + 1) \in DOMAIN s BY <1>c, <2>1
  <2> QED BY <1>5, <2>1, <2>2
<1> QED BY <1>3, <1>4, <1>5, <1>6, <1>7

\* Calls that change loggers and appenders keep the types.
LEMMA AdminTypeInv == ASSUME TypeInv, NEW t \in Admins, AdminNext(t) PROVE TypeInv'
<1> USE DEF TypeInv
<1>0. t \in Threads BY DEF Threads
<1> USE LoggerAssumption, <1>0, LockTypes
<1>1. ASSUME NEW l \in Named, GetLogger(t, l) PROVE TypeInv'
  BY <1>1 DEF GetLogger, Types, ArgOK, formats, files, local, Loggers
<1>2. ASSUME NEW a \in Appenders, NEW f \in OwnFormats, AppenderSetFormatter(t, a, f) PROVE TypeInv'
  BY <1>2 DEF AppenderSetFormatter, Types, ArgOK, admin, files, local
<1>3. ASSUME NEW l \in Loggers, NEW f \in Formatters, SetFormatter(t, l, f) PROVE TypeInv'
  <2>1. m_appenders[l] \in Seq(Appenders) BY DEF Types
  <2>2. Types' BY <1>3, <2>1 DEF SetFormatter, Goto, Types, admin, files
  <2>3. ArgOK' BY <1>3 DEF SetFormatter, Goto, Types, ArgOK, files
  <2> QED BY <2>2, <2>3
<1>4. CASE Inherit(t)
  <2>1. Head(todo[t]) \in Appenders /\ Tail(todo[t]) \in Seq(Appenders) /\ lg[t] \in Loggers
    BY <1>4 DEF Inherit, Types
  <2> QED BY <1>4, <2>1 DEF Inherit, Types, ArgOK, admin, files
<1>5. CASE FormatEnd(t)
  <2>1. Types' BY <1>5 DEF FormatEnd, Goto, Types, admin, formats, files
  <2>2. ArgOK' BY <1>5 DEF FormatEnd, Goto, Types, ArgOK
  <2> QED BY <2>1, <2>2
<1>6. ASSUME NEW l \in Loggers, NEW a \in Appenders, AddTest(t, l, a) PROVE TypeInv'
  <2>1. Types' BY <1>6 DEF AddTest, Goto, Types, admin, formats, files
  <2>2. ArgOK' BY <1>6 DEF AddTest, Goto, Types, ArgOK
  <2> QED BY <2>1, <2>2
<1>7. CASE AddFormat(t)
  <2>1. arg[t] \in Appenders /\ lg[t] \in Loggers BY <1>7 DEF AddFormat, Types, ArgOK
  <2>2. Types' BY <1>7, <2>1 DEF AddFormat, Goto, Types, admin, files
  <2>3. ArgOK' BY <1>7 DEF AddFormat, Goto, Types, ArgOK
  <2> QED BY <2>2, <2>3
<1>8. CASE AddPush(t)
  <2>1. /\ arg[t] \in Appenders /\ lg[t] \in Loggers
        /\ Append(m_appenders[lg[t]], arg[t]) \in Seq(Appenders)
    BY <1>8 DEF AddPush, Types, ArgOK
  <2>2. Types' BY <1>8, <2>1 DEF AddPush, Goto, Types, formats, files
  <2>3. ArgOK' BY <1>8 DEF AddPush, Goto, Types, ArgOK
  <2> QED BY <2>2, <2>3
<1>9. ASSUME NEW l \in Loggers, NEW a \in Detachable, delAppender(t, l, a) PROVE TypeInv'
  <2>1. PICK p \in DOMAIN m_appenders[l] :
          m_appenders' = [m_appenders EXCEPT ![l] = RemoveAt(@, p)]
    BY <1>9 DEF delAppender
  <2>2. RemoveAt(m_appenders[l], p) \in Seq(Appenders)
    <3>1. m_appenders[l] \in Seq(Appenders) BY DEF Types
    <3>2. p \in 1..Len(m_appenders[l]) BY <3>1
    <3> QED BY <3>1, <3>2, RemoveAtType
  <2> QED BY <1>9, <2>1, <2>2 DEF delAppender, Types, ArgOK, formats, files, local
<1>10. ASSUME NEW l \in Loggers, clearAppenders(t, l) PROVE TypeInv'
  BY <1>10 DEF clearAppenders, Types, ArgOK, formats, files, local
<1> QED BY <1>1, <1>2, <1>3, <1>4, <1>5, <1>6, <1>7, <1>8, <1>9, <1>10 DEF AdminNext

\* Calls of log keep the types.
LEMMA WriterTypeInv == ASSUME TypeInv, NEW t \in Writers, WriterNext(t) PROVE TypeInv'
<1> USE DEF TypeInv
<1>0. t \in Threads /\ Root \in Loggers BY DEF Threads, Loggers
<1> USE LoggerAssumption, <1>0, LockTypes
<1>1. ASSUME NEW l \in Loggers, NEW e \in Events, NewEvent(t, l, e) PROVE TypeInv'
  <2>1. [ev |-> e, time |-> clock] \in [ev : Events, time : Times] BY DEF Types
  <2>2. Types' BY <1>1, <2>1 DEF NewEvent, Goto, Types, admin, formats, files
  <2>3. ArgOK' BY <1>1, <2>1 DEF NewEvent, Goto, Types, ArgOK
  <2> QED BY <2>2, <2>3
<1>10. CASE LogBegin(t)
  <2>1. lg[t] \in Loggers /\ m_appenders[lg[t]] \in Seq(Appenders) BY DEF Types
  <2>2. Types' BY <1>10, <2>1 DEF LogBegin, Goto, Types, admin, formats, files
  <2>3. ArgOK' BY <1>10 DEF LogBegin, Goto, Types, ArgOK
  <2> QED BY <2>2, <2>3
<1>11. CASE LogDrop(t)
  <2>1. Types' BY <1>11 DEF LogDrop, Goto, Types, admin, formats, files
  <2>2. ArgOK' BY <1>11 DEF LogDrop, Goto, Types, ArgOK
  <2> QED BY <2>1, <2>2
<1>2. CASE LogRoot(t)
  <2>1. m_appenders[Root] \in Seq(Appenders) BY DEF Types
  <2>2. Types' BY <1>2, <2>1 DEF LogRoot, Goto, Types, admin, formats, files
  <2>3. ArgOK' BY <1>2 DEF LogRoot, Goto, Types, ArgOK
  <2> QED BY <2>2, <2>3
<1>3. ASSUME todo[t] # <<>>
      PROVE  Head(todo[t]) \in Appenders /\ Tail(todo[t]) \in Seq(Appenders)
  BY <1>3 DEF Types
<1>4. CASE LogSkip(t)
  <2>1. Types' BY <1>3, <1>4 DEF LogSkip, Next1, Goto, Types, admin, formats, files
  <2>2. ArgOK' BY <1>4 DEF LogSkip, Next1, Goto, Types, ArgOK
  <2> QED BY <2>1, <2>2
<1>5. CASE FileTest(t)
  <2>1. Types' BY <1>5 DEF FileTest, Reached, Goto, Types, admin, formats, files
  <2>2. ArgOK' BY <1>5 DEF FileTest, Reached, Goto, Types, ArgOK
  <2> QED BY <2>1, <2>2
<1>6. CASE FileReopen(t)
  <2>0. /\ \E a \in Appenders : out' = [out EXCEPT ![a] = <<>>]
        /\ UNCHANGED <<m_loggers, m_appenders, m_formatter, m_hasFormatter, m_mutex, m_lastTime,
                       clock, lg, todo, arg, unlogged>>
    BY <1>3, <1>6 DEF FileReopen, Reached, ArgOK, admin, formats
  <2>a. out' \in [Appenders -> Seq(Line)] BY <2>0 DEF Types
  <2>b. pc[t] = "reopen" /\ pc' = [pc EXCEPT ![t] = "stamp"] BY <1>6 DEF FileReopen, Goto
  <2>1. Types' BY <2>0, <2>a, <2>b DEF Types
  <2>2. ArgOK' BY <1>6 DEF FileReopen, Reached, Goto, Types, ArgOK
  <2> QED BY <2>1, <2>2
<1>9. CASE FileStamp(t)
  <2>1. todo[t] # <<>> /\ Reached(t) \in FileAppenders /\ arg[t].time \in Times
    BY <1>9 DEF FileStamp, Reached, ArgOK
  <2>2. Types' BY <1>9, <2>1 DEF FileStamp, Goto, Types, admin, formats
  <2>3. ArgOK' BY <1>9 DEF FileStamp, Goto, Types, ArgOK
  <2> QED BY <2>2, <2>3
<1>7. CASE Write(t)
  <2>1. /\ todo[t] # <<>> /\ pc[t] \in {"write", "log"}
        /\ arg[t] \in [ev : Events, time : Times]
    BY <1>7 DEF Write, ArgOK
  <2> DEFINE a == Head(todo[t])
             line == [ev |-> arg[t].ev, time |-> arg[t].time,
                      fmt |-> m_formatter[a], own |-> m_hasFormatter[a]]
  <2>2. a \in Appenders /\ Tail(todo[t]) \in Seq(Appenders) BY <1>3, <2>1
  <2>3. line \in Line
    BY <1>7, <2>1, <2>2 DEF Write, Reached, Types, Line
  <2>4. Append(out[a], line) \in Seq(Line) BY <2>2, <2>3 DEF Types
  <2>5. out' = [out EXCEPT ![a] = Append(@, line)] BY <1>7 DEF Write, Reached
  <2>6. out' \in [Appenders -> Seq(Line)] BY <2>2, <2>4, <2>5 DEF Types
  <2> HIDE DEF a, line
  <2>7. Types' BY <1>7, <2>1, <2>2, <2>6 DEF Write, Next1, Goto, Types, admin, formats, Line
  <2>8. ArgOK' BY <1>7 DEF Write, Next1, Goto, Types, ArgOK
  <2> QED BY <2>7, <2>8
<1>8. CASE LogEnd(t)
  <2>1. Types' BY <1>8 DEF LogEnd, Goto, Types, admin, formats, files
  <2>2. ArgOK' BY <1>8 DEF LogEnd, Goto, Types, ArgOK
  <2> QED BY <2>1, <2>2
<1> QED BY <1>1, <1>2, <1>4, <1>5, <1>6, <1>7, <1>8, <1>9, <1>10, <1>11 DEF WriterNext

\* Every step keeps the types.
LEMMA TypeInvStep == TypeInv /\ [Next]_vars => TypeInv'
<1> SUFFICES ASSUME TypeInv, [Next]_vars PROVE TypeInv' OBVIOUS
<1>1. CASE UNCHANGED vars
  BY <1>1 DEF vars, admin, formats, files, local, TypeInv, Types, ArgOK
<1>2. CASE Tick
  BY <1>2, LoggerAssumption
  DEF Tick, Times, admin, formats, files, local, TypeInv, Types, ArgOK
<1> QED BY <1>1, <1>2, AdminTypeInv, WriterTypeInv DEF Next

\* Who takes a lock is inside a call afterwards, and who returns has none left.
LEMMA LocksStep == TypeInv /\ LocksOfCalls /\ [Next]_vars => LocksOfCalls'
<1> SUFFICES ASSUME TypeInv, LocksOfCalls, [Next]_vars PROVE LocksOfCalls' OBVIOUS
<1>0. /\ m_mutex \in [Loggers -> Threads \cup {NoThread}] /\ lg \in [Threads -> Loggers]
      /\ DOMAIN pc = Threads /\ NoThread \notin Threads /\ Root \in Loggers
      /\ Admins \subseteq Threads /\ Writers \subseteq Threads
  BY LoggerAssumption DEF TypeInv, Types, Threads, Loggers
<1> DEFINE Inside(t) == pc'[t] \notin {"idle", "event"}
           Same(t) == pc' = [pc EXCEPT ![t] = pc'[t]] /\ lg' = [lg EXCEPT ![t] = lg'[t]]
\* Thread t takes a free lock, and others stay where they are.
<1>1. ASSUME NEW t \in Threads, NEW l \in Loggers, Free(l), Lock(t, l), Same(t),
             Inside(t), lg'[t] = l, l = Root \/ \A k \in Loggers : m_mutex[k] = t => k = l
      PROVE  LocksOfCalls'
  BY <1>0, <1>1 DEF Lock, LocksOfCalls
\* Thread t gives up its locks.
<1>2. ASSUME NEW t \in Threads, UnlockAll(t), Same(t) PROVE LocksOfCalls'
  BY <1>0, <1>2 DEF UnlockAll, LocksOfCalls
\* Thread t keeps its locks, and stays inside if it has any.
<1>3. ASSUME NEW t \in Threads, m_mutex' = m_mutex, Same(t), lg' = lg,
             pc[t] \notin {"idle", "event"} => Inside(t)
      PROVE  LocksOfCalls'
  BY <1>0, <1>3 DEF LocksOfCalls
<1>4. ASSUME NEW t \in Threads, pc[t] \in {"idle", "event"}, NEW l \in Loggers, m_mutex[l] = t
      PROVE  FALSE
  BY <1>0, <1>4 DEF LocksOfCalls
<1>5. ASSUME NEW t \in Admins, AdminNext(t) PROVE LocksOfCalls'
  <2>1. ASSUME NEW l \in Loggers, NEW f \in Formatters, SetFormatter(t, l, f)
        PROVE  LocksOfCalls'
    BY <1>0, <1>1, <1>4, <2>1 DEF SetFormatter, Goto
  <2>2. ASSUME NEW l \in Loggers, NEW a \in Appenders, AddTest(t, l, a) PROVE LocksOfCalls'
    BY <1>0, <1>1, <1>4, <2>2 DEF AddTest, Goto
  <2>3. CASE FormatEnd(t) \/ AddPush(t) BY <1>0, <1>2, <2>3 DEF FormatEnd, AddPush, Goto
  <2>4. CASE AddFormat(t) BY <1>0, <1>3, <2>4 DEF AddFormat, Goto
  <2>5. CASE m_mutex' = m_mutex /\ pc' = pc /\ lg' = lg BY <2>5 DEF LocksOfCalls
  <2> QED
    BY <1>5, <2>1, <2>2, <2>3, <2>4, <2>5
    DEF AdminNext, GetLogger, AppenderSetFormatter, Inherit, delAppender, clearAppenders,
        local
<1>6. ASSUME NEW t \in Writers, WriterNext(t) PROVE LocksOfCalls'
  <2>1. ASSUME NEW l \in Loggers, NEW e \in Events, NewEvent(t, l, e) PROVE LocksOfCalls'
    BY <1>0, <1>4, <2>1 DEF NewEvent, Goto, LocksOfCalls
  <2>2. CASE LogBegin(t) BY <1>0, <1>1, <1>4, <2>2 DEF LogBegin, Goto
  <2>3. CASE LogRoot(t) BY <1>0, <1>1, <2>3 DEF LogRoot, Goto
  <2>4. CASE LogDrop(t) \/ LogEnd(t) BY <1>0, <1>2, <2>4 DEF LogDrop, LogEnd, Goto
  <2>5. CASE LogSkip(t) \/ FileTest(t) \/ FileReopen(t) \/ FileStamp(t) \/ Write(t)
    BY <1>0, <1>3, <2>5
    DEF LogSkip, FileTest, FileReopen, FileStamp, Write, Next1, Goto
  <2> QED BY <1>6, <2>1, <2>2, <2>3, <2>4, <2>5 DEF WriterNext
<1>7. CASE Tick \/ UNCHANGED vars BY <1>7 DEF Tick, local, vars, LocksOfCalls
<1> QED BY <1>5, <1>6, <1>7 DEF Next

\* The variables have their types, and a thread holds the lock of a logger
\* exactly while it is inside one of its calls: log, setFormatter and
\* addAppender do not overlap in one logger, and none leaves it locked.
THEOREM TypeCorrect == Spec => []LoggerTypeOK
<1>1. Init => LocksOfCalls BY DEF Init, LocksOfCalls
<1>2. TypeInv /\ LocksOfCalls => LoggerTypeOK BY DEF TypeInv, LoggerTypeOK
<1> QED BY <1>1, <1>2, TypeInvStep, LocksStep, InitTypeInv, PTL DEF Spec

-----------------------------------------------------------------------------
\* Loggers have a formatter, so has what is attached to them, and so has what
\* addAppender is about to attach.
FormatInv ==
    /\ \A l \in Loggers : m_formatter[l] # NoFormatter
    /\ \A l \in Loggers : \A i \in DOMAIN m_appenders[l] :
          m_formatter[m_appenders[l][i]] # NoFormatter
    /\ \A t \in Threads : pc[t] = "push" => m_formatter[arg[t]] # NoFormatter

\* No step takes a formatter away.
LEMMA FormattersStay ==
  ASSUME NoNull, TypeInv, FormatInv, [Next]_vars,
         NEW x \in Loggers \cup Appenders, m_formatter[x] # NoFormatter
  PROVE  m_formatter'[x] # NoFormatter
<1> USE LoggerAssumption DEF TypeInv, Types
<1>1. CASE m_formatter' = m_formatter BY <1>1
<1>2. ASSUME NEW t \in Admins, NEW a \in Appenders, NEW f \in OwnFormats,
             AppenderSetFormatter(t, a, f)
      PROVE  m_formatter'[x] # NoFormatter
  BY <1>2 DEF AppenderSetFormatter, NoNull
<1>3. ASSUME NEW t \in Admins, NEW l \in Loggers, NEW f \in Formatters, SetFormatter(t, l, f)
      PROVE  m_formatter'[x] # NoFormatter
  BY <1>3 DEF SetFormatter
<1>4. ASSUME NEW t \in Admins, Inherit(t) PROVE m_formatter'[x] # NoFormatter
  <2>1. lg[t] \in Loggers BY DEF Threads
  <2>2. m_formatter[lg[t]] # NoFormatter BY <2>1 DEF FormatInv
  <2> QED BY <1>4, <2>2 DEF Inherit
<1>5. ASSUME NEW t \in Admins, AddFormat(t) PROVE m_formatter'[x] # NoFormatter
  <2>1. lg[t] \in Loggers BY DEF Threads
  <2>2. m_formatter[lg[t]] # NoFormatter BY <2>1 DEF FormatInv
  <2> QED BY <1>5, <2>2 DEF AddFormat
<1>6. ASSUME NEW t \in Admins, AdminNext(t) PROVE m_formatter'[x] # NoFormatter
  BY <1>1, <1>2, <1>3, <1>4, <1>5, <1>6
  DEF AdminNext, GetLogger, FormatEnd, AddTest, AddPush, delAppender, clearAppenders, formats
<1>7. ASSUME NEW t \in Writers, WriterNext(t) PROVE m_formatter'[x] # NoFormatter
  BY <1>1, <1>7
  DEF WriterNext, NewEvent, LogBegin, LogDrop, LogRoot, LogSkip, FileTest, FileReopen,
      FileStamp, Write, LogEnd, formats
<1>8. CASE Tick BY <1>1, <1>8 DEF Tick, formats
<1>9. CASE UNCHANGED vars BY <1>1, <1>9 DEF vars, formats
<1> QED BY <1>6, <1>7, <1>8, <1>9 DEF Next

\* What is attached comes from addAppender, and then has a formatter.
LEMMA AttachedStep ==
  ASSUME NoNull, TypeInv, FormatInv, [Next]_vars,
         NEW l \in Loggers, NEW i \in DOMAIN m_appenders'[l]
  PROVE  m_formatter'[m_appenders'[l][i]] # NoFormatter
<1> DEFINE a == m_appenders'[l][i]
<1> SUFFICES a \in Appenders /\ m_formatter[a] # NoFormatter BY FormattersStay
<1>0. /\ m_appenders \in [Loggers -> Seq(Appenders)]
      /\ \A k \in DOMAIN m_appenders[l] :
            m_appenders[l][k] \in Appenders /\ m_formatter[m_appenders[l][k]] # NoFormatter
  BY DEF TypeInv, Types, FormatInv
<1>1. CASE m_appenders' = m_appenders BY <1>0, <1>1
<1>2. ASSUME NEW t \in Admins, AddPush(t)
      PROVE  a \in Appenders /\ m_formatter[a] # NoFormatter
  <2>1. arg[t] \in Appenders /\ m_formatter[arg[t]] # NoFormatter
    BY <1>2 DEF AddPush, FormatInv, TypeInv, ArgOK, Threads
  <2>2. m_appenders' = [m_appenders EXCEPT ![lg[t]] = Append(@, arg[t])]
    BY <1>2 DEF AddPush
  <2>3. CASE l = lg[t]
    <3>1. m_appenders'[l] = Append(m_appenders[l], arg[t]) BY <1>0, <2>2, <2>3
    <3>2. m_appenders[l] \in Seq(Appenders) BY <1>0
    <3>3. i \in DOMAIN m_appenders[l] \/ a = arg[t] BY <3>1, <3>2, <2>1
    <3>4. i \in DOMAIN m_appenders[l] => a = m_appenders[l][i] BY <3>1, <3>2, <2>1
    <3> QED BY <1>0, <2>1, <3>3, <3>4
  <2>4. CASE l # lg[t]
    <3>1. m_appenders'[l] = m_appenders[l] BY <1>0, <2>2, <2>4
    <3> QED BY <1>0, <3>1
  <2> QED BY <2>3, <2>4
<1>3. ASSUME NEW t \in Admins, NEW k \in Loggers, NEW b \in Detachable, delAppender(t, k, b)
      PROVE  a \in Appenders /\ m_formatter[a] # NoFormatter
  <2>1. PICK p \in DOMAIN m_appenders[k] :
          m_appenders' = [m_appenders EXCEPT ![k] = RemoveAt(@, p)]
    BY <1>3 DEF delAppender
  <2>2. CASE l = k
    <3>1. m_appenders'[l] = RemoveAt(m_appenders[l], p) BY <1>0, <2>1, <2>2
    <3>2. m_appenders[l] \in Seq(Appenders) /\ p \in 1..Len(m_appenders[l]) BY <1>0, <2>2
    <3>3. \E j \in DOMAIN m_appenders[l] : a = m_appenders[l][j]
      BY <3>1, <3>2, RemoveAtType
    <3> QED BY <1>0, <3>3
  <2>3. CASE l # k
    <3>1. m_appenders'[l] = m_appenders[l] BY <1>0, <2>1, <2>3
    <3> QED BY <1>0, <3>1
  <2> QED BY <2>2, <2>3
<1>4. ASSUME NEW t \in Admins, NEW k \in Loggers, clearAppenders(t, k)
      PROVE  a \in Appenders /\ m_formatter[a] # NoFormatter
  <2>1. m_appenders' = [m_appenders EXCEPT ![k] = <<>>] BY <1>4 DEF clearAppenders
  <2>2. m_appenders'[l] = m_appenders[l] BY <1>0, <2>1
  <2> QED BY <1>0, <2>2
<1>5. ASSUME NEW t \in Admins, AdminNext(t)
      PROVE  a \in Appenders /\ m_formatter[a] # NoFormatter
  BY <1>1, <1>2, <1>3, <1>4, <1>5
  DEF AdminNext, GetLogger, AppenderSetFormatter, SetFormatter, Inherit, FormatEnd,
      AddTest, AddFormat, admin
<1>6. ASSUME NEW t \in Writers, WriterNext(t)
      PROVE  a \in Appenders /\ m_formatter[a] # NoFormatter
  BY <1>1, <1>6
  DEF WriterNext, NewEvent, LogBegin, LogDrop, LogRoot, LogSkip, FileTest, FileReopen,
      FileStamp, Write, LogEnd, admin
<1>7. CASE Tick BY <1>1, <1>7 DEF Tick, admin
<1>8. CASE UNCHANGED vars BY <1>1, <1>8 DEF vars, admin
<1> QED BY <1>5, <1>6, <1>7, <1>8 DEF Next

\* addAppender goes on to attach only after it has seen a formatter, or has
\* given one.
LEMMA PushStep ==
  ASSUME NoNull, TypeInv, FormatInv, [Next]_vars, TypeInv',
         NEW u \in Threads, pc'[u] = "push"
  PROVE  m_formatter'[arg'[u]] # NoFormatter
<1>0. pc \in [Threads -> {"idle", "format", "add", "push", "event", "root", "log", "reopen",
                          "stamp", "write"}]
      /\ DOMAIN arg = Threads
  BY DEF TypeInv, Types
<1>1. CASE pc[u] = "push" /\ arg'[u] = arg[u]
  <2>1. arg[u] \in Appenders /\ m_formatter[arg[u]] # NoFormatter
    BY <1>1 DEF FormatInv, TypeInv, ArgOK
  <2> QED BY <1>1, <2>1, FormattersStay
<1>2. ASSUME NEW l \in Loggers, NEW a \in Appenders, AddTest(u, l, a), pc[u] # "push"
      PROVE  m_formatter'[arg'[u]] # NoFormatter
  <2>1. arg'[u] = a /\ m_formatter' = m_formatter /\ m_formatter[a] # NoFormatter
    BY <1>0, <1>2 DEF AddTest, Goto, formats
  <2> QED BY <2>1
<1>3. CASE AddFormat(u)
  <2>1. lg[u] \in Loggers /\ arg[u] \in Appenders
    BY <1>3 DEF AddFormat, TypeInv, Types, ArgOK
  <2>2. m_formatter[lg[u]] # NoFormatter BY <2>1 DEF FormatInv
  <2> QED BY <1>3, <2>1, <2>2 DEF AddFormat, TypeInv, Types
<1>4. ASSUME NEW t \in Admins, AdminNext(t) PROVE m_formatter'[arg'[u]] # NoFormatter
  <2>1. t \in Threads BY DEF Threads
  <2>2. CASE t # u
    <3>1. pc'[u] = pc[u] /\ arg'[u] = arg[u]
      BY <1>0, <1>4, <2>1, <2>2
      DEF AdminNext, GetLogger, AppenderSetFormatter, SetFormatter, Inherit, FormatEnd,
          AddTest, AddFormat, AddPush, delAppender, clearAppenders, Goto, local
    <3> QED BY <1>1, <3>1
  <2>3. CASE t = u
    BY <1>0, <1>1, <1>2, <1>3, <1>4, <2>3
    DEF AdminNext, GetLogger, AppenderSetFormatter, SetFormatter, Inherit, FormatEnd,
        AddTest, AddPush, delAppender, clearAppenders, Goto, local
  <2> QED BY <2>2, <2>3
<1>5. ASSUME NEW t \in Writers, WriterNext(t) PROVE m_formatter'[arg'[u]] # NoFormatter
  <2>1. t \in Threads BY DEF Threads
  <2>2. pc[u] = "push" /\ arg'[u] = arg[u]
    BY <1>0, <1>5, <2>1
    DEF WriterNext, NewEvent, LogBegin, LogDrop, LogRoot, LogSkip, FileTest, FileReopen,
        FileStamp, Write, LogEnd, Next1, Goto
  <2> QED BY <1>1, <2>2
<1>6. CASE Tick BY <1>1, <1>6 DEF Tick, local
<1>7. CASE UNCHANGED vars BY <1>1, <1>7 DEF vars, local
<1> QED BY <1>4, <1>5, <1>6, <1>7 DEF Next

\* Whatever is attached to a logger has a formatter, so that the dereference
\* of m_formatter in the appenders' log is safe, whatever threads attach,
\* detach and share appenders and change formatters meanwhile.
THEOREM NoAppenderWithoutFormatter == ASSUME NoNull PROVE Spec => []AttachedHaveFormatter
<1>1. Init => FormatInv
  BY LoggerAssumption DEF Init, FormatInv, Loggers
<1>2. TypeInv /\ FormatInv /\ [Next]_vars => FormatInv'
  <2> SUFFICES ASSUME TypeInv, FormatInv, [Next]_vars PROVE FormatInv' OBVIOUS
  <2>1. \A l \in Loggers : m_formatter'[l] # NoFormatter
    BY FormattersStay DEF FormatInv
  <2>2. \A l \in Loggers : \A i \in DOMAIN m_appenders'[l] :
          m_formatter'[m_appenders'[l][i]] # NoFormatter
    BY AttachedStep
  <2>3. \A t \in Threads : pc'[t] = "push" => m_formatter'[arg'[t]] # NoFormatter
    BY PushStep, TypeInvStep
  <2> QED BY <2>1, <2>2, <2>3 DEF FormatInv
<1>3. TypeInv /\ FormatInv => AttachedHaveFormatter
  <2> SUFFICES ASSUME TypeInv, FormatInv, NEW l \in Loggers, NEW a \in Appenders,
                      Contains(m_appenders[l], a)
               PROVE  m_formatter[a] # NoFormatter
    BY DEF AttachedHaveFormatter
  <2>1. m_appenders[l] \in Seq(Appenders) BY DEF TypeInv, Types
  <2>2. PICK i \in 1..Len(m_appenders[l]) : m_appenders[l][i] = a BY DEF Contains
  <2> QED BY <2>1, <2>2 DEF FormatInv
<1> QED BY <1>1, <1>2, <1>3, TypeInvStep, InitTypeInv, PTL DEF Spec

-----------------------------------------------------------------------------
(***************************************************************************)
(* What the appenders receive: no event twice.                             *)
(***************************************************************************)
NoDup(s) == \A i, j \in 1..Len(s) : s[i] = s[j] => i = j

-----------------------------------------------------------------------------
(***************************************************************************)
(* What the operations on sequences of appenders leave in them.            *)
(***************************************************************************)
LEMMA TailFacts ==
  ASSUME NEW S, NEW s \in Seq(S), s # <<>>
  PROVE  /\ \A a : Contains(s, a) <=> a = Head(s) \/ Contains(Tail(s), a)
         /\ NoDup(s) => NoDup(Tail(s)) /\ ~Contains(Tail(s), Head(s))
<1>1. /\ Len(s) \in Nat \ {0} /\ Head(s) = s[1] /\ Tail(s) \in Seq(S)
      /\ Len(Tail(s)) = Len(s) - 1
      /\ \A i \in 1..Len(s) - 1 : Tail(s)[i] = s[i + 1]
  OBVIOUS
<1>2. ASSUME NEW a PROVE Contains(s, a) <=> a = Head(s) \/ Contains(Tail(s), a)
  <2>1. ASSUME Contains(s, a), a # Head(s) PROVE Contains(Tail(s), a)
    <3>1. PICK i \in 1..Len(s) : s[i] = a BY <2>1 DEF Contains
    <3>2. i # 1 BY <1>1, <2>1, <3>1
    <3>3. i - 1 \in 1..Len(Tail(s)) /\ Tail(s)[i - 1] = a BY <1>1, <3>1, <3>2
    <3> QED BY <3>3 DEF Contains
  <2>2. ASSUME Contains(Tail(s), a) PROVE Contains(s, a)
    <3>1. PICK i \in 1..Len(Tail(s)) : Tail(s)[i] = a BY <2>2 DEF Contains
    <3>2. i + 1 \in 1..Len(s) /\ s[i + 1] = a BY <1>1, <3>1
    <3> QED BY <3>2 DEF Contains
  <2>3. Contains(s, Head(s))
    <3>1. 1 \in 1..Len(s) /\ s[1] = Head(s) BY <1>1
    <3> QED BY <3>1 DEF Contains
  <2> QED BY <2>1, <2>2, <2>3
<1>3. ASSUME NoDup(s) PROVE NoDup(Tail(s)) /\ ~Contains(Tail(s), Head(s))
  <2>1. NoDup(Tail(s))
    <3> SUFFICES ASSUME NEW i \in 1..Len(Tail(s)), NEW j \in 1..Len(Tail(s)),
                        Tail(s)[i] = Tail(s)[j]
                 PROVE  i = j
      BY DEF NoDup
    <3>1. i + 1 \in 1..Len(s) /\ j + 1 \in 1..Len(s) /\ s[i + 1] = s[j + 1] BY <1>1
    <3>2. i + 1 = j + 1 BY <1>3, <3>1 DEF NoDup
    <3> QED BY <1>1, <3>2
  <2>2. ~Contains(Tail(s), Head(s))
    <3> SUFFICES ASSUME NEW i \in 1..Len(Tail(s)), Tail(s)[i] = Head(s) PROVE FALSE
      BY DEF Contains
    <3>1. i + 1 \in 1..Len(s) /\ 1 \in 1..Len(s) /\ s[i + 1] = s[1] BY <1>1
    <3>2. i + 1 = 1 BY <1>3, <3>1 DEF NoDup
    <3> QED BY <1>1, <3>2
  <2> QED BY <2>1, <2>2
<1> QED BY <1>2, <1>3

\* A list of appenders with one more.
LEMMA AppendFacts ==
  ASSUME NEW S, NEW s \in Seq(S), NEW b \in S
  PROVE  /\ \A a : Contains(Append(s, b), a) <=> Contains(s, a) \/ a = b
         /\ NoDup(s) /\ ~Contains(s, b) => NoDup(Append(s, b))
<1> DEFINE r == Append(s, b)
<1>1. /\ Len(s) \in Nat /\ Len(r) = Len(s) + 1 /\ r[Len(s) + 1] = b
      /\ \A i \in 1..Len(s) : r[i] = s[i]
  OBVIOUS
<1> HIDE DEF r
<1>2. ASSUME NEW a PROVE Contains(r, a) <=> Contains(s, a) \/ a = b
  <2>1. ASSUME Contains(r, a), a # b PROVE Contains(s, a)
    <3>1. PICK i \in 1..Len(r) : r[i] = a BY <2>1 DEF Contains
    <3>2. i \in 1..Len(s) /\ s[i] = a BY <1>1, <2>1, <3>1
    <3> QED BY <3>2 DEF Contains
  <2>2. ASSUME Contains(s, a) PROVE Contains(r, a)
    <3>1. PICK i \in 1..Len(s) : s[i] = a BY <2>2 DEF Contains
    <3>2. i \in 1..Len(r) /\ r[i] = a BY <1>1, <3>1
    <3> QED BY <3>2 DEF Contains
  <2>3. Contains(r, b)
    <3>1. Len(s) + 1 \in 1..Len(r) BY <1>1
    <3> QED BY <1>1, <3>1 DEF Contains
  <2> QED BY <2>1, <2>2, <2>3
<1>3. ASSUME NoDup(s), ~Contains(s, b) PROVE NoDup(r)
  <2> SUFFICES ASSUME NEW i \in 1..Len(r), NEW j \in 1..Len(r), r[i] = r[j] PROVE i = j
    BY DEF NoDup
  <2>1. CASE i \in 1..Len(s) /\ j \in 1..Len(s) BY <1>1, <1>3, <2>1 DEF NoDup
  <2>2. CASE i \in 1..Len(s) /\ j = Len(s) + 1 BY <1>1, <1>3, <2>2 DEF Contains
  <2>3. CASE j \in 1..Len(s) /\ i = Len(s) + 1 BY <1>1, <1>3, <2>3 DEF Contains
  <2> QED BY <1>1, <2>1, <2>2, <2>3
<1> QED BY <1>2, <1>3 DEF r

\* A list of appenders with one less.
LEMMA RemoveFacts ==
  ASSUME NEW S, NEW s \in Seq(S), NEW p \in 1..Len(s)
  PROVE  /\ \A a : Contains(RemoveAt(s, p), a) => Contains(s, a)
         /\ NoDup(s) => NoDup(RemoveAt(s, p))
<1> DEFINE r == RemoveAt(s, p)
           From(j) == IF j < p THEN j ELSE j + 1
<1>1. /\ r \in Seq(S) /\ Len(r) = Len(s) - 1 /\ Len(s) \in Nat
      /\ \A j \in 1..Len(r) : r[j] = s[From(j)]
  BY RemoveAtType
<1> HIDE DEF r
<1>2. \A j \in 1..Len(r) : From(j) \in 1..Len(s) BY <1>1
<1>3. \A i, j \in 1..Len(r) : From(i) = From(j) => i = j BY <1>1
<1>4. ASSUME NEW a, Contains(r, a) PROVE Contains(s, a)
  BY <1>1, <1>2, <1>4 DEF Contains
<1>5. ASSUME NoDup(s) PROVE NoDup(r)
  <2> SUFFICES ASSUME NEW i \in 1..Len(r), NEW j \in 1..Len(r), r[i] = r[j] PROVE i = j
    BY DEF NoDup
  <2>1. From(i) = From(j)
    <3>1. s[From(i)] = s[From(j)] BY <1>1
    <3> QED BY <1>2, <1>5, <3>1 DEF NoDup
  <2> QED BY <1>3, <2>1
<1> QED BY <1>4, <1>5 DEF r

-----------------------------------------------------------------------------
(***************************************************************************)
(* What a step of one thread does to the others and to the appenders.      *)
(***************************************************************************)
Stays(u) == pc'[u] = pc[u] /\ lg'[u] = lg[u] /\ todo'[u] = todo[u] /\ arg'[u] = arg[u]

\* A call does not touch the calls of other threads.
LEMMA OthersStay ==
  ASSUME TypeInv, NEW u \in Threads
  PROVE  /\ \A t \in Admins : t # u /\ AdminNext(t) => Stays(u)
         /\ \A t \in Writers : t # u /\ WriterNext(t) => Stays(u)
<1>0. DOMAIN pc = Threads /\ DOMAIN lg = Threads /\ DOMAIN todo = Threads /\ DOMAIN arg = Threads
  BY DEF TypeInv, Types
<1>1. ASSUME NEW t \in Admins, t # u, AdminNext(t) PROVE Stays(u)
  BY <1>0, <1>1
  DEF AdminNext, GetLogger, AppenderSetFormatter, SetFormatter, Inherit, FormatEnd, AddTest,
      AddFormat, AddPush, delAppender, clearAppenders, Goto, local, Stays
<1>2. ASSUME NEW t \in Writers, t # u, WriterNext(t) PROVE Stays(u)
  BY <1>0, <1>2
  DEF WriterNext, NewEvent, LogBegin, LogDrop, LogRoot, LogSkip, FileTest, FileReopen,
      FileStamp, Write, LogEnd, Next1, Goto, Stays
<1> QED BY <1>1, <1>2

\* Appenders come to a logger with AddPush; they go while it is free.
LEMMA AppendersStep ==
  ASSUME TypeInv, [Next]_vars, NEW l \in Loggers
  PROVE  \/ m_appenders'[l] = m_appenders[l]
         \/ \E t \in Admins : /\ AddPush(t) /\ lg[t] = l /\ pc[t] = "push" /\ arg[t] \in Appenders
                              /\ m_appenders'[l] = Append(m_appenders[l], arg[t])
         \/ /\ Free(l)
            /\ \A a : Contains(m_appenders'[l], a) => Contains(m_appenders[l], a)
            /\ NoDup(m_appenders[l]) => NoDup(m_appenders'[l])
<1>0. m_appenders \in [Loggers -> Seq(Appenders)] BY DEF TypeInv, Types
<1>1. CASE m_appenders' = m_appenders BY <1>1
<1>2. ASSUME NEW t \in Admins, AddPush(t)
      PROVE  \/ m_appenders'[l] = m_appenders[l]
             \/ /\ lg[t] = l /\ pc[t] = "push" /\ arg[t] \in Appenders
                /\ m_appenders'[l] = Append(m_appenders[l], arg[t])
  <2>1. arg[t] \in Appenders BY <1>2 DEF AddPush, TypeInv, ArgOK, Threads
  <2> QED BY <1>0, <1>2, <2>1 DEF AddPush
<1>3. ASSUME NEW t \in Admins, NEW k \in Loggers, NEW b \in Detachable, delAppender(t, k, b)
      PROVE  \/ m_appenders'[l] = m_appenders[l]
             \/ /\ Free(l)
                /\ \A a : Contains(m_appenders'[l], a) => Contains(m_appenders[l], a)
                /\ NoDup(m_appenders[l]) => NoDup(m_appenders'[l])
  <2>1. PICK p \in DOMAIN m_appenders[k] :
          m_appenders' = [m_appenders EXCEPT ![k] = RemoveAt(@, p)]
    BY <1>3 DEF delAppender
  <2>2. CASE l = k
    <3>1. m_appenders'[l] = RemoveAt(m_appenders[l], p) /\ Free(l)
      BY <1>0, <1>3, <2>1, <2>2 DEF delAppender
    <3>2. m_appenders[l] \in Seq(Appenders) /\ p \in 1..Len(m_appenders[l]) BY <1>0, <2>2
    <3> QED BY <3>1, <3>2, RemoveFacts
  <2>3. CASE l # k BY <1>0, <2>1, <2>3
  <2> QED BY <2>2, <2>3
<1>4. ASSUME NEW t \in Admins, NEW k \in Loggers, clearAppenders(t, k)
      PROVE  \/ m_appenders'[l] = m_appenders[l]
             \/ /\ Free(l)
                /\ \A a : Contains(m_appenders'[l], a) => Contains(m_appenders[l], a)
                /\ NoDup(m_appenders[l]) => NoDup(m_appenders'[l])
  <2>1. m_appenders' = [m_appenders EXCEPT ![k] = <<>>] /\ Free(k) BY <1>4 DEF clearAppenders
  <2>2. CASE l = k
    <3>1. m_appenders'[l] = <<>> BY <1>0, <2>1, <2>2
    <3> QED BY <2>1, <2>2, <3>1 DEF Contains, NoDup
  <2>3. CASE l # k BY <1>0, <2>1, <2>3
  <2> QED BY <2>2, <2>3
<1>5. ASSUME NEW t \in Admins, AdminNext(t)
      PROVE  \/ m_appenders' = m_appenders
             \/ AddPush(t)
             \/ \E k \in Loggers, b \in Detachable : delAppender(t, k, b)
             \/ \E k \in Loggers : clearAppenders(t, k)
  BY <1>5
  DEF AdminNext, GetLogger, AppenderSetFormatter, SetFormatter, Inherit, FormatEnd,
      AddTest, AddFormat, admin
<1>6. ASSUME NEW t \in Writers, WriterNext(t) PROVE m_appenders' = m_appenders
  BY <1>6
  DEF WriterNext, NewEvent, LogBegin, LogDrop, LogRoot, LogSkip, FileTest, FileReopen,
      FileStamp, Write, LogEnd, admin
<1>7. CASE Tick BY <1>1, <1>7 DEF Tick, admin
<1>8. CASE UNCHANGED vars BY <1>1, <1>8 DEF vars, admin
<1> QED BY <1>1, <1>2, <1>3, <1>4, <1>5, <1>6, <1>7, <1>8 DEF Next

-----------------------------------------------------------------------------
(***************************************************************************)
(* No appender is in a logger twice, and none is on its way into a logger  *)
(* it is in.                                                               *)
(***************************************************************************)
Adding(t) == pc[t] \in {"add", "push"}

ListsInv ==
    /\ \A l \in Loggers : NoDup(m_appenders[l])
    /\ \A t \in Threads : Adding(t) => ~Contains(m_appenders[lg[t]], arg[t])
    /\ \A t \in Threads : NoDup(todo[t])

\* The loop of a call starts with the appenders of a logger, and drops the
\* one it has reached.
LEMMA TodoStep ==
  ASSUME TypeInv, [Next]_vars, NEW u \in Threads
  PROVE  \/ todo'[u] = todo[u]
         \/ todo[u] # <<>> /\ todo'[u] = Tail(todo[u])
         \/ \E l \in Loggers : todo'[u] = m_appenders[l]
<1>0. DOMAIN todo = Threads /\ lg \in [Threads -> Loggers] /\ Root \in Loggers
  BY DEF TypeInv, Types, Loggers
<1>1. ASSUME u \in Admins, AdminNext(u)
      PROVE  \/ todo'[u] = todo[u]
             \/ todo[u] # <<>> /\ todo'[u] = Tail(todo[u])
             \/ \E l \in Loggers : todo'[u] = m_appenders[l]
  BY <1>0, <1>1
  DEF AdminNext, GetLogger, AppenderSetFormatter, SetFormatter, Inherit, FormatEnd, AddTest,
      AddFormat, AddPush, delAppender, clearAppenders, local
<1>2. ASSUME u \in Writers, WriterNext(u)
      PROVE  \/ todo'[u] = todo[u]
             \/ todo[u] # <<>> /\ todo'[u] = Tail(todo[u])
             \/ \E l \in Loggers : todo'[u] = m_appenders[l]
  <2>1. CASE Write(u)
    <3>1. todo[u] # <<>> BY <2>1 DEF Write, TypeInv, ArgOK
    <3> QED BY <1>0, <2>1, <3>1 DEF Write, Next1
  <2> QED BY <1>0, <1>2, <2>1
      DEF WriterNext, NewEvent, LogBegin, LogDrop, LogRoot, LogSkip, FileTest, FileReopen,
          FileStamp, LogEnd, Next1
<1>3. CASE Tick \/ UNCHANGED vars BY <1>3 DEF Tick, local, vars
<1>4. ASSUME NEW t \in Admins, AdminNext(t), t # u PROVE todo'[u] = todo[u]
  BY <1>4, OthersStay DEF Stays
<1>5. ASSUME NEW t \in Writers, WriterNext(t), t # u PROVE todo'[u] = todo[u]
  BY <1>5, OthersStay DEF Stays
<1> QED BY <1>1, <1>2, <1>3, <1>4, <1>5 DEF Next

\* addAppender is on its way with the appender it was called with, and with
\* one its logger does not have.
LEMMA AddingStep ==
  ASSUME TypeInv, [Next]_vars, NEW u \in Threads, Adding(u)'
  PROVE  \/ Adding(u) /\ lg'[u] = lg[u] /\ arg'[u] = arg[u]
         \/ AddTest(u, lg'[u], arg'[u]) /\ UNCHANGED m_appenders /\ lg'[u] \in Loggers
<1>0. DOMAIN pc = Threads /\ DOMAIN lg = Threads /\ DOMAIN arg = Threads
  BY DEF TypeInv, Types
<1> USE DEF Adding
<1>1. ASSUME u \in Admins, AdminNext(u)
      PROVE  \/ Adding(u) /\ lg'[u] = lg[u] /\ arg'[u] = arg[u]
             \/ AddTest(u, lg'[u], arg'[u]) /\ UNCHANGED m_appenders /\ lg'[u] \in Loggers
  <2>1. ASSUME NEW l \in Loggers, NEW a \in Appenders, AddTest(u, l, a)
        PROVE  lg'[u] = l /\ arg'[u] = a /\ UNCHANGED m_appenders
    BY <1>0, <2>1 DEF AddTest, admin
  <2> QED BY <1>0, <1>1, <2>1
      DEF AdminNext, GetLogger, AppenderSetFormatter, SetFormatter, Inherit, FormatEnd,
          AddFormat, AddPush, delAppender, clearAppenders, Goto, local
<1>2. ASSUME u \in Writers, WriterNext(u) PROVE FALSE
  <2>1. pc[u] \in {"idle", "event", "root", "log", "reopen", "stamp", "write"}
    BY <1>2
    DEF WriterNext, NewEvent, LogBegin, LogDrop, LogRoot, LogSkip, FileTest, FileReopen,
        FileStamp, Write, LogEnd
  <2> QED BY <1>0, <1>2, <2>1
      DEF WriterNext, NewEvent, LogBegin, LogDrop, LogRoot, LogSkip, FileTest, FileReopen,
          FileStamp, Write, LogEnd, Next1, Goto
<1>3. CASE Tick \/ UNCHANGED vars BY <1>3 DEF Tick, local, vars
<1>4. ASSUME NEW t \in Admins, AdminNext(t), t # u
      PROVE  Adding(u) /\ lg'[u] = lg[u] /\ arg'[u] = arg[u]
  BY <1>4, OthersStay DEF Stays
<1>5. ASSUME NEW t \in Writers, WriterNext(t), t # u
      PROVE  Adding(u) /\ lg'[u] = lg[u] /\ arg'[u] = arg[u]
  BY <1>5, OthersStay DEF Stays
<1> QED BY <1>1, <1>2, <1>3, <1>4, <1>5 DEF Next

\* Every step keeps lists without repetitions.
LEMMA ListsStep == TypeInv /\ ListsInv /\ [Next]_vars => ListsInv'
<1> SUFFICES ASSUME TypeInv, ListsInv, [Next]_vars PROVE ListsInv' OBVIOUS
<1>0. /\ m_appenders \in [Loggers -> Seq(Appenders)] /\ todo \in [Threads -> Seq(Appenders)]
      /\ lg \in [Threads -> Loggers] /\ Admins \subseteq Threads
  BY DEF TypeInv, Types, Threads
<1>1. ASSUME NEW l \in Loggers PROVE NoDup(m_appenders'[l])
  <2>1. ASSUME NEW t \in Admins, lg[t] = l, pc[t] = "push", arg[t] \in Appenders,
               m_appenders'[l] = Append(m_appenders[l], arg[t])
        PROVE  NoDup(m_appenders'[l])
    <3>1. ~Contains(m_appenders[l], arg[t]) /\ NoDup(m_appenders[l])
      BY <1>0, <2>1 DEF ListsInv, Adding
    <3>2. m_appenders[l] \in Seq(Appenders) BY <1>0
    <3> QED BY <2>1, <3>1, <3>2, AppendFacts
  <2> QED BY <2>1, AppendersStep DEF ListsInv
<1>2. ASSUME NEW u \in Threads, Adding(u)' PROVE ~Contains(m_appenders'[lg'[u]], arg'[u])
  <2>1. CASE Adding(u) /\ lg'[u] = lg[u] /\ arg'[u] = arg[u]
    <3> DEFINE l == lg[u]
    <3>1. l \in Loggers /\ m_mutex[l] = u /\ u # NoThread
      BY <1>0, <2>1, LoggerAssumption DEF Adding, TypeInv, Types
    <3>2. ~Contains(m_appenders[l], arg[u]) BY <2>1 DEF ListsInv
    <3>3. ~Free(l) BY <3>1 DEF Free
    <3>4. ASSUME NEW t \in Admins, AddPush(t), lg[t] = l, pc[t] = "push" PROVE FALSE
      <4>1. m_mutex[l] = t BY <1>0, <3>4 DEF TypeInv, Types
      <4>2. t = u BY <3>1, <4>1
      <4>3. pc'[u] = "idle" BY <3>4, <4>2 DEF AddPush, Goto, TypeInv, Types
      <4> QED BY <1>2, <4>3 DEF Adding
    <3>5. m_appenders'[l] = m_appenders[l] BY <3>1, <3>3, <3>4, AppendersStep
    <3> QED BY <2>1, <3>2, <3>5
  <2>2. CASE AddTest(u, lg'[u], arg'[u]) /\ UNCHANGED m_appenders /\ lg'[u] \in Loggers
    <3>1. MayAdd(lg'[u], arg'[u]) BY <2>2 DEF AddTest
    <3>2. lg'[u] \notin Attached(arg'[u]) BY <3>1 DEF MayAdd
    <3> QED BY <2>2, <3>2 DEF Attached
  <2> QED BY <1>2, <2>1, <2>2, AddingStep
<1>3. ASSUME NEW u \in Threads PROVE NoDup(todo'[u])
  <2>1. CASE todo[u] # <<>> /\ todo'[u] = Tail(todo[u])
    <3>1. todo[u] \in Seq(Appenders) /\ NoDup(todo[u]) BY <1>0 DEF ListsInv
    <3> QED BY <2>1, <3>1, TailFacts
  <2> QED BY <2>1, TodoStep DEF ListsInv
<1> QED BY <1>1, <1>2, <1>3 DEF ListsInv

-----------------------------------------------------------------------------
(***************************************************************************)
(* An event is not made yet, or one thread logs it, or nobody will again;  *)
(* and it is in no appender that its thread has still to reach.            *)
(***************************************************************************)
Looping(t) == pc[t] \in {"log", "reopen", "stamp", "write"}
Logging(t) == Looping(t) \/ pc[t] \in {"event", "root"}

Has(a, e) == \E i \in 1..Len(out[a]) : out[a][i].ev = e
Ahead(t, a) == ~Looping(t) \/ Contains(todo[t], a)

EventInv ==
    /\ \A e \in unlogged : \A a \in Appenders : ~Has(a, e)
    /\ \A t \in Threads : Logging(t) => arg[t].ev \notin unlogged
    /\ \A t, u \in Threads : t # u /\ Logging(t) /\ Logging(u) => arg[t].ev # arg[u].ev
    /\ \A t \in Threads : \A a \in Appenders :
          Logging(t) /\ Ahead(t, a) => ~Has(a, arg[t].ev)
    /\ WrittenOnce

\* What Write does: the appender the loop has reached gets a line.
LEMMA WriteFacts ==
  ASSUME TypeInv, NEW t \in Writers, Write(t)
  PROVE  /\ Looping(t) /\ Reached(t) \in Appenders /\ Contains(todo[t], Reached(t))
         /\ todo[t] # <<>> /\ todo'[t] = Tail(todo[t]) /\ arg' = arg
         /\ \A a \in Appenders \ {Reached(t)} : out'[a] = out[a]
         /\ \E x \in Line : /\ x.ev = arg[t].ev /\ x.fmt = m_formatter[Reached(t)]
                            /\ x.own = m_hasFormatter[Reached(t)] /\ x.time = arg[t].time
                            /\ out'[Reached(t)] = Append(out[Reached(t)], x)
<1> DEFINE a == Reached(t)
<1> DEFINE x == [ev |-> arg[t].ev, time |-> arg[t].time,
                 fmt |-> m_formatter[a], own |-> m_hasFormatter[a]]
<1>0. t \in Threads BY DEF Threads
<1>1. /\ todo[t] # <<>> /\ Looping(t) /\ arg[t] \in [ev : Events, time : Times]
      /\ todo[t] \in Seq(Appenders) /\ DOMAIN todo = Threads
  BY <1>0 DEF Write, Looping, TypeInv, Types, ArgOK
<1>2. a \in Appenders /\ Contains(todo[t], a) BY <1>1, TailFacts DEF Reached
<1>3. x \in Line
  BY <1>1, <1>2, LoggerAssumption DEF Write, Line, TypeInv, Types
<1>4. out \in [Appenders -> Seq(Line)] BY DEF TypeInv, Types
<1>5. out' = [out EXCEPT ![a] = Append(@, x)] BY DEF Write
<1>6. todo'[t] = Tail(todo[t]) /\ arg' = arg BY <1>0, <1>1 DEF Write, Next1
<1>7. /\ x.ev = arg[t].ev /\ x.fmt = m_formatter[a] /\ x.own = m_hasFormatter[a]
      /\ x.time = arg[t].time
  OBVIOUS
<1> HIDE DEF a, x
<1>8. out'[a] = Append(out[a], x) /\ \A b \in Appenders \ {a} : out'[b] = out[b]
  BY <1>2, <1>4, <1>5
<1> QED BY <1>1, <1>2, <1>3, <1>6, <1>7, <1>8 DEF a

\* Any other step leaves the lines as they are, or empties a file.
LEMMA OutStep ==
  ASSUME TypeInv, [Next]_vars, NEW a \in Appenders
  PROVE  \/ out'[a] = out[a]
         \/ out'[a] = <<>> /\ \E t \in Writers : FileReopen(t) /\ a = Reached(t)
         \/ \E t \in Writers : Write(t) /\ a = Reached(t)
<1>0. out \in [Appenders -> Seq(Line)] BY DEF TypeInv, Types
<1>1. ASSUME NEW t \in Writers, WriterNext(t)
      PROVE  \/ out'[a] = out[a]
             \/ out'[a] = <<>> /\ FileReopen(t) /\ a = Reached(t)
             \/ Write(t) /\ a = Reached(t)
  <2>1. CASE Write(t)
    <3>1. CASE a = Reached(t) BY <2>1, <3>1
    <3>2. CASE a # Reached(t)
      <4>1. \A b \in Appenders \ {Reached(t)} : out'[b] = out[b] BY <2>1, WriteFacts
      <4> QED BY <3>2, <4>1
    <3> QED BY <3>1, <3>2
  <2>2. CASE FileReopen(t)
    <3>1. out' = [out EXCEPT ![Reached(t)] = <<>>] BY <2>2 DEF FileReopen
    <3> QED BY <1>0, <2>2, <3>1
  <2>3. CASE ~Write(t) /\ ~FileReopen(t)
    <3>1. out' = out
      BY <1>1, <2>3
      DEF WriterNext, NewEvent, LogBegin, LogDrop, LogRoot, LogSkip, FileTest, FileStamp, LogEnd,
          files
    <3> QED BY <3>1
  <2> QED BY <2>1, <2>2, <2>3
<1>2. ASSUME NEW t \in Admins, AdminNext(t) PROVE out' = out
  BY <1>2
  DEF AdminNext, GetLogger, AppenderSetFormatter, SetFormatter, Inherit, FormatEnd, AddTest,
      AddFormat, AddPush, delAppender, clearAppenders, files
<1>3. CASE Tick \/ UNCHANGED vars BY <1>3 DEF Tick, files, vars
<1> QED BY <1>1, <1>2, <1>3 DEF Next

\* An appender has an event by being written to.
LEMMA HasStep ==
  ASSUME TypeInv, [Next]_vars, NEW a \in Appenders, NEW e, Has(a, e)', ~Has(a, e)
  PROVE  \E t \in Writers : Write(t) /\ a = Reached(t) /\ e = arg[t].ev
<1>1. out'[a] # out[a] /\ out'[a] # <<>> BY DEF Has
<1>2. PICK t \in Writers : Write(t) /\ a = Reached(t) BY <1>1, OutStep
<1>3. PICK x \in Line : x.ev = arg[t].ev /\ out'[a] = Append(out[a], x) BY <1>2, WriteFacts
<1>4. out[a] \in Seq(Line) BY DEF TypeInv, Types
<1>5. PICK i \in 1..Len(out'[a]) : out'[a][i].ev = e BY DEF Has
<1>6. i = Len(out[a]) + 1 /\ out'[a][i] = x
  <2>1. /\ Len(out[a]) \in Nat /\ Len(out'[a]) = Len(out[a]) + 1
        /\ out'[a][Len(out[a]) + 1] = x
        /\ \A j \in 1..Len(out[a]) : out'[a][j] = out[a][j]
    BY <1>3, <1>4
  <2>2. i \notin 1..Len(out[a]) BY <1>5, <2>1 DEF Has
  <2> QED BY <2>1, <2>2
<1> QED BY <1>2, <1>3, <1>5, <1>6

\* How a thread comes to log, and goes on.
LEMMA LoggingStep ==
  ASSUME TypeInv, [Next]_vars, NEW u \in Threads, Logging(u)'
  PROVE  \/ /\ u \in Writers /\ WriterNext(u) /\ ~Looping(u)'
            /\ arg'[u].ev \in unlogged /\ unlogged' = unlogged \ {arg'[u].ev} /\ UNCHANGED out
         \/ /\ Logging(u) /\ arg'[u] = arg[u] /\ unlogged' \subseteq unlogged
            /\ Looping(u) => Looping(u)'
            /\ Looping(u) => \/ todo'[u] = todo[u]
                             \/ todo[u] # <<>> /\ todo'[u] = Tail(todo[u])
<1> USE DEF Logging, Looping
<1>0. DOMAIN pc = Threads /\ DOMAIN arg = Threads /\ DOMAIN todo = Threads /\ u \in Threads
  BY DEF TypeInv, Types
<1>1. ASSUME NEW l \in Loggers, NEW e \in Events, u \in Writers, NewEvent(u, l, e)
      PROVE  /\ u \in Writers /\ WriterNext(u) /\ ~Looping(u)'
             /\ arg'[u].ev \in unlogged /\ unlogged' = unlogged \ {arg'[u].ev} /\ UNCHANGED out
  <2>1. arg'[u] = [ev |-> e, time |-> clock] /\ pc'[u] = "event" BY <1>0, <1>1 DEF NewEvent, Goto
  <2>2. arg'[u].ev = e BY <2>1
  <2> QED BY <1>1, <2>1, <2>2 DEF NewEvent, WriterNext, files
<1>2. CASE u \in Writers /\ Write(u)
  <2>1. /\ Looping(u) /\ todo[u] # <<>> /\ todo'[u] = Tail(todo[u]) /\ arg' = arg
    BY <1>2, WriteFacts
  <2>2. pc'[u] = "log" /\ unlogged' = unlogged BY <1>0, <1>2 DEF Write, Next1, Goto
  <2> QED BY <2>1, <2>2
<1>3. ASSUME u \in Writers, WriterNext(u),
             \A l \in Loggers, e \in Events : ~NewEvent(u, l, e), ~Write(u)
      PROVE  /\ Logging(u) /\ arg'[u] = arg[u] /\ unlogged' \subseteq unlogged
             /\ Looping(u) => Looping(u)'
             /\ Looping(u) => \/ todo'[u] = todo[u]
                              \/ todo[u] # <<>> /\ todo'[u] = Tail(todo[u])
  BY <1>0, <1>3
  DEF WriterNext, LogBegin, LogDrop, LogRoot, LogSkip, FileTest, FileReopen,
      FileStamp, LogEnd, Next1, Goto
<1>4. ASSUME u \in Admins, AdminNext(u) PROVE FALSE
  <2>1. pc[u] \in {"idle", "format", "add", "push"}
    BY <1>4
    DEF AdminNext, GetLogger, AppenderSetFormatter, SetFormatter, Inherit, FormatEnd, AddTest,
        AddFormat, AddPush, delAppender, clearAppenders
  <2> QED BY <1>0, <1>4, <2>1
      DEF AdminNext, GetLogger, AppenderSetFormatter, SetFormatter, Inherit, FormatEnd, AddTest,
          AddFormat, AddPush, delAppender, clearAppenders, Goto, local
<1>5. ASSUME NEW t \in Admins, AdminNext(t) PROVE unlogged' = unlogged
  BY <1>5
  DEF AdminNext, GetLogger, AppenderSetFormatter, SetFormatter, Inherit, FormatEnd, AddTest,
      AddFormat, AddPush, delAppender, clearAppenders
<1>6. ASSUME NEW t \in Writers, WriterNext(t) PROVE unlogged' \subseteq unlogged
  BY <1>6
  DEF WriterNext, NewEvent, LogBegin, LogDrop, LogRoot, LogSkip, FileTest, FileReopen,
      FileStamp, Write, LogEnd
<1>7. CASE Tick \/ UNCHANGED vars BY <1>7 DEF Tick, local, vars
<1>8. ASSUME Stays(u), unlogged' \subseteq unlogged
      PROVE  /\ Logging(u) /\ arg'[u] = arg[u] /\ unlogged' \subseteq unlogged
             /\ Looping(u) => Looping(u)'
             /\ Looping(u) => todo'[u] = todo[u]
  BY <1>8 DEF Stays
<1>9. ASSUME u \in Writers, WriterNext(u)
      PROVE  \/ /\ u \in Writers /\ WriterNext(u) /\ ~Looping(u)'
                /\ arg'[u].ev \in unlogged /\ unlogged' = unlogged \ {arg'[u].ev}
                /\ UNCHANGED out
             \/ /\ Logging(u) /\ arg'[u] = arg[u] /\ unlogged' \subseteq unlogged
                /\ Looping(u) => Looping(u)'
                /\ Looping(u) => \/ todo'[u] = todo[u]
                                 \/ todo[u] # <<>> /\ todo'[u] = Tail(todo[u])
  BY <1>1, <1>2, <1>3, <1>9
<1> HIDE DEF Logging, Looping
<1>10. ASSUME NEW t \in Writers, WriterNext(t), t # u
       PROVE  Stays(u) /\ unlogged' \subseteq unlogged
  BY <1>6, <1>10, OthersStay
<1>11. ASSUME NEW t \in Admins, AdminNext(t)
       PROVE  Stays(u) /\ unlogged' \subseteq unlogged
  BY <1>4, <1>5, <1>11, OthersStay
<1>12. \/ \E t \in Admins : AdminNext(t)
       \/ \E t \in Writers : WriterNext(t)
       \/ Tick \/ UNCHANGED vars
  BY DEF Next
<1> QED BY <1>7, <1>8, <1>9, <1>10, <1>11, <1>12

\* Every step keeps events with one thread, and lines where the loop has been.
LEMMA EventStep == TypeInv /\ ListsInv /\ EventInv /\ [Next]_vars => EventInv'
<1> SUFFICES ASSUME TypeInv, ListsInv, EventInv, [Next]_vars PROVE EventInv' OBVIOUS
<1> DEFINE Begins(u) ==
             /\ u \in Writers /\ WriterNext(u) /\ ~Looping(u)'
             /\ arg'[u].ev \in unlogged /\ unlogged' = unlogged \ {arg'[u].ev} /\ UNCHANGED out
           GoesOn(u) ==
             /\ Logging(u) /\ arg'[u] = arg[u] /\ unlogged' \subseteq unlogged
             /\ Looping(u) => Looping(u)'
             /\ Looping(u) => \/ todo'[u] = todo[u]
                              \/ todo[u] # <<>> /\ todo'[u] = Tail(todo[u])
<1>0. \A u \in Threads : Logging(u)' => Begins(u) \/ GoesOn(u) BY LoggingStep
<1> HIDE DEF Begins, GoesOn
<1>00. /\ \A u \in Threads : todo[u] \in Seq(Appenders)
       /\ Writers \subseteq Threads /\ \A t \in Threads : Looping(t) => Logging(t)
  BY DEF TypeInv, Types, Threads, Logging
\* Who begins does so alone.
<1>a. ASSUME NEW u \in Threads, Begins(u), NEW t \in Threads, t # u, Logging(t)'
      PROVE  Logging(t) /\ arg'[t] = arg[t]
  BY <1>a, OthersStay DEF Begins, Stays, Logging, Looping
<1>b. unlogged' \subseteq unlogged
  <2>1. ASSUME NEW t \in Admins, AdminNext(t) PROVE unlogged' = unlogged
    BY <2>1
    DEF AdminNext, GetLogger, AppenderSetFormatter, SetFormatter, Inherit, FormatEnd, AddTest,
        AddFormat, AddPush, delAppender, clearAppenders
  <2>2. ASSUME NEW t \in Writers, WriterNext(t) PROVE unlogged' \subseteq unlogged
    BY <2>2
    DEF WriterNext, NewEvent, LogBegin, LogDrop, LogRoot, LogSkip, FileTest, FileReopen,
        FileStamp, Write, LogEnd
  <2>3. CASE Tick \/ UNCHANGED vars BY <2>3 DEF Tick, vars
  <2> QED BY <2>1, <2>2, <2>3 DEF Next
<1>1. ASSUME NEW e \in unlogged', NEW a \in Appenders PROVE ~Has(a, e)'
  <2>1. ~Has(a, e) BY <1>b DEF EventInv
  <2>2. ASSUME NEW t \in Writers, Write(t), e = arg[t].ev PROVE FALSE
    <3>1. Logging(t) BY <2>2, <1>00, WriteFacts
    <3> QED BY <1>00, <1>b, <2>2, <3>1 DEF EventInv
  <2> QED BY <2>1, <2>2, HasStep
<1>2. ASSUME NEW u \in Threads, Logging(u)' PROVE arg'[u].ev \notin unlogged'
  <2>1. CASE Begins(u) BY <2>1 DEF Begins
  <2>2. CASE GoesOn(u) BY <1>b, <2>2 DEF GoesOn, EventInv
  <2> QED BY <1>0, <1>2, <2>1, <2>2
<1>3. ASSUME NEW t \in Threads, NEW u \in Threads, t # u, Logging(t)', Logging(u)'
      PROVE  arg'[t].ev # arg'[u].ev
  <2>1. ASSUME NEW v \in Threads, NEW w \in Threads, v # w, Begins(v), Logging(w)'
        PROVE  arg'[v].ev # arg'[w].ev
    BY <1>a, <2>1 DEF Begins, EventInv
  <2>2. CASE GoesOn(t) /\ GoesOn(u) BY <1>3, <2>2 DEF GoesOn, EventInv
  <2> QED BY <1>0, <1>3, <2>1, <2>2
<1>5. ASSUME NEW u \in Threads, NEW a \in Appenders, Logging(u)', Ahead(u, a)',
             NEW e, e = arg'[u].ev
      PROVE  ~Has(a, e)'
  <2>1. CASE Begins(u)
    <3>1. ~Has(a, e) BY <1>5, <2>1 DEF Begins, EventInv
    <3> QED BY <2>1, <3>1 DEF Begins, Has
  <2>2. CASE GoesOn(u)
    <3>1. Ahead(u, a)
      <4>1. CASE ~Looping(u) BY <4>1 DEF Ahead
      <4>2. CASE Looping(u)
        <5>1. Contains(todo'[u], a) BY <1>5, <2>2, <4>2 DEF Ahead, GoesOn
        <5>2. CASE todo'[u] = todo[u] BY <5>1, <5>2 DEF Ahead
        <5>3. CASE todo[u] # <<>> /\ todo'[u] = Tail(todo[u])
          BY <1>00, <5>1, <5>3, TailFacts DEF Ahead
        <5> QED BY <2>2, <4>2, <5>2, <5>3 DEF GoesOn
      <4> QED BY <4>1, <4>2
    <3>2. e = arg[u].ev /\ Logging(u) /\ ~Has(a, e) BY <1>5, <2>2, <3>1 DEF GoesOn, EventInv
    <3>3. ASSUME NEW t \in Writers, Write(t), a = Reached(t), e = arg[t].ev PROVE FALSE
      <4>1. Looping(t) /\ todo[t] # <<>> /\ todo'[t] = Tail(todo[t])
        BY <3>3, WriteFacts
      <4>2. t = u BY <1>00, <3>2, <3>3, <4>1 DEF EventInv
      <4>3. NoDup(todo[u]) /\ todo[u] \in Seq(Appenders) BY <1>00 DEF ListsInv
      <4>4. ~Contains(todo'[u], a) BY <3>3, <4>1, <4>2, <4>3, TailFacts DEF Reached
      <4>5. Looping(u)' BY <2>2, <4>1, <4>2 DEF GoesOn
      <4> QED BY <1>5, <4>4, <4>5 DEF Ahead
    <3> QED BY <3>2, <3>3, HasStep
  <2> QED BY <1>0, <1>5, <2>1, <2>2
<1>6. WrittenOnce'
  <2> SUFFICES ASSUME NEW a \in Appenders, NEW i \in DOMAIN out'[a], NEW j \in DOMAIN out'[a],
                      out'[a][i].ev = out'[a][j].ev
               PROVE  i = j
    BY DEF WrittenOnce
  <2>1. out[a] \in Seq(Line) /\ DOMAIN out[a] = 1..Len(out[a]) BY DEF TypeInv, Types
  <2>2. CASE out'[a] = out[a] BY <2>2 DEF EventInv, WrittenOnce
  <2>3. CASE out'[a] = <<>> BY <2>3
  <2>4. ASSUME NEW t \in Writers, Write(t), a = Reached(t) PROVE i = j
    <3>1. /\ Logging(t) /\ Contains(todo[t], a) BY <1>00, <2>4, WriteFacts
    <3>2. ~Has(a, arg[t].ev) BY <1>00, <3>1 DEF EventInv, Ahead
    <3>3. PICK x \in Line : x.ev = arg[t].ev /\ out'[a] = Append(out[a], x)
      BY <2>4, WriteFacts
    <3>4. /\ Len(out[a]) \in Nat /\ Len(out'[a]) = Len(out[a]) + 1
          /\ DOMAIN out'[a] = 1..Len(out[a]) + 1
          /\ out'[a][Len(out[a]) + 1] = x
          /\ \A k \in 1..Len(out[a]) : out'[a][k] = out[a][k]
      BY <2>1, <3>3
    <3>5. \A k \in 1..Len(out[a]) : out[a][k].ev # x.ev BY <3>2, <3>3 DEF Has
    <3>6. CASE i \in 1..Len(out[a]) /\ j \in 1..Len(out[a])
      <4>1. out[a][i].ev = out[a][j].ev BY <3>4, <3>6
      <4> QED BY <2>1, <3>6, <4>1 DEF EventInv, WrittenOnce
    <3>7. CASE i \in 1..Len(out[a]) /\ j = Len(out[a]) + 1 BY <3>4, <3>5, <3>7
    <3>8. CASE j \in 1..Len(out[a]) /\ i = Len(out[a]) + 1 BY <3>4, <3>5, <3>8
    <3> QED BY <3>4, <3>6, <3>7, <3>8
  <2> QED BY <2>2, <2>3, <2>4, OutStep
<1> QED BY <1>1, <1>2, <1>3, <1>5, <1>6 DEF EventInv

\* No event and no appender at the start.
LEMMA EventInit == Init => ListsInv /\ EventInv
<1> SUFFICES ASSUME Init PROVE ListsInv /\ EventInv
  OBVIOUS
<1>1. ListsInv BY DEF Init, ListsInv, NoDup, Adding
<1>2. EventInv BY DEF Init, EventInv, WrittenOnce, Has, Logging, Looping
<1> QED BY <1>1, <1>2

(***************************************************************************)
(* No file and no console shows an event twice, however many threads log   *)
(* while others add, delete and clear appenders, and whichever appenders   *)
(* the loggers share.  The loop of Logger::log goes through a list its     *)
(* lock protects and meets each appender once, as a program adds an        *)
(* appender to a logger once; and the event goes to m_root instead of the  *)
(* logger's own appenders, never after them (log.cc lines 416-428).        *)
(***************************************************************************)
THEOREM EventsWrittenOnce == Spec => []WrittenOnce
<1>1. Init => TypeInv /\ ListsInv /\ EventInv BY InitTypeInv, EventInit
<1>2. TypeInv /\ ListsInv /\ EventInv /\ [Next]_vars => (TypeInv /\ ListsInv /\ EventInv)'
  BY TypeInvStep, ListsStep, EventStep
<1>3. EventInv => WrittenOnce BY DEF EventInv
<1> QED BY <1>1, <1>2, <1>3, PTL DEF Spec

-----------------------------------------------------------------------------
(***************************************************************************)
(* How the formatters change.                                              *)
(***************************************************************************)
LEMMA FormatterStep ==
  ASSUME TypeInv, [Next]_vars, NEW x \in Loggers \cup Appenders, m_formatter'[x] # m_formatter[x]
  PROVE  \/ x \in Appenders /\ \E t \in Admins, f \in OwnFormats : AppenderSetFormatter(t, x, f)
         \/ x \in Loggers /\ \E t \in Admins, f \in Formatters : SetFormatter(t, x, f)
         \/ \E t \in Admins : /\ Inherit(t) /\ x \in Appenders /\ x = Head(todo[t])
                              /\ ~m_hasFormatter[x] /\ m_formatter'[x] = m_formatter[lg[t]]
                              /\ \A l \in Loggers : m_formatter'[l] = m_formatter[l]
         \/ \E t \in Admins : /\ AddFormat(t) /\ x \in Appenders /\ x = arg[t]
                              /\ m_formatter'[x] = m_formatter[lg[t]]
                              /\ \A l \in Loggers : m_formatter'[l] = m_formatter[l]
<1>0. /\ DOMAIN m_formatter = Loggers \cup Appenders /\ Loggers \cap Appenders = {}
      /\ Admins \subseteq Threads
  BY LoggerAssumption DEF TypeInv, Types, Threads
<1>1. ASSUME NEW t \in Admins, NEW a \in Appenders, NEW f \in OwnFormats,
             AppenderSetFormatter(t, a, f)
      PROVE  x = a
  BY <1>0, <1>1 DEF AppenderSetFormatter
<1>2. ASSUME NEW t \in Admins, NEW l \in Loggers, NEW f \in Formatters, SetFormatter(t, l, f)
      PROVE  x = l
  BY <1>0, <1>2 DEF SetFormatter
<1>3. ASSUME NEW t \in Admins, Inherit(t)
      PROVE  /\ x \in Appenders /\ x = Head(todo[t]) /\ ~m_hasFormatter[x]
             /\ m_formatter'[x] = m_formatter[lg[t]]
             /\ \A l \in Loggers : m_formatter'[l] = m_formatter[l]
  <2>1. Head(todo[t]) \in Appenders BY <1>0, <1>3 DEF Inherit, TypeInv, Types
  <2> QED BY <1>0, <1>3, <2>1 DEF Inherit
<1>4. ASSUME NEW t \in Admins, AddFormat(t)
      PROVE  /\ x \in Appenders /\ x = arg[t] /\ m_formatter'[x] = m_formatter[lg[t]]
             /\ \A l \in Loggers : m_formatter'[l] = m_formatter[l]
  <2>1. arg[t] \in Appenders BY <1>0, <1>4 DEF AddFormat, TypeInv, ArgOK
  <2> QED BY <1>0, <1>4, <2>1 DEF AddFormat
<1>5. ASSUME NEW t \in Admins, AdminNext(t)
      PROVE  \/ \E a \in Appenders, f \in OwnFormats : AppenderSetFormatter(t, a, f)
             \/ \E l \in Loggers, f \in Formatters : SetFormatter(t, l, f)
             \/ Inherit(t) \/ AddFormat(t)
  BY <1>5
  DEF AdminNext, GetLogger, FormatEnd, AddTest, AddPush, delAppender, clearAppenders, formats
<1>6. ASSUME NEW t \in Writers, WriterNext(t) PROVE FALSE
  BY <1>6
  DEF WriterNext, NewEvent, LogBegin, LogDrop, LogRoot, LogSkip, FileTest, FileReopen,
      FileStamp, Write, LogEnd, formats
<1>7. CASE Tick \/ UNCHANGED vars BY <1>7 DEF Tick, formats, vars
<1> QED BY <1>1, <1>2, <1>3, <1>4, <1>5, <1>6, <1>7 DEF Next

\* Only LogAppender::setFormatter says whose formatter an appender has.
LEMMA OwnStep ==
  ASSUME TypeInv, [Next]_vars, NEW a \in Appenders, m_hasFormatter'[a] # m_hasFormatter[a]
  PROVE  \E t \in Admins, f \in OwnFormats : AppenderSetFormatter(t, a, f)
<1>0. DOMAIN m_hasFormatter = Appenders BY DEF TypeInv, Types
<1>1. ASSUME NEW t \in Admins, NEW b \in Appenders, NEW f \in OwnFormats,
             AppenderSetFormatter(t, b, f)
      PROVE  a = b
  BY <1>0, <1>1 DEF AppenderSetFormatter
<1>2. ASSUME NEW t \in Admins, AdminNext(t)
      PROVE  \E b \in Appenders, f \in OwnFormats : AppenderSetFormatter(t, b, f)
  BY <1>2
  DEF AdminNext, GetLogger, SetFormatter, Inherit, FormatEnd, AddTest, AddFormat, AddPush,
      delAppender, clearAppenders, formats
<1>3. ASSUME NEW t \in Writers, WriterNext(t) PROVE FALSE
  BY <1>3
  DEF WriterNext, NewEvent, LogBegin, LogDrop, LogRoot, LogSkip, FileTest, FileReopen,
      FileStamp, Write, LogEnd, formats
<1>4. CASE Tick \/ UNCHANGED vars BY <1>4 DEF Tick, formats, vars
<1> QED BY <1>1, <1>2, <1>3, <1>4 DEF Next

-----------------------------------------------------------------------------
(***************************************************************************)
(* An appender that is not shared is in one logger at most, counting the   *)
(* one it is being added to; and the loop of a call goes over appenders of *)
(* its own logger, as the logger is locked meanwhile.                      *)
(***************************************************************************)
At(a, l) == \/ Contains(m_appenders[l], a)
            \/ \E t \in Threads : Adding(t) /\ arg[t] = a /\ lg[t] = l
InLoop(t) == Looping(t) \/ pc[t] = "format"

HomeInv ==
    /\ \A a \in Appenders \ Shared : \A l, k \in Loggers : At(a, l) /\ At(a, k) => l = k
    /\ \A t \in Threads : InLoop(t) =>
          \A a \in Appenders : Contains(todo[t], a) => Contains(m_appenders[lg[t]], a)

\* The lock of a logger keeps its list of appenders as it is for the loop.
LEMMA HeldStep ==
  ASSUME TypeInv, [Next]_vars, NEW u \in Threads, InLoop(u)
  PROVE  /\ \A a \in Appenders : Contains(m_appenders[lg[u]], a)
                                   => Contains(m_appenders'[lg[u]], a)
         /\ m_mutex[lg[u]] = u /\ u # NoThread /\ lg[u] \in Loggers
<1>1. m_mutex[lg[u]] = u /\ u # NoThread /\ lg[u] \in Loggers
  BY LoggerAssumption DEF InLoop, Looping, TypeInv, Types
<1>2. ~Free(lg[u]) BY <1>1 DEF Free
<1>3. ASSUME NEW t \in Admins, arg[t] \in Appenders,
             m_appenders'[lg[u]] = Append(m_appenders[lg[u]], arg[t])
      PROVE  \A a \in Appenders : Contains(m_appenders[lg[u]], a)
                                    => Contains(m_appenders'[lg[u]], a)
  <2>1. m_appenders[lg[u]] \in Seq(Appenders) BY <1>1 DEF TypeInv, Types
  <2> QED BY <1>3, <2>1, AppendFacts
<1> QED BY <1>1, <1>2, <1>3, AppendersStep

\* A loop starts when a lock is taken, and goes on with what it has left.
LEMMA LoopStep ==
  ASSUME TypeInv, [Next]_vars, NEW u \in Threads, InLoop(u)'
  PROVE  \/ /\ InLoop(u) /\ lg'[u] = lg[u]
            /\ todo'[u] = todo[u] \/ (todo[u] # <<>> /\ todo'[u] = Tail(todo[u]))
         \/ todo'[u] = m_appenders'[lg'[u]] /\ lg'[u] \in Loggers
<1> USE DEF InLoop, Looping
<1>0. /\ DOMAIN pc = Threads /\ DOMAIN lg = Threads /\ DOMAIN todo = Threads
      /\ lg \in [Threads -> Loggers] /\ Root \in Loggers
  BY DEF TypeInv, Types, Loggers
<1>1. ASSUME u \in Admins, AdminNext(u)
      PROVE  \/ /\ InLoop(u) /\ lg'[u] = lg[u]
                /\ todo'[u] = todo[u] \/ (todo[u] # <<>> /\ todo'[u] = Tail(todo[u]))
             \/ todo'[u] = m_appenders'[lg'[u]] /\ lg'[u] \in Loggers
  BY <1>0, <1>1
  DEF AdminNext, GetLogger, AppenderSetFormatter, SetFormatter, Inherit, FormatEnd, AddTest,
      AddFormat, AddPush, delAppender, clearAppenders, Goto, admin, local
<1>2. ASSUME u \in Writers, WriterNext(u)
      PROVE  \/ /\ InLoop(u) /\ lg'[u] = lg[u]
                /\ todo'[u] = todo[u] \/ (todo[u] # <<>> /\ todo'[u] = Tail(todo[u]))
             \/ todo'[u] = m_appenders'[lg'[u]] /\ lg'[u] \in Loggers
  <2>1. CASE Write(u)
    <3>1. InLoop(u) /\ todo[u] # <<>> /\ todo'[u] = Tail(todo[u]) BY <2>1, <1>2, WriteFacts
    <3> QED BY <1>0, <2>1, <3>1 DEF Write
  <2>2. CASE LogBegin(u) \/ LogRoot(u) BY <1>0, <2>2 DEF LogBegin, LogRoot, Goto, admin
  <2> QED BY <1>0, <1>2, <2>1, <2>2
      DEF WriterNext, NewEvent, LogDrop, LogSkip, FileTest, FileReopen, FileStamp, LogEnd,
          Next1, Goto
<1> HIDE DEF InLoop, Looping
<1>3. CASE Tick \/ UNCHANGED vars BY <1>3 DEF Tick, local, vars, InLoop, Looping
<1>4. ASSUME Stays(u) PROVE InLoop(u) /\ lg'[u] = lg[u] /\ todo'[u] = todo[u]
  BY <1>4 DEF Stays, InLoop, Looping
<1>5. ASSUME NEW t \in Admins, AdminNext(t), t # u PROVE Stays(u) BY <1>5, OthersStay
<1>6. ASSUME NEW t \in Writers, WriterNext(t), t # u PROVE Stays(u) BY <1>6, OthersStay
<1> QED BY <1>1, <1>2, <1>3, <1>4, <1>5, <1>6 DEF Next

\* addAppender is the only way into a logger.
LEMMA AtStep ==
  ASSUME TypeInv, [Next]_vars, NEW a \in Appenders
  PROVE  \/ \A k \in Loggers : At(a, k)' => At(a, k)
         \/ \E t \in Threads, l \in Loggers :
               AddTest(t, l, a) /\ \A k \in Loggers : At(a, k)' => At(a, k) \/ k = l
<1>0. m_appenders \in [Loggers -> Seq(Appenders)] /\ Admins \subseteq Threads
  BY DEF TypeInv, Types, Threads
\* What is attached was being added.
<1>1. ASSUME NEW k \in Loggers, Contains(m_appenders'[k], a) PROVE At(a, k)
  <2>1. ASSUME NEW t \in Admins, lg[t] = k, pc[t] = "push", arg[t] \in Appenders,
               m_appenders'[k] = Append(m_appenders[k], arg[t])
        PROVE  At(a, k)
    <3>1. m_appenders[k] \in Seq(Appenders) BY <1>0
    <3>2. Contains(m_appenders[k], a) \/ a = arg[t] BY <1>1, <2>1, <3>1, AppendFacts
    <3> QED BY <1>0, <2>1, <3>2 DEF At, Adding
  <2> QED BY <1>1, <2>1, AppendersStep DEF At
<1>2. ASSUME NEW k \in Loggers, NEW u \in Threads, Adding(u)', arg'[u] = a, lg'[u] = k
      PROVE  At(a, k) \/ AddTest(u, k, a)
  BY <1>2, AddingStep DEF At
<1>3. CASE \E u \in Threads, k \in Loggers : AddTest(u, k, a)
  <2>1. PICK t \in Threads, l \in Loggers : AddTest(t, l, a) BY <1>3
  <2>2. /\ \A u \in Threads \ {t} : Stays(u)
        /\ lg'[t] = l
    BY <2>1 DEF AddTest, Goto, Stays, TypeInv, Types
  <2>3. ASSUME NEW k \in Loggers, At(a, k)', ~At(a, k) PROVE k = l
    <3>1. PICK u \in Threads : Adding(u)' /\ arg'[u] = a /\ lg'[u] = k BY <1>1, <2>3 DEF At
    <3>2. CASE u # t
      <4>1. Adding(u) /\ arg[u] = a /\ lg[u] = k BY <2>2, <3>1, <3>2 DEF Stays, Adding
      <4> QED BY <2>3, <4>1 DEF At
    <3> QED BY <2>2, <3>1, <3>2
  <2> QED BY <2>1, <2>3
<1>4. CASE \A u \in Threads, k \in Loggers : ~AddTest(u, k, a)
  <2> SUFFICES ASSUME NEW k \in Loggers, At(a, k)' PROVE At(a, k) OBVIOUS
  <2>1. Contains(m_appenders'[k], a) \/ \E u \in Threads : Adding(u)' /\ arg'[u] = a /\ lg'[u] = k
    BY DEF At
  <2> QED BY <1>1, <1>2, <1>4, <2>1
<1> QED BY <1>3, <1>4

\* Every step keeps each appender in its logger.
LEMMA HomeStep == TypeInv /\ HomeInv /\ [Next]_vars => HomeInv'
<1> SUFFICES ASSUME TypeInv, HomeInv, [Next]_vars PROVE HomeInv' OBVIOUS
<1>0. todo \in [Threads -> Seq(Appenders)] BY DEF TypeInv, Types
<1>1. ASSUME NEW a \in Appenders \ Shared, NEW l \in Loggers, NEW k \in Loggers,
             At(a, l)', At(a, k)'
      PROVE  l = k
  <2>1. CASE \A j \in Loggers : At(a, j)' => At(a, j) BY <1>1, <2>1 DEF HomeInv
  <2>2. ASSUME NEW t \in Threads, NEW h \in Loggers, AddTest(t, h, a),
               \A j \in Loggers : At(a, j)' => At(a, j) \/ j = h
        PROVE  l = k
    <3>1. \A j \in Loggers : ~At(a, j)
      BY <2>2 DEF AddTest, MayAdd, Attached, At, Adding
    <3> QED BY <1>1, <2>2, <3>1
  <2> QED BY <2>1, <2>2, AtStep
<1>2. ASSUME NEW u \in Threads, InLoop(u)', NEW a \in Appenders, Contains(todo'[u], a)
      PROVE  Contains(m_appenders'[lg'[u]], a)
  <2>1. CASE /\ InLoop(u) /\ lg'[u] = lg[u]
             /\ todo'[u] = todo[u] \/ (todo[u] # <<>> /\ todo'[u] = Tail(todo[u]))
    <3>1. Contains(todo[u], a) BY <1>0, <1>2, <2>1, TailFacts
    <3>2. Contains(m_appenders[lg[u]], a) BY <2>1, <3>1 DEF HomeInv
    <3> QED BY <2>1, <3>2, HeldStep
  <2> QED BY <1>2, <2>1, LoopStep
<1> QED BY <1>1, <1>2 DEF HomeInv

\* No appender is attached at the start.
LEMMA HomeInit == Init => HomeInv
<1> SUFFICES ASSUME Init PROVE HomeInv OBVIOUS
<1>1. \A l \in Loggers \ {Root} : m_appenders[l] = <<>> BY DEF Init
<1>2. \A a \in Appenders, l \in Loggers : At(a, l) => l = Root
  <2>1. \A t \in Threads : ~Adding(t) BY DEF Init, Adding
  <2>2. \A a : ~Contains(<<>>, a) BY DEF Contains
  <2> QED BY <1>1, <2>1, <2>2 DEF At
<1>3. \A t \in Threads : ~InLoop(t) BY DEF Init, InLoop, Looping
<1> QED BY <1>2, <1>3 DEF HomeInv

\* The loops of two threads do not have an appender in common that is in one
\* logger only: they would hold the same lock.
LEMMA LoopsApart ==
  ASSUME TypeInv, HomeInv, NEW t \in Threads, NEW u \in Threads, InLoop(t), InLoop(u),
         NEW a \in Appenders \ Shared, Contains(todo[t], a), Contains(todo[u], a)
  PROVE  t = u
<1>1. lg[t] \in Loggers /\ lg[u] \in Loggers BY DEF TypeInv, Types
<1>2. lg[t] = lg[u] BY <1>1 DEF HomeInv, At
<1> QED BY <1>2 DEF InLoop, Looping, TypeInv, Types

-----------------------------------------------------------------------------
\* addAppender is in its region between asking for a formatter and storing one
\* only with an appender that is in no logger, if it is in one at a time.
LEMMA GivenBeforeAttached ==
  ASSUME TypeInv, ListsInv, HomeInv, NEW t \in Threads, pc[t] = "add",
         arg[t] \in Appenders \ Shared
  PROVE  Attached(arg[t]) = {}
<1>1. lg[t] \in Loggers /\ At(arg[t], lg[t]) BY DEF TypeInv, Types, At, Adding
<1>2. ~Contains(m_appenders[lg[t]], arg[t]) BY DEF ListsInv, Adding
<1>3. ASSUME NEW l \in Loggers, Contains(m_appenders[l], arg[t]) PROVE FALSE
  <2>1. At(arg[t], l) BY <1>3 DEF At
  <2>2. l = lg[t] BY <1>1, <2>1 DEF HomeInv
  <2> QED BY <1>2, <1>3, <2>2
<1> QED BY <1>3 DEF Attached

(***************************************************************************)
(* A formatter that LogAppender::setFormatter gave an attached appender is *)
(* replaced by that function only, for any number of threads that change   *)
(* loggers: the loop of Logger::setFormatter asks and stores in one region *)
(* of the appender's lock, and addAppender, which does so in two, is past  *)
(* them when the appender is attached.                                     *)
(***************************************************************************)
THEOREM OwnFormattersKept == Spec => OwnFormatterKept
<1>1. Init => TypeInv /\ ListsInv /\ HomeInv BY InitTypeInv, EventInit, HomeInit
<1>2. TypeInv /\ ListsInv /\ HomeInv /\ [Next]_vars => (TypeInv /\ ListsInv /\ HomeInv)'
  BY TypeInvStep, ListsStep, HomeStep
<1>3. TypeInv /\ ListsInv /\ HomeInv /\ [Next]_vars =>
        [\A a \in Appenders \ Shared :
            Attached(a) # {} /\ m_hasFormatter[a] /\ m_formatter'[a] # m_formatter[a]
              => \E t \in Admins, f \in OwnFormats : AppenderSetFormatter(t, a, f)]_vars
  <2> SUFFICES ASSUME TypeInv, ListsInv, HomeInv, [Next]_vars, NEW a \in Appenders \ Shared,
                      Attached(a) # {}, m_hasFormatter[a], m_formatter'[a] # m_formatter[a]
               PROVE  \E t \in Admins, f \in OwnFormats : AppenderSetFormatter(t, a, f)
    OBVIOUS
  <2>1. a \notin Loggers BY LoggerAssumption
  <2>2. ASSUME NEW t \in Admins, AddFormat(t), a = arg[t] PROVE FALSE
    BY <2>2, GivenBeforeAttached DEF AddFormat, Threads
  <2> QED BY <2>1, <2>2, FormatterStep
<1> QED BY <1>1, <1>2, <1>3, PTL DEF Spec, OwnFormatterKept

-----------------------------------------------------------------------------
(***************************************************************************)
(* The formatter of a logger reaches its appenders.  This takes appenders  *)
(* that stay in the one logger they are added to: one that is detached and *)
(* added to another logger keeps the formatter of the first, which         *)
(* addAppender takes for the appender's.                                   *)
(***************************************************************************)
Settled == Shared = {} /\ Detachable = {}

\* setFormatter of l is on its way to a.
Handing(l, a) == \E t \in Threads : pc[t] = "format" /\ lg[t] = l /\ Contains(todo[t], a)

InheritInv ==
    /\ \A l \in Loggers, a \in Appenders :
          Contains(m_appenders[l], a) /\ ~m_hasFormatter[a]
            => m_formatter[a] = m_formatter[l] \/ Handing(l, a)
    /\ \A t \in Threads :
          pc[t] = "push" /\ ~m_hasFormatter[arg[t]] => m_formatter[arg[t]] = m_formatter[lg[t]]
    /\ \A a \in Appenders :
          (\A l \in Loggers : ~At(a, l)) /\ ~m_hasFormatter[a] => m_formatter[a] = NoFormatter

\* A formatter of its own is not taken from an appender, and an appender
\* without one gets a formatter from a logger it is in.
LEMMA GivenStep ==
  ASSUME NoNull, TypeInv, [Next]_vars, NEW a \in Appenders, ~m_hasFormatter'[a]
  PROVE  /\ ~m_hasFormatter[a]
         /\ m_formatter'[a] # m_formatter[a] =>
              \E t \in Admins :
                 /\ m_formatter'[a] = m_formatter[lg[t]]
                 /\ \A l \in Loggers : m_formatter'[l] = m_formatter[l]
                 /\ \/ /\ InLoop(t) /\ pc[t] = "format" /\ Contains(todo[t], a)
                       /\ Inherit(t) /\ a = Head(todo[t])
                    \/ AddFormat(t) /\ pc[t] = "add" /\ arg[t] = a
<1>0. /\ DOMAIN m_hasFormatter = Appenders /\ todo \in [Threads -> Seq(Appenders)]
      /\ Admins \subseteq Threads /\ a \notin Loggers
  BY LoggerAssumption DEF TypeInv, Types, Threads
<1>1. ASSUME NEW t \in Admins, NEW f \in OwnFormats, AppenderSetFormatter(t, a, f) PROVE FALSE
  BY <1>0, <1>1 DEF AppenderSetFormatter, NoNull
<1>2. ~m_hasFormatter[a]
  <2>1. CASE m_hasFormatter'[a] = m_hasFormatter[a] BY <2>1
  <2>2. CASE m_hasFormatter'[a] # m_hasFormatter[a] BY <1>1, <2>2, OwnStep
  <2> QED BY <2>1, <2>2
<1>3. ASSUME NEW t \in Admins, Inherit(t), a = Head(todo[t])
      PROVE  InLoop(t) /\ pc[t] = "format" /\ Contains(todo[t], a)
  <2>1. pc[t] = "format" /\ todo[t] # <<>> /\ todo[t] \in Seq(Appenders)
    BY <1>0, <1>3 DEF Inherit
  <2> QED BY <1>3, <2>1, TailFacts DEF InLoop
<1>4. \A t \in Admins : AddFormat(t) => pc[t] = "add" BY DEF AddFormat
<1> QED BY <1>0, <1>1, <1>2, <1>3, <1>4, FormatterStep

\* The formatter of a logger is changed by its own setFormatter, which finds
\* the logger free and goes on to all of its appenders.
LEMMA LoggerFormatStep ==
  ASSUME TypeInv, [Next]_vars, NEW l \in Loggers, m_formatter'[l] # m_formatter[l]
  PROVE  /\ Free(l) /\ m_appenders' = m_appenders
         /\ \E t \in Threads : pc'[t] = "format" /\ lg'[t] = l /\ todo'[t] = m_appenders[l]
<1>0. /\ l \notin Appenders /\ Admins \subseteq Threads
      /\ DOMAIN pc = Threads /\ DOMAIN lg = Threads /\ DOMAIN todo = Threads
  BY LoggerAssumption DEF TypeInv, Types, Threads
<1>1. PICK t \in Admins, f \in Formatters : SetFormatter(t, l, f) BY <1>0, FormatterStep
<1> QED BY <1>0, <1>1 DEF SetFormatter, Goto, admin

\* What is in a logger, or on its way, stays.
LEMMA AtStays ==
  ASSUME Settled, TypeInv, [Next]_vars, NEW a \in Appenders, NEW l \in Loggers, At(a, l)
  PROVE  At(a, l)'
<1>0. /\ m_appenders \in [Loggers -> Seq(Appenders)] /\ Admins \subseteq Threads
      /\ DOMAIN pc = Threads /\ DOMAIN lg = Threads /\ DOMAIN arg = Threads
      /\ lg \in [Threads -> Loggers]
  BY DEF TypeInv, Types, Threads
<1>1. ASSUME NEW k \in Loggers, Contains(m_appenders[k], a) PROVE Contains(m_appenders'[k], a)
  <2>1. ASSUME NEW t \in Admins, AddPush(t) PROVE Contains(m_appenders'[k], a)
    <3>1. lg[t] \in Loggers /\ arg[t] \in Appenders
      BY <1>0, <2>1 DEF AddPush, TypeInv, ArgOK
    <3>2. Contains(Append(m_appenders[k], arg[t]), a)
      <4>1. m_appenders[k] \in Seq(Appenders) BY <1>0
      <4> QED BY <1>1, <3>1, <4>1, AppendFacts
    <3> QED BY <1>0, <1>1, <2>1, <3>2 DEF AddPush
  <2>2. ASSUME NEW t \in Admins, NEW h \in Loggers, clearAppenders(t, h)
        PROVE  Contains(m_appenders'[k], a)
    <3>1. CASE h = k
      <4>1. ToSet(m_appenders[k]) = {} BY <2>2, <3>1 DEF clearAppenders, Settled
      <4>2. m_appenders[k] \in Seq(Appenders) BY <1>0
      <4>3. PICK i \in 1..Len(m_appenders[k]) : m_appenders[k][i] = a BY <1>1 DEF Contains
      <4>4. a \in ToSet(m_appenders[k]) BY <4>2, <4>3 DEF ToSet
      <4> QED BY <4>1, <4>4
    <3>2. CASE h # k
      <4>1. m_appenders'[k] = m_appenders[k] BY <1>0, <2>2, <3>2 DEF clearAppenders
      <4> QED BY <1>1, <4>1
    <3> QED BY <3>1, <3>2
  <2>3. ASSUME NEW t \in Admins, AdminNext(t)
        PROVE  \/ m_appenders' = m_appenders \/ AddPush(t)
               \/ \E h \in Loggers : clearAppenders(t, h)
    BY <2>3
    DEF AdminNext, GetLogger, AppenderSetFormatter, SetFormatter, Inherit, FormatEnd,
        AddTest, AddFormat, admin, Settled
  <2>4. ASSUME NEW t \in Writers, WriterNext(t) PROVE m_appenders' = m_appenders
    BY <2>4
    DEF WriterNext, NewEvent, LogBegin, LogDrop, LogRoot, LogSkip, FileTest, FileReopen,
        FileStamp, Write, LogEnd, admin
  <2>5. CASE Tick \/ UNCHANGED vars BY <1>1, <2>5 DEF Tick, admin, vars
  <2> QED BY <1>1, <2>1, <2>2, <2>3, <2>4, <2>5 DEF Next
<1>2. ASSUME NEW u \in Threads, Adding(u), arg[u] = a, lg[u] = l PROVE At(a, l)'
  <2>1. CASE Adding(u)' /\ arg'[u] = a /\ lg'[u] = l BY <2>1 DEF At
  <2>2. CASE AddPush(u)
    <3>1. m_appenders'[l] = Append(m_appenders[l], a) BY <1>0, <1>2, <2>2 DEF AddPush
    <3>2. m_appenders[l] \in Seq(Appenders) BY <1>0
    <3> QED BY <3>1, <3>2, AppendFacts DEF At
  <2>3. ASSUME u \in Admins, AdminNext(u), ~AddPush(u)
        PROVE  Adding(u)' /\ arg'[u] = a /\ lg'[u] = l
    BY <1>0, <1>2, <2>3
    DEF AdminNext, GetLogger, AppenderSetFormatter, SetFormatter, Inherit, FormatEnd, AddTest,
        AddFormat, delAppender, clearAppenders, Goto, local, Adding
  <2>4. ASSUME u \in Writers, WriterNext(u) PROVE FALSE
    BY <1>2, <2>4
    DEF WriterNext, NewEvent, LogBegin, LogDrop, LogRoot, LogSkip, FileTest, FileReopen,
        FileStamp, Write, LogEnd, Adding
  <2>5. ASSUME Stays(u) PROVE Adding(u)' /\ arg'[u] = a /\ lg'[u] = l
    BY <1>2, <2>5 DEF Stays, Adding
  <2>6. CASE Tick \/ UNCHANGED vars
    <3>1. Stays(u) BY <2>6 DEF Tick, local, vars, Stays
    <3> QED BY <2>1, <2>5, <3>1
  <2>7. ASSUME NEW t \in Admins, AdminNext(t), t # u PROVE Stays(u) BY <2>7, OthersStay
  <2>8. ASSUME NEW t \in Writers, WriterNext(t), t # u PROVE Stays(u) BY <2>8, OthersStay
  <2> QED BY <2>1, <2>2, <2>3, <2>4, <2>5, <2>6, <2>7, <2>8 DEF Next
<1> QED BY <1>1, <1>2 DEF At


\* Every step keeps formatters inherited, or being handed on.
LEMMA InheritStep ==
  ASSUME NoNull, Settled
  PROVE  TypeInv /\ ListsInv /\ HomeInv /\ InheritInv /\ [Next]_vars => InheritInv'
<1> SUFFICES ASSUME TypeInv, ListsInv, HomeInv, InheritInv, [Next]_vars PROVE InheritInv'
  OBVIOUS
<1>0. /\ todo \in [Threads -> Seq(Appenders)] /\ lg \in [Threads -> Loggers]
      /\ Admins \subseteq Threads /\ Shared = {} /\ Loggers \cap Appenders = {}
      /\ DOMAIN pc = Threads /\ DOMAIN m_formatter = Loggers \cup Appenders
  BY LoggerAssumption DEF TypeInv, Types, Threads, Settled
\* Who adds an appender and who hands its formatter over hold a lock, and it
\* is not the same one.
<1>a. ASSUME NEW u \in Threads, Adding(u), arg[u] \in Appenders, NEW t \in Threads,
             \/ InLoop(t) /\ Contains(todo[t], arg[u])
             \/ t # u /\ Adding(t) /\ arg[t] = arg[u]
      PROVE  FALSE
  <2>1. At(arg[u], lg[u]) BY <1>a DEF At
  <2>2. CASE InLoop(t) /\ Contains(todo[t], arg[u])
    <3>1. Contains(m_appenders[lg[t]], arg[u]) BY <1>a, <2>2 DEF HomeInv
    <3>2. lg[t] = lg[u] BY <1>0, <1>a, <2>1, <3>1 DEF HomeInv, At
    <3> QED BY <1>a, <3>1, <3>2 DEF ListsInv
  <2>3. CASE t # u /\ Adding(t) /\ arg[t] = arg[u]
    <3>1. lg[t] = lg[u] BY <1>0, <1>a, <2>1, <2>3 DEF HomeInv, At
    <3> QED BY <1>a, <2>3, <3>1 DEF Adding, TypeInv, Types
  <2> QED BY <1>a, <2>2, <2>3
<1>1. ASSUME NEW l \in Loggers, NEW a \in Appenders,
             Contains(m_appenders'[l], a), ~m_hasFormatter'[a]
      PROVE  m_formatter'[a] = m_formatter'[l] \/ Handing(l, a)'
  <2>0. ~m_hasFormatter[a] BY <1>1, GivenStep
  <2>1. CASE Contains(m_appenders[l], a)
    <3>1. CASE m_formatter'[a] # m_formatter[a]
      <4>1. PICK t \in Admins :
               /\ m_formatter'[a] = m_formatter[lg[t]]
               /\ \A k \in Loggers : m_formatter'[k] = m_formatter[k]
               /\ \/ InLoop(t) /\ Contains(todo[t], a)
                  \/ AddFormat(t) /\ pc[t] = "add" /\ arg[t] = a
        BY <1>1, <3>1, GivenStep
      <4>2. CASE InLoop(t) /\ Contains(todo[t], a)
        <5>1. Contains(m_appenders[lg[t]], a) BY <1>0, <4>2 DEF HomeInv
        <5>2. lg[t] = l BY <1>0, <2>1, <5>1 DEF HomeInv, At
        <5> QED BY <4>1, <5>2
      <4>3. CASE pc[t] = "add" /\ arg[t] = a
        <5>1. lg[t] = l BY <1>0, <2>1, <4>3 DEF HomeInv, At, Adding
        <5> QED BY <1>0, <2>1, <4>3, <5>1 DEF ListsInv, Adding
      <4> QED BY <4>1, <4>2, <4>3
    <3>2. CASE m_formatter'[l] # m_formatter[l]
      <4>1. /\ m_appenders' = m_appenders
            /\ \E t \in Threads : pc'[t] = "format" /\ lg'[t] = l /\ todo'[t] = m_appenders[l]
        BY <3>2, LoggerFormatStep
      <4> QED BY <2>1, <4>1 DEF Handing
    <3>3. CASE m_formatter'[a] = m_formatter[a] /\ m_formatter'[l] = m_formatter[l]
      <4>1. CASE m_formatter[a] = m_formatter[l] BY <3>3, <4>1
      <4>2. ASSUME NEW t \in Threads, pc[t] = "format", lg[t] = l, Contains(todo[t], a)
            PROVE  m_formatter'[a] = m_formatter'[l] \/ Handing(l, a)'
        <5>1. CASE Stays(t) BY <4>2, <5>1 DEF Stays, Handing
        <5>2. CASE Inherit(t)
          <6>1. CASE a = Head(todo[t])
            <7>1. m_formatter'[a] = m_formatter[l]
              BY <1>0, <2>0, <4>2, <5>2, <6>1 DEF Inherit
            <7> QED BY <3>3, <7>1
          <6>2. CASE a # Head(todo[t])
            <7>1. todo[t] \in Seq(Appenders) /\ todo[t] # <<>> BY <1>0, <5>2 DEF Inherit
            <7>2. Contains(Tail(todo[t]), a) BY <4>2, <6>2, <7>1, TailFacts
            <7>3. pc'[t] = "format" /\ lg'[t] = l /\ todo'[t] = Tail(todo[t])
              BY <1>0, <4>2, <5>2 DEF Inherit
            <7> QED BY <7>2, <7>3 DEF Handing
          <6> QED BY <6>1, <6>2
        <5>3. todo[t] # <<>> BY <4>2 DEF Contains
        <5>4. ASSUME t \in Admins, AdminNext(t) PROVE Stays(t) \/ Inherit(t)
          BY <4>2, <5>3, <5>4
          DEF AdminNext, GetLogger, AppenderSetFormatter, SetFormatter, FormatEnd, AddTest,
              AddFormat, AddPush, delAppender, clearAppenders, local, Stays
        <5>5. ASSUME t \in Writers, WriterNext(t) PROVE FALSE
          BY <4>2, <5>5
          DEF WriterNext, NewEvent, LogBegin, LogDrop, LogRoot, LogSkip, FileTest, FileReopen,
              FileStamp, Write, LogEnd
        <5>6. CASE Tick \/ UNCHANGED vars BY <5>1, <5>6 DEF Tick, local, vars, Stays
        <5>7. ASSUME NEW u \in Admins, AdminNext(u), u # t PROVE Stays(t) BY <5>7, OthersStay
        <5>8. ASSUME NEW u \in Writers, WriterNext(u), u # t PROVE Stays(t) BY <5>8, OthersStay
        <5> QED BY <5>1, <5>2, <5>4, <5>5, <5>6, <5>7, <5>8 DEF Next
      <4> QED BY <2>0, <2>1, <4>1, <4>2 DEF InheritInv, Handing
    <3> QED BY <3>1, <3>2, <3>3
  <2>2. CASE ~Contains(m_appenders[l], a)
    <3>1. PICK t \in Admins : /\ AddPush(t) /\ lg[t] = l /\ pc[t] = "push" /\ arg[t] \in Appenders
                              /\ m_appenders'[l] = Append(m_appenders[l], arg[t])
      BY <1>1, <2>2, AppendersStep
    <3>2. m_appenders[l] \in Seq(Appenders) BY DEF TypeInv, Types
    <3>3. a = arg[t] BY <1>1, <2>2, <3>1, <3>2, AppendFacts
    <3>4. m_formatter[a] = m_formatter[l] BY <1>0, <2>0, <3>1, <3>3 DEF InheritInv
    <3>5. m_formatter' = m_formatter BY <3>1 DEF AddPush, formats
    <3> QED BY <3>4, <3>5
  <2> QED BY <2>1, <2>2
<1>2. ASSUME NEW u \in Threads, pc'[u] = "push", NEW a, a = arg'[u], ~m_hasFormatter'[a]
      PROVE  m_formatter'[a] = m_formatter'[lg'[u]]
  <2>0. a \in Appenders BY <1>2, TypeInvStep DEF TypeInv, ArgOK
  <2>1. ~m_hasFormatter[a] BY <1>2, <2>0, GivenStep
  <2>2. CASE AddTest(u, lg'[u], a) /\ lg'[u] \in Loggers
    <3>1. /\ m_formatter' = m_formatter /\ m_formatter[a] # NoFormatter
          /\ MayAdd(lg'[u], a)
      BY <1>0, <1>2, <2>2 DEF AddTest, Goto, formats
    <3>2. \A k \in Loggers : ~At(a, k)
      BY <1>0, <3>1 DEF MayAdd, Attached, At, Adding
    <3> QED BY <2>0, <2>1, <3>1, <3>2 DEF InheritInv
  <2>3. CASE Adding(u) /\ lg'[u] = lg[u] /\ a = arg[u]
    <3>1. m_formatter'[lg[u]] = m_formatter[lg[u]]
      <4>1. m_mutex[lg[u]] = u /\ u # NoThread /\ lg[u] \in Loggers
        BY <1>0, <2>3, LoggerAssumption DEF Adding, TypeInv, Types
      <4> QED BY <4>1, LoggerFormatStep DEF Free
    <3>2. CASE m_formatter'[a] # m_formatter[a]
      <4>1. PICK t \in Admins :
               /\ m_formatter'[a] = m_formatter[lg[t]]
               /\ \/ InLoop(t) /\ Contains(todo[t], a)
                  \/ AddFormat(t) /\ pc[t] = "add" /\ arg[t] = a
        BY <1>2, <2>0, <3>2, GivenStep
      <4>2. t = u BY <1>0, <1>a, <2>0, <2>3, <4>1 DEF Adding
      <4> QED BY <2>3, <3>1, <4>1, <4>2
    <3>3. CASE m_formatter'[a] = m_formatter[a]
      <4>1. CASE pc[u] = "push"
        BY <2>1, <2>3, <3>1, <3>3, <4>1 DEF InheritInv
      <4>2. CASE pc[u] = "add"
        <5>1. AddFormat(u)
          <6>1. ASSUME Stays(u) PROVE FALSE BY <1>2, <4>2, <6>1 DEF Stays
          <6>2. ASSUME u \in Admins, AdminNext(u) PROVE AddFormat(u)
            BY <1>2, <4>2, <6>1, <6>2
            DEF AdminNext, GetLogger, AppenderSetFormatter, SetFormatter, Inherit, FormatEnd,
                AddTest, AddPush, delAppender, clearAppenders, local, Stays
          <6>3. ASSUME u \in Writers, WriterNext(u) PROVE FALSE
            BY <4>2, <6>3
            DEF WriterNext, NewEvent, LogBegin, LogDrop, LogRoot, LogSkip, FileTest,
                FileReopen, FileStamp, Write, LogEnd
          <6>4. CASE Tick \/ UNCHANGED vars BY <6>1, <6>4 DEF Tick, local, vars, Stays
          <6>5. ASSUME NEW t \in Admins, AdminNext(t), t # u PROVE FALSE
            BY <6>1, <6>5, OthersStay
          <6>6. ASSUME NEW t \in Writers, WriterNext(t), t # u PROVE FALSE
            BY <6>1, <6>6, OthersStay
          <6> QED BY <6>2, <6>3, <6>4, <6>5, <6>6 DEF Next
        <5>2. m_formatter'[a] = m_formatter[lg[u]]
          BY <1>0, <2>0, <2>3, <5>1 DEF AddFormat
        <5> QED BY <2>3, <3>1, <5>2
      <4> QED BY <2>3, <4>1, <4>2 DEF Adding
    <3> QED BY <3>2, <3>3
  <2>4. Adding(u)' BY <1>2 DEF Adding
  <2> QED BY <1>2, <2>2, <2>3, <2>4, AddingStep
<1>3. ASSUME NEW a \in Appenders, \A l \in Loggers : ~At(a, l)', ~m_hasFormatter'[a]
      PROVE  m_formatter'[a] = NoFormatter
  <2>1. \A l \in Loggers : ~At(a, l) BY <1>3, AtStays
  <2>2. ~m_hasFormatter[a] /\ m_formatter[a] = NoFormatter
    BY <1>3, <2>1, GivenStep DEF InheritInv
  <2>3. ASSUME NEW t \in Admins, InLoop(t) /\ Contains(todo[t], a) PROVE FALSE
    BY <1>0, <2>1, <2>3 DEF HomeInv, At
  <2>4. ASSUME NEW t \in Admins, pc[t] = "add" /\ arg[t] = a PROVE FALSE
    BY <1>0, <2>1, <2>4 DEF At, Adding
  <2> QED BY <1>3, <2>2, <2>3, <2>4, GivenStep
<1> QED BY <1>1, <1>2, <1>3 DEF InheritInv

\* Nothing is inherited at the start.
LEMMA InheritInit == ASSUME Settled PROVE Init => InheritInv
<1> SUFFICES ASSUME Init PROVE InheritInv OBVIOUS
<1>0. Loggers \cap Appenders = {} /\ Root \in Loggers /\ Console \in Appenders
  BY LoggerAssumption DEF Loggers
<1>1. \A l \in Loggers, a \in Appenders :
         Contains(m_appenders[l], a) => l = Root /\ a = Console
  BY DEF Init, Contains
<1>2. m_formatter[Console] = m_formatter[Root] BY <1>0 DEF Init
<1>3. At(Console, Root)
  <2>1. m_appenders[Root] = <<Console>> BY <1>0 DEF Init
  <2> QED BY <2>1 DEF At, Contains
<1>4. \A a \in Appenders \ {Console} : m_formatter[a] = NoFormatter
  BY <1>0 DEF Init
<1> QED BY <1>0, <1>1, <1>2, <1>3, <1>4 DEF InheritInv, Init

\* The invariant of both theorems about inheriting.
LEMMA SettledInv ==
  ASSUME NoNull, Settled
  PROVE  /\ Init => TypeInv /\ ListsInv /\ HomeInv /\ InheritInv
         /\ TypeInv /\ ListsInv /\ HomeInv /\ InheritInv /\ [Next]_vars
              => (TypeInv /\ ListsInv /\ HomeInv /\ InheritInv)'
  BY InitTypeInv, EventInit, HomeInit, InheritInit, TypeInvStep, ListsStep, HomeStep, InheritStep

\* Whenever nobody is inside a logger, its appenders that have no formatter of
\* their own write with the logger's: setFormatter reaches all of them, and
\* addAppender gives the formatter on, whatever other threads do.
THEOREM FormattersInherited == ASSUME NoNull, Settled PROVE Spec => []Inherits
<1>1. TypeInv /\ InheritInv => Inherits
  <2> SUFFICES ASSUME TypeInv, InheritInv, NEW l \in Loggers, NEW a \in Appenders,
                      Contains(m_appenders[l], a), m_mutex[l] = NoThread, ~m_hasFormatter[a]
               PROVE  m_formatter[a] = m_formatter[l]
    BY DEF Inherits
  <2>1. ASSUME NEW t \in Threads, pc[t] = "format", lg[t] = l PROVE FALSE
    <3>1. m_mutex[lg[t]] = t BY <2>1 DEF TypeInv, Types
    <3>2. NoThread \notin Threads BY LoggerAssumption
    <3> QED BY <2>1, <3>1, <3>2
  <2> QED BY <2>1 DEF InheritInv, Handing
<1> QED BY <1>1, SettledInv, PTL DEF Spec


-----------------------------------------------------------------------------
(***************************************************************************)
(* The lines of one event.                                                 *)
(***************************************************************************)
\* A line is there already, or Write makes it.
LEMMA LineStep ==
  ASSUME TypeInv, [Next]_vars, NEW a \in Appenders, NEW i \in DOMAIN out'[a]
  PROVE  \/ i \in DOMAIN out[a] /\ out'[a][i] = out[a][i]
         \/ \E t \in Writers :
               /\ Write(t) /\ Looping(t) /\ Contains(todo[t], a) /\ a = Reached(t)
               /\ out'[a][i].ev = arg[t].ev /\ out'[a][i].time = arg[t].time
               /\ out'[a][i].fmt = m_formatter[a] /\ out'[a][i].own = m_hasFormatter[a]
<1>0. out[a] \in Seq(Line) BY DEF TypeInv, Types
<1>1. CASE out'[a] = out[a] BY <1>1
<1>2. CASE out'[a] = <<>> BY <1>2
<1>3. ASSUME NEW t \in Writers, Write(t), a = Reached(t)
      PROVE  \/ i \in DOMAIN out[a] /\ out'[a][i] = out[a][i]
             \/ /\ Write(t) /\ Looping(t) /\ Contains(todo[t], a)
                /\ out'[a][i].ev = arg[t].ev /\ out'[a][i].time = arg[t].time
                /\ out'[a][i].fmt = m_formatter[a] /\ out'[a][i].own = m_hasFormatter[a]
  <2>1. PICK x \in Line : /\ x.ev = arg[t].ev /\ x.fmt = m_formatter[a]
                          /\ x.own = m_hasFormatter[a] /\ x.time = arg[t].time
                          /\ out'[a] = Append(out[a], x)
    BY <1>3, WriteFacts
  <2>2. Looping(t) /\ Contains(todo[t], a) BY <1>3, WriteFacts
  <2>3. /\ DOMAIN out[a] = 1..Len(out[a]) /\ Len(out[a]) \in Nat
        /\ DOMAIN out'[a] = 1..Len(out[a]) + 1
        /\ out'[a][Len(out[a]) + 1] = x
        /\ \A k \in 1..Len(out[a]) : out'[a][k] = out[a][k]
    BY <1>0, <2>1
  <2>4. i \in DOMAIN out[a] \/ i = Len(out[a]) + 1 BY <2>3
  <2> QED BY <1>3, <2>1, <2>2, <2>3, <2>4
<1> QED BY <1>1, <1>2, <1>3, OutStep

\* The lines of an event that is being logged have the formatter that the
\* logger has, which setFormatter cannot change meanwhile.
LineInv ==
    \A t \in Threads : Looping(t) =>
       \A a \in Appenders : \A i \in DOMAIN out[a] :
          out[a][i].ev = arg[t].ev /\ ~out[a][i].own => out[a][i].fmt = m_formatter[lg[t]]

\* What the loop of log goes on to write.
LEMMA NextLine ==
  ASSUME TypeInv, HomeInv, InheritInv, NEW t \in Threads, Looping(t),
         NEW a \in Appenders, Contains(todo[t], a), ~m_hasFormatter[a]
  PROVE  m_formatter[a] = m_formatter[lg[t]]
<1>1. Contains(m_appenders[lg[t]], a) /\ lg[t] \in Loggers
  BY DEF HomeInv, InLoop, TypeInv, Types
<1>2. ASSUME NEW u \in Threads, pc[u] = "format", lg[u] = lg[t] PROVE FALSE
  BY <1>2 DEF Looping, TypeInv, Types
<1> QED BY <1>1, <1>2 DEF InheritInv, Handing

\* Writing a line keeps events in one format.
LEMMA OneFormatStep ==
  ASSUME TypeInv, HomeInv, InheritInv, EventInv, LineInv, OneFormat, [Next]_vars
  PROVE  LineInv' /\ OneFormat'
<1>0. Writers \subseteq Threads /\ \A t \in Threads : Looping(t) => Logging(t)
  BY DEF Threads, Logging
\* A new line has the formatter of the logger.
<1>1. ASSUME NEW t \in Writers, Looping(t), NEW a \in Appenders, Contains(todo[t], a),
             NEW i, out'[a][i].fmt = m_formatter[a], out'[a][i].own = m_hasFormatter[a],
             ~out'[a][i].own
      PROVE  out'[a][i].fmt = m_formatter[lg[t]]
  BY <1>0, <1>1, NextLine
\* So all of the lines of an event that is being logged do.
<1>2. ASSUME NEW t \in Threads, Looping(t), NEW a \in Appenders, NEW i \in DOMAIN out'[a],
             out'[a][i].ev = arg[t].ev, ~out'[a][i].own
      PROVE  out'[a][i].fmt = m_formatter[lg[t]]
  <2>1. CASE i \in DOMAIN out[a] /\ out'[a][i] = out[a][i] BY <1>2, <2>1 DEF LineInv
  <2>2. ASSUME NEW u \in Writers,
               Looping(u), Contains(todo[u], a), out'[a][i].ev = arg[u].ev,
               out'[a][i].fmt = m_formatter[a], out'[a][i].own = m_hasFormatter[a]
        PROVE  out'[a][i].fmt = m_formatter[lg[t]]
    <3>1. u = t BY <1>0, <1>2, <2>2 DEF EventInv
    <3> QED BY <1>1, <1>2, <2>2, <3>1
  <2> QED BY <2>1, <2>2, LineStep
<1>3. ASSUME NEW u \in Threads, Looping(u)', NEW a \in Appenders, NEW i \in DOMAIN out'[a],
             out'[a][i].ev = arg'[u].ev, ~out'[a][i].own
      PROVE  out'[a][i].fmt = m_formatter'[lg'[u]]
  <2>1. /\ Logging(u) /\ arg'[u] = arg[u]
    BY <1>3, LoggingStep DEF Logging
  <2>2. CASE Looping(u)
    <3>1. lg'[u] = lg[u]
      <4>1. ASSUME u \in Admins, AdminNext(u) PROVE FALSE
        BY <2>2, <4>1
        DEF AdminNext, GetLogger, AppenderSetFormatter, SetFormatter, Inherit, FormatEnd,
            AddTest, AddFormat, AddPush, delAppender, clearAppenders, Looping
      <4>2. ASSUME u \in Writers, WriterNext(u) PROVE lg'[u] = lg[u]
        BY <2>2, <4>2
        DEF WriterNext, NewEvent, LogBegin, LogDrop, LogRoot, LogSkip, FileTest, FileReopen,
            FileStamp, Write, LogEnd, Looping
      <4>3. CASE Tick \/ UNCHANGED vars BY <4>3 DEF Tick, local, vars
      <4>4. ASSUME NEW t \in Admins, AdminNext(t), t # u PROVE lg'[u] = lg[u]
        BY <4>4, OthersStay DEF Stays
      <4>5. ASSUME NEW t \in Writers, WriterNext(t), t # u PROVE lg'[u] = lg[u]
        BY <4>5, OthersStay DEF Stays
      <4> QED BY <4>1, <4>2, <4>3, <4>4, <4>5 DEF Next
    <3>2. m_formatter'[lg[u]] = m_formatter[lg[u]]
      <4>1. lg[u] \in Loggers /\ ~Free(lg[u]) BY <2>2, HeldStep DEF InLoop, Free
      <4> QED BY <4>1, LoggerFormatStep
    <3> QED BY <1>2, <1>3, <2>1, <2>2, <3>1, <3>2
  <2>3. CASE ~Looping(u)
    <3>1. ~Has(a, arg[u].ev) BY <2>1, <2>3 DEF EventInv, Ahead
    <3>2. out[a] \in Seq(Line) BY DEF TypeInv, Types
    <3>3. ~(i \in DOMAIN out[a] /\ out'[a][i] = out[a][i])
      BY <1>3, <2>1, <3>1, <3>2 DEF Has
    <3>4. PICK t \in Writers : Looping(t) /\ out'[a][i].ev = arg[t].ev BY <3>3, LineStep
    <3>5. t = u BY <1>0, <1>3, <2>1, <3>4 DEF EventInv
    <3> QED BY <2>3, <3>4, <3>5
  <2> QED BY <2>2, <2>3
<1>4. ASSUME NEW a \in Appenders, NEW b \in Appenders,
             NEW i \in DOMAIN out'[a], NEW j \in DOMAIN out'[b],
             out'[a][i].ev = out'[b][j].ev, ~out'[a][i].own, ~out'[b][j].own
      PROVE  out'[a][i].fmt = out'[b][j].fmt
  <2>1. CASE /\ i \in DOMAIN out[a] /\ out'[a][i] = out[a][i]
             /\ j \in DOMAIN out[b] /\ out'[b][j] = out[b][j]
    BY <1>4, <2>1 DEF OneFormat
  <2>2. ASSUME NEW t \in Writers, Looping(t), out'[a][i].ev = arg[t].ev
        PROVE  out'[a][i].fmt = out'[b][j].fmt
    BY <1>0, <1>2, <1>4, <2>2
  <2>3. ASSUME NEW t \in Writers, Looping(t), out'[b][j].ev = arg[t].ev
        PROVE  out'[a][i].fmt = out'[b][j].fmt
    BY <1>0, <1>2, <1>4, <2>3
  <2>4. \/ i \in DOMAIN out[a] /\ out'[a][i] = out[a][i]
        \/ \E t \in Writers : Looping(t) /\ out'[a][i].ev = arg[t].ev
    BY LineStep
  <2>5. \/ j \in DOMAIN out[b] /\ out'[b][j] = out[b][j]
        \/ \E t \in Writers : Looping(t) /\ out'[b][j].ev = arg[t].ev
    BY LineStep
  <2> QED BY <2>1, <2>2, <2>3, <2>4, <2>5
<1>5. LineInv' BY <1>3 DEF LineInv
<1>6. OneFormat' BY <1>4 DEF OneFormat
<1> QED BY <1>5, <1>6

\* The lines of one event in the appenders of a logger have one format, as log
\* and setFormatter of the logger do not overlap: also those in a file that is
\* opened again between two of them, and those of the root logger when the
\* event went there.
THEOREM EventsHaveOneFormat == ASSUME NoNull, Settled PROVE Spec => []OneFormat
<1> DEFINE Inv == /\ TypeInv /\ ListsInv /\ HomeInv /\ InheritInv
                  /\ EventInv /\ LineInv /\ OneFormat
<1>1. Init => Inv
  <2>1. Init => LineInv /\ OneFormat
    BY DEF Init, LineInv, OneFormat, Looping
  <2> QED BY <2>1, SettledInv, EventInit
<1>2. Inv /\ [Next]_vars => Inv' BY SettledInv, EventStep, OneFormatStep
<1>3. Inv => OneFormat OBVIOUS
<1> QED BY <1>1, <1>2, <1>3, PTL DEF Spec


-----------------------------------------------------------------------------
(***************************************************************************)
(* Opening a file again.  FileLogAppender::log compares and stores the     *)
(* time of the last opening outside its lock, so that this takes file      *)
(* appenders that are in one logger, whose lock orders those steps.        *)
(***************************************************************************)
FilesNotShared == FileAppenders \cap Shared = {}

FileInv ==
    /\ \A a \in FileAppenders : \A i \in DOMAIN out[a] : out[a][i].time < m_lastTime[a] + Interval
    /\ \A t \in Threads : pc[t] \in {"reopen", "stamp"} => Due(t)
    /\ \A t \in Threads : pc[t] = "write" => ~Due(t)

\* What a file appender's steps know of it.
LEMMA AtFile ==
  ASSUME FilesNotShared, TypeInv, NEW t \in Threads, pc[t] \in {"reopen", "stamp", "write"}
  PROVE  /\ Looping(t) /\ InLoop(t) /\ Reached(t) \in FileAppenders \ Shared
         /\ Reached(t) \in Appenders \ Shared /\ Contains(todo[t], Reached(t))
         /\ arg[t].time \in Nat /\ m_lastTime[Reached(t)] \in Nat
<1>1. /\ todo[t] # <<>> /\ Head(todo[t]) \in FileAppenders /\ todo[t] \in Seq(Appenders)
      /\ arg[t] \in [ev : Events, time : Times]
  BY DEF TypeInv, Types, ArgOK
<1>2. Contains(todo[t], Reached(t)) BY <1>1, TailFacts DEF Reached
<1>3. Times \subseteq Nat BY LoggerAssumption DEF Times
<1>4. Reached(t) \in FileAppenders \ Shared /\ Reached(t) \in Appenders \ Shared
  BY <1>1, LoggerAssumption DEF Reached, FilesNotShared
<1>5. m_lastTime[Reached(t)] \in Nat
  <2>1. m_lastTime \in [FileAppenders -> {0} \cup Times] BY DEF TypeInv, Types
  <2>2. m_lastTime[Reached(t)] \in {0} \cup Times BY <1>4, <2>1
  <2>3. \A x \in {0} \cup Times : x \in Nat BY <1>3
  <2> QED BY <2>2, <2>3
<1>6. arg[t].time \in Nat BY <1>1, <1>3
<1>7. Looping(t) /\ InLoop(t) BY DEF Looping, InLoop
<1> QED BY <1>2, <1>4, <1>5, <1>6, <1>7

\* A time is stored by a step of a log that goes to the file.
LEMMA StampStep ==
  ASSUME TypeInv, [Next]_vars, NEW a \in FileAppenders, m_lastTime'[a] # m_lastTime[a]
  PROVE  \E t \in Writers : FileStamp(t) /\ a = Reached(t) /\ m_lastTime'[a] = arg[t].time
<1>0. DOMAIN m_lastTime = FileAppenders BY DEF TypeInv, Types
<1>1. ASSUME NEW t \in Writers, FileStamp(t)
      PROVE  a = Reached(t) /\ m_lastTime'[a] = arg[t].time
  <2>1. m_lastTime' = [m_lastTime EXCEPT ![Reached(t)] = arg[t].time] BY <1>1 DEF FileStamp
  <2> QED BY <1>0, <2>1
<1>2. ASSUME NEW t \in Writers, WriterNext(t) PROVE FileStamp(t)
  BY <1>2
  DEF WriterNext, NewEvent, LogBegin, LogDrop, LogRoot, LogSkip, FileTest, FileReopen,
      Write, LogEnd, files
<1>3. ASSUME NEW t \in Admins, AdminNext(t) PROVE FALSE
  BY <1>3
  DEF AdminNext, GetLogger, AppenderSetFormatter, SetFormatter, Inherit, FormatEnd, AddTest,
      AddFormat, AddPush, delAppender, clearAppenders, files
<1>4. CASE Tick \/ UNCHANGED vars BY <1>4 DEF Tick, files, vars
<1> QED BY <1>1, <1>2, <1>3, <1>4 DEF Next

\* Every step keeps the lines of a file older than its next opening.
LEMMA FileInvStep ==
  ASSUME FilesNotShared
  PROVE  TypeInv /\ HomeInv /\ FileInv /\ [Next]_vars => FileInv'
<1> SUFFICES ASSUME TypeInv, HomeInv, FileInv, [Next]_vars PROVE FileInv' OBVIOUS
<1>0. /\ DOMAIN pc = Threads /\ DOMAIN arg = Threads /\ DOMAIN todo = Threads
      /\ Writers \subseteq Threads /\ FileAppenders \subseteq Appenders
      /\ Interval \in Nat \ {0} /\ \A a \in FileAppenders : m_lastTime[a] \in Nat
  BY LoggerAssumption DEF TypeInv, Types, Threads, Times
<1>1. ASSUME NEW a \in FileAppenders
      PROVE  m_lastTime'[a] \in Nat /\ m_lastTime'[a] >= m_lastTime[a]
  <2>1. CASE m_lastTime'[a] = m_lastTime[a] BY <1>0, <2>1
  <2>2. CASE m_lastTime'[a] # m_lastTime[a]
    <3>1. PICK t \in Writers : FileStamp(t) /\ a = Reached(t) /\ m_lastTime'[a] = arg[t].time
      BY <2>2, StampStep
    <3>2. pc[t] = "stamp" BY <3>1 DEF FileStamp
    <3>3. Due(t) /\ arg[t].time \in Nat BY <1>0, <3>2, AtFile DEF FileInv
    <3> QED BY <1>0, <3>1, <3>3 DEF Due
  <2> QED BY <2>1, <2>2
<1>2. ASSUME NEW a \in FileAppenders, NEW i \in DOMAIN out'[a]
      PROVE  out'[a][i].time < m_lastTime'[a] + Interval
  <2>1. CASE i \in DOMAIN out[a] /\ out'[a][i] = out[a][i]
    <3>1. out[a][i].time < m_lastTime[a] + Interval BY <2>1 DEF FileInv
    <3>2. out[a][i].time \in Nat
      <4>1. out[a] \in Seq(Line) BY <1>0 DEF TypeInv, Types
      <4>2. out[a][i] \in Line BY <2>1, <4>1
      <4> QED BY <4>2, LoggerAssumption DEF Line, Times
    <3> QED BY <1>0, <1>1, <2>1, <3>1, <3>2
  <2>2. ASSUME NEW t \in Writers, Write(t), a = Reached(t), out'[a][i].time = arg[t].time
        PROVE  out'[a][i].time < m_lastTime'[a] + Interval
    <3>1. pc[t] = "write" BY <2>2 DEF Write
    <3>2. ~Due(t) /\ arg[t].time \in Nat BY <1>0, <3>1, AtFile DEF FileInv
    <3> QED BY <1>0, <1>1, <2>2, <3>2 DEF Due
  <2>3. a \in Appenders BY <1>0
  <2> QED BY <2>1, <2>2, <2>3, LineStep
\* Another thread's step leaves the file to this one.
<1>3. ASSUME NEW u \in Threads, pc[u] \in {"reopen", "stamp", "write"}, Stays(u)
      PROVE  Due(u)' <=> Due(u)
  <2>1. Reached(u)' = Reached(u) /\ arg'[u] = arg[u] BY <1>3 DEF Stays, Reached
  <2>2. m_lastTime'[Reached(u)] = m_lastTime[Reached(u)]
    <3> SUFFICES ASSUME m_lastTime'[Reached(u)] # m_lastTime[Reached(u)] PROVE FALSE OBVIOUS
    <3>1. Reached(u) \in FileAppenders BY <1>3, AtFile
    <3>2. PICK t \in Writers : FileStamp(t) /\ Reached(u) = Reached(t) BY <3>1, StampStep
    <3>3. pc[t] = "stamp" /\ pc'[t] = "write" BY <1>0, <3>2 DEF FileStamp, Goto
    <3>4. t = u
      <4>1. /\ InLoop(t) /\ Contains(todo[t], Reached(t)) /\ Reached(t) \in Appenders \ Shared
        BY <1>0, <3>3, AtFile
      <4>2. InLoop(u) /\ Contains(todo[u], Reached(t)) BY <1>3, <3>2, AtFile
      <4> QED BY <1>0, <4>1, <4>2, LoopsApart
    <3> QED BY <1>3, <3>3, <3>4 DEF Stays
  <2> QED BY <2>1, <2>2 DEF Due
<1>4. ASSUME NEW u \in Threads
      PROVE  /\ pc'[u] \in {"reopen", "stamp"} => Due(u)'
             /\ pc'[u] = "write" => ~Due(u)'
  <2>1. CASE Stays(u) BY <1>3, <2>1 DEF Stays, FileInv
  <2>2. CASE FileTest(u)
    <3>1. UNCHANGED <<m_lastTime, todo, arg>> BY <2>2 DEF FileTest, files
    <3>2. Due(u)' <=> Due(u) BY <3>1 DEF Due, Reached
    <3> QED BY <1>0, <2>2, <3>2 DEF FileTest, Goto
  <2>3. CASE FileReopen(u)
    <3>1. UNCHANGED <<m_lastTime, todo, arg>> /\ pc[u] = "reopen" /\ pc'[u] = "stamp"
      BY <1>0, <2>3 DEF FileReopen, Goto
    <3>2. Due(u)' <=> Due(u) BY <3>1 DEF Due, Reached
    <3> QED BY <3>1, <3>2 DEF FileInv
  <2>4. CASE FileStamp(u)
    <3>1. /\ UNCHANGED <<todo, arg>> /\ pc[u] = "stamp" /\ pc'[u] = "write"
          /\ m_lastTime' = [m_lastTime EXCEPT ![Reached(u)] = arg[u].time]
      BY <1>0, <2>4 DEF FileStamp, Goto
    <3>2. Reached(u) \in FileAppenders /\ arg[u].time \in Nat BY <3>1, AtFile
    <3>3. m_lastTime'[Reached(u)] = arg[u].time BY <3>1, <3>2 DEF TypeInv, Types
    <3>4. Reached(u)' = Reached(u) BY <3>1 DEF Reached
    <3> QED BY <1>0, <3>1, <3>2, <3>3, <3>4 DEF Due
  <2>5. ASSUME u \in Writers, WriterNext(u), ~FileTest(u), ~FileReopen(u), ~FileStamp(u)
        PROVE  pc'[u] \notin {"reopen", "stamp", "write"}
    BY <1>0, <2>5
    DEF WriterNext, NewEvent, LogBegin, LogDrop, LogRoot, LogSkip, Write, LogEnd, Next1, Goto
  <2>6. ASSUME u \in Admins, AdminNext(u) PROVE pc'[u] \notin {"reopen", "stamp", "write"}
    BY <1>0, <2>6
    DEF AdminNext, GetLogger, AppenderSetFormatter, SetFormatter, Inherit, FormatEnd, AddTest,
        AddFormat, AddPush, delAppender, clearAppenders, Goto, local
  <2>7. CASE Tick \/ UNCHANGED vars BY <2>1, <2>7 DEF Tick, local, vars, Stays
  <2>8. ASSUME NEW t \in Admins, AdminNext(t), t # u PROVE Stays(u) BY <2>8, OthersStay
  <2>9. ASSUME NEW t \in Writers, WriterNext(t), t # u PROVE Stays(u) BY <2>9, OthersStay
  <2> QED BY <2>1, <2>2, <2>3, <2>4, <2>5, <2>6, <2>7, <2>8, <2>9 DEF Next
<1> QED BY <1>2, <1>4 DEF FileInv

\* A file that is opened again loses only lines older than the event that
\* opens it, and it is opened no two times within the interval, whatever
\* threads log to it: the comparison of the time, the opening and the new time
\* of a file appender in one logger do not mix with those of another thread.
THEOREM OnlyOlderLinesLost == ASSUME FilesNotShared PROVE Spec => LostAreOlder
<1>1. Init => TypeInv /\ HomeInv /\ FileInv
  <2>1. Init => FileInv
    BY LoggerAssumption DEF Init, FileInv
  <2> QED BY <2>1, InitTypeInv, HomeInit
<1>2. TypeInv /\ HomeInv /\ FileInv /\ [Next]_vars => (TypeInv /\ HomeInv /\ FileInv)'
  BY TypeInvStep, HomeStep, FileInvStep
<1>3. TypeInv /\ HomeInv /\ FileInv /\ [Next]_vars =>
        [\A a \in FileAppenders :
            /\ ~IsPrefix(out[a], out'[a]) =>
                 \E t \in Writers : /\ pc[t] = "reopen" /\ Reached(t) = a
                                    /\ \A i \in DOMAIN out[a] : out[a][i].time < arg[t].time
            /\ m_lastTime'[a] # m_lastTime[a] => m_lastTime'[a] >= m_lastTime[a] + Interval]_vars
  <2> SUFFICES ASSUME TypeInv, HomeInv, FileInv, [Next]_vars, NEW a \in FileAppenders
               PROVE  /\ ~IsPrefix(out[a], out'[a]) =>
                           \E t \in Writers :
                              /\ pc[t] = "reopen" /\ Reached(t) = a
                              /\ \A i \in DOMAIN out[a] : out[a][i].time < arg[t].time
                      /\ m_lastTime'[a] # m_lastTime[a]
                           => m_lastTime'[a] >= m_lastTime[a] + Interval
    OBVIOUS
  <2>0. /\ a \in Appenders /\ Writers \subseteq Threads /\ Interval \in Nat \ {0}
        /\ m_lastTime[a] \in Nat /\ out[a] \in Seq(Line)
    BY LoggerAssumption DEF TypeInv, Types, Threads, Times
  <2>1. ASSUME ~IsPrefix(out[a], out'[a])
        PROVE  \E t \in Writers : /\ pc[t] = "reopen" /\ Reached(t) = a
                                  /\ \A i \in DOMAIN out[a] : out[a][i].time < arg[t].time
    <3>1. IsPrefix(out[a], out[a]) BY <2>0 DEF IsPrefix
    <3>2. ASSUME NEW x \in Line PROVE IsPrefix(out[a], Append(out[a], x))
      <4> DEFINE s == out[a]
                 r == Append(out[a], x)
      <4>1. s \in Seq(Line) /\ Len(s) \in Nat BY <2>0
      <4>2. r \in Seq(Line) /\ Len(r) = Len(s) + 1 /\ \A i \in 1..Len(s) : r[i] = s[i]
        BY <2>0
      <4> HIDE DEF s, r
      <4>3. SubSeq(s, 1, Len(s)) = SubSeq(r, 1, Len(s)) BY <4>1, <4>2
      <4>4. Len(s) <= Len(r) BY <4>1, <4>2
      <4> QED BY <4>3, <4>4 DEF IsPrefix, s, r
    <3>3. ASSUME NEW t \in Writers, Write(t), a = Reached(t) PROVE FALSE
      BY <2>1, <3>2, <3>3, WriteFacts
    <3>4. PICK t \in Writers : FileReopen(t) /\ a = Reached(t)
      BY <2>0, <2>1, <3>1, <3>3, OutStep
    <3>5. pc[t] = "reopen" BY <3>4 DEF FileReopen
    <3>6. arg[t].time >= m_lastTime[a] + Interval /\ arg[t].time \in Nat
      BY <2>0, <3>4, <3>5, AtFile DEF FileInv, Due
    <3>7. ASSUME NEW i \in DOMAIN out[a] PROVE out[a][i].time < arg[t].time
      <4>1. out[a][i].time < m_lastTime[a] + Interval BY DEF FileInv
      <4>2. out[a][i].time \in Nat
        <5>1. out[a][i] \in Line BY <2>0
        <5> QED BY <5>1, LoggerAssumption DEF Line, Times
      <4> QED BY <2>0, <3>6, <4>1, <4>2
    <3> QED BY <3>4, <3>5, <3>7
  <2>2. ASSUME m_lastTime'[a] # m_lastTime[a] PROVE m_lastTime'[a] >= m_lastTime[a] + Interval
    <3>1. PICK t \in Writers : FileStamp(t) /\ a = Reached(t) /\ m_lastTime'[a] = arg[t].time
      BY <2>2, StampStep
    <3>2. pc[t] = "stamp" /\ t \in Threads BY <2>0, <3>1 DEF FileStamp
    <3> QED BY <3>1, <3>2 DEF FileInv, Due
  <2> QED BY <2>1, <2>2
<1> QED BY <1>1, <1>2, <1>3, PTL DEF Spec, LostAreOlder
=============================================================================
