-------------------------------- MODULE Logger --------------------------------
(***************************************************************************)
(* The loggers of gwn (log.h, log.cc): the root logger and named loggers   *)
(* that fall back on it, appenders attached to them, the formatter an      *)
(* appender inherits or owns, and events written while all of that is      *)
(* being changed.                                                          *)
(*                                                                         *)
(* The lock of a logger is held over several steps and is the variable     *)
(* m_mutex.  A region under the lock of an appender takes no other lock    *)
(* and is one step.  Levels are abstracted: they are set and read without  *)
(* a lock, so every test of a level may have either outcome.               *)
(***************************************************************************)
EXTENDS Naturals, Sequences, SequencesExt

CONSTANTS
    Admins,         \* threads that change loggers and appenders
    Writers,        \* threads that log
    NoThread,
    Root,           \* the root logger
    Named,          \* the other loggers
    Appenders,
    Console,        \* the StdoutLogAppender of the root logger
    FileAppenders,  \* the FileLogAppenders
    Shared,         \* appenders that may be attached to several loggers
    Detachable,     \* appenders that may be detached
    Formatters,
    Default,        \* the formatter a new logger has
    NoFormatter,    \* the null pointer
    OwnFormats,     \* what LogAppender::setFormatter is called with
    Events,
    Interval,       \* after this time a file is opened again: three seconds
    MaxTime         \* bound: the clock stops there

Threads == Admins \cup Writers
Loggers == Named \cup {Root}

ASSUME LoggerAssumption ==
    /\ Admins \cap Writers = {} /\ NoThread \notin Threads
    /\ Root \notin Named /\ Loggers \cap Appenders = {}
    /\ Console \in Appenders \ FileAppenders
    /\ FileAppenders \cup Shared \cup Detachable \subseteq Appenders
    /\ Default \in Formatters /\ NoFormatter \notin Formatters
    /\ OwnFormats \subseteq Formatters \cup {NoFormatter}
    /\ Interval \in Nat \ {0} /\ MaxTime \in Nat /\ MaxTime >= Interval

VARIABLES
    m_loggers,      \* the loggers that exist
    m_appenders,    \* of each logger
    m_formatter,    \* of each logger and of each appender
    m_hasFormatter, \* of each appender
    m_mutex,        \* of each logger: the thread that holds it
    m_lastTime,     \* of each file appender: when it was last opened
    out,            \* of each appender: what its stream holds
    clock,          \* time(0)
    pc, lg, todo,   \* of each thread: where it is, in which logger, and the
                    \* appenders its loop has still to reach
    arg,            \* of each thread: the argument of its call
    unlogged        \* events not made yet

admin == <<m_loggers, m_appenders>>
formats == <<m_formatter, m_hasFormatter>>
files == <<m_lastTime, out>>
local == <<pc, lg, todo, arg>>
vars == <<admin, formats, m_mutex, files, clock, local, unlogged>>

Times == Interval..MaxTime
Line == [ev : Events, time : Times, fmt : Formatters, own : BOOLEAN]
NoArg == [ev |-> "none"]

Goto(t, where) == pc' = [pc EXCEPT ![t] = where]
Free(l) == l \in m_loggers /\ m_mutex[l] = NoThread
Lock(t, l) == m_mutex' = [m_mutex EXCEPT ![l] = t]
UnlockAll(t) ==
    m_mutex' = [l \in Loggers |-> IF m_mutex[l] = t THEN NoThread ELSE m_mutex[l]]
Attached(a) == {l \in Loggers : Contains(m_appenders[l], a)}

-----------------------------------------------------------------------------
\* LoggerManager::getLogger of a name that has no logger yet.
GetLogger(t, l) ==
    /\ pc[t] = "idle" /\ l \notin m_loggers
    /\ m_loggers' = m_loggers \cup {l}
    /\ UNCHANGED <<m_appenders, formats, m_mutex, files, clock, local, unlogged>>

\* LogAppender::setFormatter
AppenderSetFormatter(t, a, f) ==
    /\ pc[t] = "idle"
    /\ m_formatter' = [m_formatter EXCEPT ![a] = f]
    /\ m_hasFormatter' = [m_hasFormatter EXCEPT ![a] = f # NoFormatter]
    /\ UNCHANGED <<admin, m_mutex, files, clock, local, unlogged>>

\* Mutant of SetFormatter: the logger is not locked.
SetFormatterUnlocked(t, l, f) ==
    /\ pc[t] = "idle" /\ Free(l)
    /\ m_formatter' = [m_formatter EXCEPT ![l] = f]
    /\ lg' = [lg EXCEPT ![t] = l]
    /\ todo' = [todo EXCEPT ![t] = m_appenders[l]]
    /\ Goto(t, "format")
    /\ UNCHANGED <<admin, m_hasFormatter, m_mutex, files, clock, arg, unlogged>>

\* Mutant of SetFormatter: the appenders are not told.
SetFormatterAlone(t, l, f) ==
    /\ pc[t] = "idle" /\ Free(l)
    /\ m_formatter' = [m_formatter EXCEPT ![l] = f]
    /\ UNCHANGED <<admin, m_hasFormatter, m_mutex, files, clock, local, unlogged>>

\* Logger::setFormatter takes the lock and changes the logger's own.
SetFormatter(t, l, f) ==
    /\ pc[t] = "idle" /\ Free(l) /\ Lock(t, l)
    /\ m_formatter' = [m_formatter EXCEPT ![l] = f]
    /\ lg' = [lg EXCEPT ![t] = l]
    /\ todo' = [todo EXCEPT ![t] = m_appenders[l]]
    /\ Goto(t, "format")
    /\ UNCHANGED <<admin, m_hasFormatter, files, clock, arg, unlogged>>

\* Mutant of Inherit: an appender's own formatter is replaced too.
InheritAlways(t) ==
    /\ pc[t] = "format" /\ todo[t] # <<>>
    /\ m_formatter' = [m_formatter EXCEPT ![Head(todo[t])] = m_formatter[lg[t]]]
    /\ todo' = [todo EXCEPT ![t] = Tail(@)]
    /\ UNCHANGED <<admin, m_hasFormatter, m_mutex, files, clock, pc, lg, arg, unlogged>>

\* Its loop hands the formatter to an appender that has none of its own.
Inherit(t) ==
    /\ pc[t] = "format" /\ todo[t] # <<>>
    /\ LET a == Head(todo[t]) IN
        m_formatter' = [m_formatter EXCEPT
                          ![a] = IF m_hasFormatter[a] THEN @ ELSE m_formatter[lg[t]]]
    /\ todo' = [todo EXCEPT ![t] = Tail(@)]
    /\ UNCHANGED <<admin, m_hasFormatter, m_mutex, files, clock, pc, lg, arg, unlogged>>

\* Logger::setFormatter returns.
FormatEnd(t) ==
    /\ pc[t] = "format" /\ todo[t] = <<>> /\ UnlockAll(t)
    /\ Goto(t, "idle")
    /\ UNCHANGED <<admin, formats, files, clock, lg, todo, arg, unlogged>>

-----------------------------------------------------------------------------
\* The calls of addAppender that the program makes: one appender is in a
\* logger at most once, and in one logger only unless it is shared.
MayAdd(l, a) ==
    LET at == Attached(a) \cup {lg[t] : t \in {u \in Threads : pc[u] \in {"add", "push"} /\ arg[u] = a}}
    IN  l \notin at /\ (a \in Shared \/ at = {})

\* Logger::addAppender takes the lock and asks for the appender's formatter.
AddTest(t, l, a) ==
    /\ pc[t] = "idle" /\ Free(l) /\ MayAdd(l, a) /\ Lock(t, l)
    /\ lg' = [lg EXCEPT ![t] = l]
    /\ arg' = [arg EXCEPT ![t] = a]
    /\ Goto(t, IF m_formatter[a] = NoFormatter THEN "add" ELSE "push")
    /\ UNCHANGED <<admin, formats, files, clock, todo, unlogged>>

\* Mutant of AddFormat: the appender is left without a formatter.
AddFormatNothing(t) ==
    /\ pc[t] = "add" /\ Goto(t, "push")
    /\ UNCHANGED <<admin, formats, m_mutex, files, clock, lg, todo, arg, unlogged>>

\* There was none when it asked: the appender is given the logger's.
AddFormat(t) ==
    /\ pc[t] = "add"
    /\ m_formatter' = [m_formatter EXCEPT ![arg[t]] = m_formatter[lg[t]]]
    /\ Goto(t, "push")
    /\ UNCHANGED <<admin, m_hasFormatter, m_mutex, files, clock, lg, todo, arg, unlogged>>

\* The appender is attached and the lock is released.
AddPush(t) ==
    /\ pc[t] = "push" /\ UnlockAll(t)
    /\ m_appenders' = [m_appenders EXCEPT ![lg[t]] = Append(@, arg[t])]
    /\ arg' = [arg EXCEPT ![t] = NoArg]
    /\ Goto(t, "idle")
    /\ UNCHANGED <<m_loggers, formats, files, clock, lg, todo, unlogged>>

\* delAppender erases the first occurrence of the appender.  (Without one
\* nothing happens.)
delAppender(t, l, a) ==
    /\ pc[t] = "idle" /\ Free(l)
    /\ \E p \in DOMAIN m_appenders[l] :
          /\ m_appenders[l][p] = a /\ \A q \in 1..p - 1 : m_appenders[l][q] # a
          /\ m_appenders' = [m_appenders EXCEPT ![l] = RemoveAt(@, p)]
    /\ UNCHANGED <<m_loggers, formats, m_mutex, files, clock, local, unlogged>>

\* Called when all of the appenders may go.
clearAppenders(t, l) ==
    /\ pc[t] = "idle" /\ Free(l)
    /\ ToSet(m_appenders[l]) \subseteq Detachable
    /\ m_appenders' = [m_appenders EXCEPT ![l] = <<>>]
    /\ UNCHANGED <<m_loggers, formats, m_mutex, files, clock, local, unlogged>>

-----------------------------------------------------------------------------
\* The appender the loop of log has reached.
Reached(t) == Head(todo[t])
Next1(t) == todo' = [todo EXCEPT ![t] = Tail(@)] /\ Goto(t, "log")

\* gwn_LOG_LEVEL finds the level of the logger low enough and makes a
\* LogEvent with the time it is.
NewEvent(t, l, e) ==
    /\ pc[t] = "idle" /\ l \in m_loggers
    /\ e \in unlogged /\ unlogged' = unlogged \ {e}
    /\ lg' = [lg EXCEPT ![t] = l]
    /\ arg' = [arg EXCEPT ![t] = [ev |-> e, time |-> clock]]
    /\ Goto(t, "event")
    /\ UNCHANGED <<admin, formats, m_mutex, files, clock, todo>>

\* Mutant of LogBegin: the logger is not locked.
LogBeginUnlocked(t) ==
    /\ pc[t] = "event" /\ Free(lg[t])
    /\ todo' = [todo EXCEPT ![t] = m_appenders[lg[t]]]
    /\ Goto(t, IF m_appenders[lg[t]] = <<>> /\ lg[t] # Root THEN "root" ELSE "log")
    /\ UNCHANGED <<admin, formats, m_mutex, files, clock, lg, arg, unlogged>>

\* The destructor of LogEventWrap calls Logger::log, which takes the lock and
\* starts its loop.
LogBegin(t) ==
    /\ pc[t] = "event" /\ Free(lg[t]) /\ Lock(t, lg[t])
    /\ todo' = [todo EXCEPT ![t] = m_appenders[lg[t]]]
    /\ Goto(t, IF m_appenders[lg[t]] = <<>> /\ lg[t] # Root THEN "root" ELSE "log")
    /\ UNCHANGED <<admin, formats, files, clock, lg, arg, unlogged>>

\* The logger's level, or the root logger's, is above the event's.
LogDrop(t) ==
    /\ pc[t] \in {"event", "root"} /\ UnlockAll(t)
    /\ arg' = [arg EXCEPT ![t] = NoArg]
    /\ Goto(t, "idle")
    /\ UNCHANGED <<admin, formats, files, clock, lg, todo, unlogged>>

\* A named logger without appenders: m_root->log, under both locks.
LogRoot(t) ==
    /\ pc[t] = "root" /\ Free(Root) /\ Lock(t, Root)
    /\ lg' = [lg EXCEPT ![t] = Root]
    /\ todo' = [todo EXCEPT ![t] = m_appenders[Root]]
    /\ Goto(t, "log")
    /\ UNCHANGED <<admin, formats, files, clock, arg, unlogged>>

\* The event is below the level of the appender.
LogSkip(t) ==
    /\ pc[t] = "log" /\ todo[t] # <<>> /\ Next1(t)
    /\ UNCHANGED <<admin, formats, m_mutex, files, clock, lg, arg, unlogged>>

\* FileLogAppender::log compares the time without the lock.
Due(t) == arg[t].time >= m_lastTime[Reached(t)] + Interval
FileTest(t) ==
    /\ pc[t] = "log" /\ todo[t] # <<>> /\ Reached(t) \in FileAppenders
    /\ Goto(t, IF Due(t) THEN "reopen" ELSE "write")
    /\ UNCHANGED <<admin, formats, m_mutex, files, clock, lg, todo, arg, unlogged>>

\* FileLogAppender::reopen: std::ofstream::open empties the file.
FileReopen(t) ==
    /\ pc[t] = "reopen"
    /\ out' = [out EXCEPT ![Reached(t)] = <<>>]
    /\ Goto(t, "stamp")
    /\ UNCHANGED <<admin, formats, m_mutex, m_lastTime, clock, lg, todo, arg, unlogged>>

\* Mutant of FileStamp: the time of the last opening stays as it was.
FileStampNot(t) ==
    /\ pc[t] = "stamp" /\ Goto(t, "write")
    /\ UNCHANGED <<admin, formats, m_mutex, files, clock, lg, todo, arg, unlogged>>

FileStamp(t) ==
    /\ pc[t] = "stamp" /\ Goto(t, "write")
    /\ m_lastTime' = [m_lastTime EXCEPT ![Reached(t)] = arg[t].time]
    /\ UNCHANGED <<admin, formats, m_mutex, out, clock, lg, todo, arg, unlogged>>

\* The event is formatted into the stream under the appender's lock.
Write(t) ==
    /\ \/ pc[t] = "write"
       \/ pc[t] = "log" /\ todo[t] # <<>> /\ Reached(t) \notin FileAppenders
    /\ m_formatter[Reached(t)] # NoFormatter
    /\ LET a == Reached(t) IN
        out' = [out EXCEPT ![a] = Append(@,
                 [ev |-> arg[t].ev, time |-> arg[t].time,
                  fmt |-> m_formatter[a], own |-> m_hasFormatter[a]])]
    /\ Next1(t)
    /\ UNCHANGED <<admin, formats, m_mutex, m_lastTime, clock, lg, arg, unlogged>>

\* Mutant of LogEnd: a named logger goes on to the root logger every time.
LogEndRoot(t) ==
    /\ pc[t] = "log" /\ todo[t] = <<>>
    /\ IF lg[t] = Root
       THEN UnlockAll(t) /\ Goto(t, "idle") /\ arg' = [arg EXCEPT ![t] = NoArg]
       ELSE Goto(t, "root") /\ UNCHANGED <<m_mutex, arg>>
    /\ UNCHANGED <<admin, formats, files, clock, lg, todo, unlogged>>

\* Logger::log returns, the root logger's first.
LogEnd(t) ==
    /\ pc[t] = "log" /\ todo[t] = <<>> /\ UnlockAll(t)
    /\ arg' = [arg EXCEPT ![t] = NoArg]
    /\ Goto(t, "idle")
    /\ UNCHANGED <<admin, formats, files, clock, lg, todo, unlogged>>

\* Time passes.
Tick ==
    /\ clock < MaxTime /\ clock' = clock + 1
    /\ UNCHANGED <<admin, formats, m_mutex, files, local, unlogged>>

-----------------------------------------------------------------------------
Init ==
    /\ m_loggers = {Root}
    /\ m_appenders = [l \in Loggers |-> IF l = Root THEN <<Console>> ELSE <<>>]
    /\ m_formatter = [x \in Loggers \cup Appenders |->
                        IF x \in Loggers \cup {Console} THEN Default ELSE NoFormatter]
    /\ m_hasFormatter = [a \in Appenders |-> FALSE]
    /\ m_mutex = [l \in Loggers |-> NoThread]
    /\ m_lastTime = [a \in FileAppenders |-> 0]
    /\ out = [a \in Appenders |-> <<>>]
    /\ clock = Interval
    /\ pc = [t \in Threads |-> "idle"]
    /\ lg = [t \in Threads |-> Root]
    /\ todo = [t \in Threads |-> <<>>]
    /\ arg = [t \in Threads |-> NoArg]
    /\ unlogged = Events

AdminNext(t) ==
    \/ \E l \in Named : GetLogger(t, l)
    \/ \E a \in Appenders, f \in OwnFormats : AppenderSetFormatter(t, a, f)
    \/ \E l \in Loggers, f \in Formatters : SetFormatter(t, l, f)
    \/ Inherit(t) \/ FormatEnd(t)
    \/ \E l \in Loggers, a \in Appenders : AddTest(t, l, a)
    \/ AddFormat(t) \/ AddPush(t)
    \/ \E l \in Loggers, a \in Detachable : delAppender(t, l, a)
    \/ \E l \in Loggers : clearAppenders(t, l)

WriterNext(t) ==
    \/ \E l \in Loggers, e \in Events : NewEvent(t, l, e)
    \/ LogBegin(t) \/ LogDrop(t) \/ LogRoot(t) \/ LogSkip(t)
    \/ FileTest(t) \/ FileReopen(t) \/ FileStamp(t) \/ Write(t) \/ LogEnd(t)

Next == (\E t \in Admins : AdminNext(t)) \/ (\E t \in Writers : WriterNext(t)) \/ Tick

Spec == Init /\ [][Next]_vars

-----------------------------------------------------------------------------
Types ==
    /\ m_loggers \subseteq Loggers
    /\ m_appenders \in [Loggers -> Seq(Appenders)]
    /\ m_formatter \in [Loggers \cup Appenders -> Formatters \cup {NoFormatter}]
    /\ m_hasFormatter \in [Appenders -> BOOLEAN]
    /\ m_mutex \in [Loggers -> Threads \cup {NoThread}]
    /\ m_lastTime \in [FileAppenders -> {0} \cup Times]
    /\ out \in [Appenders -> Seq(Line)]
    /\ clock \in Times
    /\ pc \in [Threads -> {"idle", "format", "add", "push", "event", "root", "log",
                           "reopen", "stamp", "write"}]
    /\ lg \in [Threads -> Loggers]
    /\ todo \in [Threads -> Seq(Appenders)]
    /\ arg \in [Threads -> Appenders \cup [ev : Events, time : Times] \cup {NoArg}]
    /\ unlogged \subseteq Events
    /\ \A t \in Threads : pc[t] \notin {"idle", "event"} => m_mutex[lg[t]] = t

\* Who holds a lock is inside a call of that logger, or of the root logger,
\* which the named logger it holds has called.
LocksOfCalls ==
    \A l \in Loggers : m_mutex[l] # NoThread =>
        pc[m_mutex[l]] \notin {"idle", "event"} /\ lg[m_mutex[l]] \in {l, Root}

\* The variables have their types, and a logger's lock is held exactly while
\* a thread is inside one of its calls: no return leaves a logger locked.
LoggerTypeOK == Types /\ LocksOfCalls

\* Whatever a logger writes to has a formatter to write with: log
\* dereferences m_formatter without a test.
AttachedHaveFormatter ==
    \A l \in Loggers, a \in Appenders :
        Contains(m_appenders[l], a) => m_formatter[a] # NoFormatter

\* An appender without a formatter of its own has the one of its logger
\* whenever nobody is inside the logger.
Inherits ==
    \A l \in Loggers, a \in Appenders :
        /\ Contains(m_appenders[l], a) /\ m_mutex[l] = NoThread
        /\ ~m_hasFormatter[a]
        => m_formatter[a] = m_formatter[l]

\* The lines one event leaves in the appenders of a logger have one format:
\* a setFormatter comes before or after the whole event.
OneFormat ==
    \A a, b \in Appenders : \A i \in DOMAIN out[a], j \in DOMAIN out[b] :
        /\ out[a][i].ev = out[b][j].ev
        /\ ~out[a][i].own /\ ~out[b][j].own
        => out[a][i].fmt = out[b][j].fmt

\* No appender gets an event twice, even one attached both to a logger and to
\* the root logger.
WrittenOnce ==
    \A a \in Appenders : \A i, j \in DOMAIN out[a] :
        out[a][i].ev = out[a][j].ev => i = j

\* An appender that is attached and has a formatter of its own keeps it until
\* LogAppender::setFormatter gives it another one, whatever threads are in
\* setFormatter of the logger, or in addAppender between asking for a formatter
\* and storing one: these have asked before the appender was attached.  (For
\* appenders that are in one logger.)
OwnFormatterKept ==
    [][\A a \in Appenders \ Shared :
          Attached(a) # {} /\ m_hasFormatter[a] /\ m_formatter'[a] # m_formatter[a]
            => \E t \in Admins, f \in OwnFormats : AppenderSetFormatter(t, a, f)]_vars

\* The same for appenders that are being attached.  The code does not keep this:
\* addAppender stores the logger's formatter over one that another thread has
\* set since it asked (log.cc lines 395 to 397).
OwnAlwaysKept ==
    [][\A a \in Appenders :
          m_hasFormatter[a] /\ m_formatter'[a] # m_formatter[a]
            => \E t \in Admins, f \in OwnFormats : AppenderSetFormatter(t, a, f)]_vars

\* A file that is opened again only loses lines older than the event that
\* opens it, and is opened no two times within the interval: as long as the
\* appender is in one logger, whose lock orders the unlocked steps of log.
LostAreOlder ==
    [][\A a \in FileAppenders :
          /\ ~IsPrefix(out[a], out'[a]) =>
               \E t \in Writers : /\ pc[t] = "reopen" /\ Reached(t) = a
                                  /\ \A i \in DOMAIN out[a] : out[a][i].time < arg[t].time
          /\ m_lastTime'[a] # m_lastTime[a] => m_lastTime'[a] >= m_lastTime[a] + Interval]_vars

\* What has been written to a file stays in it, also when reopen() opens it
\* again.  The code does not keep this: it opens the file without ios::app.
LinesKept == [][\A a \in Appenders : IsPrefix(out[a], out'[a])]_vars
=============================================================================
