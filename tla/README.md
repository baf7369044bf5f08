# A TLA+ development of gwn

gwn is a small C++ server framework: an N-M coroutine scheduler over `ucontext`
fibers, typed configuration variables with listeners that YAML documents set,
loggers with appenders and format patterns that are configured through such a
variable, and the thread and lock wrappers under all of that. This directory
holds models of these parts, configurations that check them with TLC, and
proofs about them for TLAPS. `PROJECT.json` lists the runs, the code behind each
definition, the hazards each property is for, and the disagreements found.

    tlc -config Scheduler_pool.cfg MCScheduler.tla      one run
    tlapm SchedulerProofs.tla                           one module of proofs

## Contents

1. The system
2. Modules and the code they model
3. What is checked, and the bounds
4. Fairness
5. What is proved
6. Where code and documentation, or code and intention, disagree
7. What is only model-checked, and what is not modelled
8. Plan

## 1. The system

| Part | State | Operations | Interacts with | What makes it correct |
|---|---|---|---|---|
| Scheduler (`scheduler.*`) | queue of fibers and callbacks, active counter, stop flags, pool, root fiber | `schedule`, `start`, `run`, `idle`, `stop` | Fiber (switches), Thread (pool), the callbacks, which schedule and yield | each callback runs once, in one place and where it was scheduled; nothing is lost; `stop` returns, and not early |
| Fiber (`fiber.*`) | state, callback, context and stack; per thread `t_fiber`, `t_threadFiber` and `t_scheduler_fiber` | constructors, `reset`, `swapIn`, `swapOut`, `call`, `back`, `YieldTo*`, `GetThis`, `MainFunc`, destructor | called by `run` and by programs; reads `fiber.stack_size` | only saved contexts are resumed, by one thread; leaving a fiber continues who resumed it |
| ConfigVar (`config.h`) | value, listeners, read-write lock, a static counter of keys | `setValue`, `fromString`, `addListener`, `delListener`, `clearListener` | calls its listeners under its own lock; they may set other variables | listeners follow the value; no call after removal; keys are the caller's own; calls return |
| LexicalCast (`config.h`) | none | text to value and back, for containers of containers | used by `fromString` and `toString`; yaml-cpp | what is written is read back to say the same |
| Config registry (`config.*`) | name to variable | `LookUp`, `LoadFromYaml` | creates variables, calls their `fromString` | one variable per name; a document sets what it names |
| Loggers and events (`log.*`) | loggers, their appenders and formatters, files; events | `getLogger`, `setFormatter`, `addAppender`, `delAppender`, `clearAppenders`, `log`, `reopen` | the wrapper of an event logs it; a logger calls its appenders, or the root logger, under its lock | an event reaches each appender once, in one format; own formatters are kept; a file loses only what is old |
| LogFormatter (`log.cc`) | pattern, items | the parser `init`, `format` | used by loggers and by the configuration | a line says what the pattern says; parsing always ends |
| Logging configuration (`log.cc`) | the variable `logs`, a set of `LogDefine` | conversion from and to text, comparison, the listener | a listener of a ConfigVar that calls loggers | loggers are as the configuration says, and write a configuration that says so |
| Thread, locks (`thread.*`, `mutex.*`) | pthread, id, callback, semaphore | constructor, `run`, `join`, destructor | used by Scheduler | handshake at the start; no use of a destroyed object |
| Utilities (`util.*`, `macro.h`, `singleton.h`) | none | ids, backtraces, assertions | everywhere | |

What is hard here is concurrency on shared state that no lock protects. A
fiber's `m_state` is a plain member that its owner writes, the scan of every
other thread reads and `run` overwrites afterwards; `m_activeThreadCount` and
the queue together say whether the scheduler may stop, but change one after the
other; `setValue` works in two lock regions and its listeners call `setValue`;
the counter behind listener keys is static; `addAppender` tests and sets an
appender's formatter in two regions; `m_lastTime` of a file appender has no lock.
A switch of fibers is a protocol over three thread-local pointers: it goes where
the context they name says, not to who made the last switch. Exceptions cut
several of these sequences short. There is no persistence and no messaging, so
there are no crashes or lost messages to model.

## 2. Modules and the code they model

### Scheduler

`Fiber` has the shared part of fiber objects: `m_state`, `m_cb`, and `ctx`, which
stands for `m_ctx` and the stack. `ctx` tells a context that was prepared from
one that was saved, one a thread executes on, and one whose resumption lands on
the "never reach" assertion. `Scheduler` EXTENDS it with the queue, the flags and
the threads. The place of a thread in `run`, or of the owner in `stop`, is `pc`;
the local variables `ft`, `cb_fiber` and the end of the idle fiber are functions
of threads. `pool` is the constructor's number of threads: any set of `Workers`,
the empty one only with use_caller.

*Atomicity.* A region under `m_mutex` (scan, `schedule`, `stopping`, `start`) is
one step. Outside of these, each access to shared state is a step: dispatch,
`swapIn`, the store of a yield, `swapOut`'s save of the context, the decrement of
the counter, the branch on the state after a fiber left, and the store of HOLD.
The reads of `m_state` inside the scan are part of the scan's step: the scan's
decision for an entry depends on one read, and an entry whose state changes
while the scan goes on is one it could have met a moment earlier or later.
`settle` reads the state once where the code reads it two or three times in a
row; a state that changes between these reads leads to the branch that the last
read allows, and those outcomes are covered by the change coming before or after
the one read. A `gwn_ASSERT` is a guard: the thread stops there, and
`AssertionsHold` says none gets there. Likewise `SwapIn` is enabled only on a
context that can be resumed, and `NoStaleResume` says there is no other.

*Left out.* `tickle` and the counter of idle threads only log or are never read.
`start` publishes the pool threads at once: each one waits for `m_mutex`, which
`start` holds, before it does anything. A callback is what its `Body` actions
let it do: schedule a callback, keep a handle to its fiber, schedule a fiber
from a handle (`WakePin`: for the thread its callback was scheduled for), yield,
return or throw; `BodyOps` says which of these a program uses. The owner
schedules callbacks, new fibers, and batches of two callbacks. `StopBegin` is for
schedulers that were started or have the calling thread; the destructor comes
after the last `stop`.

`TaskPool` is the abstract specification: tasks begin once, execute in one place,
may be suspended, end once, and closing succeeds only when all are done.
`SchedulerRefinement` maps the scheduler to it: the status of a callback is read
off whether a thread is inside it, how often it was invoked, and whether it
ended, and closing off the owner being inside `stop`. `SchedulerOwnership` states
where fibers are and what their state then is: `Ownership` for callbacks that do
not go on hold, `Homes` for those that stay with one thread. These are the
inductive invariants of the proofs.

### Switches

`FiberThread` is the other side of `fiber.cc`: the thread-local pointers and what
each switch does with them. A stack is a thread, for its native one, or the fiber
that owns it; `running` is the stack a thread executes on, and `m_ctx` of a fiber
the stack a load of it continues. The actions are `GetThis` and what it creates,
the start of `Scheduler::run` on a pool thread, the constructor of a scheduler
with its root fiber, `NewFiber`, `reset`, `swapIn`, `call`, the first instructions
of the entry functions, the yields, the end of an entry function (which chooses
`swapOut` or `back` by the function, not by who called), destruction of fibers,
of schedulers and of threads. What a thread does up to and including a switch is
one step: that a fiber is resumed by one thread at a time is `Scheduler`'s
`Ownership`. `Program` names what a program does beyond the rules the code
relies on; with `Program = {}` it keeps them.

`Coroutines` is the abstract specification, asymmetric coroutines: per thread a
chain of those that were resumed and have not left; leaving continues the one
before. The mapping builds the chain from the scheduler's and main fiber's
contexts.

### Configuration variables

`ConfigVar` has variables of one type, each with its read-write lock as
`readers` and `writer`. The lock prefers readers, the default of the C library,
so a waiting writer is no obstacle to a reader. A region under the write lock
that touches only its own variable is one step; so is a call of a listener. Every
call begins before it has its lock (`SetCall`, `AddCall`, `DelCall`, `ClearCall`)
and then waits for it. `addListener` goes on in four steps: with the lock it
loads the static counter, stores it, reads it again for the key to insert, and a
last time to return it, while callers under other variables' locks do the same.
A listener may set another variable (`Forward`), unless it is told a value it does
not pass on (`Kept`): the call that waits for it is kept on `stack`, with its read
lock. `Inputs` are the variables that threads set, `Listened` those they register
listeners with. `told` records, per variable and listener, the value it was told
last, or found when it was registered; `dead` the listeners whose removal has
returned; `raced` whether two calls of `addListener` for two variables were ever
between reading the counter and returning at the same time; `mixed` the variables
on which two calls of `setValue` have overlapped. The last two say where a property
stops to hold, and no action depends on them. `getValue`, `toString` and
`getListener` only read under the read lock and are left out.

`LexicalCast` has both directions of the conversion by recursion over the type:
integers, strings, and vectors, lists, sets, unordered sets, maps and unordered
maps of anything. A conversion yields the set of its result, empty when it
throws. What yaml-cpp makes of a text or a node is external: which texts are
scalars, nulls, blocks or no YAML, that a scalar that would be read as something
else is quoted, that of two equal keys the first stays. A string may itself be
YAML: of one node there is the text yaml-cpp writes (`block`), one that is laid out
in another way (`loose`, as `[1,2]`), and a scalar in quotes. An element of a
container goes through YAML in both directions, so of such a string the node is
what stays; `Alike` says which values differ in nothing else.

`ConfigRegistry` has the map from names to variables, and documents as nodes; the
conversions are constants, for which `MCConfigRegistry` gives those of
`LexicalCast`. `LookUp` is one step under the registry's lock; `LoadFromYaml` lists
the nodes and then looks up and sets one variable after the other, while other
threads create variables. The calls of `ListAllMember`, which recurses over the
nodes, are counted: `Calls` has what is listed after each, and which calls are
still to come, and `MaxCalls` is a bound for them that `DocumentsAssumption` checks.

### Loggers

`Logger` keeps loggers' locks as a variable, since `setFormatter`, `addAppender`
and `log` take appenders' locks, and `log` the root logger's, while they hold
them. A region under an appender's lock is one step. An event gets its time when
it is made (`NewEvent`) and is logged when its wrapper is destroyed (`LogBegin`),
which may be later than events made after it. Levels are abstracted: an event
under the logger's level is one that is not logged, and an appender may skip any
event (`LogSkip`), since its level is read without a lock and may change at any
time; `LogConfig` has them with values. A file appender tests `m_lastTime`,
opens its file again, which empties it, stores the time and writes: four steps
without a common lock. The clock counts from `Interval`, the three seconds after
which a file is opened again. Each appender writes to a stream of its own.
`MayAdd` names the restriction on programs: an appender is in one logger at most,
or in several if it is in `Shared`, and never twice in one.

`LogFormatter` is the parser with its loops' own variables and one action per
case, the table of format items, and `format`, which turns the items into a line.
A pattern is the text of a sequence of tokens, so that the line can be compared
with what was written; for arbitrary patterns the tokens are single characters.
Characters occur by their kind: letters, the percent sign, braces, others. A
field of the event stands for its text. `Long` are the formats of a date that do
not fit the buffer of 64 characters.

`LogConfig` is the variable `logs`, with its listener, from text to text: YAML
nodes are records with the fields an entry may have, read into `LogDefine`s, and
written by the conversion of the variable and by the loggers themselves. A set of
`LogDefine` is a function from names. The listener is computed as the sequence of
calls it makes; each call on a logger is a step (its insides are the subject of
`Logger`), so two listeners can interleave. The lock of the variable is in the
guards: listeners run under the read lock, `Store` waits until none runs.

### Threads

`Thread` has the constructor, the start of the new thread, `join`, `SetName` and
the destructor, with the semaphore between them, and the counting loop of
`tests/thread_test.cc` under a scoped mutex. The destructor may come any time
after the constructor, whatever the thread is doing: `SetName` then writes
through `t_thread` to an object that is gone. Programs do not join one thread
twice at the same time.

### Composition

`MCScheduler` runs Scheduler, which EXTENDS Fiber, with its refinement and its
ownership invariant. `FiberThread` takes from that invariant that a fiber is
resumed by one thread at a time, and in turn justifies that `Scheduler` lets a
fiber that leaves continue the `run` that resumed it. `ConfigRegistry` takes
its conversions from `LexicalCast`, and `fromString` for one step; `ConfigVar` is what happens
inside. `LogConfig` models ConfigVar's protocol for one variable and the effect of
Logger's operations, at the grain the properties need; a step of `LogConfig`
on a logger is a call of `Logger`'s. The `MC*` modules give constants and symmetries.
`SchedulerProofs` EXTENDS the refinement and the ownership invariant;
`FiberThreadProofs` EXTENDS `FiberThread` and `Thread`; `ConfigVarProofs`,
`ConfigRegistryProofs`, `LoggerProofs`, `LogFormatterProofs` and `LogConfigProofs`
each EXTEND the module they are about, and those about sequences share
`SequenceLemmas`.

## 3. What is checked, and the bounds

A type invariant is checked where it says more than types (`Scheduler`: the
counter never wraps, no queue entry is empty; `Logger`: a lock is held exactly
while a thread is inside one of the logger's calls); the other properties state
what could go wrong.

| Run | Bounds | Shows |
|---|---|---|
| Scheduler `pool` | 1 or 2 pool threads, 2 callbacks, 3 fibers, 1 yield, 2 stops | `Ownership` of fibers, types, exact counter; the scheduler implements `TaskPool`, so every callback begins and ends once, in one place, and `stop` drains; `stop` returns; what is scheduled on a running pool is executed; over yields, spawns, exceptions and a restart |
| `caller` | use_caller, alone or with 1 pool thread; 2 callbacks, each for one of the two threads, 3 fibers, 2 yields or handles, 1 stop | no failed assertion, no stale resumption, callbacks run on the thread they are for, also after going on hold and being woken by state, and `stop` drains and returns |
| FiberThread `switch` | 5 fibers, 1 thread that makes schedulers, 1 pool thread | the pointers fit each other (`Wired`), a stack with work on it is in one place (`StackKept`), the switches implement `Coroutines` |
| ConfigVar `listeners` | 2 setters, 2 registering threads, 2 variables of one type, 2 values, 4 calls; a listener of the first, there before the threads start, sets the second and may throw | loops are stable, no call after removal, keys are the caller's own as long as the counter is not raced for, listeners follow the value where calls do not overlap, calls return, also those that wait for a lock |
| ConfigRegistry `legal` | 2 registering threads, 1 loader, 4 names, one of them empty, 3 types, 5 documents up to depth 3; strings that are plain, empty, in quotes, or YAML in another layout | one variable per name; documents set exactly what they name; what a variable writes, it reads back to say the same, and from then on unchanged |
| Logger `formats` | 2 changing threads, 1 writer, 3 appenders, 2 formatters, 1 event | locks are held by calls, appenders have formatters, inherit them or keep their own, and an event has one format |
| `shared` | 1 changing thread, 2 writers, the console shared with the root logger, a file, 2 events, 2 instants | an event is written once; a file that is opened again loses older events only |
| LogFormatter `patterns` | all patterns of up to 4 tokens: literals, items with 3 formats, single characters of 5 kinds | a line is what was written in the pattern; no character of a pattern is lost, well-formed or not, but for braces: that literal ones are kept is `Rendered`'s part; parsing always ends |
| LogConfig `onetext` | 1 setter, 26 texts on two names, with levels, formatters with errors and five kinds of appender entries | loggers as configured and as loaded, what they write loads the same, loggers with the same definition are left alone |
| Thread `threads` | 3 threads, 2 rounds | handshake; no use of a destroyed object, but by `SetName` on a thread that was detached; no lost increment; constructors return and threads end |

Two more runs, `holdrace` and `appendersonly`, are in section 6.

*Why the bounds are enough.* Races in the scheduler are between two threads over
one fiber; a third can wake, schedule or stop, and the owner is that third. With
two callbacks one can be queued while the other yields; three fibers are two in
use and one that is reused. Two stops give one restart. `MaxYields` bounds the
only loop a callback has. In `switch`, five fibers are a thread's main fiber,
the root fiber of a scheduler, and three to resume each other in a chain, to
end, be reset or be destroyed and built again; threads share no state but
fibers, so two show a fiber that moves. In `listeners` four calls are one of
each thread at the same time: two setters over one variable, or two
registrations whose accesses to the counter interleave, under one lock or under
two; or, one after the other, a registration and its removal beside two
settings, which are more with what the listener sets. Containers of containers,
and one string for each way in which a string can be YAML, are what the
recursion of `LexicalCast` distinguishes. In `shared`, two events made by two
threads can be written out of order before and after the file is opened again.
Parsing decisions depend on the character after the current one and on whether a
format is open; four characters pass through every pair of these and both ends,
and four items pass through every pair of items. `MaxYields`, `MaxStops`,
`MaxCalls`, `MaxTime`, `MaxTokens` and `Loops` are all the bounds there are.

*Symmetry* is used in `switch`, over fibers, and in `shared`, over writers and
events: no action or property names one of them or orders them, and the
properties are invariants, properties of single steps, and a refinement whose
specification is without fairness. Runs with liveness use none.

*Deadlock* is checked except where the system stops: `LogFormatter` ends its
call, `Thread`'s program ends, in `switch` all threads can end, and in `holdrace`
threads stop at a failed assertion. In `listeners` it is checked, and
`CallsReturn` says more: two threads may hold read locks while a third waits to
change listeners, but no circle of waiting arises as long as listeners do not
set each other's variables (section 6, crosswise).

## 4. Fairness

`Scheduler`: weak fairness of each thread's `run` and of the owner's `stop` once
it was called. The kernel schedules every thread, callbacks end, and the idle
fiber polls, so a thread never waits for a signal that may not come. The owner
need not start, schedule or stop anything. `ConfigVar`: weak fairness of each
thread's call once it has begun, when it waits for its lock as when it holds it;
no thread need call anything, and no listener need throw. Its locks are taken by
calls only, of which there are finitely many, so nobody is overtaken for ever.
`Thread`: weak fairness of each started thread and of the waiting constructor. A
thread can find the mutex taken again and again only while others have rounds
left, so strong fairness is not needed. `LogFormatter`: one sequential call that
goes on. The others have safety properties only.

## 5. What is proved

For all values of the constants, from the named ASSUMEs of the modules and the
assumption in the second column.

| Theorem | Says | Argument |
|---|---|---|
| **SchedulerProofs** | | |
| `TypeCorrect` | `TypeOK` | Types are not inductive: that the counter never drops below zero needs that each decrement follows an increment of the same thread. `TypeInv` adds that working threads have a fiber, and that the counter is at least the number of threads between taking an entry and leaving it. |
| `FibersInOnePlace` | `Ownership`, under `NoHold` | `Ownership` with `TypeInv` is inductive: fibers in the queue are resumable, those with a thread have the state its place in `run` implies, no fiber is in two places, what is nowhere may be destroyed. One lemma per kind of step: those that only touch the thread's own fiber, those that take from, and those that give to the queue. |
| `WorksAlone`, `ResumesSavedContexts` | `SoleHolder`, `NoStaleResume`, under `NoHold` | follow from `Ownership` |
| `CounterExact`, `PinnedCounterExact` | `ActiveCountExact`, under `NoHold`; and under `AllPinned` and `WakesHeldOnly` | a fiber taken from the queue is not finished, so every increment has its decrement |
| `PoolAssertions` | `AssertionsHold`, under `NoHold` and `OneStop` | `OwnerInv` adds the owner: it is in `stop` only while the pool runs, `m_stopping` is set from `stopFlag` on, no thread ends before that, and the calling thread runs only if the scheduler uses it. `RootUnused`: its root fiber has not been run before the one `stop` calls it. |
| `Drains` | `StopDrains`, under `NoHold` and `AllShared` | `JobsKept`: a callback that has not ended is in the queue or carried by a thread. `QueueServed`: while `stop` waits, or runs on the calling thread, and the queue is not empty, some thread will scan it once more, because the thread that puts an entry back scans after that, and one whose scan took nothing has seen an empty queue. This is the argument for the window between the decrement of the counter and `schedule`. |
| `SchedulerImplementsTaskPool` | `ImplementsTaskPool`, under the same | `JobsApart` adds that a callback is in one place only, in the queue or with one thread, and that its fiber has begun if and only if it was invoked; then each step maps to one of `TaskPool`, or to none. That `stop` closes is allowed only by `Drains`. |
| `RunsWhereScheduled`, `PinnedResumesSaved` | `PinRespected` and `NoStaleResume`, under `AllPinned` and `WakesHeldOnly` | `Homes`: every fiber that is in use belongs to the thread its callback was scheduled for; entries that hold it name that thread; and while it is on its way out, after its state became HOLD, it is that thread that executes it, which scans the queue only when the context is saved. So the race of `holdrace` needs a fiber that two threads may resume. |
| `PinnedAssertions` | `AssertionsHold`, under `AllPinned`, `WakesHeldOnly` and `OneStop` | `NoStray`: no fiber is READY, and one in EXEC is executed by the thread that is in it, so what a destructor or `swapIn` asserts holds of the others; with `OwnerInv` and `RootUnused` as above |
| `PinnedDrains` | `StopDrains`, under `AllPinned` and `WakesHeldOnly` | `EndSeen`: `stopping()`, once true, stays true until the owner schedules or starts, because a fiber that is never put back does not pass the window in which it is neither counted nor queued. `LeavesHeld`: a fiber that is going on hold has a handle or is in the queue already. `JobsHeld`: so a callback that has not ended is in the queue, with a thread, or on hold with a handle. |
| **FiberThreadProofs** | | |
| `StaysWired`, `KeepsStacks` | `Wired`, `StackKept`, under `Rules` | `Wired` says for each fiber and thread which combinations of pointers, contexts, states and places in the code there are; it is inductive, by one lemma per switch. |
| `SwitchesDefined` | `NoFault`, `GetThis` inside a callback, the assertions on yielding and main fibers, under `Rules` | follows from `Wired` |
| `FibersAreCoroutines` | `ImplementsCoroutines`, under `Rules` | each switch maps to a step of `Coroutines` on the chain that `Wired` determines, or to none |
| `Ready`, `NoDangling` | `ReadyWhenConstructed`, `NoDanglingThread` | the semaphore is posted only after the new thread is done with the object's parts; a thread that was joined has ended, so one that has still to call `SetName` on a destroyed object is one the destructor detached |
| `NoLostAdditions` | `JoinedWorkIsDone` | `CountInv`: the counter is the number of rounds whose store was made, counted as pairs of thread and round, and what a thread has read under the mutex is the counter |
| **ConfigVarProofs** | | |
| `LoopsStable` | `IterationStable` | who changes `m_cbs` holds the lock alone, who loops holds it for reading |
| `KeysAreOwn` | `KeysOwn` | `OneCounting`: callers for one variable exclude each other by its lock, so as long as those for two have not raced, one thread at a time is between its load of the counter and its return. `KeysInv`: the counter is above every key that anyone has, or is about to remove; nobody has the key under the counter until it is returned; a registered callback has one key. |
| `RemovedAreSilent` | `NoCallAfterRemoval` | from the same invariant: a callback that was removed has no key left, and every running loop has only keys that are in `m_cbs` |
| `ListenersAreCurrent` | `ListenersCurrent`, under `OneSetter` and `Pipeline` | No two calls overlap on a variable then, so this is about all variables. `CurrentInv` follows the setter down its stack of calls: each variable on it was set by the early listener of the one before, which was told the value and will not be called again; the last one's listener knows the old value until the loop reaches it, and the new one after; that of a variable nobody sets knows its value. An early listener that throws was not told, and its variable keeps the value it had. |
| **ConfigRegistryProofs** | | |
| `OneForAll` | `OneVariable` | `LookUp` stores a variable only under a name that has none, and setting one keeps its address |
| `DocumentsTakeEffect` | `Loaded`, under `OneLoader`, `LegalDocuments` and `OneNode` | `Walk`: after each call of `ListAllMember`, what is listed or still to be looked at is a node under the name the document has it at, and what is below a node that is listed is one or the other; so at the end all nodes are listed, each under its name. `LoadInv`: a variable that was registered at the call has the value the document gives it, or the value it had, and then the node that gives it one is still in the list. |
| **LoggerProofs** | | |
| `TypeCorrect` | `LoggerTypeOK` | a thread inside a call holds the lock of the logger, and whoever holds a lock is inside a call of that logger, or of the root logger through it; `ArgOK` ties the argument to the place in the call |
| `NoAppenderWithoutFormatter` | `AttachedHaveFormatter`, under `NoNull` | loggers always have a formatter, no step takes one away, and `addAppender` provides one before it attaches |
| `EventsWrittenOnce` | `WrittenOnce` | `ListsInv`: no list of appenders, nor what a loop has left of one, has an appender twice. `EventInv`: one thread logs an event, and no appender that its loop has still to reach has it. |
| `OwnFormattersKept` | `OwnFormatterKept` | the loop of `setFormatter` asks and stores in one region of the appender's lock. `addAppender` does so in two, and other threads may come between them; but an appender that is in one logger at a time is in none yet while a thread is there (`GivenBeforeAttached`, from `HomeInv` and `ListsInv`). |
| `FormattersInherited` | `Inherits`, under `NoNull` and `Settled` | `HomeInv`: an appender is in one logger, or on its way into it, and a loop has only appenders of its logger. `InheritInv`: it has the logger's formatter, or the loop of `setFormatter` has still to come to it. |
| `EventsHaveOneFormat` | `OneFormat`, under the same | `LineInv`: while a thread logs an event it holds the logger's lock, so the logger's formatter is that of the lines it has written |
| `OnlyOlderLinesLost` | `LostAreOlder`, under `FilesNotShared` | `FileInv`: lines of a file are from before the time at which it is opened next, and between the comparison and the storing of that time the one logger's lock is held |
| **LogFormatterProofs** | | |
| `NoTextLost` | `NothingLost` | `Taken`: while nothing was wrong, the items and the string that is being read have the characters before `i`, but for braces; `Reading` and `HasRead` say which part of the pattern the name and the format are |
| `LinesAsWritten` | `Rendered`, under `Documented` | `ShowInv`: in a well-formed pattern, `i` is where some number of tokens end, the items and the string print the line of these, and an error is a name among them that is unknown. The loop over an item ends where its token does, since the character behind a name is neither a letter nor a brace and a format has no closing brace. |
| **LogConfigProofs** | | |
| `EqualLeftAlone` | `OthersUntouched` | the calls that are to come are for names whose definition changes, and the value is not stored before they are made |
| `LoggersAsConfigured`, `TextsTakeEffect` | `LoggersMatch`, `AsLoaded`, under `OneSetter`, `EqualIsSame` and `NoRoot` | `MatchInv`: outside of the listener loggers match the value. In it the calls that are left for a name are the end of those that `Calls` gives, in one block, and the logger is as those before them leave it. |
| `WrittenIsRead` | `Reloads`, under `NoRoot` | `ReadInv`: every definition in use, and every call that is to come, is one that reading can give: levels with a name, appenders of the two types, without levels, and files where they belong; and appenders have a formatter of their own or their logger's. Such a definition is written as a text that is read as the same definition, appender by appender (`DefinedAgain`, `ParsedAgain`), and the calls that the listener makes for it in a new program lead to the logger it was written from (`SameLogger`). |

The assumptions say what programs do, and each is needed; the names behind them
are those of section 6.

| Assumption | Says | Without it |
|---|---|---|
| `NoHold` | callbacks do not go on hold | holdrace, holdlate, leak |
| `OneStop` | a scheduler that uses its caller is stopped at most once | secondstop |
| `AllShared` | nothing is scheduled for one thread only | pinlost |
| `AllPinned`, `WakesHeldOnly` | everything is scheduled for a thread; callbacks wake what is on hold, and do not yield to the queue | holdrace; wake, pinyield |
| `Rules` | fibers are switched as their constructors provide for | plainswap, callyield, callreset |
| `OneLoader` | one thread loads documents | documents of two loaders mix |
| `LegalDocuments` | keys of documents have no character that names may not have | uppercase |
| `OneNode` | a document has at most one node at a name | the last one counts that converts |
| `OneSetter` (ConfigVar) | one thread sets variables | twosetters |
| `Pipeline` | only early listeners set variables, each another one that no thread sets; and every value; only those of variables the thread sets throw | itself, circle, throwing |
| `NoNull` | `setFormatter` is not called with null | nullformatter |
| `Settled` | appenders are not shared and not detached | readd |
| `FilesNotShared` | a file appender is in one logger | sharedfile |
| `Documented` | literals are not percent signs, names are letters, formats have no closing brace and fit the buffer | percent, longdates |
| `OneSetter` (LogConfig) | one thread loads texts | twotexts |
| `EqualIsSame` | definitions that compare equal are equal | appendersonly |
| `NoRoot` | the root logger, which has an appender from the start, is not configured | withroot; `LoggersMatch` fails at the start |

The constants are otherwise as the modules' ASSUMEs have them, which TLC
evaluates in every run: that kinds of names are apart (`NoJobAssumption`,
`StacksAssumption`, `LoggerAssumption`, `FormatterAssumption`), that what
programs are given is of its type (`ThreadsAssumption`, `ProgramAssumption`,
`ConfigVarAssumption`, `RegistryAssumption`, `LogConfigAssumption`), and that the
threads of `Thread` are finitely many (`ThreadAssumption`). `TextsAssumption` says
that YAML nodes have texts and sequences in their fields, and that `Absent` is no
definition; `LiteralsAreStrings` that three literals are strings, which is true
but not built into the provers. `DocumentsAssumption` says that the pairs of a
YAML map are a sequence, and that `MaxCalls` is large enough.

Several arguments need induction over the length of a sequence. The library's
induction theorems take an operator, which the provers cannot instantiate;
`SequenceLemmas` proves instead that a set of naturals that has 0 and with each
number the next one is `Nat` (`SetInduction`), from the well-foundedness of the
subset order of finite sets, and from it that `FlattenSeq` joins sequences one
after the other. What a recursive function of the models computes (`Calls`, `At`,
`Reload`) is proved the same way: for each length a function with its equations
exists, so CHOOSE picks one of these, and they agree.

## 6. Where code and documentation, or code and intention, disagree

Two runs check one property each that TLC finds violated; `PROJECT.json` quotes
the text of the repository behind it.

| Run | What happens |
|---|---|
| `Scheduler_holdrace` | a fiber woken while it is going on hold is resumed on a context that was not saved yet |
| `LogConfig_appendersonly` | a change of appenders alone is not seen, since `LogDefine::operator==` compares appenders with themselves |

The passing runs restrict their programs, and their properties say what they
say, for a reason. Each line below is a property that fails once a restriction
is lifted: take the named run, change the constants as given, if any are, and TLC
shows the behaviour.

| Name | Run and change | Property | What happens |
|---|---|---|---|
| pinyield | `caller`, "ready" in BodyOps | PinRespected | a callback scheduled for a thread goes on elsewhere after a yield |
| pinstop | `caller`, UseCaller FALSE, Workers {w1, w2}, Pins {AnyThread, w1}, BodyOps {"ready", "spawn"} | StopReturns | a thread ends early, and work for it keeps `stop` waiting |
| pinlost | the same | StopDrains | a thread that has latched the end of its idle fiber ends, although a fiber that another was about to put back then schedules work for it; `stop` returns with the work undone |
| holdlate | `pool`, BodyOps {"hold", "wakeHeld"} | AssertionsHold | `run` stores HOLD in a fiber that was already resumed elsewhere |
| secondstop | `caller`, BodyOps {"spawn"}, MaxStops 2 | AssertionsHold | a second `stop` with work resumes a root fiber that has ended |
| wake | `caller`, BodyOps {"hold", "wake"} | AssertionsHold | a fiber woken whatever its state is offered to the other thread while it executes |
| leak | `caller`, Workers {}, Pins {AnyThread}, BodyOps {"spawn", "hold", "wake"} | ActiveCountExact | an entry of a finished fiber leaves the active counter too high |
| plainswap | `switch`, Plain {p}, Program {"plainSwap"} | NoFault | `swapIn` on a thread without a scheduler, as in `tests/fiber_test.cc` lines 23-30, saves to a fiber that does not exist |
| callyield | `switch`, Program {"callYield"} | ImplementsCoroutines | a fiber entered with `call` that yields leaves for the scheduler's fiber, not for its caller |
| callreset | `switch`, Program {"callReset"} | NoFault | a fiber entered with `call` that was reset, and so ends in `MainFunc`, leaves for the wrong context |
| getthis | `switch` | GetThisReturnsRunning | in a root fiber, once a fiber it resumed has left, `GetThis` returns the thread's main fiber; `fiber.h` line 85 says it returns the current one. (The comments at lines 103 and 110 name the main fiber where the code has the scheduler's.) |
| latelistener | `listeners` | NoChangeMissed | a listener registered while a change is under way hears of none, and has not seen the new value |
| twosetters | `listeners` | ListenersAlwaysCurrent | listeners hear of two changes in the order that is not the order of the stores |
| throwing | `listeners`, MayThrow <- Nested | ListenersCurrent | a listener that throws keeps the value of the outer variable from being stored, after others were told of it |
| itself | `listeners`, Forward <- Itself | SetOnce | a listener that sets its own variable is called again for the same value, and again |
| circle | `listeners`, Forward <- Circle | SetOnce | so are listeners that set each other's |
| crosswise | `listeners`, Forward <- Circle, Kept <- Crossed, Inputs {x, y}, Values {v0, v1, v2} | CallsReturn | two threads set two variables whose listeners set the other one: each waits for a write lock on what the other holds for reading |
| keyrace | `listeners` | KeysAlwaysOwn | two listeners of two variables get one key, or one of them a key it is not stored under |
| relaid | `legal` | ReadBackSame | a string in a container that is YAML is read back laid out in another way, without its quotes, or as `~` if it was empty |
| hardstrings | `legal`, Defaults <- HardDefaults | RoundTrip | of a container with a string that is no YAML nothing is written |
| uppercase | `legal`, Documents <- Cased | Loaded | keys with upper case letters are refused before they are converted |
| ownrace | `formats` | OwnAlwaysKept | `addAppender` overwrites an own formatter that another thread sets while the appender is being attached |
| sharedfile | `shared`, Shared {con, a} | LostAreOlder | writers in two loggers open one file again one after the other, and the second empties what the first wrote |
| reopen | `shared` | LinesKept | opening the file again empties it |
| readd | `formats`, Detachable {a} | Inherits | an appender keeps the formatter of a logger it was detached from |
| nullformatter | `formats`, OwnFormats {NoFormatter} | AttachedHaveFormatter | an attached appender loses its formatter |
| percent | `patterns`, "%" in Literals | Rendered | `%%` is a percent sign and the start of an item |
| longdates | `patterns`, Long <- LongDates | Rendered | a date whose text does not fit is written from a buffer that `strftime` left undefined |
| twotexts | `onetext`, two Setters | LoggersMatch | two configurations mix |
| withroot | `onetext`, LogNames <- WithRoot | Reloads | the root logger's console is written with its level, but levels of appenders are not read |
| detached | `threads` | RenamesAlive | a thread that was not joined calls `SetName` after its object is destroyed |

`GetThisReturnsRunning`, `NoChangeMissed`, `SetOnce`, `LinesKept`,
`ListenersAlwaysCurrent`, `KeysAlwaysOwn`, `ReadBackSame`, `OwnAlwaysKept` and
`RenamesAlive` are stated in their modules for this table and checked by no run.
Of each of the last five, the same run checks as much as the code does keep:
`ListenersCurrent`, `KeysOwn`, `RoundTrip`, `OwnFormatterKept` and
`NoDanglingThread`. `NoFault`, `CurrentFiber` and `SoleHolder` are proved.

So the scheduler keeps its promises for callbacks that do not go on hold, on any
number of threads, and for those that do only if they are woken where they were
held; fibers for programs that enter and leave them as they were made;
ConfigVar for calls of `setValue` that do not overlap, listeners of which only the
first may throw and that do not set each other's variables, and registrations
that do not race between two variables; the loggers for appenders that are in
one logger, and are given formatters of their own before or after they are
attached but not meanwhile; threads for programs that join them before they
destroy their objects, or do not rename them.

## 7. What is only model-checked, and what is not modelled

Liveness is checked by TLC only: the proof system has no rule for fairness that
its provers could use, nor for ENABLED. These are `StopReturns` and `JobServed`,
`CallsReturn`, `Terminates` and `StartsAndEnds`. So is what recursive operators
compute, which the provers cannot reason about: `RoundTrip` of `ConfigRegistry`
is about the conversions of `LexicalCast`, which recurse over the type.

Of schedulers, every invariant of the runs `pool` and `caller` is proved under
assumptions that the run satisfies. The refinement of `TaskPool` is stated only for
programs without callbacks on hold and without pinned ones: `TaskPool` has no
action for either. Of programs that put on hold what any thread may resume only
the types are proved, and of those that mix callbacks for one thread with
callbacks for any not that `stop` drains: section 6 shows how these fail.

Not modelled: what a compiler may make of data races on plain members beyond
their values being stale; signals, memory exhaustion, failures of the operating
system other than `pthread_create`; the wording of fields of a log line and
of backtraces; utilities, tests, build files, which have no protocol of their own.

## 8. Plan

Done, in this order: Fiber, Scheduler with its runs, TaskPool and the
refinement, ownership and its proofs; ConfigVar and its first proof; Logger and
its proofs; LogFormatter; LogConfig; ConfigRegistry; Thread and its proofs;
FiberThread, Coroutines and their proofs; nested `setValue` and its liveness;
LexicalCast; events, times and reopening; lines that `format` writes; texts that
configurations are read from and written to; the proofs that a pool drains, that
keys are unique, that removed listeners are silent and events written once; then
the proofs that the scheduler implements TaskPool and that pinned callbacks keep
their thread, that listeners follow the value, of formatters that are inherited
or kept and of files that are opened again, of loggers that follow their
configuration, of the parser for patterns of any length, and of the counter under
the mutex; then that configurations that are written are read again, and that
documents set the one variable of each name they have; then what is proved of
schedulers also for those that use their caller, and for callbacks that are put on
hold and woken on one thread. Left: an abstract observable variable, for one
setter, that ConfigVar implements, and an abstract logger that Logger implements.
