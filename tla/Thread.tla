-------------------------------- MODULE Thread --------------------------------
(***************************************************************************)
(* gwn::Thread over its Semaphore, and the scoped Mutex (thread.cc,        *)
(* mutex.cc, mutex.h): one thread constructs Thread objects, joins and     *)
(* destroys them; the threads they start share a counter under a mutex, as *)
(* in tests/thread_test.cc.                                                *)
(***************************************************************************)
EXTENDS Naturals, FiniteSets

CONSTANTS
    Children,   \* the Thread objects
    Renamed,    \* those whose callback calls Thread::SetName
    Loops,      \* how often a callback locks the mutex and adds one
    NoChild

ASSUME ThreadAssumption ==
    /\ IsFiniteSet(Children) /\ Renamed \subseteq Children
    /\ NoChild \notin Children /\ Loops \in Nat

VARIABLES
    obj,        \* of each object: "none", "ctor", "live", "destroyed"
    m_thread,   \* is its pthread_t nonzero?
    m_id,       \* has the started thread stored its id and its t_thread?
    m_cb,       \* does it still hold the callback?
    m_name,     \* has it been renamed?
    m_semaphore,\* its count
    run,        \* of each started thread: where it is
    left,       \* of each started thread: the rounds of its loop to go
    mutex,      \* which thread holds the mutex of the test
    count, tmp  \* the shared counter, and what each thread has read of it

object == <<obj, m_thread, m_name>>
start == <<m_id, m_cb, m_semaphore>>
loop == <<left, mutex, count, tmp>>
threadVars == <<object, start, run, loop>>

\* The constructing thread is in at most one constructor.
InCtor == \E c \in Children : obj[c] = "ctor"
RunAt(c, where) == run[c] = where
Goto(c, where) == run' = [run EXCEPT ![c] = where]

-----------------------------------------------------------------------------
\* Thread::Thread up to its wait: the thread is created.
Construct(c) ==
    /\ ~InCtor /\ obj[c] = "none"
    /\ obj' = [obj EXCEPT ![c] = "ctor"]
    /\ m_thread' = [m_thread EXCEPT ![c] = TRUE]
    /\ m_cb' = [m_cb EXCEPT ![c] = TRUE]
    /\ Goto(c, "start")
    /\ UNCHANGED <<m_id, m_semaphore, m_name, loop>>

\* pthread_create fails: the constructor throws.
ConstructFails(c) ==
    /\ ~InCtor /\ obj[c] = "none"
    /\ obj' = [obj EXCEPT ![c] = "destroyed"]
    /\ UNCHANGED <<m_thread, m_name, start, run, loop>>

\* Mutant of Constructed: the constructor does not wait.
ConstructedAtOnce(c) ==
    /\ obj[c] = "ctor"
    /\ obj' = [obj EXCEPT ![c] = "live"]
    /\ UNCHANGED <<m_thread, m_name, start, run, loop>>

\* Semaphore::wait, and the constructor returns.
Constructed(c) ==
    /\ obj[c] = "ctor" /\ m_semaphore[c] > 0
    /\ m_semaphore' = [m_semaphore EXCEPT ![c] = @ - 1]
    /\ obj' = [obj EXCEPT ![c] = "live"]
    /\ UNCHANGED <<m_thread, m_name, m_id, m_cb, run, loop>>

\* Thread::join returns when the thread has ended; the second call of it
\* does nothing.
join(c) ==
    /\ ~InCtor /\ obj[c] = "live" /\ m_thread[c] /\ RunAt(c, "done")
    /\ m_thread' = [m_thread EXCEPT ![c] = FALSE]
    /\ UNCHANGED <<obj, m_name, start, run, loop>>

\* Thread::~Thread detaches a thread that was not joined, wherever it is.
DestroyThread(c) ==
    /\ ~InCtor /\ obj[c] = "live"
    /\ obj' = [obj EXCEPT ![c] = "destroyed"]
    /\ UNCHANGED <<m_thread, m_name, start, run, loop>>

-----------------------------------------------------------------------------
\* Mutant of RunStart: the constructor is woken before m_id and m_cb are
\* dealt with.
RunStartLate(c) ==
    /\ RunAt(c, "start") /\ m_semaphore[c] = 0
    /\ m_semaphore' = [m_semaphore EXCEPT ![c] = @ + 1]
    /\ Goto(c, "notify")
    /\ UNCHANGED <<object, m_id, m_cb, loop>>

\* Thread::run: t_thread and m_id are set, and the callback is taken.
RunStart(c) ==
    /\ RunAt(c, "start")
    /\ m_id' = [m_id EXCEPT ![c] = TRUE]
    /\ m_cb' = [m_cb EXCEPT ![c] = FALSE]
    /\ Goto(c, "notify")
    /\ UNCHANGED <<object, m_semaphore, loop>>

\* Semaphore::notify
RunNotify(c) ==
    /\ RunAt(c, "notify")
    /\ m_semaphore' = [m_semaphore EXCEPT ![c] = @ + 1]
    /\ Goto(c, IF c \in Renamed THEN "rename" ELSE "loop")
    /\ UNCHANGED <<object, m_id, m_cb, loop>>

\* The callback calls Thread::SetName, which writes through t_thread, to the
\* object or to where it was.
SetName(c) ==
    /\ RunAt(c, "rename")
    /\ m_name' = [m_name EXCEPT ![c] = TRUE]
    /\ Goto(c, "loop")
    /\ UNCHANGED <<obj, m_thread, start, loop>>

\* Mutant of LoopLock: the scoped lock does not lock.
LoopLockNothing(c) ==
    /\ RunAt(c, "loop") /\ left[c] > 0
    /\ left' = [left EXCEPT ![c] = @ - 1]
    /\ Goto(c, "load")
    /\ UNCHANGED <<object, start, mutex, count, tmp>>

\* A round of its loop: lock, read, add and write back, unlock.
LoopLock(c) ==
    /\ RunAt(c, "loop") /\ left[c] > 0 /\ mutex = NoChild
    /\ mutex' = c
    /\ left' = [left EXCEPT ![c] = @ - 1]
    /\ Goto(c, "load")
    /\ UNCHANGED <<object, start, count, tmp>>
LoopLoad(c) ==
    /\ RunAt(c, "load")
    /\ tmp' = [tmp EXCEPT ![c] = count]
    /\ Goto(c, "store")
    /\ UNCHANGED <<object, start, left, mutex, count>>
LoopStore(c) ==
    /\ RunAt(c, "store")
    /\ count' = tmp[c] + 1
    /\ Goto(c, "unlock")
    /\ UNCHANGED <<object, start, left, mutex, tmp>>

\* Mutant of LoopUnlock: the lock is kept.
LoopUnlockNot(c) ==
    /\ RunAt(c, "unlock") /\ Goto(c, "loop")
    /\ UNCHANGED <<object, start, loop>>

LoopUnlock(c) ==
    /\ RunAt(c, "unlock") /\ mutex' = NoChild
    /\ Goto(c, "loop")
    /\ UNCHANGED <<object, start, left, count, tmp>>

\* The callback returns, and with it the thread.
RunEnd(c) ==
    /\ RunAt(c, "loop") /\ left[c] = 0
    /\ Goto(c, "done")
    /\ UNCHANGED <<object, start, loop>>

-----------------------------------------------------------------------------
ThreadInit ==
    /\ obj = [c \in Children |-> "none"]
    /\ m_thread = [c \in Children |-> FALSE]
    /\ m_id = [c \in Children |-> FALSE]
    /\ m_cb = [c \in Children |-> FALSE]
    /\ m_name = [c \in Children |-> FALSE]
    /\ m_semaphore = [c \in Children |-> 0]
    /\ run = [c \in Children |-> "none"]
    /\ left = [c \in Children |-> Loops]
    /\ mutex = NoChild /\ count = 0
    /\ tmp = [c \in Children |-> 0]

Main(c) == Construct(c) \/ ConstructFails(c) \/ Constructed(c) \/ join(c) \/ DestroyThread(c)
Run(c) ==
    \/ RunStart(c) \/ RunNotify(c) \/ SetName(c)
    \/ LoopLock(c) \/ LoopLoad(c) \/ LoopStore(c) \/ LoopUnlock(c) \/ RunEnd(c)

ThreadNext == \E c \in Children : Main(c) \/ Run(c)

ThreadSpec == ThreadInit /\ [][ThreadNext]_threadVars

\* The kernel runs every thread that can run.  A thread waits for the mutex
\* only while others have rounds to go, so no stronger fairness is needed.
Fairness == \A c \in Children : WF_threadVars(Constructed(c)) /\ WF_threadVars(Run(c))
FairSpec == ThreadSpec /\ Fairness

-----------------------------------------------------------------------------
\* The variables have their types; a semaphore counts at most one.
ThreadTypeOK ==
    /\ obj \in [Children -> {"none", "ctor", "live", "destroyed"}]
    /\ m_thread \in [Children -> BOOLEAN] /\ m_id \in [Children -> BOOLEAN]
    /\ m_cb \in [Children -> BOOLEAN] /\ m_name \in [Children -> BOOLEAN]
    /\ m_semaphore \in [Children -> 0..1]
    /\ run \in [Children -> {"none", "start", "notify", "rename", "loop",
                             "load", "store", "unlock", "done"}]
    /\ left \in [Children -> 0..Loops]
    /\ mutex \in Children \cup {NoChild}
    /\ count \in Nat /\ tmp \in [Children -> Nat]

\* Once its constructor has returned, a Thread has its id and has given its
\* callback away: getId is right, and what the callback holds can be freed.
ReadyWhenConstructed ==
    \A c \in Children : obj[c] = "live" => m_id[c] /\ ~m_cb[c]

\* Where the Thread object is gone, Thread::run has done with it, although the
\* destructor waits for nothing; and a thread that was joined will not write to
\* it through t_thread either, which nobody clears.
NoDanglingThread ==
    \A c \in Children : obj[c] = "destroyed" =>
        /\ run[c] \notin {"start", "notify"}
        /\ run[c] = "rename" => m_thread[c]

\* The same for threads that were not joined.  The code does not keep this:
\* after ~Thread has detached the thread, SetName (thread.cc line 24) writes to
\* an object that is destroyed.
RenamesAlive == \A c \in Children : RunAt(c, "rename") => obj[c] # "destroyed"

\* After join the thread has done all of its work, and nothing that any
\* thread added to the shared counter is lost.
JoinedWorkIsDone ==
    /\ \A c \in Children : obj[c] = "live" /\ ~m_thread[c] => left[c] = 0 /\ RunAt(c, "done")
    /\ (\A c \in Children : run[c] \in {"none", "done"})
         => count = Loops * Cardinality({c \in Children : RunAt(c, "done")})

\* The constructor returns, and the thread it started ends.
StartsAndEnds == \A c \in Children : (obj[c] = "ctor") ~> (obj[c] # "ctor" /\ RunAt(c, "done"))
=============================================================================
