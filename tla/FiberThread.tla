----------------------------- MODULE FiberThread -----------------------------
(***************************************************************************)
(* How control passes between fibers on a thread (gwn/fiber.cc): each      *)
(* thread has a current fiber t_fiber, a main fiber t_threadFiber that     *)
(* stands for its native stack, and a fiber t_scheduler_fiber that swapIn  *)
(* and swapOut save to and load from.  A switch trusts these pointers: it  *)
(* goes where the context they name says, not to who made the last switch. *)
(*                                                                         *)
(* A stack is a thread (its native one) or the fiber that owns it.  A      *)
(* fiber is resumed by one thread at a time (Scheduler's Ownership), so    *)
(* what a thread does up to and including a switch is one step.            *)
(***************************************************************************)
EXTENDS FiniteSets

CONSTANTS
    Fibers,     \* the addresses a Fiber object can have
    Callers,    \* threads that may construct a scheduler they take part in
    Pool,       \* threads whose native stack executes Scheduler::run
    Plain,      \* threads without a scheduler
    NoFiber,    \* nullptr
    NoStack,    \* a context whose registers were loaded, or never saved
    Fault,      \* in the place of a stack: the thread's switch was undefined
    Gone,       \* in the place of a stack: the thread has ended
    Program     \* what the program does beyond the rules, a set of names:
                \*   "plainSwap" swapIn from outside Scheduler::run
                \*   "callReset" call() of a fiber that ends in MainFunc
                \*   "callYield" a yield in a fiber entered with call

Threads == Callers \cup Pool \cup Plain
Stacks == Fibers \cup Threads

ASSUME StacksAssumption ==
    /\ Fibers \cap Threads = {}
    /\ Callers \cap Pool = {}
    /\ NoFiber \notin Fibers
    /\ {NoStack, Fault, Gone} \cap Stacks = {}
    /\ NoStack # Fault /\ NoStack # Gone /\ Fault # Gone
    /\ Plain \cap (Callers \cup Pool) = {}

VARIABLES
    m_state,            \* Fiber::m_state
    func,               \* where m_ctx was made to begin, see Func
    m_ctx,              \* Fiber::m_ctx: the stack a load of it continues
    at,                 \* where the code on the fiber's stack is, see At
    cur,                \* MainFunc, CallerMainFunc: the local variable cur
    t_fiber,            \* per thread: the current fiber
    t_threadFiber,      \* per thread: the main fiber
    t_scheduler_fiber,  \* per thread: Scheduler::GetMainFiber()
    m_rootFiber,        \* per thread: the root fiber of its scheduler
    running             \* per thread: the stack it executes on

objects == <<m_state, func, at, cur>>
locals == <<t_threadFiber, t_scheduler_fiber, m_rootFiber>>
vars == <<objects, m_ctx, t_fiber, locals, running>>

State == {"INIT", "HOLD", "EXEC", "TERM", "READY", "EXCEPT"}

\* "none": no object at this address; "main": the constructor without arguments.
Func == {"none", "main", "MainFunc", "CallerMainFunc"}

\* "entry": not entered; "body": inside m_cb(); "never": behind the last switch.
At == {"entry", "body", "never"}

TypeOK ==
    /\ m_state \in [Fibers -> State]
    /\ func \in [Fibers -> Func]
    /\ m_ctx \in [Fibers -> Stacks \cup {NoStack}]
    /\ at \in [Fibers -> At]
    /\ cur \in [Fibers -> Fibers \cup {NoFiber}]
    /\ t_fiber \in [Threads -> Fibers \cup {NoFiber}]
    /\ t_threadFiber \in [Threads -> Fibers \cup {NoFiber}]
    /\ t_scheduler_fiber \in [Threads -> Fibers \cup {NoFiber}]
    /\ m_rootFiber \in [Threads -> Fibers \cup {NoFiber}]
    /\ running \in [Threads -> Stacks \cup {Fault, Gone}]

Init ==
    /\ m_state = [f \in Fibers |-> "INIT"]
    /\ func = [f \in Fibers |-> "none"]
    /\ m_ctx = [f \in Fibers |-> NoStack]
    /\ at = [f \in Fibers |-> "entry"]
    /\ cur = [f \in Fibers |-> NoFiber]
    /\ t_fiber = [t \in Threads |-> NoFiber]
    /\ t_threadFiber = [t \in Threads |-> NoFiber]
    /\ t_scheduler_fiber = [t \in Threads |-> NoFiber]
    /\ m_rootFiber = [t \in Threads |-> NoFiber]
    /\ running = [t \in Threads |-> t]

-----------------------------------------------------------------------------
(***************************************************************************)
(* Where the code on a thread is.  Task code is a callback that is inside  *)
(* m_cb(); run() executes on a pool thread's native stack or in the root   *)
(* fiber; the rest is the native code of the program.                      *)
(***************************************************************************)
InNative(t) == running[t] = t
InTask(t) ==
    /\ running[t] \in Fibers /\ at[running[t]] = "body"
    /\ running[t] # m_rootFiber[t]
InRun(t) ==
    \/ t \in Pool /\ InNative(t) /\ t_fiber[t] # NoFiber
    \/ /\ m_rootFiber[t] # NoFiber /\ running[t] = m_rootFiber[t]
       /\ at[m_rootFiber[t]] = "body"

Alive(f) == f \in Fibers /\ func[f] # "none"

\* Mutant of Build: the entry point does not depend on use_caller.
BuildScheduled(f, entry) ==
    /\ func' = [func EXCEPT ![f] = "MainFunc"]
    /\ m_state' = [m_state EXCEPT ![f] = "INIT"]
    /\ at' = [at EXCEPT ![f] = "entry"]
    /\ m_ctx' = [m_ctx EXCEPT ![f] = f]

\* makecontext in the constructor and in reset: a context at the beginning of
\* the fiber's own stack.
Build(f, entry) ==
    /\ func' = [func EXCEPT ![f] = entry]
    /\ m_state' = [m_state EXCEPT ![f] = "INIT"]
    /\ at' = [at EXCEPT ![f] = "entry"]
    /\ m_ctx' = [m_ctx EXCEPT ![f] = f]

\* swapcontext(&from->m_ctx, &to->m_ctx) on thread t.
swapcontext(t, from, to) ==
    LET defined == /\ Alive(from) /\ Alive(to)
                   /\ m_ctx[to] # NoStack
                   /\ m_ctx[to] \in Fibers => at[m_ctx[to]] # "never"
    IN IF defined
       THEN /\ m_ctx' = [m_ctx EXCEPT ![from] = running[t], ![to] = NoStack]
            /\ running' = [running EXCEPT ![t] = m_ctx[to]]
       ELSE /\ running' = [running EXCEPT ![t] = Fault]
            /\ UNCHANGED m_ctx

SetThis(t, f) == t_fiber' = [t_fiber EXCEPT ![t] = f]

-----------------------------------------------------------------------------
(***************************************************************************)
(* Fiber::GetThis on a thread that has no current fiber: Fiber::Fiber()    *)
(* makes the main fiber.  With one it only reads t_fiber.                  *)
(***************************************************************************)
MakeMain(t, f) ==
    /\ ~Alive(f)
    /\ func' = [func EXCEPT ![f] = "main"]
    /\ m_state' = [m_state EXCEPT ![f] = "EXEC"]
    /\ m_ctx' = [m_ctx EXCEPT ![f] = NoStack]
    /\ SetThis(t, f)
    /\ t_threadFiber' = [t_threadFiber EXCEPT ![t] = f]
    /\ UNCHANGED <<at, cur, m_rootFiber, running>>

GetThis(t) ==
    /\ InNative(t) /\ t \notin Pool /\ t_fiber[t] = NoFiber
    /\ \E f \in Fibers : MakeMain(t, f)
    /\ UNCHANGED t_scheduler_fiber

\* The first lines of Scheduler::run on a pool thread.
RunOnThread(t) ==
    /\ t \in Pool /\ InNative(t) /\ t_fiber[t] = NoFiber
    /\ \E f \in Fibers :
        /\ MakeMain(t, f)
        /\ t_scheduler_fiber' = [t_scheduler_fiber EXCEPT ![t] = f]

\* Scheduler::Scheduler with cur_managed, after the thread's first GetThis().
NewScheduler(t) ==
    /\ t \in Callers /\ InNative(t) /\ t_fiber[t] # NoFiber
    /\ m_rootFiber[t] = NoFiber
    /\ \E f \in Fibers :
        /\ ~Alive(f)
        /\ Build(f, "CallerMainFunc")
        /\ m_rootFiber' = [m_rootFiber EXCEPT ![t] = f]
        /\ t_scheduler_fiber' = [t_scheduler_fiber EXCEPT ![t] = f]
    /\ UNCHANGED <<cur, t_fiber, t_threadFiber, running>>

\* Fiber::Fiber(cb, stacksize, use_caller), whoever calls it.
NewFiber ==
    /\ \E f \in Fibers, entry \in {"MainFunc", "CallerMainFunc"} :
        ~Alive(f) /\ Build(f, entry)
    /\ UNCHANGED <<cur, t_fiber, locals, running>>

\* The assertion of Fiber::reset and of ~Fiber.
Disposable(f) == m_state[f] \in {"INIT", "TERM", "EXCEPT"}

reset ==
    /\ \E f \in Fibers :
        /\ func[f] \in {"MainFunc", "CallerMainFunc"}
        /\ Disposable(f) /\ \A t \in Threads : m_rootFiber[t] # f
        /\ Build(f, "MainFunc")
    /\ UNCHANGED <<cur, t_fiber, locals, running>>

-----------------------------------------------------------------------------
\* A fiber that can be resumed: run() tests this before swapIn.
Resumable(f) == Alive(f) /\ func[f] # "main" /\ m_state[f] \in {"INIT", "HOLD", "READY"}

\* Mutant of swapIn: the thread's main fiber keeps the caller's registers.
swapInFromMain(t, f) ==
    /\ SetThis(t, f)
    /\ m_state' = [m_state EXCEPT ![f] = "EXEC"]
    /\ swapcontext(t, t_threadFiber[t], f)
    /\ UNCHANGED <<func, at, cur, locals>>

swapIn(t, f) ==
    /\ SetThis(t, f)
    /\ m_state' = [m_state EXCEPT ![f] = "EXEC"]
    /\ swapcontext(t, t_scheduler_fiber[t], f)
    /\ UNCHANGED <<func, at, cur, locals>>

call(t, f) ==
    /\ SetThis(t, f)
    /\ m_state' = [m_state EXCEPT ![f] = "EXEC"]
    /\ swapcontext(t, t_threadFiber[t], f)
    /\ UNCHANGED <<func, at, cur, locals>>

\* run() resumes tasks; stop() and the program's native code call the root
\* fiber and fibers made with use_caller.
Resume(t) == \E f \in Fibers :
    /\ Resumable(f)
    /\ \/ /\ InRun(t) \/ (InNative(t) /\ t_fiber[t] # NoFiber
                             /\ "plainSwap" \in Program)
          /\ func[f] = "MainFunc"
          /\ swapIn(t, f)
       \/ /\ InNative(t) /\ t \notin Pool /\ t_threadFiber[t] # NoFiber
          /\ func[f] = "CallerMainFunc" \/ "callReset" \in Program
          /\ \A u \in Threads \ {t} : m_rootFiber[u] # f
          /\ call(t, f)

\* The first line of MainFunc and CallerMainFunc.
Enter(t) ==
    /\ running[t] \in Fibers /\ at[running[t]] = "entry"
    /\ at' = [at EXCEPT ![running[t]] = "body"]
    /\ cur' = [cur EXCEPT ![running[t]] = t_fiber[t]]
    /\ UNCHANGED <<m_state, func, m_ctx, t_fiber, locals, running>>

\* Mutant of swapOut: it continues the thread's main fiber.
swapOutToMain(t, f) ==
    SetThis(t, t_threadFiber[t]) /\ swapcontext(t, f, t_threadFiber[t])

\* f->swapOut() and f->back() on thread t.
swapOut(t, f) ==
    SetThis(t, t_threadFiber[t]) /\ swapcontext(t, f, t_scheduler_fiber[t])
back(t, f) ==
    SetThis(t, t_threadFiber[t]) /\ swapcontext(t, f, t_threadFiber[t])

\* YieldToReady, YieldToHold, and the way a fiber entered with call leaves and
\* can be called again: it sets its state, then back().
Yield(t) ==
    LET f == t_fiber[t] IN
    /\ InTask(t)
    /\ f # NoFiber /\ m_state[f] = "EXEC"
    /\ \E s \in {"READY", "HOLD"} : m_state' = [m_state EXCEPT ![f] = s]
    /\ \/ /\ func[running[t]] = "MainFunc" \/ "callYield" \in Program
          /\ swapOut(t, f)
       \/ func[running[t]] = "CallerMainFunc" /\ back(t, f)
    /\ UNCHANGED <<func, at, cur, locals>>

\* The end of MainFunc and CallerMainFunc, after m_cb() returned or threw.
End(t) ==
    LET s == running[t]
        c == cur[s] IN
    /\ s \in Fibers /\ at[s] = "body" /\ c \in Fibers
    /\ \E result \in {"TERM", "EXCEPT"} : m_state' = [m_state EXCEPT ![c] = result]
    /\ cur' = [cur EXCEPT ![s] = NoFiber]
    /\ at' = [at EXCEPT ![s] = "never"]
    /\ IF func[s] = "MainFunc" THEN swapOut(t, c) ELSE back(t, c)
    /\ UNCHANGED <<func, locals>>

-----------------------------------------------------------------------------
\* ~Fiber for a fiber with a stack: nobody but the program refers to it.
Destroy ==
    /\ \E f \in Fibers :
        /\ func[f] \in {"MainFunc", "CallerMainFunc"} /\ Disposable(f)
        /\ \A t \in Threads : m_rootFiber[t] # f
        /\ func' = [func EXCEPT ![f] = "none"]
    /\ UNCHANGED <<m_state, m_ctx, at, cur, t_fiber, locals, running>>

\* ~Scheduler: the root fiber goes, t_scheduler_fiber stays as it is.
DeleteScheduler(t) ==
    /\ InNative(t) /\ m_rootFiber[t] # NoFiber /\ Disposable(m_rootFiber[t])
    /\ func' = [func EXCEPT ![m_rootFiber[t]] = "none"]
    /\ m_rootFiber' = [m_rootFiber EXCEPT ![t] = NoFiber]
    /\ UNCHANGED <<m_state, m_ctx, at, cur, t_fiber, t_threadFiber,
                   t_scheduler_fiber, running>>

\* The thread ends, and with t_threadFiber its main fiber.
Exit(t) ==
    LET f == t_threadFiber[t] IN
    /\ InNative(t) /\ f # NoFiber /\ m_rootFiber[t] = NoFiber
    /\ func' = [func EXCEPT ![f] = "none"]
    /\ t_fiber' = [t_fiber EXCEPT ![t] = IF @ = f THEN NoFiber ELSE @]
    /\ t_threadFiber' = [t_threadFiber EXCEPT ![t] = NoFiber]
    /\ running' = [running EXCEPT ![t] = Gone]
    /\ UNCHANGED <<m_state, m_ctx, at, cur, t_scheduler_fiber, m_rootFiber>>

Next ==
    \/ NewFiber \/ reset \/ Destroy
    \/ \E t \in Threads :
        \/ GetThis(t) \/ RunOnThread(t) \/ NewScheduler(t) \/ DeleteScheduler(t)
        \/ Resume(t) \/ Enter(t) \/ Yield(t) \/ End(t) \/ Exit(t)

Spec == Init /\ [][Next]_vars
-----------------------------------------------------------------------------
(***************************************************************************)
(* No switch saves to or loads from a fiber that does not exist, loads     *)
(* registers that were loaded before, or goes on behind the end of         *)
(* MainFunc (the assertion "never reach").                                 *)
(***************************************************************************)
NoFault == \A t \in Threads : running[t] # Fault

(***************************************************************************)
(* GetThis() gives a callback its own fiber, so that its yields and the    *)
(* end of MainFunc save and mark that fiber and no other, wherever it was  *)
(* resumed before; native code gets the thread's main fiber.               *)
(***************************************************************************)
CurrentFiber == \A t \in Threads :
    /\ InTask(t) => t_fiber[t] = running[t] /\ cur[running[t]] = running[t]
    /\ InNative(t) => t_fiber[t] = t_threadFiber[t]

(***************************************************************************)
(* The assertions of fiber.cc lines 140 and 160 on a resumed fiber hold by *)
(* the test before; those on a fiber that yields (177, 188), and on a main *)
(* fiber that is destroyed (105), need that nobody else touched the state. *)
(***************************************************************************)
AssertionsHold == \A t \in Threads :
    /\ InTask(t) => m_state[t_fiber[t]] = "EXEC"
    /\ t_threadFiber[t] # NoFiber => m_state[t_threadFiber[t]] = "EXEC"

(***************************************************************************)
(* A stack with unfinished work is executing, or in exactly one context,   *)
(* from where somebody can continue it: no switch overwrites the only      *)
(* place it was saved in, no two lead to it, no destructor takes it away.  *)
(***************************************************************************)
Places(s) == {t \in Threads : running[t] = s}
             \cup {f \in Fibers : Alive(f) /\ m_ctx[f] = s}
StackKept ==
    /\ \A f \in Fibers : at[f] = "body" => Cardinality(Places(f)) = 1
    /\ \A t \in Threads : running[t] # Gone => Cardinality(Places(t)) = 1

(***************************************************************************)
(* How the pointers and contexts of all threads hang together, so that     *)
(* every switch finds what it expects: the inductive invariant.            *)
(***************************************************************************)
HasStack(f) == func[f] \in {"MainFunc", "CallerMainFunc"}

\* A main fiber belongs to one thread, and holds the thread's native stack
\* whenever that is not executing.
MainWired(t) ==
    LET m == t_threadFiber[t] IN
    /\ running[t] \in Fibers \cup {t, Gone}
    /\ t_fiber[t] = NoFiber <=> m = NoFiber
    /\ running[t] = t => t_fiber[t] = m
    /\ m = NoFiber => running[t] \in {t, Gone}
    /\ m # NoFiber =>
         /\ func[m] = "main" /\ m_state[m] = "EXEC" /\ running[t] # Gone
         /\ m_ctx[m] = IF running[t] = t THEN NoStack ELSE t
         /\ \A u \in Threads \ {t} : t_threadFiber[u] # m

\* What swapIn and swapOut take for the thread's main fiber is the one run()
\* executes in.
SchedulerWired(t) ==
    LET r == m_rootFiber[t] IN
    /\ t \in Pool /\ t_threadFiber[t] # NoFiber => t_scheduler_fiber[t] = t_threadFiber[t]
    /\ r # NoFiber =>
         /\ t \in Callers /\ t_threadFiber[t] # NoFiber
         /\ func[r] = "CallerMainFunc" /\ t_scheduler_fiber[t] = r
         /\ \A u \in Threads \ {t} : m_rootFiber[u] # r

\* The root fiber t executes, or has left with swapIn.
RootInBody(t) ==
    LET r == m_rootFiber[t] IN
    r # NoFiber /\ m_state[r] = "EXEC" /\ at[r] = "body" /\ cur[r] = r

\* A fiber that executes is the current one, and what it returns to waits for
\* it; to the root fiber, swapOut came back with the main fiber as current.
RunningWired(t) ==
    LET f == running[t] IN
    f \in Fibers =>
        /\ HasStack(f) /\ m_state[f] = "EXEC" /\ m_ctx[f] = NoStack /\ at[f] # "never"
        /\ at[f] = "body" => cur[f] = f
        /\ \A u \in Threads \ {t} : running[u] # f /\ m_rootFiber[u] # f
        /\ \/ t_fiber[t] = f
           \/ f = m_rootFiber[t] /\ at[f] = "body" /\ t_fiber[t] = t_threadFiber[t]
        /\ func[f] = "MainFunc" =>
             t \in Pool \/ (RootInBody(t) /\ m_ctx[m_rootFiber[t]] = m_rootFiber[t])
        /\ func[f] = "CallerMainFunc" => t \notin Pool

\* A fiber that does not execute is in its own context, where its state says.
WaitingWired(f) ==
    /\ HasStack(f) /\ (\A t \in Threads : running[t] # f) =>
         /\ m_ctx[f] = f
         /\ m_state[f] = "INIT" => at[f] = "entry"
         /\ m_state[f] \in {"HOLD", "READY", "EXEC"} => at[f] = "body" /\ cur[f] = f
         /\ m_state[f] \in {"TERM", "EXCEPT"} => at[f] = "never"
         /\ m_state[f] = "EXEC" =>
              \E t \in Threads : /\ m_rootFiber[t] = f /\ running[t] \in Fibers
                                 /\ func[running[t]] = "MainFunc"
    /\ func[f] = "main" => \E t \in Threads : t_threadFiber[t] = f
    /\ ~HasStack(f) => at[f] # "body"

Wired ==
    /\ TypeOK
    /\ \A t \in Threads : MainWired(t) /\ SchedulerWired(t) /\ RunningWired(t)
    /\ \A f \in Fibers : WaitingWired(f)

(***************************************************************************)
(* GetThis() returns the fiber that executes (fiber.h line 85).  On the    *)
(* thread of a root fiber it does not: swapOut made the main fiber current *)
(* before it continued the root fiber.                                     *)
(***************************************************************************)
GetThisReturnsRunning ==
    \A t \in Threads : running[t] \in Fibers => t_fiber[t] = running[t]

(***************************************************************************)
(* The chain of coroutines a thread is inside of, read off the pointers    *)
(* and contexts that the next switches will follow.                        *)
(***************************************************************************)
ReturnsTo(t, s) ==
    m_ctx[IF func[s] = "MainFunc" THEN t_scheduler_fiber[t] ELSE t_threadFiber[t]]

Chain(t) ==
    LET s == running[t] IN
    IF s \notin Fibers THEN <<>>
    ELSE IF ReturnsTo(t, s) \in Fibers THEN <<ReturnsTo(t, s), s>> ELSE <<s>>

C == INSTANCE Coroutines WITH
        Coroutines <- Fibers,
        chain <- [t \in Threads |-> Chain(t)],
        ended <- {f \in Fibers : at[f] = "never"}

\* Swapping fibers through thread-local pointers implements coroutines: every
\* switch away from a fiber continues whoever resumed it, on every thread.
ImplementsCoroutines == C!Spec
=============================================================================
