------------------------------ MODULE Scheduler ------------------------------
(***************************************************************************)
(* The N-M coroutine scheduler of gwn/scheduler.{h,cc}: pool threads (and, *)
(* with use_caller, the thread that calls stop) execute Scheduler::run,    *)
(* taking fibers and callbacks from one queue, while the owner of the      *)
(* scheduler calls start, schedule, stop and the destructor.               *)
(*                                                                         *)
(* A region under m_mutex is one step; between regions every access to     *)
(* the shared, unlocked state (a fiber's m_state, m_activeThreadCount,     *)
(* m_stopping, m_autoStop) is a step of its own.  A gwn_ASSERT is a guard: *)
(* a thread whose assertion fails goes no further, and AssertionsHold says *)
(* that no thread gets there.                                              *)
(***************************************************************************)
EXTENDS Fiber, Integers, Sequences, FiniteSets, SequencesExt

CONSTANTS
    Workers,    \* the pool threads there can be
    Caller,     \* the thread that constructs, starts, stops and destroys
    UseCaller,  \* the constructor's cur_managed
    NoFiber,    \* the empty Fiber::ptr
    AnyThread,  \* the thread id -1
    Pins,       \* the thread arguments the program passes to schedule
    BodyOps,    \* what the callbacks of this program do
    MaxYields,  \* bound: yields, and handles taken, by all callbacks together
    MaxStops    \* bound: calls of stop

Threads == Workers \cup {Caller}

(***************************************************************************)
(* "ready" Fiber::YieldToReady       "hold"  Fiber::YieldToHold after the  *)
(* "spawn" schedule a new callback           fiber left a handle to itself *)
(* "throw" let an exception escape   "wake"  schedule a fiber by a handle  *)
(* "wakeHeld" the same, only when getState() says HOLD                     *)
(***************************************************************************)
AllBodyOps == {"ready", "spawn", "throw", "hold", "wake", "wakeHeld"}

ASSUME ThreadsAssumption ==
    /\ IsFiniteSet(Workers)
    /\ Caller \notin Workers
    /\ AnyThread \notin Threads
    /\ UseCaller \in BOOLEAN
    /\ UseCaller \/ Workers # {}
    /\ Pins \subseteq Threads \cup {AnyThread}
    /\ Caller \in Pins => UseCaller

ASSUME ProgramAssumption ==
    /\ NoFiber \notin Fibers
    /\ BodyOps \subseteq AllBodyOps
    /\ MaxYields \in Nat
    /\ MaxStops \in Nat

VARIABLES
    m_fibers,               \* the queue, a sequence of Entry
    m_activeThreadCount,
    m_stopping,
    m_autoStop,
    pool,                   \* the workers start() creates, m_threadCount of them
    m_threads,              \* the workers that start() created
    rootState,              \* m_state of m_rootFiber, "none" without it
    pc,                     \* where each thread is
    ft,                     \* run(): the entry taken
    cb_fiber,               \* run(): the fiber that executes callbacks
    idleTerm,               \* run(): idle_fiber is TERM
    sent,                   \* the callbacks the program has scheduled
    pin,                    \* the thread it asked for, for each of them
    handles,                \* fibers the program keeps a Fiber::ptr to
    yields,                 \* counts towards MaxYields
    stops,                  \* counts towards MaxStops
    runs,                   \* how often each callback was invoked
    done                    \* the callbacks that returned or threw

queueVars == <<m_fibers, m_activeThreadCount>>
flagVars == <<m_stopping, m_autoStop, pool, m_threads, rootState, stops>>
localVars == <<ft, cb_fiber, idleTerm>>
jobVars == <<sent, pin, handles, yields, runs, done>>
vars == <<fiberVars, queueVars, flagVars, localVars, jobVars, pc>>

-----------------------------------------------------------------------------
\* Scheduler::FiberAndThread.
Entry == [fiber : Fibers \cup {NoFiber}, cb : Jobs \cup {NoJob},
          thread : Threads \cup {AnyThread}]

\* An entry that can be in the queue: it names a fiber or a callback.
Task == {e \in Entry : e.fiber # NoFiber \/ e.cb # NoJob}

FiberEntry(f, thr) == [fiber |-> f, cb |-> NoJob, thread |-> thr]
CbEntry(c, thr) == [fiber |-> NoFiber, cb |-> c, thread |-> thr]
NoEntry == FiberEntry(NoFiber, AnyThread)

RunPC == {"pick", "dispatch", "reset", "swapIn", "body", "swapOut",
          "leave", "settle", "setHold", "idle"}
OwnerPC == {"main", "stopEarly", "stopCheck", "stopFlag", "stopCall",
            "swap", "join", "gone"}
PC == RunPC \cup OwnerPC \cup {"none", "exited"}

\* The fiber thread t executes, is about to execute, or has just left.
Cur(t) == IF ft[t].fiber # NoFiber THEN ft[t].fiber ELSE cb_fiber[t]

Queued(f) == \E k \in DOMAIN m_fibers : m_fibers[k].fiber = f

\* Some shared_ptr refers to f.  An object nobody refers to is destroyed, and
\* its address can be used again.
Referenced(f) ==
    \/ Queued(f)
    \/ \E t \in Threads : f \in {ft[t].fiber, cb_fiber[t]}
    \/ f \in handles
    \/ OwnsItself(f)

Goto(t, where) == pc' = [pc EXCEPT ![t] = where]

\* A step that reads shared state and changes nothing but the place in the code.
GoOnly(t, where) ==
    /\ Goto(t, where)
    /\ UNCHANGED <<fiberVars, queueVars, flagVars, localVars, jobVars>>

\* Scheduler::schedule: append under the lock; an empty entry is not queued.
schedule(e) ==
    /\ m_fibers' = IF e.fiber = NoFiber /\ e.cb = NoJob
                    THEN m_fibers ELSE Append(m_fibers, e)
    /\ UNCHANGED m_activeThreadCount

\* Mutant of Stopping: the queue is not looked at.
StoppingIgnoresQueue ==
    m_autoStop /\ m_stopping /\ m_activeThreadCount = 0

\* Scheduler::stopping, evaluated under the lock.
Stopping ==
    /\ m_autoStop /\ m_stopping
    /\ m_fibers = <<>> /\ m_activeThreadCount = 0

-----------------------------------------------------------------------------
\* Mutant of Eligible: the thread id of the entry is not compared.
EligibleAnywhere(t, e) == e.fiber # NoFiber => m_state[e.fiber] # "EXEC"

\* The test of the queue scan: may thread t execute entry e.
Eligible(t, e) ==
    /\ e.thread \in {AnyThread, t}
    /\ e.fiber # NoFiber => m_state[e.fiber] # "EXEC"

\* Mutants of Take: the counter is not incremented; the entry is not erased.
TakeUncounted(k) ==
    m_fibers' = RemoveAt(m_fibers, k) /\ UNCHANGED m_activeThreadCount
TakeWithoutErase(k) ==
    m_activeThreadCount' = m_activeThreadCount + 1 /\ UNCHANGED m_fibers

\* Entry k leaves the queue and its thread becomes active.
Take(k) ==
    /\ m_fibers' = RemoveAt(m_fibers, k)
    /\ m_activeThreadCount' = m_activeThreadCount + 1

\* The scan takes the first entry the thread may execute.
Pick(t) ==
    /\ pc[t] = "pick"
    /\ \E k \in DOMAIN m_fibers :
        /\ Eligible(t, m_fibers[k])
        /\ \A i \in 1..(k - 1) : ~Eligible(t, m_fibers[i])
        /\ ft' = [ft EXCEPT ![t] = m_fibers[k]]
        /\ Take(k)
        /\ Goto(t, IF m_fibers[k].fiber # NoFiber THEN "dispatch" ELSE "reset")
    /\ UNCHANGED <<fiberVars, flagVars, cb_fiber, idleTerm, jobVars>>

PickNothing(t) ==
    /\ pc[t] = "pick"
    /\ \A k \in DOMAIN m_fibers : ~Eligible(t, m_fibers[k])
    /\ ft' = [ft EXCEPT ![t] = NoEntry]
    /\ Goto(t, "idle")
    /\ UNCHANGED <<fiberVars, queueVars, flagVars, cb_fiber, idleTerm, jobVars>>

\* Mutant of FinishedStates: a fiber that yielded counts as finished.
FinishedOrReady == {"TERM", "EXCEPT", "READY"}

\* The states run() takes for the end of a fiber.
FinishedStates == {"TERM", "EXCEPT"}

\* A fiber that finished while it was queued falls through to the idle branch;
\* m_activeThreadCount keeps the increment of Pick.
Dispatch(t) ==
    /\ pc[t] = "dispatch"
    /\ GoOnly(t, IF m_state[ft[t].fiber] \in FinishedStates
                 THEN "idle" ELSE "swapIn")

\* A callback gets the thread's callback fiber, or a new one.
ResetCbFiber(t) ==
    /\ pc[t] = "reset"
    /\ \E f \in Fibers :
        /\ IF cb_fiber[t] # NoFiber THEN f = cb_fiber[t] /\ Disposable(f)
                                    ELSE ~Referenced(f)
        /\ Prepare(f, ft[t].cb)
        /\ cb_fiber' = [cb_fiber EXCEPT ![t] = f]
    /\ Goto(t, "swapIn")
    /\ UNCHANGED <<queueVars, flagVars, ft, idleTerm, jobVars>>

\* Fiber::swapIn.  Only a context that was saved, or never entered, can be
\* resumed; m_cb() is called when MainFunc is entered.
SwapIn(t) ==
    LET f == Cur(t) IN
    /\ pc[t] = "swapIn"
    /\ m_state[f] # "EXEC" /\ ctx[f] \in {"fresh", "saved"}
    /\ Enter(f)
    /\ runs' = IF ctx[f] = "fresh" /\ m_cb[f] # NoJob
               THEN [runs EXCEPT ![m_cb[f]] = @ + 1] ELSE runs
    /\ Goto(t, "body")
    /\ UNCHANGED <<queueVars, flagVars, localVars,
                   sent, pin, handles, yields, done>>
-----------------------------------------------------------------------------
\* What the callback on thread t may do.  A worker's thread id is known once
\* the worker runs.
MayPin(p) == p \in Workers => p \in m_threads

BodySpawn(t) ==
    /\ pc[t] = "body" /\ "spawn" \in BodyOps
    /\ \E c \in Jobs \ sent, p \in Pins :
        /\ MayPin(p)
        /\ schedule(CbEntry(c, p))
        /\ sent' = sent \cup {c}
        /\ pin' = [pin EXCEPT ![c] = p]
    /\ UNCHANGED <<fiberVars, flagVars, localVars, pc,
                   handles, yields, runs, done>>

\* Keep Fiber::GetThis() where another callback finds it.
BodyRegister(t) ==
    /\ pc[t] = "body" /\ "hold" \in BodyOps
    /\ yields < MaxYields
    /\ Cur(t) \notin handles
    /\ handles' = handles \cup {Cur(t)}
    /\ yields' = yields + 1
    /\ UNCHANGED <<fiberVars, queueVars, flagVars, localVars, pc,
                   sent, pin, runs, done>>

\* Mutant of WakePin: the fiber is scheduled for any thread.
WakeAnywhere(f) == AnyThread

\* The thread a program passes when it schedules a fiber it kept: the one it
\* scheduled the fiber's callback for.
WakePin(f) == IF m_cb[f] \in Jobs THEN pin[m_cb[f]] ELSE AnyThread

BodyWake(t) ==
    /\ pc[t] = "body"
    /\ \E f \in handles :
        /\ \/ "wake" \in BodyOps
           \/ "wakeHeld" \in BodyOps /\ m_state[f] = "HOLD"
        /\ schedule(FiberEntry(f, WakePin(f)))
        /\ handles' = handles \ {f}
    /\ UNCHANGED <<fiberVars, flagVars, localVars, pc,
                   sent, pin, yields, runs, done>>

\* Fiber::YieldToReady and Fiber::YieldToHold up to the call of swapOut.
Yield(t, s) ==
    /\ pc[t] = "body"
    /\ m_state[Cur(t)] = "EXEC"
    /\ setState(Cur(t), s)
    /\ Goto(t, "swapOut")
    /\ UNCHANGED <<queueVars, flagVars, localVars,
                   sent, pin, handles, runs, done>>

YieldToReady(t) ==
    /\ "ready" \in BodyOps /\ yields < MaxYields
    /\ Yield(t, "READY")
    /\ yields' = yields + 1

YieldToHold(t) ==
    /\ "hold" \in BodyOps /\ (Cur(t) \in handles \/ Queued(Cur(t)))
    /\ Yield(t, "HOLD")
    /\ UNCHANGED yields

\* m_cb() returns into MainFunc.
BodyReturn(t) ==
    /\ pc[t] = "body" /\ m_cb[Cur(t)] # NoJob
    /\ Return(Cur(t))
    /\ done' = done \cup {m_cb[Cur(t)]}
    /\ Goto(t, "swapOut")
    /\ UNCHANGED <<queueVars, flagVars, localVars,
                   sent, pin, handles, yields, runs>>

\* m_cb() throws; an empty m_cb always does (std::bad_function_call).
BodyThrow(t) ==
    /\ pc[t] = "body"
    /\ "throw" \in BodyOps \/ m_cb[Cur(t)] = NoJob
    /\ Throw(Cur(t))
    /\ done' = done \cup ({m_cb[Cur(t)]} \ {NoJob})
    /\ Goto(t, "swapOut")
    /\ UNCHANGED <<queueVars, flagVars, localVars,
                   sent, pin, handles, yields, runs>>

SwapOut(t) ==
    /\ pc[t] = "swapOut"
    /\ Leave(Cur(t))
    /\ Goto(t, "leave")
    /\ UNCHANGED <<queueVars, flagVars, localVars, jobVars>>

Body(t) ==
    \/ BodySpawn(t) \/ BodyRegister(t) \/ BodyWake(t)
    \/ YieldToReady(t) \/ YieldToHold(t)
    \/ BodyReturn(t) \/ BodyThrow(t) \/ SwapOut(t)
-----------------------------------------------------------------------------
\* Mutant of LeaveActive: the counter is not decremented.
LeaveCounted(t) == pc[t] = "leave" /\ GoOnly(t, "settle")

\* run() after swapIn returned: --m_activeThreadCount, before the state is read.
LeaveActive(t) ==
    /\ pc[t] = "leave"
    /\ m_activeThreadCount' = m_activeThreadCount - 1
    /\ Goto(t, "settle")
    /\ UNCHANGED <<fiberVars, m_fibers, flagVars, localVars, jobVars>>

\* Mutant of DropFiber: cb_fiber is not given up.
DropEntryOnly(t) ==
    ft' = [ft EXCEPT ![t] = NoEntry] /\ UNCHANGED <<cb_fiber, idleTerm>>

\* ft.reset(), and in the callback branch cb_fiber.reset(): somebody else will
\* resume the fiber.
DropFiber(t) ==
    /\ ft' = [ft EXCEPT ![t] = NoEntry]
    /\ cb_fiber' = IF ft[t].fiber # NoFiber THEN cb_fiber
                   ELSE [cb_fiber EXCEPT ![t] = NoFiber]
    /\ UNCHANGED idleTerm

SettleReady(t) ==
    /\ pc[t] = "settle" /\ m_state[Cur(t)] = "READY"
    /\ schedule(FiberEntry(Cur(t), AnyThread))
    /\ DropFiber(t)
    /\ Goto(t, "pick")
    /\ UNCHANGED <<fiberVars, flagVars, jobVars>>

\* A finished callback fiber is emptied and kept for the next callback.
SettleFinished(t) ==
    /\ pc[t] = "settle" /\ m_state[Cur(t)] \in FinishedStates
    /\ IF ft[t].fiber # NoFiber THEN UNCHANGED fiberVars
                                ELSE Prepare(Cur(t), NoJob)
    /\ ft' = [ft EXCEPT ![t] = NoEntry]
    /\ Goto(t, "pick")
    /\ UNCHANGED <<queueVars, flagVars, cb_fiber, idleTerm, jobVars>>

\* Neither: the branch is taken now, HOLD is stored by the next step.
SettleOther(t) ==
    /\ pc[t] = "settle" /\ m_state[Cur(t)] \notin FinishedStates \cup {"READY"}
    /\ GoOnly(t, "setHold")

SetHold(t) ==
    /\ pc[t] = "setHold"
    /\ setState(Cur(t), "HOLD")
    /\ DropFiber(t)
    /\ Goto(t, "pick")
    /\ UNCHANGED <<queueVars, flagVars, jobVars>>

\* One resumption of the idle fiber: it ends when stopping() holds.
Idle(t) ==
    /\ pc[t] = "idle" /\ ~idleTerm[t]
    /\ idleTerm' = [idleTerm EXCEPT ![t] = Stopping]
    /\ Goto(t, "pick")
    /\ UNCHANGED <<fiberVars, queueVars, flagVars, ft, cb_fiber, jobVars>>

\* run() returns: a pool thread ends, the root fiber goes back to stop().
Exit(t) ==
    /\ pc[t] = "idle" /\ idleTerm[t]
    /\ ft' = [ft EXCEPT ![t] = NoEntry]
    /\ cb_fiber' = [cb_fiber EXCEPT ![t] = NoFiber]
    /\ rootState' = IF t = Caller THEN "TERM" ELSE rootState
    /\ Goto(t, IF t = Caller THEN "swap" ELSE "exited")
    /\ UNCHANGED <<fiberVars, queueVars, m_stopping, m_autoStop, pool,
                   m_threads, stops, idleTerm, jobVars>>

run(t) ==
    \/ Pick(t) \/ PickNothing(t) \/ Dispatch(t) \/ ResetCbFiber(t)
    \/ SwapIn(t) \/ Body(t) \/ LeaveActive(t)
    \/ SettleReady(t) \/ SettleFinished(t) \/ SettleOther(t) \/ SetHold(t)
    \/ Idle(t) \/ Exit(t)
-----------------------------------------------------------------------------
\* Scheduler::start under the lock; while the pool runs it changes nothing.
start ==
    /\ pc[Caller] = "main" /\ stops < MaxStops
    /\ m_stopping /\ m_threads = {}
    /\ m_stopping' = FALSE
    /\ m_threads' = pool
    /\ pc' = [t \in Threads |-> IF t \in pool THEN "pick" ELSE pc[t]]
    /\ idleTerm' = [t \in Threads |-> FALSE]
    /\ UNCHANGED <<fiberVars, queueVars, m_autoStop, pool, rootState, stops, ft,
                   cb_fiber, jobVars>>

\* The owner schedules a callback, or a new fiber around it.
Submit ==
    /\ pc[Caller] = "main" /\ stops < MaxStops
    /\ \E c \in Jobs \ sent, p \in Pins :
        /\ MayPin(p)
        /\ sent' = sent \cup {c}
        /\ pin' = [pin EXCEPT ![c] = p]
        /\ \/ schedule(CbEntry(c, p)) /\ UNCHANGED fiberVars
           \/ \E f \in Fibers :
                /\ ~Referenced(f)
                /\ Prepare(f, c)
                /\ schedule(FiberEntry(f, p))
    /\ UNCHANGED <<flagVars, localVars, pc, handles, yields, runs, done>>

\* The batch form of schedule: all the entries under one lock, for any thread.
SubmitBatch ==
    /\ pc[Caller] = "main" /\ stops < MaxStops /\ AnyThread \in Pins
    /\ \E c, d \in Jobs \ sent :
        /\ c # d
        /\ m_fibers' = m_fibers \o <<CbEntry(c, AnyThread), CbEntry(d, AnyThread)>>
        /\ sent' = sent \cup {c, d}
    /\ UNCHANGED <<fiberVars, m_activeThreadCount, flagVars, localVars, pc,
                   pin, handles, yields, runs, done>>

\* Scheduler::stop, for a scheduler that was started, or that has the calling
\* thread to run on.
StopBegin ==
    /\ pc[Caller] = "main" /\ stops < MaxStops
    /\ ~m_stopping \/ UseCaller
    /\ m_autoStop' = TRUE
    /\ stops' = stops + 1
    /\ Goto(Caller, "stopEarly")
    /\ UNCHANGED <<fiberVars, queueVars, m_stopping, pool, m_threads,
                   rootState, localVars, jobVars>>

StopEarly ==
    /\ pc[Caller] = "stopEarly"
    /\ IF UseCaller /\ pool = {} /\ rootState \in {"TERM", "INIT"}
       THEN m_stopping' = TRUE /\ Goto(Caller, "stopCheck")
       ELSE UNCHANGED m_stopping /\ Goto(Caller, "stopFlag")
    /\ UNCHANGED <<fiberVars, queueVars, m_autoStop, pool, m_threads,
                   rootState, stops, localVars, jobVars>>

StopCheck ==
    /\ pc[Caller] = "stopCheck"
    /\ GoOnly(Caller, IF Stopping THEN "main" ELSE "stopFlag")

\* Mutant of StopFlag: m_stopping is not set.
StopFlagUnset ==
    /\ pc[Caller] = "stopFlag"
    /\ GoOnly(Caller, IF UseCaller THEN "stopCall" ELSE "swap")

StopFlag ==
    /\ pc[Caller] = "stopFlag"
    /\ m_stopping' = TRUE
    /\ Goto(Caller, IF UseCaller THEN "stopCall" ELSE "swap")
    /\ UNCHANGED <<fiberVars, queueVars, m_autoStop, pool, m_threads,
                   rootState, stops, localVars, jobVars>>

\* Unless there is nothing left to do, m_rootFiber->call() enters run() on this
\* thread.  A root fiber that is TERM would resume in CallerMainFunc behind its
\* last line, at the assertion "never reach".
StopCall ==
    /\ pc[Caller] = "stopCall" /\ ~Stopping
    /\ rootState = "INIT"
    /\ rootState' = "EXEC"
    /\ Goto(Caller, "pick")
    /\ UNCHANGED <<fiberVars, queueVars, m_stopping, m_autoStop, pool,
                   m_threads, stops, localVars, jobVars>>

StopNoCall ==
    /\ pc[Caller] = "stopCall" /\ Stopping
    /\ GoOnly(Caller, "swap")

StopSwap ==
    /\ pc[Caller] = "swap"
    /\ m_threads' = {}
    /\ Goto(Caller, "join")
    /\ UNCHANGED <<fiberVars, queueVars, m_stopping, m_autoStop, pool,
                   rootState, stops, localVars, jobVars>>

\* join() returned for every thread.
PoolExited == \A w \in Workers : pc[w] \in {"none", "exited"}

StopJoin ==
    /\ pc[Caller] = "join" /\ PoolExited
    /\ GoOnly(Caller, "main")

stop ==
    \/ StopEarly \/ StopCheck \/ StopFlag \/ StopCall \/ StopNoCall
    \/ StopSwap \/ StopJoin

\* Scheduler::~Scheduler after the program's last stop.
Destroy ==
    /\ pc[Caller] = "main" /\ stops = MaxStops
    /\ m_stopping
    /\ GoOnly(Caller, "gone")

Finished == pc[Caller] = "gone" /\ UNCHANGED vars

Init ==
    /\ FiberInit
    /\ m_fibers = <<>>
    /\ m_activeThreadCount = 0
    /\ m_stopping = TRUE
    /\ m_autoStop = FALSE
    /\ pool \in SUBSET Workers
    /\ UseCaller \/ pool # {}
    /\ m_threads = {}
    /\ rootState = IF UseCaller THEN "INIT" ELSE "none"
    /\ pc = [t \in Threads |-> IF t = Caller THEN "main" ELSE "none"]
    /\ ft = [t \in Threads |-> NoEntry]
    /\ cb_fiber = [t \in Threads |-> NoFiber]
    /\ idleTerm = [t \in Threads |-> FALSE]
    /\ sent = {}
    /\ pin = [c \in Jobs |-> AnyThread]
    /\ handles = {}
    /\ yields = 0
    /\ stops = 0
    /\ runs = [c \in Jobs |-> 0]
    /\ done = {}

Next ==
    \/ \E t \in Threads : run(t)
    \/ start \/ Submit \/ SubmitBatch \/ StopBegin \/ stop \/ Destroy \/ Finished

Spec == Init /\ [][Next]_vars

(***************************************************************************)
(* Every thread is scheduled by the kernel, a callback does not run for    *)
(* ever, and stop() goes on once it was called.  The owner need not start, *)
(* schedule, stop or destroy.                                              *)
(***************************************************************************)
Fairness ==
    /\ \A t \in Threads : WF_vars(run(t))
    /\ WF_vars(stop)

FairSpec == Spec /\ Fairness
-----------------------------------------------------------------------------
(***************************************************************************)
(* The variables keep their types; in particular the queue never holds an  *)
(* entry without fiber and callback (the assertion of scheduler.cc line    *)
(* 195), and m_activeThreadCount, a size_t, never wraps below zero.        *)
(***************************************************************************)
TypeOK ==
    /\ FiberTypeOK
    /\ m_fibers \in Seq(Task)
    /\ m_activeThreadCount \in Nat
    /\ m_stopping \in BOOLEAN
    /\ m_autoStop \in BOOLEAN
    /\ pool \subseteq Workers
    /\ m_threads \subseteq pool
    /\ rootState \in {"none", "INIT", "EXEC", "TERM"}
    /\ pc \in [Threads -> PC]
    /\ ft \in [Threads -> Entry]
    /\ cb_fiber \in [Threads -> Fibers \cup {NoFiber}]
    /\ idleTerm \in [Threads -> BOOLEAN]
    /\ sent \subseteq Jobs
    /\ pin \in [Jobs -> Threads \cup {AnyThread}]
    /\ handles \subseteq Fibers
    /\ yields \in Nat
    /\ stops \in Nat
    /\ runs \in [Jobs -> Nat]
    /\ done \subseteq Jobs

-----------------------------------------------------------------------------
(***************************************************************************)
(* No gwn_ASSERT on the path of the scheduler fails: fiber.cc line 119     *)
(* (reset), 138 (swapIn), 177 and 188 (the yields), 99 (~Fiber), 229 and   *)
(* 261 ("never reach" in MainFunc and CallerMainFunc), scheduler.cc 55     *)
(* (~Scheduler).                                                           *)
(***************************************************************************)
AssertionsHold ==
    /\ \A t \in Threads :
        /\ pc[t] = "reset" /\ cb_fiber[t] # NoFiber => Disposable(cb_fiber[t])
        /\ pc[t] = "swapIn" => m_state[Cur(t)] # "EXEC" /\ ctx[Cur(t)] # "over"
        /\ pc[t] = "body" => m_state[Cur(t)] = "EXEC"
    /\ \A f \in Fibers : ~Referenced(f) => Disposable(f)
    /\ pc[Caller] = "stopCall" /\ ~Stopping => rootState = "INIT"
    /\ pc[Caller] = "main" /\ stops = MaxStops => m_stopping

(***************************************************************************)
(* A thread about to resume a fiber finds a context some swapcontext saved *)
(* after the fiber last ran: no two threads ever execute on one stack.     *)
(***************************************************************************)
NoStaleResume ==
    \A t \in Threads : pc[t] = "swapIn" => ctx[Cur(t)] \in {"fresh", "saved"}

\* From taking a fiber to reading its state after it left, run() relies on the
\* fiber not changing under it.
HoldPC == {"dispatch", "swapIn", "body", "swapOut", "leave", "settle", "setHold"}
HoldsFiber(t) == pc[t] \in HoldPC

(***************************************************************************)
(* While a thread works with a fiber, no other thread does and no queue    *)
(* entry offers it to one.                                                 *)
(***************************************************************************)
SoleHolder ==
    \A t \in Threads : HoldsFiber(t) =>
        /\ ~Queued(Cur(t))
        /\ \A u \in Threads \ {t} : HoldsFiber(u) => Cur(u) # Cur(t)

(***************************************************************************)
(* m_activeThreadCount is the number of threads that took an entry and     *)
(* have not come back from it, the reading stopping() gives it.            *)
(***************************************************************************)
ActivePC == {"dispatch", "reset", "swapIn", "body", "swapOut", "leave"}
ActiveThreads == {t \in Threads : pc[t] \in ActivePC}
ActiveCountExact == m_activeThreadCount = Cardinality(ActiveThreads)

(***************************************************************************)
(* stop() returns only when every callback that was scheduled has run to   *)
(* its end, or waits in a fiber the program itself keeps on hold.  The     *)
(* window in run() between --m_activeThreadCount and schedule() lets       *)
(* threads see stopping() early; the work must not be lost by that.        *)
(***************************************************************************)
StopReturning ==
    \/ pc[Caller] = "join" /\ PoolExited
    \/ pc[Caller] = "stopCheck" /\ Stopping

OnHold(c) == \E f \in handles : m_cb[f] = c /\ m_state[f] = "HOLD"

StopDrains ==
    StopReturning => m_fibers = <<>> /\ \A c \in sent \ done : OnHold(c)

(***************************************************************************)
(* A callback scheduled for a thread executes on that thread only          *)
(* (scheduler.h line 61), from its first line to its last.                 *)
(***************************************************************************)
PinRespected ==
    \A t \in Threads :
        pc[t] = "body" /\ m_cb[Cur(t)] # NoJob
            => pin[m_cb[Cur(t)]] \in {AnyThread, t}

(***************************************************************************)
(* stop() returns: the pool becomes idle, every thread notices and ends.   *)
(***************************************************************************)
StopReturns == (pc[Caller] = "stopEarly") ~> (pc[Caller] = "main")

(***************************************************************************)
(* What is scheduled on a running pool is executed to its end.             *)
(***************************************************************************)
JobServed == \A c \in Jobs : (c \in sent /\ m_threads # {}) ~> (c \in done)
=============================================================================
