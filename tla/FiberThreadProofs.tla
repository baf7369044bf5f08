-------------------------- MODULE FiberThreadProofs --------------------------
(***************************************************************************)
(* Threads, and the fibers they run.  Wired is an invariant of FiberThread *)
(* for every number of fibers and threads, in programs that keep the rules *)
(* (Program is empty); and what follows from it: no switch goes wrong, and *)
(* swapping fibers through thread-local pointers implements coroutines.    *)
(* At the end, what Thread promises those that start and join threads.     *)
(***************************************************************************)
EXTENDS FiberThread, Thread, Sequences, FiniteSetTheorems, TLAPS

Rules == Program = {}

ThreadWired(t) == MainWired(t) /\ SchedulerWired(t) /\ RunningWired(t)

\* Before any thread has used a fiber the invariant holds.
LEMMA InitWired == Init => Wired
<1> SUFFICES ASSUME Init PROVE Wired OBVIOUS
<1> USE StacksAssumption DEF Init, Stacks, Threads
<1>1. TypeOK BY DEF TypeOK, State, Func, At
<1>2. ASSUME NEW t \in Threads PROVE ThreadWired(t)
  BY DEF ThreadWired, MainWired, SchedulerWired, RunningWired
<1>3. ASSUME NEW f \in Fibers PROVE WaitingWired(f)
  BY DEF WaitingWired, HasStack
<1> QED BY <1>1, <1>2, <1>3 DEF Wired, ThreadWired

(***************************************************************************)
(* Operations on fibers nobody executes.                                   *)
(***************************************************************************)

\* A new fiber, whose address no pointer of a thread leads to.
LEMMA NewFiberWired == ASSUME Wired, NewFiber PROVE Wired'
<1> USE StacksAssumption DEF Stacks, Threads, locals
<1>1. PICK f \in Fibers, entry \in {"MainFunc", "CallerMainFunc"} :
        ~Alive(f) /\ Build(f, entry)
  BY DEF NewFiber
<1>2. UNCHANGED <<cur, t_fiber, t_threadFiber, t_scheduler_fiber, m_rootFiber, running>>
  BY DEF NewFiber
<1>3. TypeOK' BY <1>1, <1>2 DEF Wired, TypeOK, Build, State, Func, At
<1>4. ASSUME NEW t \in Threads PROVE ThreadWired(t)'
  BY <1>1, <1>2 DEF Wired, TypeOK, ThreadWired, MainWired, SchedulerWired, RunningWired,
                    RootInBody, Build, Alive, HasStack
<1>5. ASSUME NEW g \in Fibers PROVE WaitingWired(g)'
  <2>1. WaitingWired(g) BY DEF Wired
  <2>2. \A t \in Threads : running[t] # f
    BY <1>1 DEF Wired, RunningWired, HasStack, Alive
  <2>3. CASE g = f BY <1>1, <1>2, <2>2, <2>3 DEF Wired, TypeOK, Build, WaitingWired, HasStack
  <2>4. CASE g # f
    BY <1>1, <1>2, <2>1, <2>2, <2>4 DEF Wired, TypeOK, Build, WaitingWired, HasStack
  <2> QED BY <2>3, <2>4
<1> QED BY <1>3, <1>4, <1>5 DEF Wired, ThreadWired

\* reset of a fiber that is INIT or has ended, and is therefore not executing.
LEMMA ResetWired == ASSUME Wired, reset PROVE Wired'
<1> USE StacksAssumption DEF Stacks, Threads, locals
<1>1. PICK f \in Fibers :
        /\ HasStack(f) /\ Disposable(f)
        /\ \A t \in Threads : m_rootFiber[t] # f
        /\ Build(f, "MainFunc")
  BY DEF reset, HasStack
<1>2. UNCHANGED <<cur, t_fiber, t_threadFiber, t_scheduler_fiber, m_rootFiber, running>>
  BY DEF reset
<1>3. TypeOK' BY <1>1, <1>2 DEF Wired, TypeOK, Build, State, Func, At
<1>4. \A t \in Threads : running[t] # f
  BY <1>1 DEF Wired, RunningWired, Disposable
<1>5. ASSUME NEW t \in Threads PROVE ThreadWired(t)'
  BY <1>1, <1>2, <1>4 DEF Wired, TypeOK, ThreadWired, MainWired, SchedulerWired,
                    RunningWired, RootInBody, Build, HasStack
<1>6. ASSUME NEW g \in Fibers PROVE WaitingWired(g)'
  <2>1. WaitingWired(g) BY DEF Wired
  <2>2. CASE g = f BY <1>1, <1>2, <1>4, <2>2 DEF Wired, TypeOK, Build, WaitingWired, HasStack
  <2>3. CASE g # f
    BY <1>1, <1>2, <1>4, <2>1, <2>3 DEF Wired, TypeOK, Build, WaitingWired, HasStack
  <2> QED BY <2>2, <2>3
<1> QED BY <1>3, <1>5, <1>6 DEF Wired, ThreadWired

\* ~Fiber of a fiber that is INIT or has ended.
LEMMA DestroyWired == ASSUME Wired, Destroy PROVE Wired'
<1> USE StacksAssumption DEF Stacks, Threads, locals
<1>1. PICK f \in Fibers :
        /\ HasStack(f) /\ Disposable(f)
        /\ \A t \in Threads : m_rootFiber[t] # f
        /\ func' = [func EXCEPT ![f] = "none"]
  BY DEF Destroy, HasStack
<1>2. UNCHANGED <<m_state, m_ctx, at, cur, t_fiber, t_threadFiber,
                  t_scheduler_fiber, m_rootFiber, running>>
  BY DEF Destroy
<1>3. TypeOK' BY <1>1, <1>2 DEF Wired, TypeOK, Func
<1>4. \A t \in Threads : running[t] # f
  BY <1>1 DEF Wired, RunningWired, Disposable
<1>5. ASSUME NEW t \in Threads PROVE ThreadWired(t)'
  BY <1>1, <1>2, <1>4 DEF Wired, TypeOK, ThreadWired, MainWired, SchedulerWired,
                    RunningWired, RootInBody, HasStack
<1>6. ASSUME NEW g \in Fibers PROVE WaitingWired(g)'
  <2>1. WaitingWired(g) BY DEF Wired
  <2>2. CASE g = f
    BY <1>1, <1>2, <1>4, <2>1, <2>2 DEF Wired, TypeOK, WaitingWired, HasStack, Disposable
  <2>3. CASE g # f
    BY <1>1, <1>2, <1>4, <2>1, <2>3 DEF Wired, TypeOK, WaitingWired, HasStack
  <2> QED BY <2>2, <2>3
<1> QED BY <1>3, <1>5, <1>6 DEF Wired, ThreadWired
(***************************************************************************)
(* Operations of native code that change a thread's pointers.              *)
(***************************************************************************)

\* The first GetThis() of a thread, on its own and in Scheduler::run.
LEMMA MakeMainWired ==
    ASSUME Wired, NEW t \in Threads, GetThis(t) \/ RunOnThread(t)
    PROVE  Wired'
<1> USE StacksAssumption DEF Stacks, Threads, InNative
<1>1. PICK f \in Fibers :
        /\ MakeMain(t, f)
        /\ \/ t \notin Pool /\ UNCHANGED t_scheduler_fiber
           \/ t_scheduler_fiber' = [t_scheduler_fiber EXCEPT ![t] = f]
  BY DEF GetThis, RunOnThread
<1>2. /\ running[t] = t /\ t_fiber[t] = NoFiber /\ t_threadFiber[t] = NoFiber
      /\ m_rootFiber[t] = NoFiber
      /\ func[f] = "none"
      /\ UNCHANGED <<at, cur, m_rootFiber, running>>
  BY <1>1
  DEF GetThis, RunOnThread, MakeMain, SetThis, Wired, MainWired, SchedulerWired, Alive
<1>3. /\ \A u \in Threads \ {t} : t_scheduler_fiber'[u] = t_scheduler_fiber[u]
      /\ t \in Pool => t_scheduler_fiber'[t] = t_threadFiber'[t]
      /\ t_scheduler_fiber' \in [Threads -> Fibers \cup {NoFiber}]
  BY <1>1 DEF MakeMain, Wired, TypeOK
<1>4. TypeOK'
  BY <1>1, <1>2, <1>3 DEF Wired, TypeOK, MakeMain, SetThis, State, Func
<1>5. \A u \in Threads : running[u] # f /\ m_rootFiber[u] # f /\ t_threadFiber[u] # f
  BY <1>2 DEF Wired, RunningWired, SchedulerWired, MainWired, HasStack
<1>6. ASSUME NEW u \in Threads PROVE MainWired(u)'
  <2>1. CASE u = t
    BY <1>1, <1>2, <1>5, <2>1 DEF Wired, TypeOK, MainWired, MakeMain, SetThis
  <2>2. CASE u # t
    BY <1>1, <1>2, <1>5, <2>2 DEF Wired, TypeOK, MainWired, MakeMain, SetThis
  <2> QED BY <2>1, <2>2
<1>7. ASSUME NEW u \in Threads PROVE SchedulerWired(u)' /\ RunningWired(u)'
  <2>1. CASE u = t
    BY <1>1, <1>2, <1>3, <1>5, <2>1
    DEF Wired, TypeOK, SchedulerWired, RunningWired, MakeMain, SetThis
  <2>2. CASE u # t
    BY <1>1, <1>2, <1>3, <1>5, <2>2
    DEF Wired, TypeOK, SchedulerWired, RunningWired, RootInBody, MakeMain, SetThis, HasStack
  <2> QED BY <2>1, <2>2
<1>8. ASSUME NEW g \in Fibers PROVE WaitingWired(g)'
  <2>1. WaitingWired(g) BY DEF Wired
  <2>2. CASE g = f
    BY <1>1, <1>2, <2>1, <2>2
    DEF Wired, TypeOK, WaitingWired, HasStack, MakeMain, SetThis
  <2>3. CASE g # f
    BY <1>1, <1>2, <1>5, <2>1, <2>3
    DEF Wired, TypeOK, WaitingWired, HasStack, MakeMain, SetThis
  <2> QED BY <2>2, <2>3
<1> QED BY <1>4, <1>6, <1>7, <1>8 DEF Wired

\* Scheduler::Scheduler with cur_managed.
LEMMA NewSchedulerWired ==
    ASSUME Wired, NEW t \in Threads, NewScheduler(t)
    PROVE  Wired'
<1> USE StacksAssumption DEF Stacks, Threads, InNative
<1>1. PICK f \in Fibers :
        /\ func[f] = "none" /\ Build(f, "CallerMainFunc")
        /\ m_rootFiber' = [m_rootFiber EXCEPT ![t] = f]
        /\ t_scheduler_fiber' = [t_scheduler_fiber EXCEPT ![t] = f]
  BY DEF NewScheduler, Alive
<1>2. /\ t \in Callers /\ running[t] = t /\ t_fiber[t] # NoFiber
      /\ UNCHANGED <<cur, t_fiber, t_threadFiber, running>>
  BY DEF NewScheduler
<1>3. TypeOK' BY <1>1, <1>2 DEF Wired, TypeOK, Build, State, Func, At
<1>4. \A u \in Threads : running[u] # f /\ m_rootFiber[u] # f /\ t_threadFiber[u] # f
  BY <1>1 DEF Wired, RunningWired, SchedulerWired, MainWired, HasStack
<1>5. ASSUME NEW u \in Threads PROVE ThreadWired(u)'
  <2>1. MainWired(u)'
    BY <1>1, <1>2, <1>4 DEF Wired, TypeOK, MainWired, Build
  <2>2. SchedulerWired(u)'
    BY <1>1, <1>2, <1>4 DEF Wired, TypeOK, SchedulerWired, MainWired, Build
  <2>3. RunningWired(u)'
    BY <1>1, <1>2, <1>4 DEF Wired, TypeOK, RunningWired, RootInBody, Build, HasStack
  <2> QED BY <2>1, <2>2, <2>3 DEF ThreadWired
<1>6. ASSUME NEW g \in Fibers PROVE WaitingWired(g)'
  <2>1. WaitingWired(g) BY DEF Wired
  <2>2. CASE g = f
    BY <1>1, <1>2, <1>4, <2>2 DEF Wired, TypeOK, WaitingWired, HasStack, Build
  <2>3. CASE g # f
    BY <1>1, <1>2, <1>4, <2>1, <2>3 DEF Wired, TypeOK, WaitingWired, HasStack, Build
  <2> QED BY <2>2, <2>3
<1> QED BY <1>3, <1>5, <1>6 DEF Wired, ThreadWired

\* ~Scheduler, whose root fiber has ended or never began.
LEMMA DeleteSchedulerWired ==
    ASSUME Wired, NEW t \in Threads, DeleteScheduler(t)
    PROVE  Wired'
<1> USE StacksAssumption DEF Stacks, Threads, InNative
<1> DEFINE r == m_rootFiber[t]
<1>1. /\ running[t] = t /\ r \in Fibers /\ Disposable(r)
      /\ func' = [func EXCEPT ![r] = "none"]
      /\ m_rootFiber' = [m_rootFiber EXCEPT ![t] = NoFiber]
      /\ UNCHANGED <<m_state, m_ctx, at, cur, t_fiber, t_threadFiber,
                     t_scheduler_fiber, running>>
  BY DEF DeleteScheduler, Wired, TypeOK
<1> HIDE DEF r
<1>2. TypeOK' BY <1>1 DEF Wired, TypeOK, Func
<1>3. \A u \in Threads : running[u] # r
  BY <1>1 DEF Wired, RunningWired, Disposable
<1>4. HasStack(r) /\ \A u \in Threads \ {t} : m_rootFiber[u] # r
  BY <1>1 DEF r, Wired, SchedulerWired, HasStack
<1>5. ASSUME NEW u \in Threads PROVE ThreadWired(u)'
  BY <1>1, <1>3, <1>4 DEF Wired, TypeOK, ThreadWired, MainWired, SchedulerWired,
                          RunningWired, RootInBody, HasStack
<1>6. ASSUME NEW g \in Fibers PROVE WaitingWired(g)'
  <2>1. WaitingWired(g) BY DEF Wired
  <2>2. CASE g = r
    BY <1>1, <1>3, <1>4, <2>1, <2>2 DEF Wired, TypeOK, WaitingWired, HasStack, Disposable
  <2>3. CASE g # r
    BY <1>1, <1>3, <2>1, <2>3 DEF r, Wired, TypeOK, WaitingWired, HasStack
  <2> QED BY <2>2, <2>3
<1> QED BY <1>2, <1>5, <1>6 DEF Wired, ThreadWired

\* The end of a thread takes its main fiber with it.
LEMMA ExitWired == ASSUME Wired, NEW t \in Threads, Exit(t) PROVE Wired'
<1> USE StacksAssumption DEF Stacks, Threads, InNative
<1> DEFINE f == t_threadFiber[t]
<1>1. /\ running[t] = t /\ f \in Fibers /\ m_rootFiber[t] = NoFiber
      /\ t_fiber[t] = f /\ func[f] = "main"
      /\ func' = [func EXCEPT ![f] = "none"]
      /\ t_fiber' = [t_fiber EXCEPT ![t] = NoFiber]
      /\ t_threadFiber' = [t_threadFiber EXCEPT ![t] = NoFiber]
      /\ running' = [running EXCEPT ![t] = Gone]
      /\ UNCHANGED <<m_state, m_ctx, at, cur, t_scheduler_fiber, m_rootFiber>>
  BY DEF Exit, Wired, TypeOK, MainWired
<1> HIDE DEF f
<1>2. TypeOK' BY <1>1 DEF Wired, TypeOK, Func
<1>3. \A u \in Threads : running[u] # f /\ m_rootFiber[u] # f
  BY <1>1 DEF Wired, RunningWired, SchedulerWired, HasStack
<1>4. \A u \in Threads \ {t} : t_threadFiber[u] # f
  BY <1>1 DEF f, Wired, MainWired
<1>5. ASSUME NEW u \in Threads PROVE ThreadWired(u)'
  BY <1>1, <1>3, <1>4 DEF Wired, TypeOK, ThreadWired, MainWired, SchedulerWired,
                          RunningWired, RootInBody, HasStack
<1>6. ASSUME NEW g \in Fibers PROVE WaitingWired(g)'
  <2>1. WaitingWired(g) BY DEF Wired
  <2>2. CASE g = f
    BY <1>1, <2>1, <2>2 DEF Wired, TypeOK, WaitingWired, HasStack
  <2>3. CASE g # f
    BY <1>1, <1>3, <2>1, <2>3 DEF f, Wired, TypeOK, WaitingWired, HasStack
  <2> QED BY <2>2, <2>3
<1> QED BY <1>2, <1>5, <1>6 DEF Wired, ThreadWired
(***************************************************************************)
(* Switches.                                                               *)
(***************************************************************************)

\* MainFunc begins with the fiber it is the stack of.
LEMMA EnterWired == ASSUME Wired, NEW t \in Threads, Enter(t) PROVE Wired'
<1> USE StacksAssumption DEF Stacks, Threads, locals
<1> DEFINE s == running[t]
<1>1. /\ s \in Fibers /\ at[s] = "entry" /\ t_fiber[t] = s
      /\ at' = [at EXCEPT ![s] = "body"]
      /\ cur' = [cur EXCEPT ![s] = s]
      /\ UNCHANGED <<m_state, func, m_ctx, t_fiber, t_threadFiber, t_scheduler_fiber,
                     m_rootFiber, running>>
  BY DEF Enter, Wired, RunningWired
<1>2. \A u \in Threads \ {t} : running[u] # s /\ m_rootFiber[u] # s
  BY <1>1 DEF Wired, RunningWired
<1> HIDE DEF s
<1>3. TypeOK' BY <1>1 DEF Wired, TypeOK, At
<1>4. ASSUME NEW u \in Threads PROVE ThreadWired(u)'
  BY <1>1, <1>2 DEF s, Wired, TypeOK, ThreadWired, MainWired, SchedulerWired,
                    RunningWired, RootInBody, HasStack
<1>5. ASSUME NEW g \in Fibers PROVE WaitingWired(g)'
  BY <1>1, <1>2 DEF s, Wired, TypeOK, WaitingWired, RunningWired, HasStack
<1> QED BY <1>3, <1>4, <1>5 DEF Wired, ThreadWired

\* A fiber that can be resumed does not execute and is no thread's root fiber
\* that has been left; its own context is there to be loaded.
LEMMA ResumableWaits ==
    ASSUME Wired, NEW f \in Fibers, Resumable(f)
    PROVE  /\ HasStack(f) /\ m_ctx[f] = f /\ at[f] # "never"
           /\ at[f] = "body" => cur[f] = f
           /\ \A u \in Threads : running[u] # f
BY DEF Wired, TypeOK, Resumable, Alive, Func, HasStack, RunningWired, WaitingWired

\* swapIn by run(), on a pool thread or in the root fiber.
LEMMA SwapInWired ==
    ASSUME Wired, NEW t \in Threads, NEW f \in Fibers, InRun(t),
           Resumable(f), func[f] = "MainFunc", swapIn(t, f)
    PROVE  Wired'
<1> USE StacksAssumption DEF Stacks, Threads, locals
<1> DEFINE m == t_scheduler_fiber[t]
<1>1. /\ m_ctx[f] = f /\ at[f] # "never" /\ \A u \in Threads : running[u] # f
      /\ at[f] = "body" => cur[f] = f
      /\ \A u \in Threads : m_rootFiber[u] # f /\ t_threadFiber[u] # f
  BY ResumableWaits DEF Wired, SchedulerWired, MainWired
<1>2. /\ m \in Fibers /\ Alive(m) /\ m # f /\ m_ctx[m] = NoStack
      /\ \/ t \in Pool /\ m = t_threadFiber[t] /\ running[t] = t
         \/ m = m_rootFiber[t] /\ running[t] = m /\ RootInBody(t) /\ t \notin Pool
  <2>1. CASE t \in Pool /\ InNative(t) /\ t_fiber[t] # NoFiber
    BY <1>1, <2>1 DEF Wired, TypeOK, MainWired, SchedulerWired, InNative, Alive
  <2>2. CASE /\ m_rootFiber[t] # NoFiber /\ running[t] = m_rootFiber[t]
             /\ at[m_rootFiber[t]] = "body"
    BY <1>1, <2>2
    DEF Wired, TypeOK, RunningWired, SchedulerWired, HasStack, RootInBody, Alive
  <2> QED BY <2>1, <2>2 DEF InRun
<1>3. /\ m_ctx' = [m_ctx EXCEPT ![m] = running[t], ![f] = NoStack]
      /\ running' = [running EXCEPT ![t] = f]
  BY <1>1, <1>2 DEF swapIn, swapcontext, Resumable
<1>4. /\ t_fiber' = [t_fiber EXCEPT ![t] = f]
      /\ m_state' = [m_state EXCEPT ![f] = "EXEC"]
      /\ UNCHANGED <<func, at, cur, t_threadFiber, t_scheduler_fiber, m_rootFiber>>
  BY DEF swapIn, SetThis
<1>5. m_state[f] # "EXEC" BY DEF Resumable
<1> HIDE DEF m
<1>6. TypeOK'
  <2>1. running[t] \in Stacks BY <1>2 DEF Wired, TypeOK
  <2> QED BY <1>2, <1>3, <1>4, <2>1 DEF Wired, TypeOK, State
<1>7. ASSUME NEW u \in Threads PROVE ThreadWired(u)'
  <2>0. /\ MainWired(u) /\ SchedulerWired(u) /\ RunningWired(u)
        /\ MainWired(t) /\ SchedulerWired(t) /\ RunningWired(t)
    BY DEF Wired
  <2>1. CASE u = t
    <3>1. MainWired(t)'
      BY <1>1, <1>2, <1>3, <1>4, <2>0 DEF Wired, TypeOK, MainWired, SchedulerWired
    <3>2. SchedulerWired(t)'
      BY <1>1, <1>2, <1>3, <1>4, <2>0 DEF Wired, TypeOK, SchedulerWired
    <3>3. RunningWired(t)'
      BY <1>1, <1>2, <1>3, <1>4, <2>0
      DEF Wired, TypeOK, SchedulerWired, RunningWired, RootInBody, HasStack
    <3> QED BY <2>1, <3>1, <3>2, <3>3 DEF ThreadWired
  <2>2. CASE u # t
    <3>1. t_threadFiber[u] # m /\ m_rootFiber[u] # m /\ running[u] # m
      BY <1>2, <2>0, <2>2
      DEF Wired, TypeOK, MainWired, SchedulerWired, RunningWired, HasStack
    <3>2. MainWired(u)'
      BY <1>1, <1>3, <1>4, <2>0, <2>2, <3>1 DEF Wired, TypeOK, MainWired
    <3>3. SchedulerWired(u)'
      BY <1>1, <1>3, <1>4, <2>0, <2>2, <3>1 DEF Wired, TypeOK, SchedulerWired
    <3>4. RunningWired(u)'
      BY <1>1, <1>3, <1>4, <2>0, <2>2, <3>1
      DEF Wired, TypeOK, RunningWired, RootInBody, HasStack
    <3> QED BY <3>2, <3>3, <3>4 DEF ThreadWired
  <2> QED BY <2>1, <2>2
<1>8. ASSUME NEW g \in Fibers PROVE WaitingWired(g)'
  <2>0. WaitingWired(g) BY DEF Wired
  <2>1. CASE g = f BY <1>3, <1>4, <2>1, <2>0 DEF Wired, TypeOK, WaitingWired, HasStack
  <2>2. CASE g = m /\ m # f
    BY <1>2, <1>3, <1>4, <2>0, <2>2
    DEF Wired, TypeOK, WaitingWired, MainWired, HasStack, RootInBody
  <2>3. CASE g # m /\ g # f
    BY <1>2, <1>3, <1>4, <2>0, <2>3 DEF Wired, TypeOK, WaitingWired, HasStack
  <2> QED BY <1>2, <2>1, <2>2, <2>3
<1> QED BY <1>6, <1>7, <1>8 DEF Wired, ThreadWired
\* call() from native code, of the thread's root fiber or of a fiber made with
\* use_caller.
LEMMA CallWired ==
    ASSUME Wired, NEW t \in Threads, NEW f \in Fibers, InNative(t), t \notin Pool,
           t_threadFiber[t] # NoFiber, Resumable(f), func[f] = "CallerMainFunc",
           \A u \in Threads \ {t} : m_rootFiber[u] # f, call(t, f)
    PROVE  Wired'
<1> USE StacksAssumption DEF Stacks, Threads, locals, InNative
<1> DEFINE m == t_threadFiber[t]
<1>1. /\ m_ctx[f] = f /\ at[f] # "never" /\ \A u \in Threads : running[u] # f
      /\ at[f] = "body" => cur[f] = f
      /\ \A u \in Threads : t_threadFiber[u] # f
  BY ResumableWaits DEF Wired, MainWired
<1>2. /\ m \in Fibers /\ Alive(m) /\ m # f /\ m_ctx[m] = NoStack
      /\ \A u \in Threads : running[u] # m /\ m_rootFiber[u] # m
      /\ \A u \in Threads \ {t} : t_threadFiber[u] # m
  BY <1>1
  DEF Wired, TypeOK, MainWired, SchedulerWired, RunningWired, HasStack, Alive
<1>3. /\ m_ctx' = [m_ctx EXCEPT ![m] = t, ![f] = NoStack]
      /\ running' = [running EXCEPT ![t] = f]
  BY <1>1, <1>2 DEF call, swapcontext, Resumable
<1>4. /\ t_fiber' = [t_fiber EXCEPT ![t] = f]
      /\ m_state' = [m_state EXCEPT ![f] = "EXEC"]
      /\ UNCHANGED <<func, at, cur, t_threadFiber, t_scheduler_fiber, m_rootFiber>>
  BY DEF call, SetThis
<1>5. m_state[f] # "EXEC" BY DEF Resumable
<1> HIDE DEF m
<1>6. TypeOK' BY <1>2, <1>3, <1>4 DEF Wired, TypeOK, State
<1>7. ASSUME NEW u \in Threads PROVE ThreadWired(u)'
  <2>1. MainWired(u)'
    BY <1>1, <1>2, <1>3, <1>4 DEF m, Wired, TypeOK, MainWired
  <2>2. SchedulerWired(u)'
    BY <1>1, <1>2, <1>3, <1>4 DEF Wired, TypeOK, SchedulerWired
  <2>3. RunningWired(u)'
    BY <1>1, <1>2, <1>3, <1>4 DEF Wired, TypeOK, RunningWired, RootInBody, HasStack
  <2> QED BY <2>1, <2>2, <2>3 DEF ThreadWired
<1>8. ASSUME NEW g \in Fibers PROVE WaitingWired(g)'
  <2>0. WaitingWired(g) BY DEF Wired
  <2>1. CASE g = f BY <1>1, <1>3, <1>4, <2>1, <2>0 DEF Wired, TypeOK, WaitingWired, HasStack
  <2>2. CASE g # f
    BY <1>2, <1>3, <1>4, <2>0, <2>2
    DEF m, Wired, TypeOK, WaitingWired, MainWired, HasStack
  <2> QED BY <2>1, <2>2
<1> QED BY <1>6, <1>7, <1>8 DEF Wired, ThreadWired

\* What is entered with swapIn is left with swapOut, what is entered with
\* call is left with back.
Leaves(t, s) ==
    \/ func[s] = "MainFunc" /\ swapOut(t, s)
    \/ func[s] = "CallerMainFunc" /\ back(t, s)

\* A fiber on its way out is waiting or has ended.
Left(s, result) ==
    /\ m_state' = [m_state EXCEPT ![s] = result]
    /\ \/ result \in {"READY", "HOLD"} /\ at' = at /\ cur' = cur
       \/ /\ result \in {"TERM", "EXCEPT"}
          /\ at' = [at EXCEPT ![s] = "never"]
          /\ cur' = [cur EXCEPT ![s] = NoFiber]

\* The stack that leaving s continues: run()'s, or the thread's native one.
Under(t, s) ==
    IF func[s] = "MainFunc" /\ t \notin Pool THEN m_rootFiber[t] ELSE t

\* The context that leaving loads holds that stack.
LEMMA UnderWaits ==
    ASSUME Wired, NEW t \in Threads, NEW s \in Fibers, running[t] = s, at[s] = "body",
           Leaves(t, s)
    PROVE  \E m \in Fibers :
             /\ m # s /\ m_ctx[m] = Under(t, s)
             /\ m_ctx' = [m_ctx EXCEPT ![s] = s, ![m] = NoStack]
             /\ running' = [running EXCEPT ![t] = Under(t, s)]
             /\ t_fiber' = [t_fiber EXCEPT ![t] = t_threadFiber[t]]
             /\ \/ m = t_threadFiber[t] /\ Under(t, s) = t
                \/ m = m_rootFiber[t] /\ Under(t, s) = m /\ RootInBody(t)
<1> USE StacksAssumption DEF Stacks, Threads
<1>1. /\ MainWired(t) /\ SchedulerWired(t) /\ RunningWired(t) /\ s # t /\ s # Gone
      /\ HasStack(s)
  BY DEF Wired, RunningWired
<1>2. /\ t_threadFiber[t] \in Fibers /\ Alive(t_threadFiber[t])
      /\ t_threadFiber[t] # s /\ m_ctx[t_threadFiber[t]] = t
  BY <1>1 DEF Wired, TypeOK, MainWired, HasStack, Alive
<1>3. CASE func[s] = "CallerMainFunc"
  <2>1. back(t, s) /\ Under(t, s) = t BY <1>3 DEF Leaves, Under
  <2> QED BY <1>1, <1>2, <2>1 DEF back, SetThis, swapcontext, Alive, HasStack
<1>4. CASE func[s] = "MainFunc" /\ t \in Pool
  <2>1. swapOut(t, s) /\ Under(t, s) = t /\ t_scheduler_fiber[t] = t_threadFiber[t]
    BY <1>1, <1>2, <1>4 DEF Leaves, Under, SchedulerWired
  <2> QED BY <1>1, <1>2, <2>1 DEF swapOut, SetThis, swapcontext, Alive, HasStack
<1>5. CASE func[s] = "MainFunc" /\ t \notin Pool
  <2> DEFINE r == m_rootFiber[t]
  <2>1. /\ swapOut(t, s) /\ Under(t, s) = r /\ t_scheduler_fiber[t] = r
        /\ r \in Fibers /\ Alive(r) /\ r # s /\ m_ctx[r] = r /\ RootInBody(t)
    BY <1>1, <1>5
    DEF Wired, TypeOK, Leaves, Under, RunningWired, SchedulerWired, RootInBody, Alive
  <2>2. m_ctx' = [m_ctx EXCEPT ![s] = s, ![r] = NoStack]
        /\ running' = [running EXCEPT ![t] = r]
    BY <1>1, <2>1 DEF swapOut, swapcontext, Alive, HasStack, RootInBody
  <2> QED BY <2>1, <2>2 DEF swapOut, SetThis
<1> QED BY <1>1, <1>3, <1>4, <1>5 DEF HasStack
\* Leaving a fiber, for a while or for good.
LEMMA LeaveWired ==
    ASSUME Wired, NEW t \in Threads, NEW s \in Fibers, running[t] = s, at[s] = "body",
           NEW result \in State, Left(s, result), Leaves(t, s),
           UNCHANGED <<func, locals>>
    PROVE  Wired'
<1> USE StacksAssumption DEF Stacks, Threads, locals
<1> DEFINE under == Under(t, s)
<1>1. PICK m \in Fibers :
        /\ m # s /\ m_ctx[m] = under
        /\ m_ctx' = [m_ctx EXCEPT ![s] = s, ![m] = NoStack]
        /\ running' = [running EXCEPT ![t] = under]
        /\ t_fiber' = [t_fiber EXCEPT ![t] = t_threadFiber[t]]
        /\ \/ m = t_threadFiber[t] /\ under = t
           \/ m = m_rootFiber[t] /\ under = m /\ RootInBody(t)
  BY UnderWaits
<1>2. UNCHANGED <<func, t_threadFiber, t_scheduler_fiber, m_rootFiber>>
  OBVIOUS
<1>3. /\ HasStack(s) /\ m_state[s] = "EXEC" /\ cur[s] = s /\ m_ctx[s] = NoStack
      /\ \A u \in Threads \ {t} : running[u] # s /\ m_rootFiber[u] # s
      /\ \A u \in Threads : t_threadFiber[u] # s
  BY DEF Wired, RunningWired, MainWired, HasStack
<1>4. \A u \in Threads \ {t} :
        running[u] # m /\ m_rootFiber[u] # m /\ t_threadFiber[u] # m
  BY <1>1 DEF Wired, TypeOK, RunningWired, SchedulerWired, MainWired, HasStack
<1>5. t_threadFiber[t] \in Fibers
  BY <1>3 DEF Wired, TypeOK, MainWired
<1>6. /\ m_state' = [m_state EXCEPT ![s] = result]
      /\ \A g \in Fibers \ {s} : at'[g] = at[g] /\ cur'[g] = cur[g]
      /\ result # "EXEC"
      /\ at' \in [Fibers -> At] /\ cur' \in [Fibers -> Fibers \cup {NoFiber}]
  BY DEF Left, Wired, TypeOK, At
<1> HIDE DEF under
<1>7. TypeOK' BY <1>1, <1>2, <1>5, <1>6 DEF Wired, TypeOK
<1>8. ASSUME NEW u \in Threads PROVE ThreadWired(u)'
  <2>0. MainWired(u) /\ SchedulerWired(u) /\ RunningWired(u) BY DEF Wired
  <2>1. CASE u = t
    <3>1. MainWired(t)'
      BY <1>1, <1>2, <1>3, <1>4, <1>5, <1>6, <2>0, <2>1
      DEF Wired, TypeOK, MainWired, SchedulerWired, RootInBody
    <3>2. SchedulerWired(t)'
      BY <1>2, <2>0, <2>1 DEF SchedulerWired
    <3>3. RunningWired(t)'
      <4>1. CASE under = t BY <1>1, <4>1 DEF Wired, TypeOK, RunningWired
      <4>2. CASE m = m_rootFiber[t] /\ under = m /\ RootInBody(t)
        BY <1>1, <1>2, <1>3, <1>4, <1>6, <2>0, <2>1, <4>2
        DEF Wired, TypeOK, SchedulerWired, RunningWired, RootInBody, HasStack
      <4> QED BY <1>1, <4>1, <4>2
    <3> QED BY <2>1, <3>1, <3>2, <3>3 DEF ThreadWired
  <2>2. CASE u # t
    <3>1. MainWired(u)'
      BY <1>1, <1>2, <1>3, <1>4, <1>6, <2>0, <2>2 DEF Wired, TypeOK, MainWired
    <3>2. SchedulerWired(u)'
      BY <1>2, <2>0 DEF SchedulerWired
    <3>3. RunningWired(u)'
      BY <1>1, <1>2, <1>3, <1>4, <1>6, <2>0, <2>2
      DEF Wired, TypeOK, RunningWired, RootInBody, HasStack
    <3> QED BY <3>1, <3>2, <3>3 DEF ThreadWired
  <2> QED BY <2>1, <2>2
<1>9. ASSUME NEW g \in Fibers PROVE WaitingWired(g)'
  <2>0. WaitingWired(g) BY DEF Wired
  <2>1. CASE g = s
    BY <1>1, <1>2, <1>3, <1>6, <2>1 DEF Wired, TypeOK, WaitingWired, Left, HasStack, State
  <2>2. CASE g = m
    BY <1>1, <1>2, <1>5, <1>6, <2>0, <2>2
    DEF Wired, TypeOK, WaitingWired, MainWired, HasStack
  <2>3. CASE g # m /\ g # s
    <3>1. under # g /\ (m_rootFiber[t] = g => func[s] # "MainFunc")
      BY <1>1, <2>3 DEF under, Under, Wired, SchedulerWired
    <3>2. ASSUME \A u \in Threads : running'[u] # g
          PROVE  \A u \in Threads : running[u] # g
      BY <1>1, <2>3, <3>2 DEF Wired, TypeOK
    <3>3. ASSUME NEW u \in Threads, m_rootFiber[u] = g, running[u] \in Fibers,
                 func[running[u]] = "MainFunc"
          PROVE  running'[u] = running[u]
      BY <1>1, <3>1, <3>3 DEF Wired, TypeOK
    <3> QED
      BY <1>1, <1>2, <1>6, <2>0, <2>3, <3>2, <3>3
      DEF Wired, TypeOK, WaitingWired, HasStack
  <2> QED BY <2>1, <2>2, <2>3
<1> QED BY <1>7, <1>8, <1>9 DEF Wired, ThreadWired

\* YieldToReady, YieldToHold, and the yield of a fiber entered with call.
LEMMA YieldWired ==
    ASSUME Rules, Wired, NEW t \in Threads, Yield(t)
    PROVE  Wired'
<1> DEFINE s == running[t]
<1>1. /\ s \in Fibers /\ at[s] = "body" /\ t_fiber[t] = s
  BY DEF Yield, InTask, Wired, RunningWired
<1>2. PICK result \in {"READY", "HOLD"} : m_state' = [m_state EXCEPT ![s] = result]
  BY <1>1 DEF Yield
<1>3. Left(s, result) /\ Leaves(t, s) /\ UNCHANGED <<func, locals>>
  BY <1>1, <1>2 DEF Yield, Left, Leaves, Rules
<1> QED BY <1>1, <1>3, LeaveWired DEF State

\* The end of MainFunc and CallerMainFunc.
LEMMA EndWired == ASSUME Wired, NEW t \in Threads, End(t) PROVE Wired'
<1> DEFINE s == running[t]
<1>1. /\ s \in Fibers /\ at[s] = "body" /\ cur[s] = s /\ HasStack(s)
  BY DEF End, Wired, RunningWired
<1>2. PICK result \in {"TERM", "EXCEPT"} : m_state' = [m_state EXCEPT ![s] = result]
  BY <1>1 DEF End
<1>3. Left(s, result) /\ Leaves(t, s) /\ UNCHANGED <<func, locals>>
  BY <1>1, <1>2 DEF End, Left, Leaves, HasStack
<1> QED BY <1>1, <1>3, LeaveWired DEF State

\* Every step of a program that keeps the rules.
LEMMA NextWired == ASSUME Rules, Wired, [Next]_vars PROVE Wired'
<1>1. ASSUME NEW t \in Threads, Resume(t) PROVE Wired'
  BY <1>1, SwapInWired, CallWired DEF Resume, Rules
<1>2. CASE UNCHANGED vars
  BY <1>2
  DEF vars, objects, locals, Wired, TypeOK, MainWired, SchedulerWired, RunningWired,
      WaitingWired, RootInBody, HasStack
<1>3. CASE Next
  BY <1>1, <1>3, NewFiberWired, ResetWired, DestroyWired, MakeMainWired,
     NewSchedulerWired, DeleteSchedulerWired, EnterWired, YieldWired, EndWired, ExitWired
  DEF Next
<1> QED BY <1>2, <1>3

(***************************************************************************)
(* The pointers and contexts of all threads stay wired to each other, for  *)
(* every number of threads, fibers and schedulers.                         *)
(***************************************************************************)
THEOREM StaysWired == ASSUME Rules PROVE Spec => []Wired
<1>1. Wired /\ [Next]_vars => Wired' BY NextWired
<1> QED BY <1>1, InitWired, PTL DEF Spec

(***************************************************************************)
(* No stack with unfinished work is lost or can be entered twice: it       *)
(* executes, or exactly one context leads to it.                           *)
(***************************************************************************)
THEOREM KeepsStacks == ASSUME Rules PROVE Spec => []StackKept
<1>1. Wired => StackKept
  <2> SUFFICES ASSUME Wired PROVE StackKept OBVIOUS
  <2> USE StacksAssumption DEF Stacks, Threads
  \* A context is empty, the fiber's own stack, or a main fiber's native one.
  <2>1. \A g \in Fibers : Alive(g) =>
          \/ m_ctx[g] = NoStack
          \/ HasStack(g) /\ m_ctx[g] = g /\ \A t \in Threads : running[t] # g
          \/ \E t \in Threads : g = t_threadFiber[t] /\ m_ctx[g] = t
    <3> TAKE g \in Fibers
    <3> HAVE Alive(g)
    <3>1. CASE HasStack(g) /\ \E t \in Threads : running[t] = g
      BY <3>1 DEF Wired, RunningWired
    <3>2. CASE HasStack(g) /\ ~\E t \in Threads : running[t] = g
      BY <3>2 DEF Wired, WaitingWired
    <3>3. CASE func[g] = "main"
      BY <3>3 DEF Wired, WaitingWired, MainWired
    <3> QED BY <3>1, <3>2, <3>3 DEF Alive, HasStack, Wired, TypeOK, Func
  <2>2. ASSUME NEW f \in Fibers, at[f] = "body" PROVE \E p : Places(f) = {p}
    <3>1. HasStack(f) /\ Alive(f) BY <2>2 DEF Wired, WaitingWired, HasStack, Alive
    <3>2. CASE \E t \in Threads : running[t] = f
      <4> PICK t \in Threads : running[t] = f BY <3>2
      <4>1. \A u \in Threads \ {t} : running[u] # f BY DEF Wired, RunningWired
      <4>2. \A g \in Fibers : Alive(g) => m_ctx[g] # f BY <2>1
      <4> QED BY <4>1, <4>2 DEF Places
    <3>3. CASE \A t \in Threads : running[t] # f
      <4>1. m_ctx[f] = f BY <3>1, <3>3 DEF Wired, WaitingWired
      <4>2. \A g \in Fibers \ {f} : Alive(g) => m_ctx[g] # f BY <2>1
      <4> QED BY <3>1, <3>3, <4>1, <4>2 DEF Places
    <3> QED BY <3>2, <3>3
  <2>3. ASSUME NEW t \in Threads, running[t] # Gone PROVE \E p : Places(t) = {p}
    <3>1. \A u \in Threads \ {t} : running[u] # t BY DEF Wired, MainWired
    <3>2. CASE running[t] = t
      <4>1. \A g \in Fibers : Alive(g) => m_ctx[g] # t
        BY <2>1, <3>2 DEF Wired, TypeOK, MainWired
      <4> QED BY <3>1, <3>2, <4>1 DEF Places
    <3>3. CASE running[t] # t
      <4> DEFINE m == t_threadFiber[t]
      <4>1. m \in Fibers /\ Alive(m) /\ m_ctx[m] = t
        BY <2>3, <3>3 DEF Wired, TypeOK, MainWired, Alive
      <4>2. \A g \in Fibers \ {m} : Alive(g) => m_ctx[g] # t BY <2>1
      <4> QED BY <3>1, <3>3, <4>1, <4>2, SMTT(20) DEF Places
    <3> QED BY <3>2, <3>3
  <2> QED BY <2>2, <2>3, FS_Singleton DEF StackKept
<1> QED BY <1>1, StaysWired, PTL

(***************************************************************************)
(* No switch is undefined, GetThis() gives every callback its own fiber,   *)
(* and the assertions of fiber.cc lines 105, 177 and 188 hold.             *)
(***************************************************************************)
THEOREM SwitchesDefined ==
    ASSUME Rules
    PROVE  Spec => [](NoFault /\ CurrentFiber /\ AssertionsHold)
<1>1. Wired => NoFault /\ CurrentFiber /\ AssertionsHold
  BY StacksAssumption
  DEF Wired, NoFault, CurrentFiber, AssertionsHold, MainWired, RunningWired, InTask, InNative,
      Stacks, Threads
<1> QED BY <1>1, StaysWired, PTL
(***************************************************************************)
(* Refinement: the chain of coroutines a thread is inside of.              *)
(***************************************************************************)
Chains == [t \in Threads |-> Chain(t)]
Ended == {f \in Fibers : at[f] = "never"}

\* Under a task on the thread of a root fiber is the root fiber.
ChainIs(t) ==
    IF running[t] \notin Fibers THEN <<>>
    ELSE IF func[running[t]] = "MainFunc" /\ t \notin Pool
         THEN <<m_rootFiber[t], running[t]>>
         ELSE <<running[t]>>

\* The chain of a thread is what its pointers say,
LEMMA ChainsWired == Wired => \A t \in Threads : Chain(t) = ChainIs(t)
<1> SUFFICES ASSUME Wired, NEW t \in Threads PROVE Chain(t) = ChainIs(t)
  OBVIOUS
<1> USE StacksAssumption DEF Stacks, Threads
<1>1. MainWired(t) /\ SchedulerWired(t) /\ RunningWired(t) BY DEF Wired
<1>2. CASE running[t] \notin Fibers BY <1>2 DEF Chain, ChainIs
<1>3. CASE running[t] \in Fibers /\ func[running[t]] = "MainFunc" /\ t \notin Pool
  <2>1. ReturnsTo(t, running[t]) = m_rootFiber[t] /\ m_rootFiber[t] \in Fibers
    BY <1>1, <1>3 DEF ReturnsTo, RunningWired, RootInBody, SchedulerWired, Wired, TypeOK
  <2> QED BY <1>3, <2>1 DEF Chain, ChainIs
<1>4. CASE running[t] \in Fibers /\ ~(func[running[t]] = "MainFunc" /\ t \notin Pool)
  <2>1. ReturnsTo(t, running[t]) = t
    BY <1>1, <1>4 DEF ReturnsTo, MainWired, RunningWired, SchedulerWired
  <2> QED BY <1>4, <2>1 DEF Chain, ChainIs
<1> QED BY <1>2, <1>3, <1>4

\* also after a step.
LEMMA ChainsWiredNext == Wired' => \A t \in Threads : Chain(t)' = ChainIs(t)'
<1>1. (Wired => \A t \in Threads : Chain(t) = ChainIs(t))' BY ChainsWired, PTL
<1> QED BY <1>1

\* A coroutine that a thread is inside of executes, or is the root fiber the
\* thread has left with swapIn.
LEMMA InsideExecutes ==
    ASSUME Wired, NEW f \in Fibers, C!Inside(f)
    PROVE  HasStack(f) /\ m_state[f] = "EXEC" /\ at[f] # "never"
<1>1. PICK t \in Threads : \E i \in DOMAIN Chain(t) : Chain(t)[i] = f
  BY DEF C!Inside
<1>2. running[t] \in Fibers /\ RunningWired(t) /\ Chain(t) = ChainIs(t)
  BY <1>1, ChainsWired DEF Wired, ChainIs
<1>3. CASE f = running[t] BY <1>2, <1>3 DEF RunningWired
<1>4. CASE f # running[t]
  <2>1. f = m_rootFiber[t] /\ func[running[t]] = "MainFunc" /\ t \notin Pool
    BY <1>1, <1>2, <1>4 DEF ChainIs
  <2> QED BY <1>2, <2>1 DEF RunningWired, RootInBody, Wired, SchedulerWired, HasStack
<1> QED BY <1>3, <1>4

\* resume: one more coroutine in the chain.
LEMMA ResumeImplements ==
    ASSUME Rules, Wired, Wired', NEW t \in Threads, Resume(t)
    PROVE  C!Next
<1> USE StacksAssumption DEF Stacks, Threads, locals
<1>1. PICK f \in Fibers :
        /\ Resumable(f)
        /\ \/ InRun(t) /\ func[f] = "MainFunc" /\ swapIn(t, f)
           \/ InNative(t) /\ t \notin Pool /\ func[f] = "CallerMainFunc" /\ call(t, f)
  BY DEF Resume, Rules
<1>2. UNCHANGED <<func, at, m_rootFiber>> BY <1>1 DEF swapIn, call
<1>3. running' = [running EXCEPT ![t] = f]
  <2>1. running'[t] # Fault BY DEF Wired, MainWired
  <2>2. m_ctx[f] = f BY <1>1, ResumableWaits
  <2> QED BY <1>1, <2>1, <2>2 DEF swapIn, call, swapcontext, Wired, TypeOK
<1>4. ~C!Inside(f) /\ f \notin Ended
  BY <1>1, InsideExecutes, ResumableWaits DEF Resumable, Ended
<1>5. \A u \in Threads : Chain(u) = ChainIs(u) /\ Chain(u)' = ChainIs(u)'
  BY ChainsWired, ChainsWiredNext
<1>6. Chain(t)' = Append(Chain(t), f)
  <2>1. CASE InRun(t) /\ func[f] = "MainFunc"
    <3>1. CASE t \in Pool /\ InNative(t)
      <4>1. Chain(t) = <<>> /\ Chain(t)' = <<f>>
        BY <1>2, <1>3, <1>5, <2>1, <3>1 DEF ChainIs, InNative, Wired, TypeOK
      <4> QED BY <4>1
    <3>2. CASE m_rootFiber[t] # NoFiber /\ running[t] = m_rootFiber[t]
      <4> DEFINE r == m_rootFiber[t]
      <4>1. /\ r \in Fibers /\ func[r] = "CallerMainFunc"
            /\ t \notin Pool /\ m_rootFiber'[t] = r
        BY <1>2, <3>2 DEF Wired, SchedulerWired, TypeOK
      <4>2. Chain(t) = <<r>> /\ Chain(t)' = <<r, f>>
        BY <1>2, <1>3, <1>5, <2>1, <3>2, <4>1 DEF ChainIs, Wired, TypeOK
      <4> HIDE DEF r
      <4> QED BY <4>1, <4>2
    <3> QED BY <2>1, <3>1, <3>2 DEF InRun
  <2>2. CASE InNative(t) /\ func[f] = "CallerMainFunc"
    <3>1. Chain(t) = <<>> /\ Chain(t)' = <<f>>
      BY <1>2, <1>3, <1>5, <2>2 DEF ChainIs, InNative, Wired, TypeOK
    <3> QED BY <3>1
  <2> QED BY <1>1, <2>1, <2>2
<1>7. ASSUME NEW u \in Threads \ {t} PROVE Chain(u)' = Chain(u)
  BY <1>2, <1>3, <1>5 DEF ChainIs, Wired, TypeOK
<1>8. Chains' = [Chains EXCEPT ![t] = Append(@, f)] /\ Ended' = Ended
  BY <1>2, <1>6, <1>7 DEF Chains, Ended
<1>9. C!Resume(t, f) BY <1>4, <1>8 DEF C!Resume, Chains, Ended
<1> QED BY <1>9 DEF C!Next

\* yield and end: the chain loses its last coroutine.
LEMMA LeaveImplements ==
    ASSUME Wired, Wired', NEW t \in Threads, NEW s \in Fibers, running[t] = s, at[s] = "body",
           Leaves(t, s), UNCHANGED <<func, locals>>
    PROVE  /\ Chains[t] # <<>> /\ C!Last(Chains[t]) = s
           /\ Chains' = [Chains EXCEPT ![t] = C!Front(@)]
<1> USE StacksAssumption DEF Stacks, Threads, locals
<1>1. running' = [running EXCEPT ![t] = Under(t, s)] BY UnderWaits
<1>2. UNCHANGED <<func, m_rootFiber>> OBVIOUS
<1>3. \A u \in Threads : Chain(u) = ChainIs(u) /\ Chain(u)' = ChainIs(u)'
  BY ChainsWired, ChainsWiredNext
<1>4. Chain(t) # <<>> /\ C!Last(Chain(t)) = s /\ Chain(t)' = C!Front(Chain(t))
  <2>1. CASE func[s] = "MainFunc" /\ t \notin Pool
    <3> DEFINE r == m_rootFiber[t]
    <3>1. r \in Fibers /\ func[r] = "CallerMainFunc"
      BY <2>1 DEF Wired, TypeOK, RunningWired, RootInBody, SchedulerWired
    <3>2. Chain(t) = <<r, s>> /\ Chain(t)' = <<r>>
      BY <1>1, <1>2, <1>3, <2>1, <3>1 DEF ChainIs, Under, Wired, TypeOK
    <3> QED BY <3>2 DEF C!Front, C!Last
  <2>2. CASE ~(func[s] = "MainFunc" /\ t \notin Pool)
    <3>1. Chain(t) = <<s>> /\ Chain(t)' = <<>>
      BY <1>1, <1>2, <1>3, <2>2 DEF ChainIs, Under, Wired, TypeOK
    <3> QED BY <3>1 DEF C!Front, C!Last
  <2> QED BY <2>1, <2>2
<1>5. ASSUME NEW u \in Threads \ {t} PROVE Chain(u)' = Chain(u)
  BY <1>1, <1>2, <1>3 DEF ChainIs, Wired, TypeOK
<1> QED BY <1>4, <1>5 DEF Chains

\* A yield suspends the coroutine in front.
LEMMA YieldImplements ==
    ASSUME Rules, Wired, Wired', NEW t \in Threads, Yield(t)
    PROVE  C!Next
<1> DEFINE s == running[t]
<1>1. /\ s \in Fibers /\ at[s] = "body" /\ t_fiber[t] = s
  BY DEF Yield, InTask, Wired, RunningWired
<1>2. Leaves(t, s) /\ UNCHANGED <<func, at, locals>>
  BY <1>1 DEF Yield, Leaves, Rules
<1>3. Chains[t] # <<>> /\ Chains' = [Chains EXCEPT ![t] = C!Front(@)]
  BY <1>1, <1>2, LeaveImplements
<1>4. C!Suspend(t) BY <1>2, <1>3 DEF C!Suspend, C!Front, Chains, Ended
<1> QED BY <1>4 DEF C!Next

\* The end of an entry function ends the coroutine in front.
LEMMA EndImplements ==
    ASSUME Wired, Wired', NEW t \in Threads, End(t)
    PROVE  C!Next
<1> DEFINE s == running[t]
<1>1. /\ s \in Fibers /\ at[s] = "body" /\ cur[s] = s /\ HasStack(s)
  BY DEF End, Wired, RunningWired
<1>2. /\ Leaves(t, s) /\ UNCHANGED <<func, locals>>
      /\ at' = [at EXCEPT ![s] = "never"]
  BY <1>1 DEF End, Leaves, HasStack
<1>3. /\ Chains[t] # <<>> /\ C!Last(Chains[t]) = s
      /\ Chains' = [Chains EXCEPT ![t] = C!Front(@)]
  BY <1>1, <1>2, LeaveImplements
<1>4. Ended' = Ended \cup {s} BY <1>1, <1>2 DEF Ended, Wired, TypeOK
<1>5. C!End(t) BY <1>3, <1>4 DEF C!End, C!Front, C!Last, Chains, Ended
<1> QED BY <1>5 DEF C!Next

\* What does not switch leaves every chain as it is.
LEMMA ChainsKept ==
    ASSUME Wired, Wired',
           \A u \in Threads : running'[u] = running[u]
                                 \/ {running[u], running'[u]} \cap Fibers = {},
           \A u \in Threads : running[u] \in Fibers =>
                m_rootFiber'[u] = m_rootFiber[u] /\ func'[running[u]] = func[running[u]]
    PROVE  Chains' = Chains
<1>1. \A u \in Threads : Chain(u) = ChainIs(u) /\ Chain(u)' = ChainIs(u)'
  BY ChainsWired, ChainsWiredNext
<1>2. \A u \in Threads : ChainIs(u)' = ChainIs(u) BY DEF ChainIs
<1> QED BY <1>1, <1>2 DEF Chains

\* A constructor and reset: a coroutine that has not ended.
LEMMA BuildImplements ==
    ASSUME Wired, NEW f \in Fibers, NEW entry, Build(f, entry), ~C!Inside(f),
           Chains' = Chains
    PROVE  C!Next
<1>1. Ended' = Ended \ {f} BY DEF Ended, Build, Wired, TypeOK
<1>2. C!Renew(f) BY <1>1 DEF C!Renew, Chains, Ended
<1> QED BY <1>2 DEF C!Next

\* Building a fiber, with its scheduler or again, makes a new coroutine.
LEMMA ConstructImplements ==
    ASSUME Wired, Wired', NewFiber \/ reset \/ \E t \in Threads : NewScheduler(t)
    PROVE  C!Next
<1>1. CASE NewFiber \/ reset
  <2>1. PICK f \in Fibers, entry \in {"MainFunc", "CallerMainFunc"} :
          /\ Build(f, entry)
          /\ ~Alive(f) \/ Disposable(f)
    BY <1>1 DEF NewFiber, reset
  <2>2. ~C!Inside(f) /\ \A u \in Threads : running[u] # f
    BY <2>1, InsideExecutes DEF Disposable, Alive, HasStack, Wired, RunningWired
  <2>3. UNCHANGED <<running, m_rootFiber>> BY <1>1 DEF NewFiber, reset, locals
  <2>4. Chains' = Chains
    BY <2>1, <2>2, <2>3, ChainsKept DEF Build, Wired, TypeOK
  <2> QED BY <2>1, <2>2, <2>4, BuildImplements
<1>2. ASSUME NEW t \in Threads, NewScheduler(t) PROVE C!Next
  <2>1. PICK f \in Fibers :
          /\ ~Alive(f) /\ Build(f, "CallerMainFunc")
          /\ m_rootFiber' = [m_rootFiber EXCEPT ![t] = f]
    BY <1>2 DEF NewScheduler
  <2>2. ~C!Inside(f) /\ \A u \in Threads : running[u] # f
    BY <2>1, InsideExecutes DEF Alive, HasStack, Wired, RunningWired
  <2>3. running' = running /\ running[t] \notin Fibers
    BY <1>2, StacksAssumption DEF NewScheduler, InNative, Threads
  <2>4. Chains' = Chains
    BY <2>1, <2>2, <2>3, ChainsKept DEF Build, Wired, TypeOK
  <2> QED BY <2>1, <2>2, <2>4, BuildImplements
<1> QED BY <1>1, <1>2

\* The other steps are not visible.
LEMMA HiddenSteps ==
    ASSUME Wired, Wired', NEW t \in Threads,
           \/ GetThis(t) \/ RunOnThread(t) \/ DeleteScheduler(t) \/ Enter(t) \/ Exit(t)
           \/ Destroy \/ UNCHANGED vars
    PROVE  Chains' = Chains /\ Ended' = Ended
<1> USE StacksAssumption DEF Stacks, Threads
<1>1. CASE GetThis(t) \/ RunOnThread(t)
  <2>1. PICK f \in Fibers : ~Alive(f) /\ func' = [func EXCEPT ![f] = "main"]
    BY <1>1 DEF GetThis, RunOnThread, MakeMain
  <2>2. UNCHANGED <<at, m_rootFiber, running>>
    BY <1>1 DEF GetThis, RunOnThread, MakeMain
  <2>3. \A u \in Threads : running[u] # f
    BY <2>1 DEF Wired, RunningWired, HasStack, Alive
  <2> QED BY <2>1, <2>2, <2>3, ChainsKept DEF Ended, Wired, TypeOK
<1>2. CASE DeleteScheduler(t)
  <2>1. /\ InNative(t) /\ UNCHANGED <<at, running>>
        /\ func' = [func EXCEPT ![m_rootFiber[t]] = "none"]
        /\ m_rootFiber' = [m_rootFiber EXCEPT ![t] = NoFiber]
        /\ m_rootFiber[t] \in Fibers /\ Disposable(m_rootFiber[t])
    BY <1>2 DEF DeleteScheduler, Wired, TypeOK
  <2>2. \A u \in Threads : running[u] # m_rootFiber[t]
    BY <2>1 DEF Wired, RunningWired, Disposable, InNative
  <2> QED BY <2>1, <2>2, ChainsKept DEF Ended, Wired, TypeOK, InNative
<1>3. CASE Destroy
  <2>1. PICK f \in Fibers : Disposable(f) /\ func' = [func EXCEPT ![f] = "none"]
    BY <1>3 DEF Destroy
  <2>2. \A u \in Threads : running[u] # f BY <2>1 DEF Wired, RunningWired, Disposable
  <2> QED BY <1>3, <2>1, <2>2, ChainsKept DEF Destroy, locals, Ended, Wired, TypeOK
<1>4. CASE Enter(t)
  <2>1. Ended' = Ended BY <1>4 DEF Enter, Ended, Wired, TypeOK
  <2> QED BY <1>4, <2>1, ChainsKept DEF Enter, locals
<1>5. CASE Exit(t)
  <2> DEFINE f == t_threadFiber[t]
  <2>1. /\ f \in Fibers /\ running[t] = t /\ running' = [running EXCEPT ![t] = Gone]
        /\ func' = [func EXCEPT ![f] = "none"] /\ func[f] = "main"
        /\ UNCHANGED <<at, m_rootFiber>>
    BY <1>5 DEF Exit, InNative, Wired, TypeOK, MainWired
  <2>2. \A u \in Threads : running[u] # f
    BY <2>1 DEF Wired, RunningWired, HasStack
  <2> QED BY <2>1, <2>2, ChainsKept DEF Ended, Wired, TypeOK
<1>6. CASE UNCHANGED vars
  BY <1>6, ChainsKept DEF vars, objects, locals, Ended
<1> QED BY <1>1, <1>2, <1>3, <1>4, <1>5, <1>6

(***************************************************************************)
(* Fibers that are swapped through thread-local pointers are coroutines:   *)
(* on every thread, leaving a fiber continues the one that resumed it.     *)
(***************************************************************************)
THEOREM FibersAreCoroutines == ASSUME Rules PROVE Spec => ImplementsCoroutines
<1>1. Init => C!Init
  <2> SUFFICES ASSUME Init PROVE C!Init OBVIOUS
  <2>1. \A t \in Threads : Chain(t) = <<>>
    BY StacksAssumption DEF Init, Chain, Stacks, Threads
  <2> QED BY <2>1 DEF C!Init, Init
<1>2. Wired /\ Wired' /\ [Next]_vars => [C!Next]_<<Chains, Ended>>
  <2> SUFFICES ASSUME Wired, Wired', [Next]_vars PROVE [C!Next]_<<Chains, Ended>>
    OBVIOUS
  <2>1. CASE NewFiber \/ reset \/ \E t \in Threads : NewScheduler(t)
    BY <2>1, ConstructImplements
  <2>2. CASE Threads # {} /\ (Destroy \/ UNCHANGED vars)
    BY <2>2, HiddenSteps
  <2>3. CASE Threads = {} /\ (Destroy \/ UNCHANGED vars)
    BY <2>3 DEF Chains, Ended, Destroy, vars, objects
  <2>4. ASSUME NEW t \in Threads,
               \/ GetThis(t) \/ RunOnThread(t) \/ DeleteScheduler(t)
               \/ Resume(t) \/ Enter(t) \/ Yield(t) \/ End(t) \/ Exit(t)
        PROVE  [C!Next]_<<Chains, Ended>>
    BY <2>4, HiddenSteps, ResumeImplements, YieldImplements, EndImplements
  <2> QED BY <2>1, <2>2, <2>3, <2>4 DEF Next
<1> QED
  BY <1>1, <1>2, StaysWired, PTL DEF Spec, ImplementsCoroutines, C!Spec, Chains, Ended

-----------------------------------------------------------------------------
(***************************************************************************)
(* Thread: the handshake of its constructor keeps the started thread and   *)
(* the Thread object in step, for any number of threads, and no increment  *)
(* made under the mutex is lost.                                           *)
(***************************************************************************)
\* How the object, its semaphore and the started thread relate.  While the
\* thread has not reached its callback the constructor still waits, and the
\* semaphore is posted only after that.
Handshake(c) ==
    /\ obj[c] = "none" => run[c] = "none"
    /\ run[c] = "none" => obj[c] \in {"none", "destroyed"} /\ m_semaphore[c] = 0
    /\ run[c] \in {"start", "notify"} => obj[c] = "ctor" /\ m_semaphore[c] = 0
    /\ m_semaphore[c] > 0 => obj[c] = "ctor"
    /\ run[c] \notin {"none", "start"} => m_id[c] /\ ~m_cb[c]

\* The pthread_t is zero only of a thread that was joined, or never started.
Joined(c) ==
    /\ obj[c] = "ctor" => m_thread[c]
    /\ obj[c] = "live" /\ ~m_thread[c] => run[c] = "done"
    /\ obj[c] = "destroyed" /\ ~m_thread[c] => run[c] \in {"none", "done"}

\* The inductive invariant.
IInv == ThreadTypeOK /\ \A c \in Children : Handshake(c) /\ Joined(c)

-----------------------------------------------------------------------------
\* Before any thread is constructed the invariant holds.
LEMMA InitIInv == ThreadInit => IInv
  BY ThreadAssumption DEF ThreadInit, IInv, ThreadTypeOK, Handshake, Joined

\* The steps of the thread that constructs, joins and destroys keep it.
LEMMA MainIInv == ASSUME IInv, NEW c \in Children, Main(c) PROVE IInv'
<1> USE DEF IInv
<1>1. ThreadTypeOK'
  <2>1. CASE Construct(c)     BY <2>1 DEF Construct, ThreadTypeOK, Goto, loop
  <2>2. CASE ConstructFails(c) BY <2>2 DEF ConstructFails, ThreadTypeOK, start, loop
  <2>3. CASE Constructed(c)   BY <2>3 DEF Constructed, ThreadTypeOK, loop
  <2>4. CASE join(c)          BY <2>4 DEF join, ThreadTypeOK, start, loop
  <2>5. CASE DestroyThread(c)       BY <2>5 DEF DestroyThread, ThreadTypeOK, start, loop
  <2> QED BY <2>1, <2>2, <2>3, <2>4, <2>5 DEF Main
<1>2. ASSUME NEW d \in Children PROVE Handshake(d)' /\ Joined(d)'
  <2> USE DEF ThreadTypeOK, Handshake, Joined
  <2>0. Handshake(d) /\ Joined(d) /\ Handshake(c) /\ Joined(c) OBVIOUS
  <2>1. CASE Construct(c)     BY <2>0, <2>1 DEF Construct, Goto
  <2>2. CASE ConstructFails(c) BY <2>0, <2>2 DEF ConstructFails, start
  <2>3. CASE Constructed(c)   BY <2>0, <2>3 DEF Constructed
  <2>4. CASE join(c)          BY <2>0, <2>4 DEF join, start, RunAt
  <2>5. CASE DestroyThread(c)       BY <2>0, <2>5 DEF DestroyThread, start
  <2> QED BY <2>1, <2>2, <2>3, <2>4, <2>5 DEF Main
<1> QED BY <1>1, <1>2

\* The steps of a started thread keep it.
LEMMA RunIInv == ASSUME IInv, NEW c \in Children, Run(c) PROVE IInv'
<1> USE DEF IInv, RunAt, Goto
<1>1. ThreadTypeOK'
  <2>0. /\ RunNotify(c) => m_semaphore[c] = 0
        /\ LoopLock(c) => left[c] - 1 \in 0..Loops
    BY ThreadAssumption DEF ThreadTypeOK, RunNotify, LoopLock, Handshake
  <2>1. CASE RunStart(c)      BY <2>1 DEF RunStart, ThreadTypeOK, object, loop
  <2>2. CASE RunNotify(c)     BY <2>0, <2>2 DEF RunNotify, ThreadTypeOK, object, loop
  <2>3. CASE SetName(c)       BY <2>3 DEF SetName, ThreadTypeOK, start, loop
  <2>4. CASE LoopLock(c)      BY <2>0, <2>4 DEF LoopLock, ThreadTypeOK, object, start
  <2>5. CASE LoopLoad(c)      BY <2>5 DEF LoopLoad, ThreadTypeOK, object, start
  <2>6. CASE LoopStore(c)     BY <2>6 DEF LoopStore, ThreadTypeOK, object, start
  <2>7. CASE LoopUnlock(c)    BY <2>7 DEF LoopUnlock, ThreadTypeOK, object, start
  <2>8. CASE RunEnd(c)        BY <2>8 DEF RunEnd, ThreadTypeOK, object, start, loop
  <2> QED BY <2>1, <2>2, <2>3, <2>4, <2>5, <2>6, <2>7, <2>8 DEF Run
<1>2. ASSUME NEW d \in Children PROVE Handshake(d)' /\ Joined(d)'
  <2> USE DEF ThreadTypeOK, Handshake, Joined, object, start
  <2>0. Handshake(d) /\ Joined(d) /\ Handshake(c) /\ Joined(c) OBVIOUS
  <2>1. CASE RunStart(c)      BY <2>0, <2>1 DEF RunStart
  <2>2. CASE RunNotify(c)     BY <2>0, <2>2 DEF RunNotify
  <2>3. CASE SetName(c)       BY <2>0, <2>3 DEF SetName
  <2>4. CASE LoopLock(c)      BY <2>0, <2>4 DEF LoopLock
  <2>5. CASE LoopLoad(c)      BY <2>0, <2>5 DEF LoopLoad
  <2>6. CASE LoopStore(c)     BY <2>0, <2>6 DEF LoopStore
  <2>7. CASE LoopUnlock(c)    BY <2>0, <2>7 DEF LoopUnlock
  <2>8. CASE RunEnd(c)        BY <2>0, <2>8 DEF RunEnd
  <2> QED BY <2>1, <2>2, <2>3, <2>4, <2>5, <2>6, <2>7, <2>8 DEF Run
<1> QED BY <1>1, <1>2

\* The invariant holds in every reachable state.
THEOREM HandshakeInvariant == ThreadSpec => []IInv
<1>1. IInv /\ [ThreadNext]_threadVars => IInv'
  <2> SUFFICES ASSUME IInv, [ThreadNext]_threadVars PROVE IInv' OBVIOUS
  <2>1. CASE UNCHANGED threadVars
    BY <2>1 DEF threadVars, object, start, loop, IInv, ThreadTypeOK, Handshake, Joined
  <2>2. CASE ThreadNext BY <2>2, MainIInv, RunIInv DEF ThreadNext
  <2> QED BY <2>1, <2>2
<1> QED BY <1>1, InitIInv, PTL DEF ThreadSpec

\* When the constructor returns, the Thread has its id and its callback has
\* been taken: Semaphore::wait comes after everything run does before notify.
THEOREM Ready == ThreadSpec => []ReadyWhenConstructed
<1>1. IInv => ReadyWhenConstructed
  BY DEF IInv, ThreadTypeOK, Handshake, ReadyWhenConstructed
<1> QED BY <1>1, HandshakeInvariant, PTL

\* Thread::run does not use an object that ~Thread has destroyed, and whoever
\* still calls SetName then was detached by it: no joined thread does.
THEOREM NoDangling == ThreadSpec => []NoDanglingThread
<1>1. IInv => NoDanglingThread
  BY DEF IInv, ThreadTypeOK, Handshake, Joined, NoDanglingThread
<1> QED BY <1>1, HandshakeInvariant, PTL
-----------------------------------------------------------------------------
(***************************************************************************)
(* The shared counter.                                                     *)
(***************************************************************************)

\* The rounds of loops whose addition is stored: all that were begun, but the
\* one a thread is about to load or store the counter in.
Stored(c) == Loops - left[c] - (IF run[c] \in {"load", "store"} THEN 1 ELSE 0)
Added == {p \in Children \X (1..Loops) : p[2] <= Stored(p[1])}

\* The mutex is with the thread in its loop's body, which has read the counter
\* as it is.
Exclusive(c) ==
    /\ run[c] \in {"load", "store", "unlock"} => mutex = c
    /\ run[c] = "store" => tmp[c] = count

\* How far a thread is with its rounds.
Progress(c) ==
    /\ run[c] \in {"none", "start", "notify", "rename"} => left[c] = Loops
    /\ run[c] \in {"load", "store"} => left[c] < Loops
    /\ run[c] = "done" => left[c] = 0

CountInv ==
    /\ \A c \in Children : Exclusive(c) /\ Progress(c)
    /\ count = Cardinality(Added)

\* The set of rounds is finite.
LEMMA AddedFinite == IsFiniteSet(Added)
<1>1. IsFiniteSet(1..Loops) BY ThreadAssumption, FS_Interval
<1>2. IsFiniteSet(Children \X (1..Loops)) BY <1>1, ThreadAssumption, FS_Product
<1> QED BY <1>2, FS_Subset DEF Added

\* Nothing is counted before a thread is constructed.
LEMMA InitCount == ThreadInit => CountInv
<1> SUFFICES ASSUME ThreadInit PROVE CountInv OBVIOUS
<1>1. Added = {}
  BY ThreadAssumption DEF ThreadInit, Added, Stored
<1> QED BY <1>1, FS_EmptySet DEF ThreadInit, CountInv, Exclusive, Progress

\* A step that stores no addition.
LEMMA SameCount ==
    ASSUME IInv, CountInv, count' = count,
           \A c \in Children : Stored(c)' = Stored(c)
    PROVE  (count = Cardinality(Added))'
<1>1. Added' = Added BY DEF Added
<1> QED BY <1>1 DEF CountInv

\* The steps of the constructing thread leave the loops alone.
LEMMA MainCount == ASSUME IInv, CountInv, NEW c \in Children, Main(c) PROVE CountInv'
<1> USE DEF IInv, ThreadTypeOK
<1>1. UNCHANGED loop
  BY DEF Main, Construct, ConstructFails, Constructed, join, DestroyThread
<1>2. \/ run' = run
      \/ run[c] = "none" /\ run' = [run EXCEPT ![c] = "start"]
  BY DEF Main, Construct, ConstructFails, Constructed, join, DestroyThread, Goto, Handshake
<1>3. \A d \in Children : Exclusive(d)' /\ Progress(d)'
  BY <1>1, <1>2 DEF CountInv, Exclusive, Progress, loop
<1>4. \A d \in Children : Stored(d)' = Stored(d)
  BY <1>1, <1>2 DEF Stored, loop
<1> QED BY <1>1, <1>3, <1>4, SameCount DEF CountInv, loop

\* The steps of a started thread; its store makes one addition more.
LEMMA RunCount == ASSUME IInv, CountInv, NEW c \in Children, Run(c) PROVE CountInv'
<1> USE ThreadAssumption DEF IInv, ThreadTypeOK, RunAt, Goto
<1>1. \A d \in Children : Exclusive(d)' /\ Progress(d)'
  <2> USE DEF CountInv, Exclusive, Progress
  <2>1. CASE RunStart(c) \/ RunNotify(c) \/ SetName(c) \/ RunEnd(c)
    BY <2>1 DEF RunStart, RunNotify, SetName, RunEnd, loop, Handshake, Joined
  <2>2. CASE LoopLock(c)   BY <2>2 DEF LoopLock
  <2>3. CASE LoopLoad(c)   BY <2>3 DEF LoopLoad
  <2>4. CASE LoopStore(c)  BY <2>4 DEF LoopStore
  <2>5. CASE LoopUnlock(c) BY <2>5 DEF LoopUnlock
  <2> QED BY <2>1, <2>2, <2>3, <2>4, <2>5 DEF Run
<1>2. CASE ~LoopStore(c)
  <2>1. count' = count
    BY <1>2 DEF Run, RunStart, RunNotify, SetName, LoopLock, LoopLoad, LoopUnlock, RunEnd, loop
  <2>2. \A d \in Children : Stored(d)' = Stored(d)
    BY <1>2
    DEF Run, RunStart, RunNotify, SetName, LoopLock, LoopLoad, LoopUnlock, RunEnd, loop, Stored
  <2> QED BY <1>1, <2>1, <2>2, SameCount DEF CountInv
<1>3. CASE LoopStore(c)
  <2> DEFINE round == Loops - left[c]
  <2>1. run[c] = "store" /\ run' = [run EXCEPT ![c] = "unlock"] /\ left' = left
        /\ count' = count + 1
    BY <1>3 DEF LoopStore, CountInv, Exclusive
  <2>2. round \in 1..Loops /\ Stored(c) = round - 1 /\ Stored(c)' = round
    BY <2>1 DEF Stored, CountInv, Progress
  <2>3. \A d \in Children \ {c} : Stored(d)' = Stored(d) BY <2>1 DEF Stored
  <2>4. \A d \in Children : Stored(d) \in Int BY DEF Stored
  <2>5. <<c, round>> \notin Added BY <2>2 DEF Added
  <2>6. Added' = Added \cup {<<c, round>>}
    <3>1. ASSUME NEW d \in Children, NEW i \in 1..Loops
          PROVE  i <= Stored(d)' <=> i <= Stored(d) \/ <<d, i>> = <<c, round>>
      BY <2>2, <2>3, <2>4
    <3> QED BY <2>2, <3>1 DEF Added
  <2>7. Cardinality(Added') = Cardinality(Added) + 1
    BY <2>5, <2>6, AddedFinite, FS_AddElement
  <2> QED BY <1>1, <2>1, <2>7 DEF CountInv
<1> QED BY <1>2, <1>3

\* When every thread that was started has ended, each has added all of its
\* rounds.
LEMMA AllAdded ==
    ASSUME IInv, CountInv, \A c \in Children : run[c] \in {"none", "done"}
    PROVE  count = Loops * Cardinality({c \in Children : RunAt(c, "done")})
<1> DEFINE ended == {c \in Children : RunAt(c, "done")}
<1> USE ThreadAssumption
<1>1. Added = ended \X (1..Loops)
  BY DEF Added, Stored, CountInv, Progress, RunAt
<1>2. IsFiniteSet(ended) /\ Cardinality(ended) \in Nat
  BY FS_Subset, FS_CardinalityType
<1>3. IsFiniteSet(1..Loops) /\ Cardinality(1..Loops) = Loops
  BY FS_Interval
<1>4. Cardinality(ended \X (1..Loops)) = Cardinality(ended) * Loops
  BY <1>2, <1>3, FS_Product
<1> QED BY <1>1, <1>2, <1>4 DEF CountInv

(***************************************************************************)
(* A joined thread has done its work, and no addition to the counter that  *)
(* the scoped mutex guards is lost, for any number of threads and rounds.  *)
(***************************************************************************)
THEOREM NoLostAdditions == ThreadSpec => []JoinedWorkIsDone
<1>1. IInv /\ CountInv /\ [ThreadNext]_threadVars => CountInv'
  <2> SUFFICES ASSUME IInv, CountInv, [ThreadNext]_threadVars PROVE CountInv' OBVIOUS
  <2>1. CASE UNCHANGED threadVars
    <3>1. UNCHANGED <<run, left, mutex, count, tmp>> BY <2>1 DEF threadVars, loop
    <3>2. \A c \in Children : Stored(c)' = Stored(c) BY <3>1 DEF Stored
    <3> QED BY <3>1, <3>2, SameCount DEF CountInv, Exclusive, Progress
  <2>2. CASE ThreadNext BY <2>2, MainCount, RunCount DEF ThreadNext
  <2> QED BY <2>1, <2>2
<1>2. IInv /\ CountInv => JoinedWorkIsDone
  BY AllAdded DEF JoinedWorkIsDone, IInv, ThreadTypeOK, Joined, CountInv, Progress, RunAt
<1> QED BY <1>1, <1>2, InitCount, HandshakeInvariant, PTL DEF ThreadSpec
=============================================================================
