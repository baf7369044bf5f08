--------------------------- MODULE SchedulerProofs ---------------------------
(***************************************************************************)
(* Theorems about Scheduler, for every number of threads, fibers,          *)
(* callbacks, yields and stops:                                            *)
(*  - its types;                                                           *)
(*  - for programs whose callbacks do not go on hold, Ownership and what   *)
(*    follows from it;                                                     *)
(*  - for those of them, that the counter is exact and no assertion fails, *)
(*    unless a scheduler that uses its caller is stopped twice; and if     *)
(*    nothing is scheduled for one thread only, that no callback is lost,  *)
(*    that stop() returns only when all are done, and that Scheduler       *)
(*    implements TaskPool, on pool threads or with the calling thread;     *)
(*  - for programs that schedule everything for one thread, and wake a     *)
(*    fiber only when getState() says it is on hold: every fiber stays     *)
(*    with the thread its callback was scheduled for, and that thread      *)
(*    resumes it only when its context is saved, although it can be woken  *)
(*    while it is still on its way out; the counter is exact, no assertion *)
(*    fails with the same exception, and stop() leaves only callbacks that *)
(*    are on hold and that the program still has a handle of.              *)
(***************************************************************************)
EXTENDS SchedulerOwnership, SchedulerRefinement, FiniteSetTheorems,
        SequenceTheorems, TLAPS

-----------------------------------------------------------------------------
\* The operators on fibers keep the fiber variables in their types.
LEMMA FiberStepType ==
    ASSUME FiberTypeOK, NEW f \in Fibers
    PROVE  /\ \A c \in Jobs \cup {NoJob} : Prepare(f, c) => FiberTypeOK'
           /\ \A s \in State : setState(f, s) => FiberTypeOK'
           /\ Enter(f) => FiberTypeOK'
           /\ Return(f) => FiberTypeOK'
           /\ Throw(f) => FiberTypeOK'
           /\ Leave(f) => FiberTypeOK'
BY DEF FiberTypeOK, Prepare, setState, Enter, Return, Throw, Leave, State,
       Context

\* What erasing one entry leaves in the queue.
LEMMA RemoveAtIsSeq ==
    ASSUME NEW S, NEW q \in Seq(S), NEW k \in DOMAIN q
    PROVE  /\ RemoveAt(q, k) \in Seq(S)
           /\ Len(RemoveAt(q, k)) = Len(q) - 1
           /\ \A i \in 1..(Len(q) - 1) :
                RemoveAt(q, k)[i] = IF i < k THEN q[i] ELSE q[i + 1]
<1>1. k \in 1..Len(q) /\ Len(q) \in Nat
  OBVIOUS
<1> DEFINE a == SubSeq(q, 1, k - 1)
           b == SubSeq(q, k + 1, Len(q))
<1>2. a \in Seq(S) /\ Len(a) = k - 1 /\ \A i \in 1..(k - 1) : a[i] = q[i]
  BY <1>1
<1>3. b \in Seq(S) /\ Len(b) = Len(q) - k
      /\ \A i \in 1..(Len(q) - k) : b[i] = q[i + k]
  BY <1>1
<1>4. RemoveAt(q, k) = a \o b
  BY DEF RemoveAt
<1> HIDE DEF a, b
<1>5. /\ a \o b \in Seq(S)
      /\ Len(a \o b) = Len(a) + Len(b)
      /\ \A i \in 1..Len(a) + Len(b) :
           (a \o b)[i] = IF i <= Len(a) THEN a[i] ELSE b[i - Len(a)]
  BY <1>2, <1>3, ConcatProperties
<1>6. Len(a) + Len(b) = Len(q) - 1
  BY <1>1, <1>2, <1>3
<1>7. ASSUME NEW i \in 1..(Len(q) - 1)
      PROVE  (a \o b)[i] = IF i < k THEN q[i] ELSE q[i + 1]
  <2>1. (a \o b)[i] = IF i <= Len(a) THEN a[i] ELSE b[i - Len(a)]
    BY <1>5, <1>6
  <2>2. CASE i < k
    <3>1. i \in 1..(k - 1) /\ i <= Len(a)
      BY <1>1, <1>2, <2>2
    <3> QED
      BY <3>1, <1>2, <2>1, <2>2
  <2>3. CASE ~(i < k)
    <3> DEFINE j == i - Len(a)
    <3>1. j \in 1..(Len(q) - k) /\ j + k = i + 1 /\ ~(i <= Len(a))
      BY <1>1, <1>2, <2>3
    <3>2. b[j] = q[j + k]
      BY <3>1, <1>3
    <3> HIDE DEF j
    <3> QED
      BY <3>1, <3>2, <2>1, <2>3 DEF j
  <2> QED
    BY <2>2, <2>3
<1> QED
  <2> DEFINE r == RemoveAt(q, k)
  <2>1. r \in Seq(S) /\ Len(r) = Len(q) - 1
    BY <1>4, <1>5, <1>6
  <2>2. \A i \in 1..(Len(q) - 1) : r[i] = IF i < k THEN q[i] ELSE q[i + 1]
    BY <1>4, <1>7
  <2> QED
    BY <2>1, <2>2

\* Entries put in the queue are entries of the queue's type.
LEMMA ScheduleType ==
    ASSUME m_fibers \in Seq(Task), NEW e \in Entry, schedule(e)
    PROVE  m_fibers' \in Seq(Task) /\ m_activeThreadCount' = m_activeThreadCount
<1>1. CASE e.fiber = NoFiber /\ e.cb = NoJob
  BY <1>1 DEF schedule
<1>2. CASE ~(e.fiber = NoFiber /\ e.cb = NoJob)
  <2>1. e \in Task
    BY <1>2 DEF Task
  <2> QED
    BY <1>2, <2>1 DEF schedule
<1> QED
  BY <1>1, <1>2

\* The entries schedule() and run() build are entries.
LEMMA EntryType ==
    ASSUME NEW thr \in Threads \cup {AnyThread}
    PROVE  /\ \A f \in Fibers \cup {NoFiber} : FiberEntry(f, thr) \in Entry
           /\ \A c \in Jobs \cup {NoJob} : CbEntry(c, thr) \in Entry
           /\ NoEntry \in Entry
BY DEF FiberEntry, CbEntry, NoEntry, Entry
-----------------------------------------------------------------------------
\* There are finitely many threads.
LEMMA ThreadsFinite == IsFiniteSet(Threads)
BY ThreadsAssumption, FS_AddElement DEF Threads

\* The active threads can be counted.
LEMMA ActiveFinite ==
    IsFiniteSet(ActiveThreads) /\ Cardinality(ActiveThreads) \in Nat
BY ThreadsFinite, FS_Subset, FS_CardinalityType DEF ActiveThreads

\* What the move of one thread does to the number of active threads.
LEMMA CountStep ==
    ASSUME pc \in [Threads -> PC], NEW t \in Threads, NEW w, Goto(t, w)
    PROVE  /\ w \in ActivePC /\ pc[t] \notin ActivePC
                => Cardinality(ActiveThreads') = Cardinality(ActiveThreads) + 1
           /\ w \notin ActivePC /\ pc[t] \in ActivePC
                => Cardinality(ActiveThreads') = Cardinality(ActiveThreads) - 1
           /\ (w \in ActivePC <=> pc[t] \in ActivePC)
                => Cardinality(ActiveThreads') = Cardinality(ActiveThreads)
<1>1. pc' = [pc EXCEPT ![t] = w]
  BY DEF Goto
<1>2. CASE w \in ActivePC /\ pc[t] \notin ActivePC
  <2>1. ActiveThreads' = ActiveThreads \cup {t} /\ t \notin ActiveThreads
    BY <1>1, <1>2 DEF ActiveThreads
  <2> QED
    BY <1>2, <2>1, ActiveFinite, FS_AddElement
<1>3. CASE w \notin ActivePC /\ pc[t] \in ActivePC
  <2>1. ActiveThreads' = ActiveThreads \ {t} /\ t \in ActiveThreads
    BY <1>1, <1>3 DEF ActiveThreads
  <2> QED
    BY <1>3, <2>1, ActiveFinite, FS_RemoveElement
<1>4. CASE w \in ActivePC <=> pc[t] \in ActivePC
  <2>1. ActiveThreads' = ActiveThreads
    BY <1>1, <1>4 DEF ActiveThreads
  <2> QED
    BY <1>4, <2>1
<1> QED
  BY <1>2, <1>3, <1>4

-----------------------------------------------------------------------------
(***************************************************************************)
(* Type correctness.  That m_activeThreadCount stays a natural number      *)
(* needs more than types: every decrement is preceded by the increment of  *)
(* the same thread, so the counter is never below the number of active     *)
(* threads.                                                                *)
(***************************************************************************)
CurExists == \A t \in Threads : HoldsFiber(t) => Cur(t) \in Fibers
CountCovers == Cardinality(ActiveThreads) <= m_activeThreadCount

TypeInv == TypeOK /\ CurExists /\ CountCovers

\* A thread that moves and changes no entry it or another one works with.
LEMMA CurStep ==
    ASSUME TypeOK, CurExists, NEW t \in Threads, NEW w, Goto(t, w),
           \A u \in Threads \ {t} : Cur(u)' = Cur(u),
           w \in HoldPC => Cur(t)' \in Fibers
    PROVE  CurExists'
BY DEF TypeOK, CurExists, Goto, HoldsFiber

\* A move that counts the thread, one that changes nothing, one that uncounts it.
LEMMA CoversStep ==
    ASSUME TypeOK, CountCovers, NEW t \in Threads, NEW w, Goto(t, w)
    PROVE  /\ m_activeThreadCount' = m_activeThreadCount + 1 => CountCovers'
           /\ m_activeThreadCount' = m_activeThreadCount
              /\ (w \in ActivePC => pc[t] \in ActivePC) => CountCovers'
           /\ m_activeThreadCount' = m_activeThreadCount - 1
              /\ w \notin ActivePC /\ pc[t] \in ActivePC
                => CountCovers' /\ m_activeThreadCount' \in Nat
<1> DEFINE n == Cardinality(ActiveThreads)
           n2 == Cardinality(ActiveThreads')
           m == m_activeThreadCount
<1>1. n \in Nat /\ m \in Nat /\ n <= m
  BY ActiveFinite DEF TypeOK, CountCovers
<1>2. /\ w \in ActivePC /\ pc[t] \notin ActivePC => n2 = n + 1
      /\ w \notin ActivePC /\ pc[t] \in ActivePC => n2 = n - 1
      /\ (w \in ActivePC <=> pc[t] \in ActivePC) => n2 = n
  BY CountStep DEF TypeOK
<1>3. n2 \in Int /\ n2 <= n + 1
  BY <1>1, <1>2
<1>4. CountCovers' <=> n2 <= m'
  BY DEF CountCovers
<1> HIDE DEF n, n2, m
<1>5. w \notin ActivePC /\ pc[t] \in ActivePC => n >= 1
  <2> SUFFICES ASSUME pc[t] \in ActivePC PROVE n >= 1
    OBVIOUS
  <2>1. t \in ActiveThreads
    BY DEF ActiveThreads
  <2> QED
    BY <1>1, <2>1, FS_EmptySet, ThreadsFinite, FS_Subset DEF n, ActiveThreads
<1>6. QED
  <2>1. m' = m + 1 => CountCovers'
    BY <1>1, <1>3, <1>4
  <2>2. m' = m /\ (w \in ActivePC => pc[t] \in ActivePC) => CountCovers'
    BY <1>1, <1>2, <1>4
  <2>3. m' = m - 1 /\ w \notin ActivePC /\ pc[t] \in ActivePC
          => CountCovers' /\ m' \in Nat
    BY <1>1, <1>2, <1>4, <1>5
  <2> QED
    BY <2>1, <2>2, <2>3 DEF m

\* Steps of run() at the queue.
LEMMA TypeQueueSteps ==
    ASSUME TypeInv, NEW t \in Threads
    PROVE  /\ Pick(t) => TypeInv'
           /\ PickNothing(t) => TypeInv'
           /\ Dispatch(t) => TypeInv'
           /\ ResetCbFiber(t) => TypeInv'
<1> USE DEF TypeInv
<1>1. ASSUME Pick(t) PROVE TypeInv'
  <2>1. PICK k \in DOMAIN m_fibers :
          /\ ft' = [ft EXCEPT ![t] = m_fibers[k]]
          /\ Take(k)
          /\ Goto(t, IF m_fibers[k].fiber # NoFiber THEN "dispatch" ELSE "reset")
    BY <1>1 DEF Pick
  <2>2. m_fibers \in Seq(Task) /\ m_fibers[k] \in Task /\ Task \subseteq Entry
    BY DEF TypeOK, Task
  <2>3. m_fibers' \in Seq(Task) /\ m_activeThreadCount' = m_activeThreadCount + 1
    BY <2>1, <2>2, RemoveAtIsSeq DEF Take
  <2>4. TypeOK'
    BY <1>1, <2>1, <2>2, <2>3
    DEF Pick, TypeOK, FiberTypeOK, fiberVars, flagVars, jobVars, Goto, PC, RunPC
  <2>5. CurExists'
    <3> DEFINE w == IF m_fibers[k].fiber # NoFiber THEN "dispatch" ELSE "reset"
    <3>1. \A u \in Threads \ {t} : Cur(u)' = Cur(u)
      BY <1>1, <2>1 DEF Pick, Cur, TypeOK
    <3>2. w \in HoldPC => Cur(t)' \in Fibers
      BY <1>1, <2>1, <2>2 DEF Pick, Cur, TypeOK, HoldPC, Task, Entry
    <3> QED
      BY <2>1, <3>1, <3>2, CurStep
  <2>6. CountCovers'
    BY <2>1, <2>3, CoversStep
  <2> QED
    BY <2>4, <2>5, <2>6
<1>2. ASSUME PickNothing(t) PROVE TypeInv'
  <2>1. TypeOK'
    BY <1>2, EntryType
    DEF PickNothing, TypeOK, FiberTypeOK, fiberVars, queueVars, flagVars,
        jobVars, Goto, PC, RunPC
  <2>2. CurExists'
    BY <1>2, CurStep DEF PickNothing, Cur, TypeOK, HoldPC
  <2>3. CountCovers'
    BY <1>2, CoversStep DEF PickNothing, queueVars, ActivePC
  <2> QED
    BY <2>1, <2>2, <2>3
<1>3. ASSUME Dispatch(t) PROVE TypeInv'
  <2>1. TypeOK'
    BY <1>3
    DEF Dispatch, GoOnly, TypeOK, FiberTypeOK, fiberVars, queueVars, flagVars,
        localVars, jobVars, Goto, PC, RunPC
  <2>2. CurExists'
    BY <1>3, CurStep
    DEF Dispatch, GoOnly, localVars, Cur, TypeOK, HoldPC, CurExists, HoldsFiber
  <2>3. CountCovers'
    BY <1>3, CoversStep DEF Dispatch, GoOnly, queueVars, ActivePC
  <2> QED
    BY <2>1, <2>2, <2>3
<1>4. ASSUME ResetCbFiber(t) PROVE TypeInv'
  <2>1. PICK f \in Fibers : Prepare(f, ft[t].cb)
                           /\ cb_fiber' = [cb_fiber EXCEPT ![t] = f]
    BY <1>4 DEF ResetCbFiber
  <2>2. FiberTypeOK'
    BY <2>1, FiberStepType DEF TypeOK, Entry
  <2>3. TypeOK'
    BY <1>4, <2>1, <2>2
    DEF ResetCbFiber, TypeOK, queueVars, flagVars, jobVars, Goto, PC, RunPC
  <2>4. CurExists'
    BY <1>4, <2>1, CurStep DEF ResetCbFiber, Cur, TypeOK, Entry
  <2>5. CountCovers'
    BY <1>4, CoversStep DEF ResetCbFiber, queueVars, ActivePC
  <2> QED
    BY <2>3, <2>4, <2>5
<1> QED
  BY <1>1, <1>2, <1>3, <1>4

\* Steps of run() on a fiber's stack.
LEMMA TypeBodySteps ==
    ASSUME TypeInv, NEW t \in Threads
    PROVE  SwapIn(t) \/ Body(t) => TypeInv'
<1> USE DEF TypeInv
<1> DEFINE f == Cur(t)
<1>1. ASSUME SwapIn(t) PROVE TypeInv'
  <2>1. f \in Fibers
    BY <1>1 DEF SwapIn, CurExists, HoldsFiber, HoldPC
  <2>2. FiberTypeOK'
    BY <1>1, <2>1, FiberStepType DEF SwapIn, TypeOK
  <2>3. runs' \in [Jobs -> Nat]
    <3>1. ASSUME NEW c PROVE [runs EXCEPT ![c] = @ + 1] \in [Jobs -> Nat]
      <4>1. CASE c \in Jobs
        BY <4>1 DEF TypeOK
      <4>2. CASE c \notin Jobs
        <5>1. [runs EXCEPT ![c] = @ + 1] = runs
          BY <4>2 DEF TypeOK
        <5> QED
          BY <5>1 DEF TypeOK
      <4> QED
        BY <4>1, <4>2
    <3> QED
      BY <1>1, <3>1 DEF SwapIn, TypeOK
  <2>4. TypeOK'
    BY <1>1, <2>2, <2>3
    DEF SwapIn, TypeOK, queueVars, flagVars, localVars, Goto, PC, RunPC
  <2>5. CurExists'
    BY <1>1, <2>1, CurStep DEF SwapIn, localVars, Cur, TypeOK
  <2>6. CountCovers'
    BY <1>1, CoversStep DEF SwapIn, queueVars, ActivePC
  <2> QED
    BY <2>4, <2>5, <2>6
<1>2. ASSUME pc' = pc, UNCHANGED <<ft, cb_fiber, m_activeThreadCount>>
      PROVE  CurExists' /\ CountCovers'
  BY <1>2 DEF CurExists, HoldsFiber, Cur, CountCovers, ActiveThreads
<1>3. ASSUME BodySpawn(t) PROVE TypeInv'
  <2>1. PICK c \in Jobs \ sent, p \in Pins :
          /\ schedule(CbEntry(c, p))
          /\ sent' = sent \cup {c}
          /\ pin' = [pin EXCEPT ![c] = p]
    BY <1>3 DEF BodySpawn
  <2>2. p \in Threads \cup {AnyThread} /\ CbEntry(c, p) \in Entry
    BY EntryType, ThreadsAssumption
  <2>3. m_fibers' \in Seq(Task) /\ m_activeThreadCount' = m_activeThreadCount
    BY <2>1, <2>2, ScheduleType DEF TypeOK
  <2>4. TypeOK'
    BY <1>3, <2>1, <2>2, <2>3
    DEF BodySpawn, TypeOK, FiberTypeOK, fiberVars, flagVars, localVars
  <2> QED
    BY <1>2, <1>3, <2>3, <2>4 DEF BodySpawn, localVars
<1>4. ASSUME BodyRegister(t) PROVE TypeInv'
  <2>1. f \in Fibers
    BY <1>4 DEF BodyRegister, CurExists, HoldsFiber, HoldPC
  <2>2. TypeOK'
    BY <1>4, <2>1
    DEF BodyRegister, TypeOK, FiberTypeOK, fiberVars, queueVars, flagVars,
        localVars
  <2> QED
    BY <1>2, <1>4, <2>2 DEF BodyRegister, queueVars, localVars
<1>5. ASSUME BodyWake(t) PROVE TypeInv'
  <2>1. PICK g \in handles : /\ schedule(FiberEntry(g, WakePin(g)))
                             /\ handles' = handles \ {g}
    BY <1>5 DEF BodyWake
  <2>2. g \in Fibers /\ WakePin(g) \in Threads \cup {AnyThread}
    BY DEF WakePin, TypeOK, FiberTypeOK
  <2>5. FiberEntry(g, WakePin(g)) \in Entry
    BY <2>2, EntryType DEF TypeOK
  <2>3. m_fibers' \in Seq(Task) /\ m_activeThreadCount' = m_activeThreadCount
    BY <2>1, <2>5, ScheduleType DEF TypeOK
  <2>4. TypeOK'
    BY <1>5, <2>1, <2>3
    DEF BodyWake, TypeOK, FiberTypeOK, fiberVars, flagVars, localVars
  <2> QED
    BY <1>2, <1>5, <2>3, <2>4 DEF BodyWake, localVars
<1>6. ASSUME NEW w \in {"leave", "swapOut"}, Goto(t, w), pc[t] \in {"body", "swapOut"},
             UNCHANGED <<ft, cb_fiber, m_activeThreadCount>>
      PROVE  CurExists' /\ CountCovers'
  <2>1. f \in Fibers
    BY <1>6 DEF CurExists, HoldsFiber, HoldPC
  <2>2. CurExists'
    BY <1>6, <2>1, CurStep DEF Cur
  <2>3. CountCovers'
    BY <1>6, CoversStep DEF ActivePC
  <2> QED
    BY <2>2, <2>3
<1>7. ASSUME pc[t] \in {"body", "swapOut"} PROVE f \in Fibers
  BY <1>7 DEF CurExists, HoldsFiber, HoldPC
<1>8. ASSUME NEW s \in State, Yield(t, s), yields' \in Nat PROVE TypeInv'
  <2>1. FiberTypeOK'
    BY <1>7, <1>8, FiberStepType DEF Yield, TypeOK
  <2>2. TypeOK'
    BY <1>8, <2>1
    DEF Yield, TypeOK, queueVars, flagVars, localVars, Goto, PC, RunPC
  <2> QED
    BY <1>6, <1>8, <2>2 DEF Yield, queueVars, localVars
<1>9. ASSUME YieldToReady(t) \/ YieldToHold(t) PROVE TypeInv'
  BY <1>8, <1>9 DEF YieldToReady, YieldToHold, State, TypeOK
<1>10. ASSUME BodyReturn(t) \/ BodyThrow(t) PROVE TypeInv'
  <2>1. pc[t] = "body" /\ f \in Fibers
    BY <1>7, <1>10 DEF BodyReturn, BodyThrow
  <2>2. FiberTypeOK'
    BY <1>10, <2>1, FiberStepType DEF BodyReturn, BodyThrow, TypeOK
  <2>3. done' \subseteq Jobs
    BY <1>10, <2>1 DEF BodyReturn, BodyThrow, TypeOK, FiberTypeOK
  <2>4. TypeOK'
    BY <1>10, <2>2, <2>3
    DEF BodyReturn, BodyThrow, TypeOK, queueVars, flagVars, localVars, Goto, PC,
        RunPC
  <2> QED
    BY <1>6, <1>10, <2>1, <2>4 DEF BodyReturn, BodyThrow, queueVars, localVars
<1>11. ASSUME SwapOut(t) PROVE TypeInv'
  <2>1. FiberTypeOK'
    BY <1>7, <1>11, FiberStepType DEF SwapOut, TypeOK
  <2>2. TypeOK'
    BY <1>11, <2>1
    DEF SwapOut, TypeOK, queueVars, flagVars, localVars, jobVars, Goto, PC, RunPC
  <2> QED
    BY <1>6, <1>11, <2>2 DEF SwapOut, queueVars, localVars
<1> QED
  BY <1>1, <1>3, <1>4, <1>5, <1>9, <1>10, <1>11 DEF Body

\* Steps of run() after the fiber left, and of the idle fiber.
LEMMA TypeSettleSteps ==
    ASSUME TypeInv, NEW t \in Threads
    PROVE  (LeaveActive(t) \/ SettleReady(t) \/ SettleFinished(t) \/ SettleOther(t)
            \/ SetHold(t) \/ Idle(t) \/ Exit(t)) => TypeInv'
<1> USE DEF TypeInv
<1> DEFINE f == Cur(t)
<1>1. ASSUME pc[t] \in {"leave", "settle", "setHold"} PROVE f \in Fibers
  BY <1>1 DEF CurExists, HoldsFiber, HoldPC
<1>2. ASSUME LeaveActive(t) PROVE TypeInv'
  <2>1. CountCovers' /\ m_activeThreadCount' \in Nat
    BY <1>2, CoversStep DEF LeaveActive, ActivePC
  <2>2. TypeOK'
    BY <1>2, <2>1
    DEF LeaveActive, TypeOK, FiberTypeOK, fiberVars, flagVars, localVars,
        jobVars, Goto, PC, RunPC
  <2>3. CurExists'
    BY <1>1, <1>2, CurStep DEF LeaveActive, localVars, Cur
  <2> QED
    BY <2>1, <2>2, <2>3
<1>3. ASSUME pc[t] \in {"settle", "setHold", "pick", "idle"},
             NEW w \in {"pick", "setHold", "swap", "exited"}, Goto(t, w),
             w = "setHold" => UNCHANGED <<ft, cb_fiber>> /\ pc[t] = "settle",
             \A u \in Threads \ {t} : Cur(u)' = Cur(u),
             UNCHANGED m_activeThreadCount
      PROVE  CurExists' /\ CountCovers'
  <2>1. CurExists'
    BY <1>1, <1>3, CurStep DEF Cur, HoldPC
  <2>2. CountCovers'
    BY <1>3, CoversStep DEF ActivePC
  <2> QED
    BY <2>1, <2>2
<1>4. ASSUME DropFiber(t)
      PROVE  /\ ft' \in [Threads -> Entry]
             /\ cb_fiber' \in [Threads -> Fibers \cup {NoFiber}]
             /\ \A u \in Threads \ {t} : Cur(u)' = Cur(u)
  BY <1>4, EntryType DEF DropFiber, TypeOK, Cur
<1>5. ASSUME SettleReady(t) PROVE TypeInv'
  <2>1. FiberEntry(f, AnyThread) \in Entry
    BY <1>1, <1>5, EntryType DEF SettleReady
  <2>2. m_fibers' \in Seq(Task) /\ m_activeThreadCount' = m_activeThreadCount
    BY <1>5, <2>1, ScheduleType DEF SettleReady, TypeOK
  <2>3. TypeOK'
    BY <1>4, <1>5, <2>2
    DEF SettleReady, DropFiber, TypeOK, FiberTypeOK, fiberVars, flagVars,
        jobVars, Goto, PC, RunPC
  <2> QED
    BY <1>3, <1>4, <1>5, <2>2, <2>3 DEF SettleReady
<1>6. ASSUME SettleFinished(t) PROVE TypeInv'
  <2>1. FiberTypeOK'
    BY <1>1, <1>6, FiberStepType DEF SettleFinished, TypeOK, FiberTypeOK, fiberVars
  <2>2. TypeOK'
    BY <1>6, <2>1, EntryType
    DEF SettleFinished, TypeOK, queueVars, flagVars, jobVars, Goto, PC, RunPC
  <2>3. \A u \in Threads \ {t} : Cur(u)' = Cur(u)
    BY <1>6 DEF SettleFinished, Cur, TypeOK
  <2> QED
    BY <1>3, <1>6, <2>2, <2>3 DEF SettleFinished, queueVars
<1>7. ASSUME SettleOther(t) PROVE TypeInv'
  <2>1. TypeOK'
    BY <1>7
    DEF SettleOther, GoOnly, TypeOK, FiberTypeOK, fiberVars, queueVars,
        flagVars, localVars, jobVars, Goto, PC, RunPC
  <2> QED
    BY <1>3, <1>7, <2>1 DEF SettleOther, GoOnly, queueVars, localVars, Cur
<1>8. ASSUME SetHold(t) PROVE TypeInv'
  <2>1. FiberTypeOK'
    BY <1>1, <1>8, FiberStepType DEF SetHold, TypeOK, State
  <2>2. TypeOK'
    BY <1>4, <1>8, <2>1
    DEF SetHold, DropFiber, TypeOK, queueVars, flagVars, jobVars, Goto, PC, RunPC
  <2> QED
    BY <1>3, <1>4, <1>8, <2>2 DEF SetHold, queueVars
<1>9. ASSUME Idle(t) PROVE TypeInv'
  <2>1. TypeOK'
    BY <1>9
    DEF Idle, Stopping, TypeOK, FiberTypeOK, fiberVars, queueVars, flagVars,
        jobVars, Goto, PC, RunPC
  <2> QED
    BY <1>3, <1>9, <2>1 DEF Idle, queueVars, Cur
<1>10. ASSUME Exit(t) PROVE TypeInv'
  <2>1. TypeOK'
    BY <1>10, EntryType
    DEF Exit, TypeOK, FiberTypeOK, fiberVars, queueVars, jobVars, Goto, PC,
        RunPC, OwnerPC
  <2>2. \A u \in Threads \ {t} : Cur(u)' = Cur(u)
    BY <1>10 DEF Exit, Cur, TypeOK
  <2> QED
    BY <1>3, <1>10, <2>1, <2>2 DEF Exit, queueVars
<1> QED
  BY <1>2, <1>5, <1>6, <1>7, <1>8, <1>9, <1>10

\* Steps of the owner.
LEMMA TypeOwnerSteps ==
    ASSUME TypeInv
    PROVE  (start \/ Submit \/ SubmitBatch \/ StopBegin \/ stop \/ Destroy
            \/ Finished) => TypeInv'
<1> USE DEF TypeInv
<1> Caller \in Threads
  BY DEF Threads
<1>1. ASSUME pc' = pc, UNCHANGED <<ft, cb_fiber, m_activeThreadCount>>
      PROVE  CurExists' /\ CountCovers'
  BY <1>1 DEF CurExists, HoldsFiber, Cur, CountCovers, ActiveThreads
<1>2. ASSUME NEW w \in OwnerPC \cup {"pick"}, Goto(Caller, w),
             UNCHANGED <<ft, cb_fiber, m_activeThreadCount>>
      PROVE  CurExists' /\ CountCovers'
  <2>1. CurExists'
    BY <1>2, CurStep DEF Cur, HoldPC, OwnerPC
  <2>2. CountCovers'
    BY <1>2, CoversStep DEF ActivePC, OwnerPC
  <2> QED
    BY <2>1, <2>2
<1>3. ASSUME start PROVE TypeInv'
  <2>1. TypeOK'
    BY <1>3
    DEF start, TypeOK, FiberTypeOK, fiberVars, queueVars, jobVars, PC, RunPC
  <2>2. CurExists'
    BY <1>3 DEF start, CurExists, HoldsFiber, HoldPC, Cur, TypeOK
  <2>3. ActiveThreads' \subseteq ActiveThreads
    BY <1>3 DEF start, ActiveThreads, ActivePC
  <2>4. Cardinality(ActiveThreads') <= Cardinality(ActiveThreads)
        /\ Cardinality(ActiveThreads') \in Nat
    BY <2>3, ActiveFinite, FS_Subset, FS_CardinalityType
  <2>5. CountCovers'
    BY <1>3, <2>4, ActiveFinite DEF start, queueVars, CountCovers, TypeOK
  <2> QED
    BY <2>1, <2>2, <2>5
<1>4. ASSUME Submit PROVE TypeInv'
  <2>1. PICK c \in Jobs \ sent, p \in Pins :
          /\ sent' = sent \cup {c}
          /\ pin' = [pin EXCEPT ![c] = p]
          /\ \/ schedule(CbEntry(c, p)) /\ UNCHANGED fiberVars
             \/ \E f \in Fibers : Prepare(f, c) /\ schedule(FiberEntry(f, p))
    BY <1>4 DEF Submit
  <2>2. /\ p \in Threads \cup {AnyThread}
        /\ CbEntry(c, p) \in Entry
        /\ \A f \in Fibers : FiberEntry(f, p) \in Entry
    BY EntryType, ThreadsAssumption
  <2>3. m_fibers' \in Seq(Task) /\ m_activeThreadCount' = m_activeThreadCount
    BY <2>1, <2>2, ScheduleType DEF TypeOK
  <2>4. FiberTypeOK'
    BY <2>1, FiberStepType DEF TypeOK, FiberTypeOK, fiberVars
  <2>5. TypeOK'
    BY <1>4, <2>1, <2>2, <2>3, <2>4 DEF Submit, TypeOK, flagVars, localVars
  <2> QED
    BY <1>1, <1>4, <2>3, <2>5 DEF Submit, localVars
<1>5. ASSUME SubmitBatch PROVE TypeInv'
  <2>1. PICK c, d \in Jobs \ sent :
          /\ m_fibers' = m_fibers \o <<CbEntry(c, AnyThread), CbEntry(d, AnyThread)>>
          /\ sent' = sent \cup {c, d}
    BY <1>5 DEF SubmitBatch
  <2>2. CbEntry(c, AnyThread) \in Task /\ CbEntry(d, AnyThread) \in Task
    BY EntryType, NoJobAssumption DEF Task, CbEntry
  <2>3. m_fibers' \in Seq(Task)
    BY <2>1, <2>2 DEF TypeOK
  <2>4. TypeOK'
    BY <1>5, <2>1, <2>3
    DEF SubmitBatch, TypeOK, FiberTypeOK, fiberVars, flagVars, localVars
  <2> QED
    BY <1>1, <1>5, <2>4 DEF SubmitBatch, localVars
<1>6. ASSUME StopBegin \/ stop \/ Destroy PROVE TypeInv'
  <2>1. TypeOK'
    <3> USE DEF TypeOK, FiberTypeOK, fiberVars, queueVars, localVars, jobVars,
                Goto, PC, RunPC, OwnerPC
    <3>1. CASE StopBegin
      BY <3>1 DEF StopBegin
    <3>2. CASE StopEarly \/ StopFlag
      BY <3>2 DEF StopEarly, StopFlag
    <3>3. CASE StopCall \/ StopSwap
      BY <3>3 DEF StopCall, StopSwap
    <3>4. CASE StopCheck \/ StopNoCall \/ StopJoin \/ Destroy
      BY <3>4 DEF StopCheck, StopNoCall, StopJoin, Destroy, GoOnly, flagVars
    <3> QED
      BY <1>6, <3>1, <3>2, <3>3, <3>4 DEF stop
  <2>2. \E w \in OwnerPC \cup {"pick"} : Goto(Caller, w)
    BY <1>6
    DEF StopBegin, stop, StopEarly, StopCheck, StopFlag, StopCall, StopNoCall,
        StopSwap, StopJoin, Destroy, GoOnly, OwnerPC
  <2>3. UNCHANGED <<ft, cb_fiber, m_activeThreadCount>>
    BY <1>6
    DEF StopBegin, stop, StopEarly, StopCheck, StopFlag, StopCall, StopNoCall,
        StopSwap, StopJoin, Destroy, GoOnly, queueVars, localVars
  <2> QED
    BY <1>2, <2>1, <2>2, <2>3
<1>7. ASSUME Finished PROVE TypeInv'
  <2>1. TypeOK'
    BY <1>7
    DEF Finished, vars, TypeOK, FiberTypeOK, fiberVars, queueVars, flagVars,
        localVars, jobVars
  <2> QED
    BY <1>1, <1>7, <2>1 DEF Finished, vars, queueVars, localVars
<1> QED
  BY <1>3, <1>4, <1>5, <1>6, <1>7

\* The initial state has the types.
LEMMA TypeInit == Init => TypeInv
<1> SUFFICES ASSUME Init PROVE TypeInv
  OBVIOUS
<1>1. TypeOK
  <2>1. FiberTypeOK
    BY DEF Init, FiberInit, FiberTypeOK, State, Context
  <2>2. pc \in [Threads -> PC]
    BY DEF Init, PC, OwnerPC
  <2>3. ft \in [Threads -> Entry]
    BY EntryType DEF Init
  <2>4. m_fibers \in Seq(Task)
    BY DEF Init
  <2> QED
    BY <2>1, <2>2, <2>3, <2>4 DEF Init, TypeOK
<1>2. CurExists
  BY DEF Init, CurExists, HoldsFiber, HoldPC
<1>3. ActiveThreads = {}
  BY DEF Init, ActiveThreads, ActivePC
<1>4. CountCovers
  BY <1>3, FS_EmptySet DEF Init, CountCovers
<1> QED
  BY <1>1, <1>2, <1>4 DEF TypeInv

\* Every step keeps the types.
LEMMA TypeStep == TypeInv /\ [Next]_vars => TypeInv'
<1> SUFFICES ASSUME TypeInv, [Next]_vars PROVE TypeInv'
  OBVIOUS
<1>1. ASSUME NEW t \in Threads, run(t) PROVE TypeInv'
  <2>1. CASE Pick(t) \/ PickNothing(t) \/ Dispatch(t) \/ ResetCbFiber(t)
    BY <2>1, TypeQueueSteps
  <2>2. CASE SwapIn(t) \/ Body(t)
    BY <2>2, TypeBodySteps
  <2>3. CASE LeaveActive(t) \/ SettleReady(t) \/ SettleFinished(t) \/ SettleOther(t)
             \/ SetHold(t) \/ Idle(t) \/ Exit(t)
    BY <2>3, TypeSettleSteps
  <2> QED
    BY <1>1, <2>1, <2>2, <2>3 DEF run
<1>2. CASE start \/ Submit \/ SubmitBatch \/ StopBegin \/ stop \/ Destroy
           \/ Finished
  BY <1>2, TypeOwnerSteps
<1>3. CASE UNCHANGED vars
  BY <1>3
  DEF vars, TypeInv, TypeOK, FiberTypeOK, fiberVars, queueVars, flagVars,
      localVars, jobVars, CurExists, HoldsFiber, Cur, CountCovers, ActiveThreads
<1> QED
  BY <1>1, <1>2, <1>3 DEF Next

(***************************************************************************)
(* The variables keep their types; m_activeThreadCount never wraps below   *)
(* zero, whatever callbacks, threads and yields there are.                 *)
(***************************************************************************)
THEOREM TypeCorrect == Spec => []TypeOK
<1>1. TypeInv => TypeOK
  BY DEF TypeInv
<1> QED
  BY TypeInit, TypeStep, <1>1, PTL DEF Spec

-----------------------------------------------------------------------------
(***************************************************************************)
(* Where fibers are.                                                       *)
(***************************************************************************)
NoHold == "hold" \notin BodyOps

\* What Ownership says of the fiber variables of one thread.
ThreadOK(t) == CurOK(t) /\ EntryOK(t) /\ CacheOK(t)

\* The fiber a thread works with is one it refers to.
LEMMA RefsOfCur ==
    ASSUME TypeOK, CurExists, NEW t \in Threads, HoldsFiber(t)
    PROVE  Cur(t) \in Refs(t) /\ Cur(t) \in Fibers
BY ProgramAssumption DEF CurExists, Cur, Refs

\* Threads and queue refer to fibers only.
LEMMA RefsAreFibers ==
    ASSUME TypeOK
    PROVE  /\ \A t \in Threads : Refs(t) \subseteq Fibers
           /\ QueueRefs \subseteq Fibers
BY DEF TypeOK, Refs, QueueRefs, Task, Entry

(***************************************************************************)
(* The step of a thread that leaves the queue alone and takes no new       *)
(* fiber: it concerns only its own fibers.                                 *)
(***************************************************************************)
LEMMA LocalStep ==
    ASSUME TypeOK, CurExists, Ownership, NEW t \in Threads,
           \A g \in Fibers \ Refs(t) : m_state'[g] = m_state[g] /\ ctx'[g] = ctx[g],
           \A u \in Threads \ {t} :
                pc'[u] = pc[u] /\ ft'[u] = ft[u] /\ cb_fiber'[u] = cb_fiber[u],
           m_fibers' = m_fibers, handles' = handles,
           ThreadOK(t)',
           Refs(t)' \subseteq Refs(t),
           \A g \in Refs(t) \ Refs(t)' : (Disposable(g) /\ ~OwnsItself(g))',
           PoolOK'
    PROVE  Ownership'
<1>1. \A u \in Threads \ {t} : Refs(u)' = Refs(u) /\ Cur(u)' = Cur(u)
  BY DEF Refs, Cur
<1>2. QueueRefs' = QueueRefs
  BY DEF QueueRefs
<1>3. \A u \in Threads \ {t} : Refs(u) \cap Refs(t) = {}
  BY DEF Ownership, PlacesApart
<1>4. QueueRefs \cap Refs(t) = {}
  BY DEF Ownership, PlacesApart
<1>5. ASSUME NEW u \in Threads PROVE ThreadOK(u)'
  <2>1. CASE u = t
    BY <2>1
  <2>2. CASE u # t
    <3>1. ThreadOK(u)
      BY DEF Ownership, ThreadOK
    <3>2. \A g \in Refs(u) : m_state'[g] = m_state[g] /\ ctx'[g] = ctx[g]
      BY <1>3, <2>2, RefsAreFibers
    <3>3. CurOK(u)'
      <4>1. CASE HoldsFiber(u)
        <5>1. m_state'[Cur(u)] = m_state[Cur(u)] /\ ctx'[Cur(u)] = ctx[Cur(u)]
          BY <3>2, <4>1, RefsOfCur
        <5> QED
          BY <1>1, <2>2, <3>1, <5>1 DEF ThreadOK, CurOK, Resumable
      <4>2. CASE ~HoldsFiber(u)
        BY <2>2, <4>2 DEF CurOK, HoldsFiber, HoldPC
      <4> QED
        BY <4>1, <4>2
    <3>4. EntryOK(u)'
      BY <2>2, <3>1 DEF ThreadOK, EntryOK, HoldsFiber
    <3>5. CacheOK(u)'
      <4>1. cb_fiber[u] # NoFiber => cb_fiber[u] \in Refs(u)
        BY DEF Refs
      <4> QED
        BY <2>2, <3>1, <3>2, <4>1 DEF ThreadOK, CacheOK, HoldsFiber
    <3> QED
      BY <3>3, <3>4, <3>5 DEF ThreadOK
  <2> QED
    BY <2>1, <2>2
<1>6. PlacesApart'
  <2>1. \A u \in Threads : Refs(u)' \subseteq Refs(u)
    BY <1>1
  <2> QED
    BY <1>2, <2>1 DEF Ownership, PlacesApart
<1>7. \A f \in QueueRefs' : Resumable(f)'
  BY <1>2, <1>4, RefsAreFibers DEF Ownership, Resumable
<1>8. RestOK'
  <2> SUFFICES ASSUME NEW f \in Fibers, f \notin QueueRefs',
                      \A u \in Threads : f \notin Refs(u)'
               PROVE  (Disposable(f) /\ ~OwnsItself(f))'
    BY DEF RestOK
  <2>1. CASE f \in Refs(t)
    BY <2>1
  <2>2. CASE f \notin Refs(t)
    <3>1. \A u \in Threads : f \notin Refs(u)
      BY <1>1, <2>2
    <3>2. Disposable(f) /\ ~OwnsItself(f)
      BY <1>2, <3>1 DEF Ownership, RestOK
    <3> QED
      BY <2>2, <3>2 DEF Disposable, OwnsItself
  <2> QED
    BY <2>1, <2>2
<1> QED
  BY <1>5, <1>6, <1>7, <1>8 DEF Ownership, ThreadOK

\* A thread in run() does not disturb the pool's being idle between stops.
LEMMA PoolStep ==
    ASSUME TypeOK, PoolOK, NEW t \in Threads, NEW w, Goto(t, w), w # "join",
           pc[t] \notin {"none", "exited", "join"}, m_threads' = m_threads
    PROVE  PoolOK'
<1>1. CASE t \in Workers
  <2>1. ~PoolExited /\ pc'[Caller] = pc[Caller]
    BY <1>1, ThreadsAssumption DEF PoolExited, Goto, TypeOK, Threads
  <2> QED
    BY <2>1 DEF PoolOK
<1>2. CASE t = Caller
  <2>1. \A v \in Workers : pc'[v] = pc[v]
    BY <1>2, ThreadsAssumption DEF Goto, TypeOK, Threads
  <2> QED
    BY <1>2, <2>1 DEF PoolOK, PoolExited
<1> QED
  BY <1>1, <1>2 DEF Threads

\* Steps of run() that read: nothing of the fibers changes.
LEMMA OwnReadSteps ==
    ASSUME NoHold, TypeInv, Ownership, NEW t \in Threads
    PROVE  (PickNothing(t) \/ Dispatch(t) \/ LeaveActive(t) \/ SettleOther(t) \/ Idle(t))
            => Ownership'
<1> USE DEF TypeInv
<1>0. ThreadOK(t) /\ PoolOK
  BY DEF Ownership, ThreadOK
<1>1. ASSUME NEW w, Goto(t, w), w # "join", pc[t] \in RunPC,
             UNCHANGED <<fiberVars, m_fibers, handles, cb_fiber, m_threads>>,
             ft' = [ft EXCEPT ![t] = ft'[t]], Refs(t)' = Refs(t), ThreadOK(t)'
      PROVE  Ownership'
  <2>1. \A u \in Threads \ {t} :
            pc'[u] = pc[u] /\ ft'[u] = ft[u] /\ cb_fiber'[u] = cb_fiber[u]
    BY <1>1 DEF Goto, TypeOK
  <2>2. PoolOK'
    BY <1>0, <1>1, PoolStep DEF RunPC
  <2> QED
    BY <1>1, <2>1, <2>2, LocalStep DEF fiberVars
<1>2. ASSUME PickNothing(t) PROVE Ownership'
  <2>1. pc[t] = "pick" /\ ft[t].fiber = NoFiber
    BY <1>0, <1>2 DEF PickNothing, ThreadOK, EntryOK, HoldsFiber, HoldPC
  <2>2. pc'[t] = "idle" /\ ft'[t].fiber = NoFiber /\ cb_fiber' = cb_fiber
    BY <1>2 DEF PickNothing, Goto, TypeOK, NoEntry, FiberEntry
  <2>3. Refs(t)' = Refs(t)
    BY <2>1, <2>2 DEF Refs
  <2>4. ThreadOK(t)'
    BY <1>0, <1>2, <2>1, <2>2
    DEF PickNothing, fiberVars, ThreadOK, CurOK, EntryOK, CacheOK, HoldsFiber, HoldPC
  <2> QED
    BY <1>1, <1>2, <2>1, <2>3, <2>4
    DEF PickNothing, queueVars, flagVars, jobVars, RunPC, TypeOK
<1>3. ASSUME Dispatch(t) PROVE Ownership'
  <2>1. ft[t].fiber # NoFiber /\ Cur(t) = ft[t].fiber /\ Resumable(ft[t].fiber)
    BY <1>0, <1>3 DEF Dispatch, ThreadOK, EntryOK, CurOK, Cur
  <2>2. Goto(t, "swapIn")
    BY <1>3, <2>1 DEF Dispatch, GoOnly, FinishedStates, Resumable
  <2>3. pc'[t] = "swapIn"
    BY <2>2 DEF Goto, TypeOK
  <2>4. ThreadOK(t)'
    BY <1>0, <1>3, <2>1, <2>3
    DEF Dispatch, GoOnly, fiberVars, localVars, ThreadOK, CurOK, EntryOK,
        CacheOK, Cur, HoldsFiber, HoldPC, Resumable
  <2> QED
    BY <1>1, <1>3, <2>2, <2>4
    DEF Dispatch, GoOnly, queueVars, flagVars, localVars, jobVars, RunPC, TypeOK, Refs
<1>4. ASSUME LeaveActive(t) PROVE Ownership'
  <2>1. pc'[t] = "settle" /\ pc[t] = "leave"
    BY <1>4 DEF LeaveActive, Goto, TypeOK
  <2>2. ThreadOK(t)'
    BY <1>0, <1>4, <2>1
    DEF LeaveActive, fiberVars, localVars, ThreadOK, CurOK, EntryOK,
        CacheOK, Cur, HoldsFiber, HoldPC
  <2> QED
    BY <1>1, <1>4, <2>1, <2>2
    DEF LeaveActive, flagVars, localVars, jobVars, RunPC, TypeOK, Refs
<1>5. ASSUME SettleOther(t) PROVE FALSE
  BY <1>0, <1>5 DEF SettleOther, ThreadOK, CurOK
<1>6. ASSUME Idle(t) PROVE Ownership'
  <2>1. pc'[t] = "pick" /\ pc[t] = "idle"
    BY <1>6 DEF Idle, Goto, TypeOK
  <2>2. ThreadOK(t)'
    BY <1>0, <1>6, <2>1
    DEF Idle, fiberVars, ThreadOK, CurOK, EntryOK, CacheOK, HoldsFiber, HoldPC
  <2> QED
    BY <1>1, <1>6, <2>1, <2>2
    DEF Idle, queueVars, flagVars, jobVars, RunPC, TypeOK, Refs
<1> QED
  BY <1>2, <1>3, <1>4, <1>5, <1>6

-----------------------------------------------------------------------------
\* A thread's step on the stack of the fiber it works with: nothing else moves.
LEMMA CurFiberStep ==
    ASSUME TypeInv, Ownership, NEW t \in Threads, NEW w \in HoldPC \ {"dispatch"},
           HoldsFiber(t), Goto(t, w),
           UNCHANGED <<ft, cb_fiber, m_fibers, handles, m_threads>>,
           \A g \in Fibers \ {Cur(t)} : m_state'[g] = m_state[g] /\ ctx'[g] = ctx[g],
           CurOK(t)'
    PROVE  Ownership'
<1> USE DEF TypeInv
<1>0. ThreadOK(t) /\ PoolOK
  BY DEF Ownership, ThreadOK
<1>1. Cur(t) \in Refs(t) /\ Refs(t)' = Refs(t)
  BY RefsOfCur DEF Refs
<1>2. \A u \in Threads \ {t} :
          pc'[u] = pc[u] /\ ft'[u] = ft[u] /\ cb_fiber'[u] = cb_fiber[u]
  BY DEF Goto, TypeOK
<1>3. PoolOK'
  BY <1>0, PoolStep DEF HoldsFiber, HoldPC
<1>4. pc'[t] = w
  BY DEF Goto, TypeOK
<1>5. EntryOK(t)'
  BY <1>0, <1>4 DEF ThreadOK, EntryOK, HoldsFiber
<1>6. CacheOK(t)'
  <2> SUFFICES ASSUME cb_fiber[t] # NoFiber, ft[t].fiber # NoFiber
               PROVE  CacheOK(t)'
    BY <1>4 DEF CacheOK, HoldsFiber
  <2>1. cb_fiber[t] \in Fibers /\ cb_fiber[t] # Cur(t)
    BY <1>0 DEF TypeOK, ThreadOK, EntryOK, Cur
  <2>2. m_state[cb_fiber[t]] = "INIT" /\ ctx[cb_fiber[t]] = "fresh"
    BY <1>0 DEF ThreadOK, CacheOK
  <2> QED
    BY <2>1, <2>2 DEF CacheOK
<1> QED
  BY <1>1, <1>2, <1>3, <1>5, <1>6, LocalStep DEF ThreadOK

\* Steps on a fiber's stack other than schedule().
LEMMA OwnStackSteps ==
    ASSUME NoHold, TypeInv, Ownership, NEW t \in Threads
    PROVE  (SwapIn(t) \/ YieldToReady(t) \/ BodyReturn(t) \/ BodyThrow(t) \/ SwapOut(t))
            => Ownership'
<1> USE DEF TypeInv
<1> DEFINE f == Cur(t)
<1>0. CurOK(t)
  BY DEF Ownership
<1>1. ASSUME NEW w \in {"body", "swapOut", "leave"}, Goto(t, w),
             UNCHANGED <<ft, cb_fiber>>
      PROVE  pc'[t] = w /\ Cur(t)' = f
  BY <1>1 DEF Goto, TypeOK, Cur
<1>2. ASSUME pc[t] \in {"swapIn", "body", "swapOut"}
      PROVE  HoldsFiber(t) /\ f \in Fibers
  BY <1>2 DEF HoldsFiber, HoldPC, CurExists
<1>3. ASSUME SwapIn(t) PROVE Ownership'
  <2>1. m_state' = [m_state EXCEPT ![f] = "EXEC"] /\ ctx' = [ctx EXCEPT ![f] = "live"]
    BY <1>3 DEF SwapIn, Enter
  <2>2. Goto(t, "body") /\ pc[t] = "swapIn"
        /\ UNCHANGED <<ft, cb_fiber, m_fibers, handles, m_threads>>
    BY <1>3 DEF SwapIn, queueVars, flagVars, localVars
  <2>3. CurOK(t)'
    BY <1>1, <1>2, <2>1, <2>2 DEF CurOK, TypeOK, FiberTypeOK
  <2> QED
    BY <1>2, <2>1, <2>2, <2>3, CurFiberStep DEF HoldPC, TypeOK, FiberTypeOK
<1>4. ASSUME YieldToReady(t) PROVE Ownership'
  <2>1. m_state' = [m_state EXCEPT ![f] = "READY"] /\ ctx' = ctx
    BY <1>4 DEF YieldToReady, Yield, setState
  <2>2. Goto(t, "swapOut") /\ pc[t] = "body"
        /\ UNCHANGED <<ft, cb_fiber, m_fibers, handles, m_threads>>
    BY <1>4 DEF YieldToReady, Yield, queueVars, flagVars, localVars
  <2>3. CurOK(t)'
    BY <1>0, <1>1, <1>2, <2>1, <2>2 DEF CurOK, TypeOK, FiberTypeOK
  <2> QED
    BY <1>2, <2>1, <2>2, <2>3, CurFiberStep DEF HoldPC, TypeOK, FiberTypeOK
<1>5. ASSUME BodyReturn(t) \/ BodyThrow(t) PROVE Ownership'
  <2>1. PICK s \in FinishedStates :
          m_state' = [m_state EXCEPT ![f] = s] /\ ctx' = [ctx EXCEPT ![f] = "ending"]
    BY <1>5 DEF BodyReturn, BodyThrow, Return, Throw, FinishedStates
  <2>2. Goto(t, "swapOut") /\ pc[t] = "body"
        /\ UNCHANGED <<ft, cb_fiber, m_fibers, handles, m_threads>>
    BY <1>5 DEF BodyReturn, BodyThrow, queueVars, flagVars, localVars
  <2>3. CurOK(t)'
    BY <1>1, <1>2, <2>1, <2>2 DEF CurOK, TypeOK, FiberTypeOK
  <2> QED
    BY <1>2, <2>1, <2>2, <2>3, CurFiberStep DEF HoldPC, TypeOK, FiberTypeOK
<1>6. ASSUME SwapOut(t) PROVE Ownership'
  <2>1. m_state' = m_state
        /\ ctx' = [ctx EXCEPT ![f] = IF ctx[f] = "ending" THEN "over" ELSE "saved"]
    BY <1>6 DEF SwapOut, Leave
  <2>2. Goto(t, "leave") /\ pc[t] = "swapOut"
        /\ UNCHANGED <<ft, cb_fiber, m_fibers, handles, m_threads>>
    BY <1>6 DEF SwapOut, queueVars, flagVars, localVars, jobVars
  <2>3. CurOK(t)'
    BY <1>0, <1>1, <1>2, <2>1, <2>2 DEF CurOK, TypeOK, FiberTypeOK
  <2> QED
    BY <1>2, <2>1, <2>2, <2>3, CurFiberStep DEF HoldPC, TypeOK, FiberTypeOK
<1> QED
  BY <1>3, <1>4, <1>5, <1>6

\* Steps that need a fiber on hold, or a handle to one, do not happen.
LEMMA OwnNoHoldSteps ==
    ASSUME NoHold, Ownership, NEW t \in Threads
    PROVE  ~YieldToHold(t) /\ ~BodyRegister(t) /\ ~BodyWake(t) /\ ~SetHold(t)
BY DEF NoHold, Ownership, CurOK, YieldToHold, BodyRegister, BodyWake, SetHold

-----------------------------------------------------------------------------
\* The queue names no fiber twice.
QueueApart ==
    \A i, j \in DOMAIN m_fibers :
        i # j /\ m_fibers[i].fiber # NoFiber
            => m_fibers[i].fiber # m_fibers[j].fiber

\* Appending keeps the entries and adds one, erasing one keeps the others.
LEMMA AppendEntries ==
    ASSUME m_fibers \in Seq(Task), NEW e \in Task, m_fibers' = Append(m_fibers, e)
    PROVE  /\ \A k \in DOMAIN m_fibers : \E j \in DOMAIN m_fibers' : m_fibers'[j] = m_fibers[k]
           /\ \E j \in DOMAIN m_fibers' : m_fibers'[j] = e
           /\ \A j \in DOMAIN m_fibers' :
                m_fibers'[j] = e \/ \E k \in DOMAIN m_fibers : m_fibers'[j] = m_fibers[k]
<1> DEFINE q == m_fibers
           r == Append(m_fibers, e)
<1>1. Len(q) \in Nat /\ DOMAIN q = 1..Len(q) /\ DOMAIN r = 1..(Len(q) + 1)
  OBVIOUS
<1>2. r[Len(q) + 1] = e /\ \A i \in 1..Len(q) : r[i] = q[i]
  OBVIOUS
<1>3. r = m_fibers' OBVIOUS
<1> HIDE DEF r
<1>4. \A k \in DOMAIN q : k \in DOMAIN r /\ r[k] = q[k] BY <1>1, <1>2
<1>5. Len(q) + 1 \in DOMAIN r BY <1>1
<1>6. \A j \in DOMAIN r : j = Len(q) + 1 \/ j \in DOMAIN q BY <1>1
<1> QED BY <1>2, <1>3, <1>4, <1>5, <1>6

\* The entries that stay when one is taken.
LEMMA RemoveEntries ==
    ASSUME m_fibers \in Seq(Task), NEW k \in DOMAIN m_fibers,
           m_fibers' = RemoveAt(m_fibers, k)
    PROVE  /\ \A i \in DOMAIN m_fibers \ {k} :
                \E j \in DOMAIN m_fibers' : m_fibers'[j] = m_fibers[i]
           /\ \A j \in DOMAIN m_fibers' : \E i \in DOMAIN m_fibers : m_fibers'[j] = m_fibers[i]
<1> DEFINE q == m_fibers
           r == RemoveAt(m_fibers, k)
<1>1. /\ r \in Seq(Task) /\ Len(r) = Len(q) - 1
      /\ \A i \in 1..(Len(q) - 1) : r[i] = IF i < k THEN q[i] ELSE q[i + 1]
  BY RemoveAtIsSeq
<1>2. r = m_fibers' OBVIOUS
<1> HIDE DEF r
<1>3. Len(q) \in Nat /\ k \in 1..Len(q) /\ DOMAIN q = 1..Len(q)
      /\ DOMAIN r = 1..(Len(q) - 1)
  BY <1>1
<1>4. ASSUME NEW i \in DOMAIN q, i # k PROVE \E j \in DOMAIN r : r[j] = q[i]
  <2>1. CASE i < k
    <3>1. i \in DOMAIN r /\ r[i] = q[i] BY <1>1, <1>3, <1>4, <2>1
    <3> QED BY <3>1
  <2>2. CASE i > k
    <3>1. i - 1 \in DOMAIN r /\ ~(i - 1 < k) /\ (i - 1) + 1 = i BY <1>3, <1>4, <2>2
    <3>2. r[i - 1] = q[i] BY <1>1, <1>3, <3>1
    <3> QED BY <3>1, <3>2
  <2> QED BY <1>3, <1>4, <2>1, <2>2
<1>5. ASSUME NEW j \in DOMAIN r PROVE \E i \in DOMAIN q : r[j] = q[i]
  <2>1. j \in DOMAIN q /\ j + 1 \in DOMAIN q BY <1>3
  <2> QED BY <1>1, <1>3, <2>1
<1> QED BY <1>2, <1>4, <1>5

\* What appending an entry does to the fibers of the queue.
LEMMA AppendRefs ==
    ASSUME m_fibers \in Seq(Task), NEW e \in Task, m_fibers' = Append(m_fibers, e),
           QueueApart, e.fiber \notin QueueRefs
    PROVE  QueueApart' /\ QueueRefs' = (QueueRefs \cup {e.fiber}) \ {NoFiber}
<1> DEFINE q == m_fibers
           r == Append(m_fibers, e)
<1>1. Len(q) \in Nat /\ DOMAIN q = 1..Len(q) /\ DOMAIN r = 1..(Len(q) + 1)
  OBVIOUS
<1>2. r[Len(q) + 1] = e /\ \A i \in 1..Len(q) : r[i] = q[i]
  OBVIOUS
<1>3. r = m_fibers'
  OBVIOUS
<1> HIDE DEF r
<1>4. \A i \in DOMAIN q : q[i].fiber # NoFiber => q[i].fiber # e.fiber
  BY DEF QueueRefs
<1>5. QueueApart'
  <2> SUFFICES ASSUME NEW i \in DOMAIN r, NEW j \in DOMAIN r, i # j,
                      r[i].fiber # NoFiber
               PROVE  r[i].fiber # r[j].fiber
    BY <1>3 DEF QueueApart
  <2>1. CASE i \in DOMAIN q /\ j \in DOMAIN q
    BY <1>1, <1>2, <2>1 DEF QueueApart
  <2>2. CASE i = Len(q) + 1 /\ j \in DOMAIN q
    BY <1>1, <1>2, <1>4, <2>2
  <2>3. CASE j = Len(q) + 1 /\ i \in DOMAIN q
    BY <1>1, <1>2, <1>4, <2>3
  <2> QED
    BY <1>1, <2>1, <2>2, <2>3
<1>6. QueueRefs' = {r[k].fiber : k \in DOMAIN r} \ {NoFiber}
  BY <1>3 DEF QueueRefs
<1>7. {r[k].fiber : k \in DOMAIN r} = {q[k].fiber : k \in DOMAIN q} \cup {e.fiber}
  BY <1>1, <1>2
<1> QED
  BY <1>5, <1>6, <1>7 DEF QueueRefs

\* What erasing entry k does to the fibers of the queue.
LEMMA RemoveRefs ==
    ASSUME m_fibers \in Seq(Task), NEW k \in DOMAIN m_fibers,
           m_fibers' = RemoveAt(m_fibers, k), QueueApart
    PROVE  QueueApart' /\ QueueRefs' = QueueRefs \ {m_fibers[k].fiber}
<1> DEFINE q == m_fibers
           r == RemoveAt(m_fibers, k)
           Old(i) == IF i < k THEN i ELSE i + 1
<1>1. /\ r \in Seq(Task) /\ Len(r) = Len(q) - 1
      /\ \A i \in 1..(Len(q) - 1) : r[i] = IF i < k THEN q[i] ELSE q[i + 1]
  BY RemoveAtIsSeq
<1>2. r = m_fibers'
  OBVIOUS
<1> HIDE DEF r
<1>3. Len(q) \in Nat /\ k \in 1..Len(q) /\ DOMAIN q = 1..Len(q)
      /\ DOMAIN r = 1..(Len(q) - 1)
  BY <1>1
<1>4. \A i \in DOMAIN r : Old(i) \in DOMAIN q /\ Old(i) # k /\ r[i] = q[Old(i)]
  BY <1>1, <1>3
<1>5. \A i, j \in DOMAIN r : i # j => Old(i) # Old(j)
  BY <1>3
<1>6. ASSUME NEW i \in DOMAIN q, i # k PROVE \E j \in DOMAIN r : r[j] = q[i]
  <2>1. CASE i < k
    <3>1. i \in DOMAIN r /\ r[i] = q[i]
      BY <1>1, <1>3, <1>6, <2>1
    <3> QED
      BY <3>1
  <2>2. CASE i > k
    <3>1. i - 1 \in DOMAIN r /\ ~(i - 1 < k) /\ (i - 1) + 1 = i
      BY <1>3, <1>6, <2>2
    <3>2. r[i - 1] = q[i]
      BY <1>1, <1>3, <3>1
    <3> QED
      BY <3>1, <3>2
  <2> QED
    BY <1>3, <1>6, <2>1, <2>2
<1> HIDE DEF Old
<1>7. QueueApart'
  BY <1>2, <1>4, <1>5 DEF QueueApart
<1>8. QueueRefs' = {r[i].fiber : i \in DOMAIN r} \ {NoFiber}
  BY <1>2 DEF QueueRefs
<1>9. ASSUME NEW g, g # NoFiber, NEW i \in DOMAIN r, g = r[i].fiber
      PROVE  g \in QueueRefs /\ g # q[k].fiber
  BY <1>4, <1>9 DEF QueueRefs, QueueApart
<1>10. ASSUME NEW g \in QueueRefs, g # q[k].fiber
       PROVE  \E i \in DOMAIN r : g = r[i].fiber
  <2>1. PICK i \in DOMAIN q : g = q[i].fiber
    BY DEF QueueRefs
  <2> QED
    BY <1>6, <1>10, <2>1
<1>11. ASSUME NEW g \in QueueRefs PROVE g # NoFiber
  BY DEF QueueRefs
<1>12. QueueRefs' \subseteq QueueRefs \ {q[k].fiber}
  BY <1>8, <1>9
<1>13. QueueRefs \ {q[k].fiber} \subseteq QueueRefs'
  BY <1>8, <1>10, <1>11
<1> QED
  BY <1>7, <1>12, <1>13

(***************************************************************************)
(* The step of a thread that moves fibers between itself, the queue and    *)
(* the fibers nobody refers to: the other threads are not concerned.       *)
(***************************************************************************)
LEMMA TransferStep ==
    ASSUME TypeOK, CurExists, Ownership, NEW t \in Threads, NEW F \in SUBSET Fibers,
           \A g \in Fibers \ F : m_state'[g] = m_state[g] /\ ctx'[g] = ctx[g],
           \A u \in Threads \ {t} :
                /\ pc'[u] = pc[u] /\ ft'[u] = ft[u] /\ cb_fiber'[u] = cb_fiber[u]
                /\ Refs(u) \cap (F \cup Refs(t)' \cup QueueRefs') = {},
           handles' = handles,
           ThreadOK(t)',
           Refs(t)' \cap QueueRefs' = {},
           QueueApart',
           \A f \in QueueRefs' : Resumable(f)',
           RestOK', PoolOK'
    PROVE  Ownership'
<1>1. \A u \in Threads \ {t} : Refs(u)' = Refs(u) /\ Cur(u)' = Cur(u)
  BY DEF Refs, Cur
<1>2. ASSUME NEW u \in Threads PROVE ThreadOK(u)'
  <2>1. CASE u = t
    BY <2>1
  <2>2. CASE u # t
    <3>1. ThreadOK(u)
      BY DEF Ownership, ThreadOK
    <3>2. \A g \in Refs(u) : m_state'[g] = m_state[g] /\ ctx'[g] = ctx[g]
      BY <2>2, RefsAreFibers
    <3>3. CurOK(u)'
      <4>1. CASE HoldsFiber(u)
        <5>1. m_state'[Cur(u)] = m_state[Cur(u)] /\ ctx'[Cur(u)] = ctx[Cur(u)]
          BY <3>2, <4>1, RefsOfCur
        <5> QED
          BY <1>1, <2>2, <3>1, <5>1 DEF ThreadOK, CurOK, Resumable
      <4>2. CASE ~HoldsFiber(u)
        BY <2>2, <4>2 DEF CurOK, HoldsFiber, HoldPC
      <4> QED
        BY <4>1, <4>2
    <3>4. EntryOK(u)'
      BY <2>2, <3>1 DEF ThreadOK, EntryOK, HoldsFiber
    <3>5. CacheOK(u)'
      <4>1. cb_fiber[u] # NoFiber => cb_fiber[u] \in Refs(u)
        BY DEF Refs
      <4> QED
        BY <2>2, <3>1, <3>2, <4>1 DEF ThreadOK, CacheOK, HoldsFiber
    <3> QED
      BY <3>3, <3>4, <3>5 DEF ThreadOK
  <2> QED
    BY <2>1, <2>2
<1>3. PlacesApart'
  <2>1. \A u \in Threads : Refs(u)' \cap QueueRefs' = {}
    BY <1>1
  <2>2. ASSUME NEW u \in Threads, NEW v \in Threads, u # v
        PROVE  Refs(u)' \cap Refs(v)' = {}
    <3>1. CASE u # t /\ v # t
      BY <1>1, <2>2, <3>1 DEF Ownership, PlacesApart
    <3>2. CASE u = t
      BY <1>1, <2>2, <3>2
    <3>3. CASE v = t
      BY <1>1, <2>2, <3>3
    <3> QED
      BY <3>1, <3>2, <3>3
  <2> QED
    BY <2>1, <2>2 DEF PlacesApart, QueueApart
<1> QED
  BY <1>2, <1>3 DEF Ownership, ThreadOK

-----------------------------------------------------------------------------
\* A thread gives up the fiber it worked with, or keeps it empty.
LEMMA OwnReleaseSteps ==
    ASSUME NoHold, TypeInv, Ownership, NEW t \in Threads
    PROVE  SettleFinished(t) \/ Exit(t) => Ownership'
<1> USE DEF TypeInv
<1> DEFINE f == Cur(t)
<1>0. ThreadOK(t) /\ PoolOK
  BY DEF Ownership, ThreadOK
<1>1. ASSUME SettleFinished(t) PROVE Ownership'
  <2>1. pc[t] = "settle" /\ HoldsFiber(t) /\ m_state[f] \in FinishedStates
    BY <1>1 DEF SettleFinished, HoldsFiber, HoldPC
  <2>2. f \in Refs(t) /\ f \in Fibers /\ ctx[f] = "over"
    BY <1>0, <2>1, RefsOfCur DEF ThreadOK, CurOK, FinishedStates
  <2>3. pc'[t] = "pick" /\ ft'[t].fiber = NoFiber /\ cb_fiber' = cb_fiber
    BY <1>1 DEF SettleFinished, Goto, TypeOK, NoEntry, FiberEntry
  <2>4. \A u \in Threads \ {t} :
            pc'[u] = pc[u] /\ ft'[u] = ft[u] /\ cb_fiber'[u] = cb_fiber[u]
    BY <1>1 DEF SettleFinished, Goto, TypeOK
  <2>5. PoolOK'
    BY <1>0, <1>1, <2>1, PoolStep DEF SettleFinished, flagVars
  <2>6. CurOK(t)' /\ EntryOK(t)'
    BY <2>3 DEF CurOK, EntryOK, HoldsFiber, HoldPC
  <2>7. m_fibers' = m_fibers /\ handles' = handles
    BY <1>1 DEF SettleFinished, queueVars, jobVars
  <2>8. CASE ft[t].fiber # NoFiber
    <3>1. UNCHANGED <<m_state, ctx>>
      BY <1>1, <2>8 DEF SettleFinished, fiberVars
    <3>2. f = ft[t].fiber /\ f # cb_fiber[t]
      BY <1>0, <2>8 DEF Cur, ThreadOK, EntryOK
    <3>3. Refs(t)' = Refs(t) \ {f}
      BY <2>3, <3>2 DEF Refs
    <3>4. CacheOK(t)'
      BY <1>0, <2>3, <2>8, <3>1 DEF ThreadOK, CacheOK
    <3>5. \A g \in Refs(t) \ Refs(t)' : Disposable(g)' /\ ~OwnsItself(g)'
      BY <2>1, <2>2, <3>1, <3>3 DEF Disposable, OwnsItself, FinishedStates
    <3> QED
      BY <2>4, <2>5, <2>6, <2>7, <3>1, <3>3, <3>4, <3>5, LocalStep
      DEF ThreadOK
  <2>9. CASE ft[t].fiber = NoFiber
    <3>1. Prepare(f, NoJob) /\ f = cb_fiber[t]
      BY <1>1, <2>9 DEF SettleFinished, Cur
    <3>2. Refs(t)' = Refs(t)
      BY <2>3, <2>9 DEF Refs
    <3>3. CacheOK(t)'
      BY <2>2, <2>3, <3>1 DEF CacheOK, Prepare, TypeOK, FiberTypeOK
    <3>4. \A g \in Fibers \ Refs(t) : m_state'[g] = m_state[g] /\ ctx'[g] = ctx[g]
      BY <2>2, <3>1 DEF Prepare, TypeOK, FiberTypeOK
    <3> QED
      BY <2>4, <2>5, <2>6, <2>7, <3>2, <3>3, <3>4, LocalStep DEF ThreadOK
  <2> QED
    BY <2>8, <2>9
<1>2. ASSUME Exit(t) PROVE Ownership'
  <2>1. pc[t] = "idle" /\ ~HoldsFiber(t) /\ ft[t].fiber = NoFiber
    BY <1>0, <1>2 DEF Exit, HoldsFiber, HoldPC, ThreadOK, EntryOK
  <2>2. pc'[t] \in {"swap", "exited"} /\ ft'[t].fiber = NoFiber /\ cb_fiber'[t] = NoFiber
    BY <1>2 DEF Exit, Goto, TypeOK, NoEntry, FiberEntry
  <2>3. Refs(t) = {cb_fiber[t]} \ {NoFiber} /\ Refs(t)' = {}
    BY <2>1, <2>2 DEF Refs
  <2>4. \A u \in Threads \ {t} :
            pc'[u] = pc[u] /\ ft'[u] = ft[u] /\ cb_fiber'[u] = cb_fiber[u]
    BY <1>2 DEF Exit, Goto, TypeOK
  <2>5. PoolOK'
    BY <1>0, <1>2, <2>1, PoolStep DEF Exit
  <2>6. ThreadOK(t)'
    BY <2>2 DEF ThreadOK, CurOK, EntryOK, CacheOK, HoldsFiber, HoldPC
  <2>7. UNCHANGED <<m_fibers, handles, m_state, ctx>>
    BY <1>2 DEF Exit, queueVars, jobVars, fiberVars
  <2>8. ASSUME NEW g \in Refs(t) PROVE Disposable(g)' /\ ~OwnsItself(g)'
    <3>1. m_state[g] = "INIT" /\ ctx[g] = "fresh"
      BY <1>0, <2>1, <2>3 DEF ThreadOK, CacheOK
    <3> QED
      BY <2>7, <3>1 DEF Disposable, OwnsItself
  <2> QED
    BY <2>3, <2>4, <2>5, <2>6, <2>7, <2>8, LocalStep
<1> QED
  BY <1>1, <1>2

\* The entry a thread takes brings its fiber from the queue to the thread.
LEMMA OwnPick ==
    ASSUME NoHold, TypeInv, Ownership, NEW t \in Threads, Pick(t)
    PROVE  Ownership'
<1> USE DEF TypeInv
<1> PICK k \in DOMAIN m_fibers :
      /\ Eligible(t, m_fibers[k])
      /\ ft' = [ft EXCEPT ![t] = m_fibers[k]]
      /\ Take(k)
      /\ Goto(t, IF m_fibers[k].fiber # NoFiber THEN "dispatch" ELSE "reset")
  BY DEF Pick
<1> DEFINE g == m_fibers[k].fiber
<1>0. ThreadOK(t) /\ PoolOK /\ QueueApart
  BY DEF Ownership, PlacesApart, QueueApart, ThreadOK
<1>1. pc[t] = "pick" /\ ft[t].fiber = NoFiber /\ ~HoldsFiber(t)
  BY <1>0 DEF Pick, ThreadOK, EntryOK, HoldsFiber, HoldPC
<1>2. UNCHANGED <<m_state, ctx, cb_fiber, handles, m_threads>>
  BY DEF Pick, fiberVars, flagVars, jobVars
<1>3. m_fibers \in Seq(Task) /\ m_fibers' = RemoveAt(m_fibers, k)
  BY DEF Take, TypeOK
<1>4. QueueApart' /\ QueueRefs' = QueueRefs \ {g}
  BY <1>0, <1>3, RemoveRefs
<1>5. ft'[t].fiber = g /\ pc'[t] = IF g # NoFiber THEN "dispatch" ELSE "reset"
  BY DEF Goto, TypeOK
<1>6. g # NoFiber => g \in QueueRefs /\ g \in Fibers
  BY RefsAreFibers DEF QueueRefs
<1>7. Refs(t)' = (Refs(t) \cup {g}) \ {NoFiber}
  BY <1>1, <1>2, <1>5 DEF Refs
<1>8. \A u \in Threads : Refs(u) \cap QueueRefs = {}
  BY DEF Ownership, PlacesApart
<1>9. \A u \in Threads \ {t} : Refs(u) \cap Refs(t) = {}
  BY DEF Ownership, PlacesApart
<1>10. \A u \in Threads : NoFiber \notin Refs(u)
  BY DEF Refs
<1>11. \A u \in Threads \ {t} :
         /\ pc'[u] = pc[u] /\ ft'[u] = ft[u] /\ cb_fiber'[u] = cb_fiber[u]
         /\ Refs(u) \cap ({} \cup Refs(t)' \cup QueueRefs') = {}
  <2>1. \A u \in Threads \ {t} :
          pc'[u] = pc[u] /\ ft'[u] = ft[u] /\ cb_fiber'[u] = cb_fiber[u]
    BY <1>2 DEF Goto, TypeOK
  <2>2. ASSUME NEW u \in Threads \ {t}
        PROVE  Refs(u) \cap Refs(t)' = {} /\ Refs(u) \cap QueueRefs' = {}
    BY <1>4, <1>6, <1>7, <1>8, <1>9, <1>10
  <2> QED
    BY <2>1, <2>2
<1>12. Refs(t)' \cap QueueRefs' = {}
  BY <1>4, <1>7, <1>8
<1>13. ThreadOK(t)'
  <2>1. CASE g # NoFiber
    <3>1. Resumable(g) /\ g # cb_fiber[t]
      BY <1>6, <1>8, <2>1 DEF Ownership, Refs
    <3>2. Cur(t)' = g /\ pc'[t] = "dispatch"
      BY <1>5, <2>1 DEF Cur
    <3>3. CurOK(t)'
      BY <1>2, <3>1, <3>2 DEF CurOK, Resumable
    <3>4. EntryOK(t)'
      BY <1>2, <1>5, <2>1, <3>1 DEF EntryOK, HoldsFiber, HoldPC
    <3>5. CacheOK(t)'
      BY <1>0, <1>1, <1>2 DEF ThreadOK, CacheOK
    <3> QED
      BY <3>3, <3>4, <3>5 DEF ThreadOK
  <2>2. CASE g = NoFiber
    <3>1. pc'[t] = "reset"
      BY <1>5, <2>2
    <3>2. CacheOK(t)'
      BY <1>0, <1>1, <1>2 DEF ThreadOK, CacheOK
    <3> QED
      BY <1>5, <2>2, <3>1, <3>2 DEF ThreadOK, CurOK, EntryOK, HoldsFiber, HoldPC
  <2> QED
    BY <2>1, <2>2
<1>14. \A f \in QueueRefs' : Resumable(f)'
  BY <1>2, <1>4 DEF Ownership, Resumable
<1>15. RestOK'
  <2> SUFFICES ASSUME NEW f \in Fibers, f \notin QueueRefs',
                      \A u \in Threads : f \notin Refs(u)'
               PROVE  Disposable(f)' /\ ~OwnsItself(f)'
    BY DEF RestOK
  <2>1. f \notin QueueRefs
    BY <1>4, <1>7, ProgramAssumption
  <2>2. \A u \in Threads : f \notin Refs(u)
    <3>1. f \notin Refs(t)
      BY <1>7, <1>10
    <3>2. \A u \in Threads \ {t} : Refs(u)' = Refs(u)
      BY <1>11 DEF Refs
    <3> QED
      BY <3>1, <3>2
  <2> QED
    BY <1>2, <2>1, <2>2 DEF Ownership, RestOK, Disposable, OwnsItself
<1>16. PoolOK'
  BY <1>0, <1>1, <1>2, PoolStep
<1> QED
  BY <1>2, <1>4, <1>11, <1>12, <1>13, <1>14, <1>15, <1>16, TransferStep

\* An address nobody refers to is in no place.
LEMMA UnreferencedApart ==
    ASSUME TypeOK, NEW f \in Fibers, ~Referenced(f)
    PROVE  f \notin QueueRefs /\ \A u \in Threads : f \notin Refs(u)
BY DEF Referenced, Queued, QueueRefs, Refs

\* A callback gets a fiber that was the thread's own or nobody's.
LEMMA OwnReset ==
    ASSUME NoHold, TypeInv, Ownership, NEW t \in Threads, ResetCbFiber(t)
    PROVE  Ownership'
<1> USE DEF TypeInv
<1> PICK f \in Fibers :
      /\ IF cb_fiber[t] # NoFiber THEN f = cb_fiber[t] ELSE ~Referenced(f)
      /\ Prepare(f, ft[t].cb)
      /\ cb_fiber' = [cb_fiber EXCEPT ![t] = f]
  BY DEF ResetCbFiber
<1>0. ThreadOK(t) /\ PoolOK /\ QueueApart
  BY DEF Ownership, PlacesApart, QueueApart, ThreadOK
<1>1. pc[t] = "reset" /\ pc'[t] = "swapIn" /\ ft[t].fiber = NoFiber
  BY <1>0 DEF ResetCbFiber, ThreadOK, EntryOK, HoldsFiber, HoldPC, Goto, TypeOK
<1>2. UNCHANGED <<m_fibers, ft, handles, m_threads>>
  BY DEF ResetCbFiber, queueVars, flagVars, jobVars
<1>3. cb_fiber'[t] = f /\ f # NoFiber
  BY ProgramAssumption DEF TypeOK
<1>4. Refs(t)' = {f} /\ QueueRefs' = QueueRefs /\ QueueApart'
  BY <1>0, <1>1, <1>2, <1>3 DEF Refs, QueueRefs, QueueApart
<1>5. f \notin QueueRefs /\ \A u \in Threads \ {t} : f \notin Refs(u)
  <2>1. CASE cb_fiber[t] # NoFiber
    <3>1. f \in Refs(t)
      BY <1>3, <2>1 DEF Refs
    <3> QED
      BY <3>1 DEF Ownership, PlacesApart
  <2>2. CASE cb_fiber[t] = NoFiber
    BY <2>2, UnreferencedApart
  <2> QED
    BY <2>1, <2>2
<1>6. \A g \in Fibers \ {f} : m_state'[g] = m_state[g] /\ ctx'[g] = ctx[g]
  BY DEF Prepare, TypeOK, FiberTypeOK
<1>7. m_state'[f] = "INIT" /\ ctx'[f] = "fresh"
  BY DEF Prepare, TypeOK, FiberTypeOK
<1>8. \A u \in Threads \ {t} :
        /\ pc'[u] = pc[u] /\ ft'[u] = ft[u] /\ cb_fiber'[u] = cb_fiber[u]
        /\ Refs(u) \cap ({f} \cup Refs(t)' \cup QueueRefs') = {}
  <2>1. \A u \in Threads \ {t} :
          pc'[u] = pc[u] /\ ft'[u] = ft[u] /\ cb_fiber'[u] = cb_fiber[u]
    BY <1>2 DEF ResetCbFiber, Goto, TypeOK
  <2>2. \A u \in Threads : Refs(u) \cap QueueRefs = {}
    BY DEF Ownership, PlacesApart
  <2> QED
    BY <1>4, <1>5, <2>1, <2>2
<1>9. ThreadOK(t)'
  <2>1. Cur(t)' = f
    BY <1>1, <1>2, <1>3 DEF Cur
  <2>2. CurOK(t)'
    BY <1>1, <1>7, <2>1 DEF CurOK, Resumable
  <2> QED
    BY <1>1, <1>2, <2>2 DEF ThreadOK, EntryOK, CacheOK, HoldsFiber, HoldPC
<1>10. \A g \in QueueRefs' : Resumable(g)'
  BY <1>4, <1>5, <1>6, RefsAreFibers DEF Ownership, Resumable
<1>11. RestOK'
  <2> SUFFICES ASSUME NEW g \in Fibers, g \notin QueueRefs',
                      \A u \in Threads : g \notin Refs(u)'
               PROVE  Disposable(g)' /\ ~OwnsItself(g)'
    BY DEF RestOK
  <2>1. g # f /\ g \notin QueueRefs
    BY <1>4
  <2>2. \A u \in Threads : g \notin Refs(u)
    <3>1. Refs(t) \subseteq {f}
      BY <1>1 DEF Refs
    <3>2. \A u \in Threads \ {t} : Refs(u)' = Refs(u)
      BY <1>8 DEF Refs
    <3> QED
      BY <2>1, <3>1, <3>2
  <2> QED
    BY <1>6, <2>1, <2>2 DEF Ownership, RestOK, Disposable, OwnsItself
<1>12. PoolOK'
  BY <1>0, <1>1, <1>2, PoolStep DEF ResetCbFiber
<1> QED
  BY <1>2, <1>4, <1>5, <1>6, <1>8, <1>9, <1>10, <1>11, <1>12, TransferStep

\* A fiber that yielded goes from the thread to the end of the queue.
LEMMA OwnSettleReady ==
    ASSUME NoHold, TypeInv, Ownership, NEW t \in Threads, SettleReady(t)
    PROVE  Ownership'
<1> USE DEF TypeInv
<1> PICK f : f = Cur(t)
  OBVIOUS
<1>0. ThreadOK(t) /\ PoolOK /\ QueueApart
  BY DEF Ownership, PlacesApart, QueueApart, ThreadOK
<1>1. pc[t] = "settle" /\ HoldsFiber(t) /\ m_state[f] = "READY"
  BY DEF SettleReady, HoldsFiber, HoldPC
<1>2. f \in Refs(t) /\ f \in Fibers /\ f # NoFiber /\ ctx[f] = "saved"
  BY <1>0, <1>1, RefsOfCur, ProgramAssumption DEF ThreadOK, CurOK, FinishedStates
<1>3. UNCHANGED <<m_state, ctx, handles, m_threads>>
  BY DEF SettleReady, fiberVars, flagVars, jobVars
<1>4. pc'[t] = "pick" /\ ft'[t].fiber = NoFiber
  BY DEF SettleReady, DropFiber, Goto, TypeOK, NoEntry, FiberEntry
<1>5. m_fibers \in Seq(Task) /\ FiberEntry(f, AnyThread) \in Task
      /\ m_fibers' = Append(m_fibers, FiberEntry(f, AnyThread))
  BY <1>2, EntryType DEF SettleReady, schedule, TypeOK, Task, FiberEntry
<1>6. \A u \in Threads : Refs(u) \cap QueueRefs = {}
  BY DEF Ownership, PlacesApart
<1>7. QueueApart' /\ QueueRefs' = QueueRefs \cup {f}
  <2>1. FiberEntry(f, AnyThread).fiber = f /\ f \notin QueueRefs
    BY <1>2, <1>6 DEF FiberEntry
  <2>2. NoFiber \notin QueueRefs
    BY DEF QueueRefs
  <2> QED
    BY <1>0, <1>2, <1>5, <2>1, <2>2, AppendRefs
<1>8. Refs(t)' = Refs(t) \ {f} /\ (cb_fiber'[t] = cb_fiber[t] \/ cb_fiber'[t] = NoFiber)
  <2>1. CASE ft[t].fiber # NoFiber
    <3>1. f = ft[t].fiber /\ f # cb_fiber[t] /\ cb_fiber' = cb_fiber
      BY <1>0, <2>1 DEF Cur, ThreadOK, EntryOK, SettleReady, DropFiber
    <3> QED
      BY <1>4, <3>1 DEF Refs
  <2>2. CASE ft[t].fiber = NoFiber
    <3>1. f = cb_fiber[t] /\ cb_fiber'[t] = NoFiber
      BY <2>2 DEF Cur, SettleReady, DropFiber, TypeOK
    <3> QED
      BY <1>4, <2>2, <3>1 DEF Refs
  <2> QED
    BY <2>1, <2>2
<1>9. \A u \in Threads \ {t} :
        /\ pc'[u] = pc[u] /\ ft'[u] = ft[u] /\ cb_fiber'[u] = cb_fiber[u]
        /\ Refs(u) \cap ({} \cup Refs(t)' \cup QueueRefs') = {}
  <2>1. \A u \in Threads \ {t} :
          pc'[u] = pc[u] /\ ft'[u] = ft[u] /\ cb_fiber'[u] = cb_fiber[u]
    BY DEF SettleReady, DropFiber, Goto, TypeOK
  <2>2. \A u \in Threads \ {t} : Refs(u) \cap Refs(t) = {}
    BY DEF Ownership, PlacesApart
  <2> QED
    BY <1>2, <1>6, <1>7, <1>8, <2>1, <2>2
<1>10. Refs(t)' \cap QueueRefs' = {}
  BY <1>6, <1>7, <1>8
<1>11. ThreadOK(t)'
  <2>1. CurOK(t)' /\ EntryOK(t)'
    BY <1>4 DEF CurOK, EntryOK, HoldsFiber, HoldPC
  <2>2. ASSUME cb_fiber'[t] # NoFiber
        PROVE  m_state'[cb_fiber'[t]] = "INIT" /\ ctx'[cb_fiber'[t]] = "fresh"
    <3>1. cb_fiber'[t] = cb_fiber[t] /\ cb_fiber[t] # f
      BY <1>8, <2>2 DEF Refs
    <3>2. ft[t].fiber # NoFiber
      BY <1>2, <2>2, <3>1 DEF Refs, Cur
    <3> QED
      BY <1>0, <1>3, <2>2, <3>1, <3>2 DEF ThreadOK, CacheOK
  <2> QED
    BY <2>1, <2>2 DEF ThreadOK, CacheOK
<1>12. \A g \in QueueRefs' : Resumable(g)'
  BY <1>1, <1>2, <1>3, <1>7 DEF Ownership, Resumable
<1>13. RestOK'
  <2> SUFFICES ASSUME NEW g \in Fibers, g \notin QueueRefs',
                      \A u \in Threads : g \notin Refs(u)'
               PROVE  Disposable(g)' /\ ~OwnsItself(g)'
    BY DEF RestOK
  <2>1. g # f /\ g \notin QueueRefs
    BY <1>7
  <2>2. \A u \in Threads : g \notin Refs(u)
    <3>1. \A u \in Threads \ {t} : Refs(u)' = Refs(u)
      BY <1>9 DEF Refs
    <3> QED
      BY <1>8, <2>1, <3>1
  <2> QED
    BY <1>3, <2>1, <2>2 DEF Ownership, RestOK, Disposable, OwnsItself
<1>14. PoolOK'
  BY <1>0, <1>1, <1>3, PoolStep DEF SettleReady
<1> QED
  BY <1>3, <1>7, <1>9, <1>10, <1>11, <1>12, <1>13, <1>14, TransferStep

-----------------------------------------------------------------------------
(***************************************************************************)
(* A step that moves no fiber, and only threads that hold none.            *)
(***************************************************************************)
LEMMA FrameStep ==
    ASSUME Ownership, UNCHANGED <<m_state, ctx, ft, cb_fiber, handles>>,
           QueueRefs' = QueueRefs, QueueApart',
           \A t \in Threads :
                pc'[t] = pc[t] \/ (pc[t] \notin HoldPC /\ pc'[t] \notin HoldPC),
           PoolOK'
    PROVE  Ownership'
<1>1. \A t \in Threads : Refs(t)' = Refs(t) /\ Cur(t)' = Cur(t)
  BY DEF Refs, Cur
<1>2. ASSUME NEW t \in Threads PROVE CurOK(t)' /\ EntryOK(t)' /\ CacheOK(t)'
  <2>1. CurOK(t) /\ EntryOK(t) /\ CacheOK(t)
    BY DEF Ownership
  <2>2. CASE pc'[t] = pc[t]
    BY <1>1, <2>1, <2>2 DEF CurOK, EntryOK, CacheOK, HoldsFiber, Resumable
  <2>3. CASE pc[t] \notin HoldPC /\ pc'[t] \notin HoldPC
    BY <2>1, <2>3 DEF CurOK, EntryOK, CacheOK, HoldsFiber, HoldPC
  <2> QED
    BY <2>2, <2>3
<1>3. PlacesApart'
  BY <1>1 DEF Ownership, PlacesApart, QueueApart
<1>4. \A f \in QueueRefs' : Resumable(f)'
  BY DEF Ownership, Resumable
<1>5. RestOK'
  BY <1>1 DEF Ownership, RestOK, Disposable, OwnsItself
<1> QED
  BY <1>2, <1>3, <1>4, <1>5 DEF Ownership

\* A callback in the queue is no fiber of the queue.
LEMMA AppendCallback ==
    ASSUME m_fibers \in Seq(Task), QueueApart, NEW c \in Jobs,
           NEW p \in Threads \cup {AnyThread}, schedule(CbEntry(c, p))
    PROVE  QueueApart' /\ QueueRefs' = QueueRefs
<1>1. CbEntry(c, p) \in Task /\ CbEntry(c, p).fiber = NoFiber
      /\ CbEntry(c, p).cb # NoJob
  BY NoJobAssumption, EntryType DEF Task, CbEntry
<1>2. m_fibers' = Append(m_fibers, CbEntry(c, p))
  BY <1>1 DEF schedule
<1>3. NoFiber \notin QueueRefs
  BY DEF QueueRefs
<1> QED
  BY <1>1, <1>2, <1>3, AppendRefs

\* Callbacks are scheduled, by a callback or by the owner.
LEMMA OwnCallbackSteps ==
    ASSUME NoHold, TypeInv, Ownership
    PROVE  /\ \A t \in Threads : BodySpawn(t) => Ownership'
           /\ SubmitBatch => Ownership'
<1> USE DEF TypeInv
<1>0. QueueApart /\ PoolOK /\ m_fibers \in Seq(Task)
  BY DEF Ownership, PlacesApart, QueueApart, TypeOK
<1>1. ASSUME NEW t \in Threads, BodySpawn(t) PROVE Ownership'
  <2>1. QueueApart' /\ QueueRefs' = QueueRefs
    BY <1>0, <1>1, AppendCallback, ThreadsAssumption DEF BodySpawn
  <2>2. UNCHANGED <<m_state, ctx, ft, cb_fiber, handles, pc, m_threads>>
    BY <1>1 DEF BodySpawn, fiberVars, flagVars, localVars
  <2> QED
    BY <1>0, <2>1, <2>2, FrameStep DEF PoolOK, PoolExited
<1>2. ASSUME SubmitBatch PROVE Ownership'
  <2>1. PICK c \in Jobs, d \in Jobs :
          m_fibers' = m_fibers \o <<CbEntry(c, AnyThread), CbEntry(d, AnyThread)>>
    BY <1>2 DEF SubmitBatch
  <2> DEFINE q == m_fibers
             r == m_fibers \o <<CbEntry(c, AnyThread), CbEntry(d, AnyThread)>>
  <2>2. Len(q) \in Nat /\ DOMAIN q = 1..Len(q) /\ DOMAIN r = 1..(Len(q) + 2)
        /\ \A i \in 1..Len(q) : r[i] = q[i]
    BY <1>0
  <2>3. r[Len(q) + 1].fiber = NoFiber /\ r[Len(q) + 2].fiber = NoFiber
    BY <1>0 DEF CbEntry
  <2>4. r = m_fibers'
    BY <2>1
  <2> HIDE DEF r
  <2>5. \A i \in DOMAIN r : r[i].fiber # NoFiber => i \in DOMAIN q
    BY <2>2, <2>3
  <2>6. QueueApart'
    <3> SUFFICES ASSUME NEW i \in DOMAIN r, NEW j \in DOMAIN r, i # j,
                        r[i].fiber # NoFiber, r[i].fiber = r[j].fiber
                 PROVE  FALSE
      BY <2>4 DEF QueueApart
    <3>1. i \in DOMAIN q /\ j \in DOMAIN q
      BY <2>5
    <3> QED
      BY <1>0, <2>2, <3>1 DEF QueueApart
  <2>7. QueueRefs' = QueueRefs
    <3>1. QueueRefs' = {r[k].fiber : k \in DOMAIN r} \ {NoFiber}
      BY <2>4 DEF QueueRefs
    <3>2. \A k \in DOMAIN q : k \in DOMAIN r /\ r[k] = q[k]
      BY <2>2
    <3>3. \A k \in DOMAIN r : r[k].fiber # NoFiber
              => k \in DOMAIN q /\ q[k].fiber = r[k].fiber
      BY <2>2, <2>5
    <3>4. QueueRefs' \subseteq QueueRefs
      BY <3>1, <3>3 DEF QueueRefs
    <3>5. QueueRefs \subseteq QueueRefs'
      BY <3>1, <3>2 DEF QueueRefs
    <3> QED
      BY <3>4, <3>5
  <2>8. UNCHANGED <<m_state, ctx, ft, cb_fiber, handles, pc, m_threads>>
    BY <1>2 DEF SubmitBatch, fiberVars, flagVars, localVars
  <2> QED
    BY <1>0, <2>6, <2>7, <2>8, FrameStep DEF PoolOK, PoolExited
<1> QED
  BY <1>1, <1>2

\* The owner schedules a callback or a new fiber.
LEMMA OwnSubmit ==
    ASSUME NoHold, TypeInv, Ownership, Submit
    PROVE  Ownership'
<1> USE DEF TypeInv
<1> Caller \in Threads
  BY DEF Threads
<1>0. QueueApart /\ PoolOK /\ m_fibers \in Seq(Task)
  BY DEF Ownership, PlacesApart, QueueApart, TypeOK
<1>1. UNCHANGED <<ft, cb_fiber, handles, pc, m_threads>>
  BY DEF Submit, flagVars, localVars
<1>2. PoolOK'
  BY <1>0, <1>1 DEF PoolOK, PoolExited
<1> PICK c \in Jobs, p \in Pins :
      \/ schedule(CbEntry(c, p)) /\ UNCHANGED fiberVars
      \/ \E f \in Fibers :
           /\ ~Referenced(f)
           /\ Prepare(f, c)
           /\ schedule(FiberEntry(f, p))
  BY DEF Submit
<1>3. p \in Threads \cup {AnyThread}
  BY ThreadsAssumption
<1>4. CASE schedule(CbEntry(c, p)) /\ UNCHANGED fiberVars
  <2>1. QueueApart' /\ QueueRefs' = QueueRefs
    BY <1>0, <1>3, <1>4, AppendCallback
  <2> QED
    BY <1>1, <1>2, <1>4, <2>1, FrameStep DEF fiberVars
<1>5. ASSUME NEW f \in Fibers, ~Referenced(f), Prepare(f, c),
             schedule(FiberEntry(f, p))
      PROVE  Ownership'
  <2>1. FiberEntry(f, p) \in Task /\ FiberEntry(f, p).fiber = f /\ f # NoFiber
    BY <1>3, EntryType, ProgramAssumption DEF Task, FiberEntry
  <2>2. m_fibers' = Append(m_fibers, FiberEntry(f, p))
    BY <1>5, <2>1 DEF schedule
  <2>3. f \notin QueueRefs /\ \A u \in Threads : f \notin Refs(u)
    BY <1>5, UnreferencedApart
  <2>4. QueueApart' /\ QueueRefs' = QueueRefs \cup {f}
    <3>1. NoFiber \notin QueueRefs
      BY DEF QueueRefs
    <3> QED
      BY <1>0, <2>1, <2>2, <2>3, <3>1, AppendRefs
  <2>5. \A g \in Fibers \ {f} : m_state'[g] = m_state[g] /\ ctx'[g] = ctx[g]
    BY <1>5 DEF Prepare, TypeOK, FiberTypeOK
  <2>6. m_state'[f] = "INIT" /\ ctx'[f] = "fresh"
    BY <1>5 DEF Prepare, TypeOK, FiberTypeOK
  <2>7. \A u \in Threads : Refs(u)' = Refs(u)
    BY <1>1 DEF Refs
  <2>8. \A u \in Threads : Refs(u) \cap QueueRefs' = {}
    BY <2>3, <2>4 DEF Ownership, PlacesApart
  <2>9. ThreadOK(Caller)'
    <3>1. pc[Caller] = "main" /\ CacheOK(Caller) /\ EntryOK(Caller)
      BY DEF Submit, Ownership
    <3>2. cb_fiber[Caller] # NoFiber => cb_fiber[Caller] \in Fibers \ {f}
      BY <2>3 DEF Refs, TypeOK
    <3>3. CacheOK(Caller)'
      BY <1>1, <2>5, <3>1, <3>2 DEF CacheOK, HoldsFiber
    <3> QED
      BY <1>1, <3>1, <3>3 DEF ThreadOK, CurOK, EntryOK, HoldsFiber, HoldPC
  <2>10. \A g \in QueueRefs' : Resumable(g)'
    BY <2>4, <2>5, <2>6, RefsAreFibers DEF Ownership, Resumable
  <2>11. RestOK'
    BY <2>4, <2>5, <2>7 DEF Ownership, RestOK, Disposable, OwnsItself
  <2>12. \A u \in Threads \ {Caller} :
          /\ pc'[u] = pc[u] /\ ft'[u] = ft[u] /\ cb_fiber'[u] = cb_fiber[u]
          /\ Refs(u) \cap ({f} \cup Refs(Caller)' \cup QueueRefs') = {}
    BY <1>1, <2>3, <2>7, <2>8 DEF Ownership, PlacesApart
  <2> QED
    BY <1>1, <1>2, <2>4, <2>5, <2>7, <2>8, <2>9, <2>10, <2>11, <2>12, TransferStep,
       ZenonT(30)
<1> QED
  BY <1>4, <1>5

\* Steps of start, stop and the destructor.
LEMMA OwnOwnerSteps ==
    ASSUME NoHold, TypeInv, Ownership
    PROVE  (start \/ StopBegin \/ stop \/ Destroy \/ UNCHANGED vars) => Ownership'
<1> USE DEF TypeInv
<1> Caller \in Threads /\ Caller \notin Workers
  BY ThreadsAssumption DEF Threads
<1>0. QueueApart /\ PoolOK
  BY DEF Ownership, PlacesApart, QueueApart
<1>1. ASSUME UNCHANGED <<m_state, ctx, ft, cb_fiber, handles, m_fibers>>,
             \A t \in Threads :
                pc'[t] = pc[t] \/ (pc[t] \notin HoldPC /\ pc'[t] \notin HoldPC),
             PoolOK'
      PROVE  Ownership'
  BY <1>0, <1>1, FrameStep DEF QueueRefs, QueueApart
<1>2. ASSUME start PROVE Ownership'
  <2>1. PoolExited
    BY <1>0, <1>2 DEF start, PoolOK
  <2>2. \A t \in Threads :
          pc'[t] = pc[t] \/ (pc[t] \notin HoldPC /\ pc'[t] \notin HoldPC)
    BY <1>2, <2>1 DEF start, PoolExited, HoldPC, TypeOK
  <2>3. PoolOK'
    BY <1>2, <2>1 DEF start, PoolOK, PoolExited, Threads
  <2> QED
    BY <1>1, <1>2, <2>2, <2>3 DEF start, fiberVars, queueVars, jobVars
<1>3. ASSUME StopBegin \/ stop \/ Destroy PROVE Ownership'
  <2>1. UNCHANGED <<m_state, ctx, ft, cb_fiber, handles, m_fibers>>
    BY <1>3
    DEF StopBegin, stop, StopEarly, StopCheck, StopFlag, StopCall, StopNoCall,
        StopSwap, StopJoin, Destroy, GoOnly, fiberVars, queueVars, localVars,
        jobVars
  <2>2. PICK w \in OwnerPC \cup {"pick"} : Goto(Caller, w)
    BY <1>3
    DEF StopBegin, stop, StopEarly, StopCheck, StopFlag, StopCall, StopNoCall,
        StopSwap, StopJoin, Destroy, GoOnly, OwnerPC
  <2>3. pc[Caller] \in OwnerPC \ {"gone"}
    BY <1>3
    DEF StopBegin, stop, StopEarly, StopCheck, StopFlag, StopCall, StopNoCall,
        StopSwap, StopJoin, Destroy, OwnerPC
  <2>4. pc'[Caller] = w /\ \A t \in Threads \ {Caller} : pc'[t] = pc[t]
    BY <2>2 DEF Goto, TypeOK
  <2>5. \A t \in Threads :
          pc'[t] = pc[t] \/ (pc[t] \notin HoldPC /\ pc'[t] \notin HoldPC)
    BY <2>3, <2>4 DEF HoldPC, OwnerPC
  <2>6. PoolExited' <=> PoolExited
    <3>1. \A v \in Workers : pc'[v] = pc[v]
      BY <2>4 DEF Threads
    <3> QED
      BY <3>1 DEF PoolExited
  <2>7. PoolOK'
    <3>1. CASE StopSwap
      <4>1. pc'[Caller] = "join"
        BY <3>1 DEF StopSwap, Goto, TypeOK
      <4> QED
        BY <4>1 DEF PoolOK
    <3>2. CASE StopJoin
      BY <2>6, <3>2 DEF StopJoin, PoolOK
    <3>3. CASE ~StopSwap /\ ~StopJoin
      <4>1. m_threads' = m_threads /\ pc[Caller] # "join"
        BY <1>3, <3>3
        DEF StopBegin, stop, StopEarly, StopCheck, StopFlag, StopCall,
            StopNoCall, Destroy, GoOnly, flagVars
      <4> QED
        BY <1>0, <2>6, <4>1 DEF PoolOK
    <3> QED
      BY <3>1, <3>2, <3>3
  <2> QED
    BY <1>1, <2>1, <2>5, <2>7
<1>4. ASSUME UNCHANGED vars PROVE Ownership'
  <2>1. PoolOK'
    BY <1>0, <1>4 DEF vars, flagVars, PoolOK, PoolExited
  <2> QED
    BY <1>1, <1>4, <2>1 DEF vars, fiberVars, localVars, queueVars, jobVars
<1> QED
  BY <1>2, <1>3, <1>4

-----------------------------------------------------------------------------
\* In the initial state no thread and no queue entry refers to a fiber.
LEMMA OwnInit == Init => Ownership
<1> SUFFICES ASSUME Init PROVE Ownership
  OBVIOUS
<1>1. \A t \in Threads : pc[t] \notin HoldPC /\ ft[t].fiber = NoFiber
                         /\ cb_fiber[t] = NoFiber
  BY DEF Init, HoldPC, NoEntry, FiberEntry
<1>2. QueueRefs = {} /\ \A t \in Threads : Refs(t) = {}
  BY <1>1 DEF Init, QueueRefs, Refs
<1>3. \A t \in Threads : CurOK(t) /\ EntryOK(t) /\ CacheOK(t)
  BY <1>1 DEF CurOK, EntryOK, CacheOK, HoldsFiber, HoldPC
<1>4. PlacesApart
  BY <1>2 DEF Init, PlacesApart
<1>5. RestOK
  BY DEF Init, FiberInit, RestOK, Disposable, OwnsItself
<1>6. PoolOK
  BY ThreadsAssumption DEF Init, PoolOK, PoolExited, Threads
<1> QED
  BY <1>2, <1>3, <1>4, <1>5, <1>6 DEF Init, Ownership

\* Every step keeps every fiber in one place.
LEMMA OwnStep ==
    ASSUME NoHold
    PROVE  TypeInv /\ Ownership /\ [Next]_vars => Ownership'
<1> SUFFICES ASSUME TypeInv, Ownership, [Next]_vars PROVE Ownership'
  OBVIOUS
<1>1. ASSUME NEW t \in Threads, run(t) PROVE Ownership'
  <2>1. CASE Pick(t) \/ ResetCbFiber(t) \/ SettleReady(t)
    BY <2>1, OwnPick, OwnReset, OwnSettleReady
  <2>2. CASE PickNothing(t) \/ Dispatch(t) \/ LeaveActive(t) \/ SettleOther(t)
             \/ Idle(t)
    BY <2>2, OwnReadSteps
  <2>3. CASE SettleFinished(t) \/ Exit(t)
    BY <2>3, OwnReleaseSteps
  <2>4. CASE SwapIn(t) \/ Body(t) \/ SetHold(t)
    BY <2>4, OwnStackSteps, OwnCallbackSteps, OwnNoHoldSteps DEF Body
  <2> QED
    BY <1>1, <2>1, <2>2, <2>3, <2>4 DEF run
<1>2. CASE Submit \/ SubmitBatch
  BY <1>2, OwnSubmit, OwnCallbackSteps
<1>3. CASE start \/ StopBegin \/ stop \/ Destroy \/ Finished \/ UNCHANGED vars
  BY <1>3, OwnOwnerSteps DEF Finished
<1> QED
  BY <1>1, <1>2, <1>3 DEF Next

\* A thread between taking a fiber and having left it holds it alone.
LEMMA SoleHolderFollows == TypeInv /\ Ownership => SoleHolder
<1> SUFFICES ASSUME TypeInv, Ownership, NEW t \in Threads, HoldsFiber(t)
             PROVE  /\ ~Queued(Cur(t))
                    /\ \A u \in Threads \ {t} : HoldsFiber(u) => Cur(u) # Cur(t)
  BY DEF SoleHolder
<1>1. Cur(t) \in Refs(t) /\ Cur(t) # NoFiber
  BY RefsOfCur DEF TypeInv, Refs
<1>2. ~Queued(Cur(t))
  BY <1>1 DEF Ownership, PlacesApart, Queued, QueueRefs
<1>3. ASSUME NEW u \in Threads \ {t}, HoldsFiber(u) PROVE Cur(u) # Cur(t)
  <2>1. Cur(u) \in Refs(u)
    BY <1>3, RefsOfCur DEF TypeInv
  <2> QED
    BY <1>1, <2>1 DEF Ownership, PlacesApart
<1> QED
  BY <1>2, <1>3

\* A fiber about to be resumed was never entered, or its context was saved.
LEMMA NoStaleResumeFollows == Ownership => NoStaleResume
BY DEF Ownership, CurOK, Resumable, NoStaleResume

(***************************************************************************)
(* In a program whose callbacks do not go on hold every fiber is in one    *)
(* place: the queue, one thread of run(), or nobody refers to it.          *)
(***************************************************************************)
THEOREM FibersInOnePlace ==
    ASSUME NoHold
    PROVE  Spec => []Ownership
<1>1. Init => TypeInv /\ Ownership
  BY TypeInit, OwnInit
<1>2. TypeInv /\ Ownership /\ [Next]_vars => (TypeInv /\ Ownership)'
  BY TypeStep, OwnStep
<1> QED
  BY <1>1, <1>2, PTL DEF Spec

(***************************************************************************)
(* run() works alone with the fiber it took: neither another thread nor    *)
(* the queue has it, however many threads there are.                       *)
(***************************************************************************)
THEOREM WorksAlone ==
    ASSUME NoHold
    PROVE  Spec => []SoleHolder
<1>1. Init => TypeInv /\ Ownership
  BY TypeInit, OwnInit
<1>2. TypeInv /\ Ownership /\ [Next]_vars => (TypeInv /\ Ownership)'
  BY TypeStep, OwnStep
<1> QED
  BY <1>1, <1>2, SoleHolderFollows, PTL DEF Spec

(***************************************************************************)
(* swapIn never resumes a context that no swapcontext has saved: no two    *)
(* threads execute on one stack, however many threads there are.           *)
(***************************************************************************)
THEOREM ResumesSavedContexts ==
    ASSUME NoHold
    PROVE  Spec => []NoStaleResume
BY FibersInOnePlace, NoStaleResumeFollows, PTL

-----------------------------------------------------------------------------
(***************************************************************************)
(* m_activeThreadCount.  As long as Dispatch never meets a fiber that has  *)
(* ended, it never leaves with the thread still counted, and the counter   *)
(* is exact.                                                               *)
(***************************************************************************)

\* A move of one thread and what the step must do to the counter.
LEMMA ExactStep ==
    ASSUME TypeOK, ActiveCountExact, NEW t \in Threads, NEW w, Goto(t, w),
           \/ /\ w \in ActivePC /\ pc[t] \notin ActivePC
              /\ m_activeThreadCount' = m_activeThreadCount + 1
           \/ /\ w \notin ActivePC /\ pc[t] \in ActivePC
              /\ m_activeThreadCount' = m_activeThreadCount - 1
           \/ /\ w \in ActivePC <=> pc[t] \in ActivePC
              /\ m_activeThreadCount' = m_activeThreadCount
    PROVE  ActiveCountExact'
BY CountStep DEF TypeOK, ActiveCountExact

\* Every step of run() keeps the counter exact.
LEMMA ExactRun ==
    ASSUME TypeInv, ActiveCountExact, NEW t \in Threads, run(t),
           Dispatch(t) => m_state[ft[t].fiber] \notin FinishedStates
    PROVE  ActiveCountExact'
<1> USE DEF TypeInv
<1>1. CASE Pick(t)
  <2>1. PICK w \in {"dispatch", "reset"} : Goto(t, w)
    BY <1>1 DEF Pick
  <2>2. pc[t] = "pick" /\ m_activeThreadCount' = m_activeThreadCount + 1
    BY <1>1 DEF Pick, Take
  <2> QED
    BY <2>1, <2>2, ExactStep DEF ActivePC
<1>2. CASE Dispatch(t)
  <2>1. Goto(t, "swapIn")
    BY <1>2 DEF Dispatch, GoOnly
  <2> QED
    BY <1>2, <2>1, ExactStep DEF Dispatch, GoOnly, queueVars, ActivePC
<1>3. CASE LeaveActive(t)
  BY <1>3, ExactStep DEF LeaveActive, ActivePC
<1>4. CASE ResetCbFiber(t) \/ SwapIn(t)
  BY <1>4, ExactStep DEF ResetCbFiber, SwapIn, queueVars, ActivePC
<1>5. CASE YieldToReady(t) \/ YieldToHold(t) \/ BodyReturn(t) \/ BodyThrow(t) \/ SwapOut(t)
  BY <1>5, ExactStep
  DEF YieldToReady, YieldToHold, Yield, BodyReturn, BodyThrow, SwapOut, queueVars, ActivePC
<1>6. CASE BodySpawn(t) \/ BodyRegister(t) \/ BodyWake(t)
  BY <1>6
  DEF BodySpawn, BodyRegister, BodyWake, schedule, queueVars, ActiveCountExact, ActiveThreads
<1>7. CASE SettleReady(t) \/ SetHold(t)
  BY <1>7, ExactStep DEF SettleReady, SetHold, schedule, queueVars, ActivePC
<1>8. CASE PickNothing(t) \/ SettleFinished(t) \/ Idle(t)
  BY <1>8, ExactStep
  DEF PickNothing, SettleFinished, Idle, queueVars, ActivePC
<1>9. CASE SettleOther(t)
  BY <1>9, ExactStep DEF SettleOther, GoOnly, queueVars, ActivePC
<1>10. CASE Exit(t)
  <2>1. PICK w \in {"swap", "exited"} : Goto(t, w)
    BY <1>10 DEF Exit
  <2> QED
    BY <1>10, <2>1, ExactStep DEF Exit, queueVars, ActivePC
<1> QED
  BY <1>1, <1>2, <1>3, <1>4, <1>5, <1>6, <1>7, <1>8, <1>9, <1>10 DEF run, Body

\* Every step of the owner keeps the counter exact.
LEMMA ExactOwner ==
    ASSUME TypeInv, PoolOK, ActiveCountExact,
           start \/ Submit \/ SubmitBatch \/ StopBegin \/ stop \/ Destroy
             \/ UNCHANGED vars
    PROVE  ActiveCountExact'
<1> USE DEF TypeInv
<1> Caller \in Threads /\ Caller \notin Workers
  BY ThreadsAssumption DEF Threads
<1>1. CASE start
  <2>1. PoolExited
    BY <1>1 DEF start, PoolOK
  <2>2. ActiveThreads' = ActiveThreads
    BY <1>1, <2>1 DEF start, PoolExited, ActiveThreads, ActivePC, TypeOK
  <2> QED
    BY <1>1, <2>2 DEF start, queueVars, ActiveCountExact
<1>2. CASE Submit \/ SubmitBatch \/ UNCHANGED vars
  BY <1>2
  DEF Submit, SubmitBatch, schedule, vars, queueVars, ActiveCountExact,
      ActiveThreads
<1>3. CASE StopBegin \/ stop \/ Destroy
  <2>1. PICK w \in OwnerPC \cup {"pick"} : Goto(Caller, w)
    BY <1>3
    DEF StopBegin, stop, StopEarly, StopCheck, StopFlag, StopCall, StopNoCall,
        StopSwap, StopJoin, Destroy, GoOnly, OwnerPC
  <2>2. pc[Caller] \in OwnerPC /\ m_activeThreadCount' = m_activeThreadCount
    BY <1>3
    DEF StopBegin, stop, StopEarly, StopCheck, StopFlag, StopCall, StopNoCall,
        StopSwap, StopJoin, Destroy, GoOnly, queueVars, OwnerPC
  <2> QED
    BY <2>1, <2>2, ExactStep DEF OwnerPC, ActivePC
<1> QED
  BY <1>1, <1>2, <1>3

\* No thread is counted at the start.
LEMMA ExactInit == Init => ActiveCountExact
<1> SUFFICES ASSUME Init PROVE ActiveCountExact
  OBVIOUS
<1>1. ActiveThreads = {} BY DEF Init, ActiveThreads, ActivePC
<1> QED BY <1>1, FS_EmptySet DEF Init, ActiveCountExact

(***************************************************************************)
(* In a program whose callbacks do not go on hold, m_activeThreadCount is  *)
(* the number of threads at work, so stopping() reads what it is meant to. *)
(***************************************************************************)
THEOREM CounterExact ==
    ASSUME NoHold
    PROVE  Spec => []ActiveCountExact
<1> DEFINE I == TypeInv /\ Ownership /\ ActiveCountExact
<1>1. Init => I
  BY ExactInit, TypeInit, OwnInit
<1>2. I => PoolOK /\ \A t \in Threads : Dispatch(t) => m_state[ft[t].fiber] \notin FinishedStates
  BY DEF Dispatch, Ownership, EntryOK, CurOK, Cur, Resumable, FinishedStates
<1>3. I /\ [Next]_vars => ActiveCountExact'
  BY <1>2, ExactRun, ExactOwner DEF Next, Finished
<1>4. I /\ [Next]_vars => I'
  BY <1>3, TypeStep, OwnStep
<1> QED
  BY <1>1, <1>4, PTL DEF Spec

-----------------------------------------------------------------------------
(***************************************************************************)
(* The owner and its pool, whatever the callbacks do.                      *)
(***************************************************************************)

\* What stop() knows where it is: m_stopping is set before anything waits for
\* it, and only a scheduler that uses its caller runs there.
OwnerOK ==
    /\ pc[Caller] \in RunPC \cup OwnerPC
    /\ UseCaller <=> rootState # "none"
    /\ pc[Caller] \in RunPC => rootState = "EXEC"
    /\ pc[Caller] \in {"stopCheck", "stopCall"} => UseCaller
    /\ pc[Caller] \notin {"main", "stopEarly", "stopFlag"} => m_stopping
    /\ pc[Caller] \in {"stopEarly", "stopFlag"} => UseCaller \/ ~m_stopping
    /\ pc[Caller] = "main" /\ stops = MaxStops => m_stopping
    /\ rootState = "INIT" => ~idleTerm[Caller]

\* No thread ends, or has seen the end, before stop() sets m_stopping; all of
\* them have when stop() has returned.
PoolPhases ==
    /\ UseCaller \/ pool # {}
    /\ \A w \in pool : pc[w] \in RunPC \cup {"none", "exited"}
    /\ \A w \in Workers \ pool : pc[w] = "none"
    /\ ~m_stopping => \A w \in pool : pc[w] \in RunPC /\ ~idleTerm[w]
    /\ pc[Caller] \in {"main", "gone"} /\ m_stopping => PoolExited
    /\ pc[Caller] = "stopCheck" => pool = {}

OwnerInv == OwnerOK /\ PoolPhases

\* The owner and the pool at the start.
LEMMA InitOwner == Init => OwnerInv
<1> SUFFICES ASSUME Init PROVE OwnerInv
  OBVIOUS
<1> USE ThreadsAssumption DEF Init, Threads
<1>1. OwnerOK BY DEF OwnerOK, OwnerPC, RunPC
<1>2. PoolPhases BY DEF PoolPhases, PoolExited
<1> QED BY <1>1, <1>2 DEF OwnerInv

\* How a thread moves in run(), and the way out of it.
LEMMA RunGoes ==
    ASSUME TypeInv, NEW t \in Threads, run(t)
    PROVE  /\ pc[t] \in RunPC
           /\ UNCHANGED <<m_stopping, m_autoStop, pool, m_threads, stops>>
           /\ idleTerm' = [idleTerm EXCEPT ![t] = idleTerm'[t]]
           /\ \/ UNCHANGED idleTerm
              \/ Idle(t) /\ ~idleTerm[t] /\ (idleTerm'[t] <=> Stopping)
           /\ \/ (\E w \in RunPC : Goto(t, w)) /\ rootState' = rootState
              \/ /\ Exit(t) /\ pc[t] = "idle" /\ idleTerm[t] /\ UNCHANGED <<m_fibers, idleTerm>>
                 /\ \/ t # Caller /\ Goto(t, "exited") /\ rootState' = rootState
                    \/ t = Caller /\ Goto(t, "swap") /\ rootState' = "TERM"
<1>1. /\ pc = [pc EXCEPT ![t] = pc[t]] /\ idleTerm = [idleTerm EXCEPT ![t] = idleTerm[t]]
      /\ t \in DOMAIN idleTerm
  BY DEF TypeInv, TypeOK
<1>2. CASE Pick(t) \/ PickNothing(t) \/ Dispatch(t) \/ ResetCbFiber(t) \/ SwapIn(t)
  BY <1>1, <1>2
  DEF Pick, PickNothing, Dispatch, ResetCbFiber, SwapIn, GoOnly, flagVars, localVars, RunPC, Goto
<1>3. CASE Body(t)
  <2>1. CASE BodySpawn(t) \/ BodyRegister(t) \/ BodyWake(t)
    <3>1. pc[t] = "body" /\ pc' = pc /\ UNCHANGED <<flagVars, localVars>>
      BY <2>1 DEF BodySpawn, BodyRegister, BodyWake
    <3>2. Goto(t, "body") BY <1>1, <3>1 DEF Goto
    <3> QED BY <1>1, <3>1, <3>2 DEF flagVars, localVars, RunPC
  <2>2. CASE YieldToReady(t) \/ YieldToHold(t) \/ BodyReturn(t) \/ BodyThrow(t) \/ SwapOut(t)
    BY <1>1, <2>2
    DEF YieldToReady, YieldToHold, Yield, BodyReturn, BodyThrow, SwapOut, flagVars, localVars,
        RunPC
  <2> QED BY <1>3, <2>1, <2>2 DEF Body
<1>4. CASE LeaveActive(t) \/ SettleReady(t) \/ SettleFinished(t) \/ SettleOther(t)
           \/ SetHold(t)
  BY <1>1, <1>4
  DEF LeaveActive, SettleReady, SettleFinished, SettleOther, SetHold, GoOnly, DropFiber,
      flagVars, localVars, RunPC
<1>5. CASE Idle(t)
  <2>1. pc[t] = "idle" /\ Goto(t, "pick") /\ ~idleTerm[t]
        /\ UNCHANGED <<m_stopping, m_autoStop, pool, m_threads, stops, rootState>>
    BY <1>5 DEF Idle, flagVars
  <2>2. PICK b \in BOOLEAN : b <=> Stopping OBVIOUS
  <2>3. idleTerm' = [idleTerm EXCEPT ![t] = b]
    BY <1>5, <2>2 DEF Idle
  <2>4. idleTerm'[t] = b BY <1>1, <2>3
  <2> QED BY <1>5, <2>1, <2>2, <2>3, <2>4 DEF RunPC
<1>6. CASE Exit(t)
  BY <1>1, <1>6 DEF Exit, queueVars, RunPC
<1> QED BY <1>2, <1>3, <1>4, <1>5, <1>6 DEF run

\* A step of run() on any thread.
LEMMA RunOwner ==
    ASSUME TypeInv, OwnerInv, NEW t \in Threads, run(t)
    PROVE  OwnerInv'
<1> USE DEF OwnerInv, TypeInv
<1> Caller \in Threads /\ Caller \notin Workers
  BY ThreadsAssumption DEF Threads
<1>1. /\ pc[t] \in RunPC
      /\ UNCHANGED <<m_stopping, m_autoStop, pool, m_threads, stops>>
  BY RunGoes
<1>2. PICK w \in RunPC \cup {"exited", "swap"} : pc' = [pc EXCEPT ![t] = w]
  BY RunGoes DEF Goto
<1>3. /\ idleTerm' = [idleTerm EXCEPT ![t] = idleTerm'[t]]
      /\ ~m_stopping => (idleTerm'[t] <=> idleTerm[t])
      /\ pc[t] # "idle" => (idleTerm'[t] <=> idleTerm[t])
      /\ idleTerm'[t] \in BOOLEAN
  <2>1. t \in DOMAIN idleTerm /\ (idleTerm' = idleTerm => idleTerm'[t] = idleTerm[t])
    BY DEF TypeOK
  <2>2. /\ ~m_stopping => ~Stopping
        /\ Idle(t) => pc[t] = "idle" /\ idleTerm'[t] \in BOOLEAN
        /\ idleTerm[t] \in BOOLEAN
    BY DEF Stopping, Idle, TypeOK
  <2> QED BY <2>1, <2>2, RunGoes
<1>4. t = Caller => w # "exited" /\ rootState' = IF w = "swap" THEN "TERM" ELSE rootState
  BY <1>2, RunGoes DEF Goto, TypeOK, RunPC
<1>5. t # Caller => w # "swap" /\ rootState' = rootState
  BY <1>2, RunGoes DEF Goto, TypeOK, RunPC
<1>6. w = "exited" => idleTerm[t]
  BY <1>2, RunGoes DEF Goto, TypeOK, RunPC
<1>7. OwnerOK'
  <2>1. CASE t = Caller
    BY <1>1, <1>2, <1>3, <1>4, <2>1 DEF OwnerOK, TypeOK, RunPC, OwnerPC
  <2>2. CASE t # Caller
    BY <1>1, <1>2, <1>3, <1>5, <2>2 DEF OwnerOK, TypeOK
  <2> QED BY <2>1, <2>2
<1>8. PoolPhases'
  <2>1. CASE t = Caller
    <3>1. \A v \in Workers : pc'[v] = pc[v] /\ idleTerm'[v] = idleTerm[v]
      BY <1>2, <1>3, <2>1 DEF TypeOK, Threads
    <3>2. pc'[Caller] \notin {"main", "gone", "stopCheck"}
      BY <1>2, <1>4, <2>1 DEF TypeOK, RunPC
    <3> QED BY <1>1, <3>1, <3>2 DEF PoolPhases, TypeOK
  <2>2. CASE t # Caller
    BY <1>1, <1>2, <1>3, <1>5, <1>6, <2>2 DEF PoolPhases, PoolExited, TypeOK, Threads, RunPC
  <2> QED BY <2>1, <2>2
<1> QED BY <1>7, <1>8

\* A step of the owner.
LEMMA OwnerOwner ==
    ASSUME TypeInv, OwnerInv,
           start \/ Submit \/ SubmitBatch \/ StopBegin \/ stop \/ Destroy \/ UNCHANGED vars
    PROVE  OwnerInv'
<1> USE DEF OwnerInv, TypeInv
<1> Caller \in Threads /\ Caller \notin Workers
  BY ThreadsAssumption DEF Threads
<1>1. CASE start
  <2>1. /\ m_stopping' = FALSE /\ stops' = stops /\ pc'[Caller] = pc[Caller]
        /\ pc[Caller] = "main" /\ stops < MaxStops /\ rootState' = rootState
        /\ ~idleTerm'[Caller]
    BY <1>1 DEF start, TypeOK
  <2>2. /\ pool' = pool
        /\ \A w \in Workers : pc'[w] = IF w \in pool THEN "pick" ELSE pc[w]
        /\ \A w \in Workers : ~idleTerm'[w]
    BY <1>1 DEF start, Threads
  <2>3. OwnerOK' BY <2>1, ProgramAssumption DEF OwnerOK, TypeOK, RunPC, OwnerPC
  <2>4. PoolPhases' BY <2>1, <2>2 DEF PoolPhases, RunPC, TypeOK
  <2> QED BY <2>3, <2>4
<1>2. CASE Submit \/ SubmitBatch \/ UNCHANGED vars
  BY <1>2
  DEF Submit, SubmitBatch, vars, flagVars, localVars, OwnerOK, PoolPhases, PoolExited
<1>3. CASE StopBegin \/ stop \/ Destroy
  <2>1. pc[Caller] \in OwnerPC /\ UNCHANGED <<idleTerm, pool>>
    BY <1>3
    DEF StopBegin, stop, StopEarly, StopCheck, StopFlag, StopCall, StopNoCall, StopSwap,
        StopJoin, Destroy, GoOnly, OwnerPC, localVars, flagVars
  <2>2. PICK w \in OwnerPC \cup {"pick"} : Goto(Caller, w)
    BY <1>3
    DEF StopBegin, stop, StopEarly, StopCheck, StopFlag, StopCall, StopNoCall,
        StopSwap, StopJoin, Destroy, GoOnly, OwnerPC
  <2>3. pc'[Caller] = w /\ \A v \in Workers : pc'[v] = pc[v]
    BY <2>2 DEF Goto, TypeOK, Threads
  <2>4. PoolExited' = PoolExited BY <2>3 DEF PoolExited
  <2>5. OwnerOK'
    <3>1. CASE StopBegin
      BY <2>1, <3>1 DEF StopBegin, OwnerOK, Goto, TypeOK, OwnerPC, RunPC
    <3>2. CASE StopEarly
      BY <2>1, <3>2 DEF StopEarly, OwnerOK, Goto, TypeOK, OwnerPC, RunPC
    <3>3. CASE StopFlag
      BY <2>1, <3>3 DEF StopFlag, OwnerOK, Goto, TypeOK, OwnerPC, RunPC
    <3>4. CASE StopCall
      BY <2>1, <3>4 DEF StopCall, OwnerOK, Goto, TypeOK, OwnerPC, RunPC
    <3>5. CASE StopCheck \/ StopNoCall \/ StopSwap \/ StopJoin \/ Destroy
      BY <2>1, <3>5
      DEF StopCheck, StopNoCall, StopSwap, StopJoin, Destroy, GoOnly, flagVars, OwnerOK, Goto,
          TypeOK, OwnerPC, RunPC
    <3> QED BY <1>3, <3>1, <3>2, <3>3, <3>4, <3>5 DEF stop
  <2>6. m_stopping => m_stopping'
    BY <1>3
    DEF StopBegin, stop, StopEarly, StopCheck, StopFlag, StopCall, StopNoCall, StopSwap,
        StopJoin, Destroy, GoOnly, flagVars
  <2>7. pc'[Caller] \in {"main", "gone"} => PoolExited
    BY <1>3, <2>3
    DEF OwnerOK, PoolPhases, PoolExited, StopBegin, stop, StopEarly, StopCheck, StopFlag,
        StopCall, StopNoCall, StopSwap, StopJoin, Destroy, GoOnly, Goto, TypeOK
  <2>8. pc'[Caller] = "stopCheck" => pool = {}
    BY <1>3, <2>3
    DEF StopBegin, stop, StopEarly, StopCheck, StopFlag, StopCall, StopNoCall, StopSwap,
        StopJoin, Destroy, GoOnly, Goto, TypeOK
  <2>9. PoolPhases' BY <2>1, <2>3, <2>4, <2>6, <2>7, <2>8 DEF PoolPhases, TypeOK
  <2> QED BY <2>5, <2>9
<1> QED BY <1>1, <1>2, <1>3

\* Every step keeps what stop() relies on.
LEMMA OwnerInvStep == TypeInv /\ OwnerInv /\ [Next]_vars => OwnerInv'
BY RunOwner, OwnerOwner DEF Next, Finished

-----------------------------------------------------------------------------
(***************************************************************************)
(* A scheduler that uses its caller is stopped once: a second stop() with  *)
(* work to do would resume a root fiber that has ended.                    *)
(***************************************************************************)
OneStop == ~UseCaller \/ MaxStops <= 1

\* The root fiber has not run yet when stop() comes to call it.
RootUnused ==
    /\ pc[Caller] \notin {"main", "gone"} => stops > 0
    /\ rootState \notin {"none", "INIT"} =>
        /\ stops > 0
        /\ pc[Caller] \notin {"stopEarly", "stopCheck", "stopFlag", "stopCall"}

\* It is kept so by every step.
LEMMA RootStep ==
    ASSUME OneStop, TypeInv, OwnerInv, RootUnused, [Next]_vars
    PROVE  RootUnused'
<1> USE DEF TypeInv, OwnerInv
<1> Caller \in Threads /\ Caller \notin Workers
  BY ThreadsAssumption DEF Threads
<1>1. ASSUME NEW t \in Threads, run(t) PROVE RootUnused'
  <2>1. pc[t] \in RunPC /\ stops' = stops BY <1>1, RunGoes
  <2>2. CASE t = Caller
    <3>1. pc'[Caller] \in RunPC \cup {"swap"} BY <1>1, <2>2, RunGoes DEF Goto, TypeOK
    <3>2. stops > 0 BY <2>1, <2>2 DEF RootUnused, RunPC
    <3> QED BY <2>1, <3>1, <3>2 DEF RootUnused, RunPC
  <2>3. CASE t # Caller
    BY <1>1, <2>1, <2>3, RunGoes DEF RootUnused, Goto, TypeOK
  <2> QED BY <2>2, <2>3
<1>2. CASE start
  BY <1>2 DEF start, RootUnused, TypeOK
<1>3. CASE Submit \/ SubmitBatch \/ UNCHANGED vars \/ Finished
  BY <1>3 DEF Submit, SubmitBatch, Finished, vars, flagVars, RootUnused
<1>4. CASE StopBegin
  <2>1. stops < MaxStops /\ stops' = stops + 1 /\ rootState' = rootState
    BY <1>4 DEF StopBegin
  <2>2. rootState \in {"none", "INIT"}
    BY <2>1, ProgramAssumption DEF OneStop, OwnerOK, RootUnused, TypeOK
  <2> QED BY <2>1, <2>2 DEF RootUnused, TypeOK
<1>5. CASE StopCall
  BY <1>5 DEF StopCall, RootUnused, Goto, TypeOK
<1>6. CASE StopEarly \/ StopCheck \/ StopFlag \/ StopNoCall \/ StopSwap \/ StopJoin \/ Destroy
  <2>1. Destroy \/ (stops' = stops /\ rootState' = rootState /\ pc[Caller] # "main")
    BY <1>6
    DEF StopEarly, StopCheck, StopFlag, StopNoCall, StopSwap, StopJoin, GoOnly, flagVars
  <2>2. CASE Destroy BY <2>2 DEF Destroy, GoOnly, flagVars, RootUnused, Goto, TypeOK
  <2>3. CASE ~Destroy
    BY <1>6, <2>1, <2>3
    DEF StopEarly, StopCheck, StopFlag, StopNoCall, StopSwap, StopJoin, GoOnly, Goto, TypeOK,
        RootUnused
  <2> QED BY <2>2, <2>3
<1> QED BY <1>1, <1>2, <1>3, <1>4, <1>5, <1>6 DEF Next, stop

\* What the assertions of stop() and the destructor test.
LEMMA OwnerAssertions ==
    ASSUME TypeInv, OwnerInv, RootUnused
    PROVE  /\ pc[Caller] = "stopCall" => rootState = "INIT"
           /\ pc[Caller] = "main" /\ stops = MaxStops => m_stopping
BY DEF OwnerInv, OwnerOK, RootUnused, TypeInv, TypeOK

-----------------------------------------------------------------------------
(***************************************************************************)
(* Programs that do not go on hold.                                        *)
(***************************************************************************)

\* A thread that will scan the queue once more.
Serves(t) == pc[t] \in RunPC /\ ~(pc[t] = "idle" /\ idleTerm[t])

\* While stop() waits, or runs on the calling thread, what is in the queue has
\* somebody who will scan it.
QueueServed ==
    pc[Caller] \in RunPC \cup {"swap", "join"} /\ m_fibers # <<>> =>
        \E t \in Threads : Serves(t)

PoolInv == TypeInv /\ Ownership /\ OwnerInv

\* Where fibers are, and how far the owner is, at the start.
LEMMA InitPool == Init => PoolInv
BY TypeInit, OwnInit, InitOwner DEF PoolInv

\* How a thread moves: on to another place in run(), to its idle fiber when the
\* scan found nothing, or to its end when the idle fiber has ended.
LEMMA RunMoves ==
    ASSUME NoHold, PoolInv, NEW t \in Threads, run(t)
    PROVE  \/ \E w \in RunPC \ {"idle"} : Goto(t, w)
           \/ PickNothing(t)
           \/ /\ pc[t] = "idle" /\ idleTerm[t] /\ UNCHANGED <<m_fibers, idleTerm>>
              /\ \E w \in {"exited", "swap"} : Goto(t, w)
<1> USE DEF PoolInv
<1>1. pc = [pc EXCEPT ![t] = pc[t]] BY DEF TypeInv, TypeOK
<1>2. CASE Pick(t) \/ ResetCbFiber(t) \/ SwapIn(t)
  BY <1>2 DEF Pick, ResetCbFiber, SwapIn, RunPC
<1>3. CASE Dispatch(t)
  <2>1. m_state[ft[t].fiber] \notin FinishedStates
    BY <1>3 DEF Dispatch, Ownership, CurOK, EntryOK, Cur, Resumable, FinishedStates
  <2> QED BY <1>3, <2>1 DEF Dispatch, GoOnly, RunPC
<1>4. CASE Body(t)
  <2>1. CASE BodySpawn(t) \/ BodyRegister(t) \/ BodyWake(t)
    <3>1. pc[t] = "body" /\ pc' = pc BY <2>1 DEF BodySpawn, BodyRegister, BodyWake
    <3> QED BY <1>1, <3>1 DEF Goto, RunPC
  <2>2. CASE YieldToReady(t) \/ YieldToHold(t) \/ BodyReturn(t) \/ BodyThrow(t) \/ SwapOut(t)
    BY <2>2 DEF YieldToReady, YieldToHold, Yield, BodyReturn, BodyThrow, SwapOut, RunPC
  <2> QED BY <1>4, <2>1, <2>2 DEF Body
<1>5. CASE LeaveActive(t) \/ SettleReady(t) \/ SettleFinished(t) \/ SettleOther(t)
           \/ SetHold(t) \/ Idle(t)
  BY <1>5
  DEF LeaveActive, SettleReady, SettleFinished, SettleOther, SetHold, Idle, GoOnly, RunPC
<1>6. CASE Exit(t)
  BY <1>6 DEF Exit, queueVars
<1> QED BY <1>2, <1>3, <1>4, <1>5, <1>6 DEF run

\* Every step.
LEMMA PoolInvStep ==
    ASSUME NoHold
    PROVE  PoolInv /\ [Next]_vars => PoolInv'
BY TypeStep, OwnStep, OwnerInvStep DEF PoolInv

-----------------------------------------------------------------------------
\* What the assertions of the code test follows from where the fibers are and
\* how far the owner is.
LEMMA AssertionsFollow == ASSUME PoolInv, RootUnused PROVE AssertionsHold
<1> USE DEF PoolInv, TypeInv
<1>1. ASSUME NEW t \in Threads
      PROVE  /\ pc[t] = "reset" /\ cb_fiber[t] # NoFiber => Disposable(cb_fiber[t])
             /\ pc[t] = "swapIn" => m_state[Cur(t)] # "EXEC" /\ ctx[Cur(t)] # "over"
             /\ pc[t] = "body" => m_state[Cur(t)] = "EXEC"
  BY <1>1 DEF Ownership, CurOK, CacheOK, Resumable, HoldsFiber, HoldPC, Disposable
<1>2. ASSUME NEW f \in Fibers, ~Referenced(f) PROVE Disposable(f)
  BY <1>2, UnreferencedApart DEF Ownership, RestOK
<1> QED BY <1>1, <1>2, OwnerAssertions DEF AssertionsHold

(***************************************************************************)
(* No assertion of the scheduler and of the fibers it runs fails, however  *)
(* many threads, fibers and callbacks there are: with any number of calls  *)
(* of start and stop on a pool of its own, and with one stop when the      *)
(* scheduler uses its caller.                                              *)
(***************************************************************************)
THEOREM PoolAssertions ==
    ASSUME NoHold, OneStop
    PROVE  Spec => []AssertionsHold
<1>1. Init => PoolInv /\ RootUnused
  <2>1. Init => RootUnused BY DEF Init, RootUnused, Threads
  <2> QED BY <2>1, InitPool
<1>2. PoolInv /\ RootUnused /\ [Next]_vars => PoolInv' /\ RootUnused'
  BY PoolInvStep, RootStep DEF PoolInv
<1>3. PoolInv /\ RootUnused => AssertionsHold BY AssertionsFollow
<1> QED BY <1>1, <1>2, <1>3, PTL DEF Spec

-----------------------------------------------------------------------------
(***************************************************************************)
(* Nothing is scheduled for one thread only: a thread whose scan takes     *)
(* nothing has seen an empty queue.                                        *)
(***************************************************************************)
AllShared == Pins \subseteq {AnyThread}
AnyOnly == \A k \in DOMAIN m_fibers : m_fibers[k].thread = AnyThread

ServedInv == PoolInv /\ AnyOnly /\ QueueServed

\* What becomes of the entries in a step of run().
LEMMA RunEntries ==
    ASSUME NoHold, PoolInv, NEW t \in Threads, run(t), ~Pick(t)
    PROVE  \/ UNCHANGED m_fibers
           \/ \E c \in Jobs, p \in Pins :
                /\ BodySpawn(t) /\ CbEntry(c, p) \in Task
                /\ m_fibers' = Append(m_fibers, CbEntry(c, p))
           \/ /\ SettleReady(t) /\ FiberEntry(Cur(t), AnyThread) \in Task
              /\ m_fibers' = Append(m_fibers, FiberEntry(Cur(t), AnyThread))
<1> USE DEF PoolInv, TypeInv
<1>1. CASE BodySpawn(t)
  <2>1. PICK c \in Jobs \ sent, p \in Pins : schedule(CbEntry(c, p))
    BY <1>1 DEF BodySpawn
  <2>2. CbEntry(c, p) \in Task /\ CbEntry(c, p).cb # NoJob
    BY EntryType, ThreadsAssumption, NoJobAssumption DEF Task, CbEntry
  <2> QED BY <1>1, <2>1, <2>2 DEF schedule
<1>2. CASE SettleReady(t)
  <2>1. HoldsFiber(t) BY <1>2 DEF SettleReady, HoldsFiber, HoldPC
  <2>2. Cur(t) \in Fibers /\ Cur(t) # NoFiber BY <2>1, RefsOfCur, ProgramAssumption
  <2>3. FiberEntry(Cur(t), AnyThread) \in Task /\ FiberEntry(Cur(t), AnyThread).fiber # NoFiber
    BY <2>2, EntryType DEF Task, FiberEntry
  <2> QED BY <1>2, <2>3 DEF SettleReady, schedule
<1>3. CASE PickNothing(t) \/ Dispatch(t) \/ ResetCbFiber(t) \/ SwapIn(t) \/ LeaveActive(t)
           \/ SettleFinished(t) \/ SettleOther(t) \/ Idle(t) \/ Exit(t)
  BY <1>3
  DEF PickNothing, Dispatch, ResetCbFiber, SwapIn, LeaveActive, SettleFinished, SettleOther,
      Idle, Exit, GoOnly, queueVars
<1>4. CASE YieldToReady(t) \/ BodyReturn(t) \/ BodyThrow(t) \/ SwapOut(t)
  BY <1>4 DEF YieldToReady, Yield, BodyReturn, BodyThrow, SwapOut, queueVars
<1> QED BY <1>1, <1>2, <1>3, <1>4, OwnNoHoldSteps DEF run, Body

\* A step of run().
LEMMA RunServed ==
    ASSUME NoHold, AllShared, ServedInv, NEW t \in Threads, run(t)
    PROVE  AnyOnly' /\ QueueServed'
<1> USE DEF ServedInv, PoolInv, TypeInv
<1>1. AnyOnly'
  <2>1. CASE Pick(t)
    <3>1. PICK k \in DOMAIN m_fibers : m_fibers' = RemoveAt(m_fibers, k)
      BY <2>1 DEF Pick, Take
    <3> QED BY <3>1, RemoveEntries DEF TypeOK, AnyOnly
  <2>2. CASE UNCHANGED m_fibers BY <2>2 DEF AnyOnly
  <2>3. CASE \E c \in Jobs, p \in Pins :
               /\ BodySpawn(t) /\ CbEntry(c, p) \in Task
               /\ m_fibers' = Append(m_fibers, CbEntry(c, p))
    <3>1. PICK c \in Jobs, p \in Pins :
            CbEntry(c, p) \in Task /\ m_fibers' = Append(m_fibers, CbEntry(c, p))
      BY <2>3
    <3>2. CbEntry(c, p).thread = AnyThread BY DEF CbEntry, AllShared
    <3> QED BY <3>1, <3>2, AppendEntries DEF TypeOK, AnyOnly
  <2>4. CASE /\ SettleReady(t) /\ FiberEntry(Cur(t), AnyThread) \in Task
             /\ m_fibers' = Append(m_fibers, FiberEntry(Cur(t), AnyThread))
    <3>1. FiberEntry(Cur(t), AnyThread).thread = AnyThread BY DEF FiberEntry
    <3> QED BY <2>4, <3>1, AppendEntries DEF TypeOK, AnyOnly
  <2> QED BY <2>1, <2>2, <2>3, <2>4, RunEntries
<1>2. QueueServed'
  <2> SUFFICES ASSUME pc'[Caller] \in RunPC \cup {"swap", "join"}, m_fibers' # <<>>
               PROVE  \E u \in Threads : Serves(u)'
    BY DEF QueueServed
  <2>1. CASE \E w \in RunPC \ {"idle"} : Goto(t, w)
    BY <2>1 DEF Serves, Goto, TypeOK
  <2>2. pc[Caller] \in RunPC \cup {"swap", "join"}
    <3>1. PICK w : pc' = [pc EXCEPT ![t] = w] BY RunGoes DEF Goto
    <3>2. t # Caller => pc'[Caller] = pc[Caller] BY <3>1 DEF TypeOK, Threads
    <3> QED BY <3>2, RunGoes
  <2>3. CASE PickNothing(t)
    <3>1. m_fibers' = m_fibers /\ \A k \in DOMAIN m_fibers : ~Eligible(t, m_fibers[k])
      BY <2>3 DEF PickNothing, queueVars
    <3>2. \A k \in DOMAIN m_fibers : Eligible(t, m_fibers[k])
      BY DEF AnyOnly, Eligible, Ownership, QueueRefs, Resumable
    <3>3. m_fibers = <<>> BY <3>1, <3>2 DEF TypeOK
    <3> QED BY <3>1, <3>3
  <2>4. CASE /\ pc[t] = "idle" /\ idleTerm[t] /\ UNCHANGED <<m_fibers, idleTerm>>
             /\ \E w \in {"exited", "swap"} : Goto(t, w)
    <3>1. PICK u \in Threads : Serves(u) BY <2>2, <2>4 DEF QueueServed
    <3>2. u # t BY <2>4, <3>1 DEF Serves
    <3>3. pc'[u] = pc[u] /\ idleTerm'[u] = idleTerm[u]
      BY <2>4, <3>2 DEF Goto, TypeOK
    <3> QED BY <3>1, <3>3 DEF Serves
  <2> QED BY <2>1, <2>3, <2>4, RunMoves
<1> QED BY <1>1, <1>2

\* A step of the owner.
LEMMA OwnerServed ==
    ASSUME AllShared, ServedInv,
           start \/ Submit \/ SubmitBatch \/ StopBegin \/ stop \/ Destroy \/ UNCHANGED vars
    PROVE  AnyOnly' /\ QueueServed'
<1> USE DEF ServedInv, PoolInv, TypeInv, OwnerInv
<1> Caller \in Threads /\ Caller \notin Workers
  BY ThreadsAssumption DEF Threads
<1>1. CASE Submit
  <2>1. PICK c \in Jobs \ sent, p \in Pins :
          schedule(CbEntry(c, p)) \/ \E f \in Fibers : schedule(FiberEntry(f, p))
    BY <1>1 DEF Submit
  <2>2. PICK e \in Task : m_fibers' = Append(m_fibers, e) /\ e.thread = p
    <3>1. p \in Threads \cup {AnyThread} BY ThreadsAssumption
    <3>2. CbEntry(c, p) \in Task /\ CbEntry(c, p).cb # NoJob /\ CbEntry(c, p).thread = p
      BY <3>1, EntryType, NoJobAssumption DEF Task, CbEntry
    <3>3. \A f \in Fibers : FiberEntry(f, p) \in Task /\ FiberEntry(f, p).fiber # NoFiber
                             /\ FiberEntry(f, p).thread = p
      BY <3>1, EntryType, ProgramAssumption DEF Task, FiberEntry
    <3> QED BY <2>1, <3>2, <3>3 DEF schedule
  <2>3. p = AnyThread BY DEF AllShared
  <2>4. AnyOnly' BY <2>2, <2>3, AppendEntries DEF AnyOnly, TypeOK
  <2>5. pc' = pc /\ pc[Caller] = "main" BY <1>1 DEF Submit
  <2> QED BY <2>4, <2>5 DEF QueueServed, RunPC
<1>2. CASE SubmitBatch
  <2>1. PICK c \in Jobs, d \in Jobs :
          m_fibers' = m_fibers \o <<CbEntry(c, AnyThread), CbEntry(d, AnyThread)>>
    BY <1>2 DEF SubmitBatch
  <2>2. AnyOnly'
    BY <2>1 DEF AnyOnly, TypeOK, CbEntry
  <2>3. pc' = pc /\ pc[Caller] = "main" BY <1>2 DEF SubmitBatch
  <2> QED BY <2>2, <2>3 DEF QueueServed, RunPC
<1>3. CASE start \/ StopBegin \/ stop \/ Destroy \/ UNCHANGED vars
  <2>1. UNCHANGED m_fibers
    BY <1>3
    DEF start, StopBegin, stop, StopEarly, StopCheck, StopFlag, StopCall, StopNoCall, StopSwap,
        StopJoin, Destroy, GoOnly, queueVars, vars
  <2>2. AnyOnly' BY <2>1 DEF AnyOnly
  <2>3. CASE StopFlag
    <3>1. CASE UseCaller
      <4>1. pc'[Caller] = "stopCall" BY <2>3, <3>1 DEF StopFlag, Goto, TypeOK
      <4> QED BY <2>2, <4>1 DEF QueueServed, RunPC
    <3>2. CASE ~UseCaller
      <4>1. PICK w \in pool : w \in Workers BY <3>2 DEF PoolPhases, TypeOK
      <4>2. pc[w] \in RunPC /\ ~idleTerm[w]
        BY <2>3, <3>2, <4>1 DEF StopFlag, OwnerOK, PoolPhases
      <4>3. w \in Threads /\ pc'[w] = pc[w] /\ idleTerm' = idleTerm
        BY <2>3, <4>1 DEF StopFlag, Goto, TypeOK, Threads, localVars
      <4> QED BY <2>2, <4>2, <4>3 DEF QueueServed, Serves
    <3> QED BY <3>1, <3>2
  <2>4. CASE StopSwap
    <3>1. /\ pc[Caller] = "swap" /\ idleTerm' = idleTerm
          /\ \A t \in Threads \ {Caller} : pc'[t] = pc[t]
      BY <2>4 DEF StopSwap, Goto, TypeOK, localVars
    <3>2. ~Serves(Caller) BY <3>1 DEF Serves, RunPC
    <3> QED BY <2>1, <2>2, <3>1, <3>2 DEF QueueServed, Serves
  <2>5. CASE start \/ StopBegin \/ StopEarly \/ StopCheck \/ StopJoin \/ Destroy
    <3>1. pc'[Caller] \notin RunPC \cup {"swap", "join"}
      BY <2>5
      DEF start, StopBegin, StopEarly, StopCheck, StopJoin, Destroy, GoOnly, Goto, TypeOK, RunPC
    <3> QED BY <2>2, <3>1 DEF QueueServed
  <2>6. CASE StopNoCall
    BY <2>1, <2>2, <2>6 DEF StopNoCall, Stopping, QueueServed
  <2>8. CASE StopCall
    <3>1. pc'[Caller] = "pick" BY <2>8 DEF StopCall, Goto, TypeOK
    <3> QED BY <2>2, <3>1 DEF QueueServed, Serves, RunPC
  <2>7. CASE UNCHANGED vars
    BY <2>2, <2>7 DEF vars, queueVars, localVars, QueueServed, Serves
  <2> QED BY <1>3, <2>3, <2>4, <2>5, <2>6, <2>7, <2>8 DEF stop
<1> QED BY <1>1, <1>2, <1>3

-----------------------------------------------------------------------------
(***************************************************************************)
(* A callback that was scheduled and has not ended is in the queue or      *)
(* carried by a thread of run().                                           *)
(***************************************************************************)
EntryFor(e, c) == IF e.fiber # NoFiber THEN m_cb[e.fiber] = c ELSE e.cb = c
InQueue(c) == \E k \in DOMAIN m_fibers : EntryFor(m_fibers[k], c)
Carries(t, c) ==
    \/ pc[t] = "reset" /\ ft[t].cb = c
    \/ HoldsFiber(t) /\ m_cb[Cur(t)] = c /\ m_state[Cur(t)] \notin FinishedStates

JobsKept == \A c \in sent \ done : InQueue(c) \/ \E t \in Threads : Carries(t, c)

DrainInv == ServedInv /\ JobsKept

(***************************************************************************)
(* The step of a thread that leaves the others and the fibers they and the *)
(* queue refer to alone, keeps every entry or takes it up, and accounts    *)
(* for what it carried and what it schedules.                              *)
(***************************************************************************)
LEMMA JobStep ==
    ASSUME TypeInv, Ownership, JobsKept, NEW t \in Threads,
           \A u \in Threads \ {t} :
                pc'[u] = pc[u] /\ ft'[u] = ft[u] /\ cb_fiber'[u] = cb_fiber[u],
           \A g \in Fibers : g \in QueueRefs \/ (\E u \in Threads \ {t} : g \in Refs(u))
                => m_cb'[g] = m_cb[g] /\ m_state'[g] = m_state[g],
           \A k \in DOMAIN m_fibers, c \in Jobs :
                \/ \E j \in DOMAIN m_fibers' : m_fibers'[j] = m_fibers[k]
                \/ EntryFor(m_fibers[k], c) => Carries(t, c)',
           sent' \subseteq Jobs,
           \A c \in sent' \ done' :
                \/ c \in sent \ done /\ ~Carries(t, c)
                \/ InQueue(c)' \/ Carries(t, c)'
    PROVE  JobsKept'
<1> USE DEF TypeInv
<1> SUFFICES ASSUME NEW c \in Jobs, c \in sent \ done, ~Carries(t, c)
             PROVE  InQueue(c)' \/ \E u \in Threads : Carries(u, c)'
  BY DEF JobsKept
<1>1. CASE InQueue(c)
  <2>1. PICK k \in DOMAIN m_fibers : EntryFor(m_fibers[k], c) BY <1>1 DEF InQueue
  <2>2. CASE \E j \in DOMAIN m_fibers' : m_fibers'[j] = m_fibers[k]
    <3>1. PICK j \in DOMAIN m_fibers' : m_fibers'[j] = m_fibers[k] BY <2>2
    <3>2. m_fibers[k].fiber # NoFiber =>
            m_fibers[k].fiber \in QueueRefs /\ m_fibers[k].fiber \in Fibers
      BY RefsAreFibers DEF QueueRefs
    <3>3. EntryFor(m_fibers[j], c)' BY <2>1, <3>1, <3>2 DEF EntryFor
    <3> QED BY <3>3 DEF InQueue
  <2>3. CASE Carries(t, c)' BY <2>3
  <2> QED BY <2>1, <2>2, <2>3
<1>2. CASE \E u \in Threads : Carries(u, c)
  <2>1. PICK u \in Threads \ {t} : Carries(u, c) BY <1>2
  <2>2. Cur(u)' = Cur(u) BY DEF Cur
  <2>3. HoldsFiber(u) => m_cb'[Cur(u)] = m_cb[Cur(u)] /\ m_state'[Cur(u)] = m_state[Cur(u)]
    BY RefsOfCur
  <2>4. Carries(u, c)' BY <2>1, <2>2, <2>3 DEF Carries, HoldsFiber
  <2> QED BY <2>4
<1> QED BY <1>1, <1>2 DEF JobsKept

\* The steps that move an entry between the queue and a thread.
LEMMA MoveJobs ==
    ASSUME NoHold, DrainInv, NEW t \in Threads,
           Pick(t) \/ ResetCbFiber(t) \/ BodySpawn(t) \/ SettleReady(t)
    PROVE  JobsKept'
<1> USE DEF DrainInv, ServedInv, PoolInv, TypeInv
<1>1. \A u \in Threads \ {t} :
        pc'[u] = pc[u] /\ ft'[u] = ft[u] /\ cb_fiber'[u] = cb_fiber[u]
  BY DEF Pick, ResetCbFiber, BodySpawn, SettleReady, DropFiber, Goto, TypeOK, localVars
<1>2. ft[t].fiber # NoFiber => HoldsFiber(t) BY DEF Ownership, EntryOK
<1>3. CASE Pick(t)
  <2>1. PICK k \in DOMAIN m_fibers :
          /\ ft' = [ft EXCEPT ![t] = m_fibers[k]]
          /\ Take(k)
          /\ Goto(t, IF m_fibers[k].fiber # NoFiber THEN "dispatch" ELSE "reset")
    BY <1>3 DEF Pick
  <2>2. UNCHANGED <<m_state, m_cb, sent, done>> /\ pc[t] = "pick"
    BY <1>3 DEF Pick, fiberVars, jobVars
  <2>3. ft'[t] = m_fibers[k]
        /\ pc'[t] = IF m_fibers[k].fiber # NoFiber THEN "dispatch" ELSE "reset"
    BY <2>1 DEF Goto, TypeOK
  <2>4. ASSUME NEW c \in Jobs, EntryFor(m_fibers[k], c) PROVE Carries(t, c)'
    <3>1. CASE m_fibers[k].fiber # NoFiber
      <4>1. Cur(t)' = m_fibers[k].fiber /\ Cur(t)' \in QueueRefs
        BY <2>3, <3>1 DEF Cur, QueueRefs
      <4>2. Resumable(Cur(t)') BY <4>1 DEF Ownership
      <4> QED
        BY <2>2, <2>3, <2>4, <3>1, <4>1, <4>2
        DEF EntryFor, Carries, HoldsFiber, HoldPC, Resumable, FinishedStates
    <3>2. CASE m_fibers[k].fiber = NoFiber
      BY <2>3, <2>4, <3>2 DEF EntryFor, Carries
    <3> QED BY <3>1, <3>2
  <2>5. \A i \in DOMAIN m_fibers \ {k} : \E j \in DOMAIN m_fibers' : m_fibers'[j] = m_fibers[i]
    BY <2>1, RemoveEntries DEF Take, TypeOK
  <2>6. \A c \in Jobs : ~Carries(t, c) BY <2>2 DEF Carries, HoldsFiber, HoldPC
  <2> QED BY <1>1, <2>2, <2>4, <2>5, <2>6, JobStep DEF TypeOK
<1>4. CASE ResetCbFiber(t)
  <2>1. PICK f \in Fibers :
          /\ IF cb_fiber[t] # NoFiber THEN f = cb_fiber[t] ELSE ~Referenced(f)
          /\ Prepare(f, ft[t].cb)
          /\ cb_fiber' = [cb_fiber EXCEPT ![t] = f]
    BY <1>4 DEF ResetCbFiber
  <2>2. UNCHANGED <<m_fibers, ft, sent, done>> /\ pc[t] = "reset" /\ pc'[t] = "swapIn"
    BY <1>4 DEF ResetCbFiber, queueVars, jobVars, Goto, TypeOK
  <2>3. f \notin QueueRefs /\ \A u \in Threads \ {t} : f \notin Refs(u)
    <3>1. CASE cb_fiber[t] # NoFiber
      <4>1. f \in Refs(t) BY <2>1, <3>1 DEF Refs
      <4> QED BY <4>1 DEF Ownership, PlacesApart
    <3>2. CASE cb_fiber[t] = NoFiber BY <2>1, <3>2, UnreferencedApart
    <3> QED BY <3>1, <3>2
  <2>4. \A g \in Fibers \ {f} : m_cb'[g] = m_cb[g] /\ m_state'[g] = m_state[g]
    BY <2>1 DEF Prepare, TypeOK, FiberTypeOK
  <2>5. Cur(t)' = f /\ m_cb'[f] = ft[t].cb /\ m_state'[f] = "INIT"
    BY <1>2, <2>1, <2>2 DEF Cur, Prepare, TypeOK, FiberTypeOK, HoldsFiber, HoldPC
  <2>6. \A c \in Jobs : Carries(t, c) => Carries(t, c)'
    BY <2>2, <2>5 DEF Carries, HoldsFiber, HoldPC, FinishedStates
  <2> QED BY <1>1, <2>2, <2>3, <2>4, <2>6, JobStep DEF TypeOK
<1>5. CASE BodySpawn(t)
  <2>1. PICK d \in Jobs \ sent, p \in Pins : schedule(CbEntry(d, p)) /\ sent' = sent \cup {d}
    BY <1>5 DEF BodySpawn
  <2>2. CbEntry(d, p) \in Task /\ CbEntry(d, p).fiber = NoFiber /\ CbEntry(d, p).cb = d
        /\ d # NoJob
    BY EntryType, ThreadsAssumption, NoJobAssumption DEF Task, CbEntry
  <2>3. m_fibers' = Append(m_fibers, CbEntry(d, p)) BY <2>1, <2>2 DEF schedule
  <2>4. UNCHANGED <<m_state, m_cb, pc, ft, cb_fiber, done>>
    BY <1>5 DEF BodySpawn, fiberVars, localVars
  <2>5. InQueue(d)' BY <2>2, <2>3, AppendEntries DEF InQueue, EntryFor, TypeOK
  <2>6. \A c \in Jobs : Carries(t, c) => Carries(t, c)'
    BY <2>4 DEF Carries, HoldsFiber, Cur
  <2>7. \A k \in DOMAIN m_fibers : \E j \in DOMAIN m_fibers' : m_fibers'[j] = m_fibers[k]
    BY <2>2, <2>3, AppendEntries DEF TypeOK
  <2> QED BY <1>1, <2>1, <2>4, <2>5, <2>6, <2>7, JobStep DEF TypeOK
<1>6. CASE SettleReady(t)
  <2>1. HoldsFiber(t) /\ pc[t] = "settle" BY <1>6 DEF SettleReady, HoldsFiber, HoldPC
  <2>2. PICK f \in Fibers : f = Cur(t) /\ f # NoFiber
    BY <2>1, RefsOfCur, ProgramAssumption
  <2>3. FiberEntry(f, AnyThread) \in Task /\ FiberEntry(f, AnyThread).fiber = f
    BY <2>2, EntryType DEF Task, FiberEntry
  <2>4. m_fibers' = Append(m_fibers, FiberEntry(f, AnyThread))
    BY <1>6, <2>2, <2>3 DEF SettleReady, schedule
  <2>5. UNCHANGED <<m_state, m_cb, sent, done>> BY <1>6 DEF SettleReady, fiberVars, jobVars
  <2>6. \A c \in Jobs : Carries(t, c) => InQueue(c)'
    BY <2>1, <2>2, <2>3, <2>4, <2>5, AppendEntries DEF Carries, InQueue, EntryFor, TypeOK
  <2>7. \A k \in DOMAIN m_fibers : \E j \in DOMAIN m_fibers' : m_fibers'[j] = m_fibers[k]
    BY <2>3, <2>4, AppendEntries DEF TypeOK
  <2> QED BY <1>1, <2>5, <2>6, <2>7, JobStep DEF TypeOK
<1> QED BY <1>3, <1>4, <1>5, <1>6

\* The steps in which a thread works with what it has taken.
LEMMA WorkJobs ==
    ASSUME NoHold, DrainInv, NEW t \in Threads,
           \/ PickNothing(t) \/ Idle(t) \/ Exit(t) \/ Dispatch(t) \/ LeaveActive(t)
           \/ SettleFinished(t)
           \/ SwapIn(t) \/ YieldToReady(t) \/ BodyReturn(t) \/ BodyThrow(t) \/ SwapOut(t)
    PROVE  JobsKept'
<1> USE DEF DrainInv, ServedInv, PoolInv, TypeInv
<1>1. \A u \in Threads \ {t} :
        pc'[u] = pc[u] /\ ft'[u] = ft[u] /\ cb_fiber'[u] = cb_fiber[u]
  BY DEF PickNothing, Idle, Exit, Dispatch, LeaveActive, SettleFinished, SwapIn, YieldToReady,
         Yield, BodyReturn, BodyThrow, SwapOut, GoOnly, Goto, TypeOK, localVars
<1>2. UNCHANGED <<m_fibers, sent>> /\ done \subseteq done'
  BY DEF PickNothing, Idle, Exit, Dispatch, LeaveActive, SettleFinished, SwapIn, YieldToReady,
         Yield, BodyReturn, BodyThrow, SwapOut, GoOnly, queueVars, jobVars
<1>3. CASE PickNothing(t) \/ Idle(t) \/ Exit(t)
  <2>1. UNCHANGED <<m_state, m_cb>> /\ pc[t] \in {"pick", "idle"}
    BY <1>3 DEF PickNothing, Idle, Exit, fiberVars
  <2>2. \A c \in Jobs : ~Carries(t, c) BY <2>1 DEF Carries, HoldsFiber, HoldPC
  <2> QED BY <1>1, <1>2, <2>1, <2>2, JobStep DEF TypeOK
<1>4. CASE Dispatch(t) \/ LeaveActive(t)
  <2>1. UNCHANGED <<m_state, m_cb, ft, cb_fiber>> BY <1>4 DEF Dispatch, LeaveActive, GoOnly,
        fiberVars, localVars
  <2>2. HoldsFiber(t) /\ (pc[t] # "reset")
    BY <1>4 DEF Dispatch, LeaveActive, HoldsFiber, HoldPC
  <2>3. m_state[ft[t].fiber] \notin FinishedStates \/ pc[t] = "leave"
    BY <1>4 DEF Dispatch, LeaveActive, Ownership, CurOK, EntryOK, Cur, Resumable, FinishedStates
  <2>4. HoldsFiber(t)'
    BY <1>4, <2>3
    DEF Dispatch, LeaveActive, GoOnly, Goto, TypeOK, HoldsFiber, HoldPC
  <2>5. \A c \in Jobs : Carries(t, c) => Carries(t, c)'
    BY <2>1, <2>2, <2>4 DEF Carries, Cur
  <2> QED BY <1>1, <1>2, <2>1, <2>5, JobStep DEF TypeOK
<1>5. ASSUME HoldsFiber(t), pc[t] # "reset",
             \A g \in Fibers \ {Cur(t)} : m_cb'[g] = m_cb[g] /\ m_state'[g] = m_state[g],
             \A c \in sent' \ done' : Carries(t, c) => Carries(t, c)'
      PROVE  JobsKept'
  <2>1. Cur(t) \in Refs(t) BY <1>5, RefsOfCur
  <2>2. Cur(t) \notin QueueRefs /\ \A u \in Threads \ {t} : Cur(t) \notin Refs(u)
    BY <2>1 DEF Ownership, PlacesApart
  <2>3. \A g \in Fibers : g \in QueueRefs \/ (\E u \in Threads \ {t} : g \in Refs(u))
          => m_cb'[g] = m_cb[g] /\ m_state'[g] = m_state[g]
    BY <1>5, <2>2
  <2>4. \A k \in DOMAIN m_fibers, c \in Jobs :
          \/ \E j \in DOMAIN m_fibers' : m_fibers'[j] = m_fibers[k]
          \/ EntryFor(m_fibers[k], c) => Carries(t, c)'
    BY <1>2
  <2>5. sent' \subseteq Jobs BY <1>2 DEF TypeOK
  <2>6. \A c \in sent' \ done' :
          (c \in sent \ done /\ ~Carries(t, c)) \/ InQueue(c)' \/ Carries(t, c)'
    BY <1>2, <1>5
  <2>7. TypeInv /\ Ownership /\ JobsKept OBVIOUS
  <2> HIDE DEF DrainInv, ServedInv, PoolInv, TypeInv
  <2> QED BY <1>1, <2>3, <2>4, <2>5, <2>6, <2>7, JobStep
<1>6. CASE SettleFinished(t)
  <2>1. pc[t] = "settle" /\ m_state[Cur(t)] \in FinishedStates BY <1>6 DEF SettleFinished
  <2>2. HoldsFiber(t) /\ \A c \in Jobs : ~Carries(t, c)
    BY <2>1 DEF Carries, HoldsFiber, HoldPC
  <2>3. \A g \in Fibers \ {Cur(t)} : m_cb'[g] = m_cb[g] /\ m_state'[g] = m_state[g]
    BY <1>6 DEF SettleFinished, Prepare, fiberVars, TypeOK, FiberTypeOK
  <2> QED BY <1>2, <1>5, <2>1, <2>2, <2>3 DEF TypeOK
<1>7. CASE SwapIn(t) \/ YieldToReady(t) \/ SwapOut(t)
  <2>1. HoldsFiber(t) /\ pc[t] # "reset" /\ UNCHANGED <<ft, cb_fiber, m_cb>>
    BY <1>7
    DEF SwapIn, YieldToReady, Yield, SwapOut, Enter, Leave, setState, localVars, HoldsFiber,
        HoldPC
  <2>2. Cur(t) \in Fibers /\ Cur(t)' = Cur(t) BY <2>1, RefsOfCur DEF Cur
  <2>3. \A g \in Fibers \ {Cur(t)} : m_cb'[g] = m_cb[g] /\ m_state'[g] = m_state[g]
    BY <1>7, <2>1
    DEF SwapIn, YieldToReady, Yield, SwapOut, Enter, Leave, setState, TypeOK, FiberTypeOK
  <2>4. HoldsFiber(t)'
    BY <1>7
    DEF SwapIn, YieldToReady, Yield, SwapOut, Goto, TypeOK, HoldsFiber, HoldPC
  <2>5. m_state'[Cur(t)] \in FinishedStates => m_state[Cur(t)] \in FinishedStates
    BY <1>7, <2>2
    DEF SwapIn, YieldToReady, Yield, SwapOut, Enter, Leave, setState, TypeOK, FiberTypeOK,
        FinishedStates
  <2>6. \A c \in Jobs : Carries(t, c) => Carries(t, c)'
    BY <2>1, <2>2, <2>4, <2>5 DEF Carries
  <2> QED BY <1>2, <1>5, <2>1, <2>3, <2>6 DEF TypeOK
<1>8. CASE BodyReturn(t) \/ BodyThrow(t)
  <2>1. HoldsFiber(t) /\ pc[t] = "body"
    BY <1>8 DEF BodyReturn, BodyThrow, HoldsFiber, HoldPC
  <2>2. \A g \in Fibers \ {Cur(t)} : m_cb'[g] = m_cb[g] /\ m_state'[g] = m_state[g]
    BY <1>8 DEF BodyReturn, BodyThrow, Return, Throw, TypeOK, FiberTypeOK
  <2>3. \A c \in Jobs \ done' : ~Carries(t, c)
    BY <1>8, <2>1, NoJobAssumption DEF BodyReturn, BodyThrow, Carries
  <2> QED BY <1>2, <1>5, <2>1, <2>2, <2>3 DEF TypeOK
<1> QED BY <1>3, <1>4, <1>6, <1>7, <1>8

\* Every step of run().
LEMMA RunJobs ==
    ASSUME NoHold, DrainInv, NEW t \in Threads, run(t)
    PROVE  JobsKept'
<1>1. ~SettleOther(t)
  BY DEF DrainInv, ServedInv, PoolInv, SettleOther, Ownership, CurOK
<1>2. ~YieldToHold(t) /\ ~BodyRegister(t) /\ ~BodyWake(t) /\ ~SetHold(t)
  BY OwnNoHoldSteps DEF DrainInv, ServedInv, PoolInv
<1> QED BY <1>1, <1>2, MoveJobs, WorkJobs DEF run, Body

\* A step of the owner: its own thread carries nothing, and what it schedules
\* is in the queue.
LEMMA OwnerJobs ==
    ASSUME DrainInv,
           start \/ Submit \/ SubmitBatch \/ StopBegin \/ stop \/ Destroy \/ UNCHANGED vars
    PROVE  JobsKept'
<1> USE DEF DrainInv, ServedInv, PoolInv, TypeInv
<1> Caller \in Threads /\ Caller \notin Workers
  BY ThreadsAssumption DEF Threads
<1>1. CASE Submit
  <2>1. UNCHANGED <<pc, ft, cb_fiber, done>> /\ pc[Caller] = "main"
    BY <1>1 DEF Submit, localVars
  <2>2. PICK c \in Jobs, p \in Pins :
          /\ sent' = sent \cup {c}
          /\ \/ schedule(CbEntry(c, p)) /\ UNCHANGED fiberVars
             \/ \E f \in Fibers : ~Referenced(f) /\ Prepare(f, c) /\ schedule(FiberEntry(f, p))
    BY <1>1 DEF Submit
  <2>3. p \in Threads \cup {AnyThread} BY ThreadsAssumption
  <2>4. \A d \in Jobs : ~Carries(Caller, d) BY <2>1 DEF Carries, HoldsFiber, HoldPC
  <2>5. CASE schedule(CbEntry(c, p)) /\ UNCHANGED fiberVars
    <3>1. CbEntry(c, p) \in Task /\ CbEntry(c, p).fiber = NoFiber /\ CbEntry(c, p).cb = c
          /\ c # NoJob
      BY <2>3, EntryType, NoJobAssumption DEF Task, CbEntry
    <3>2. m_fibers' = Append(m_fibers, CbEntry(c, p)) BY <2>5, <3>1 DEF schedule
    <3>3. InQueue(c)' BY <3>1, <3>2, AppendEntries DEF InQueue, EntryFor, TypeOK
    <3>4. \A k \in DOMAIN m_fibers : \E j \in DOMAIN m_fibers' : m_fibers'[j] = m_fibers[k]
      BY <3>1, <3>2, AppendEntries DEF TypeOK
    <3> QED BY <2>1, <2>2, <2>4, <2>5, <3>3, <3>4, JobStep DEF fiberVars, TypeOK
  <2>6. ASSUME NEW f \in Fibers, ~Referenced(f), Prepare(f, c), schedule(FiberEntry(f, p))
        PROVE  JobsKept'
    <3>1. FiberEntry(f, p) \in Task /\ FiberEntry(f, p).fiber = f /\ f # NoFiber
      BY <2>3, EntryType, ProgramAssumption DEF Task, FiberEntry
    <3>2. m_fibers' = Append(m_fibers, FiberEntry(f, p)) BY <2>6, <3>1 DEF schedule
    <3>3. f \notin QueueRefs /\ \A u \in Threads : f \notin Refs(u)
      BY <2>6, UnreferencedApart
    <3>4. /\ m_cb'[f] = c
          /\ \A g \in Fibers \ {f} : m_cb'[g] = m_cb[g] /\ m_state'[g] = m_state[g]
      BY <2>6 DEF Prepare, TypeOK, FiberTypeOK
    <3>5. InQueue(c)' BY <3>1, <3>2, <3>4, AppendEntries DEF InQueue, EntryFor, TypeOK
    <3>6. \A k \in DOMAIN m_fibers : \E j \in DOMAIN m_fibers' : m_fibers'[j] = m_fibers[k]
      BY <3>1, <3>2, AppendEntries DEF TypeOK
    <3>7. \A g \in Fibers : g \in QueueRefs \/ (\E u \in Threads \ {Caller} : g \in Refs(u))
            => m_cb'[g] = m_cb[g] /\ m_state'[g] = m_state[g]
      BY <3>3, <3>4
    <3>8. sent' \subseteq Jobs BY <2>2 DEF TypeOK
    <3>9. \A d \in sent' \ done' :
            (d \in sent \ done /\ ~Carries(Caller, d)) \/ InQueue(d)' \/ Carries(Caller, d)'
      BY <2>1, <2>2, <2>4, <3>5, <3>8
    <3>10. TypeInv /\ Ownership /\ JobsKept OBVIOUS
    <3> HIDE DEF DrainInv, ServedInv, PoolInv, TypeInv
    <3> QED BY <2>1, <3>6, <3>7, <3>8, <3>9, <3>10, JobStep
  <2> QED BY <2>2, <2>5, <2>6
<1>2. CASE SubmitBatch
  <2>1. UNCHANGED <<pc, ft, cb_fiber, done, m_cb, m_state>> /\ pc[Caller] = "main"
    BY <1>2 DEF SubmitBatch, localVars, fiberVars
  <2>2. PICK c \in Jobs, d \in Jobs :
          /\ m_fibers' = m_fibers \o <<CbEntry(c, AnyThread), CbEntry(d, AnyThread)>>
          /\ sent' = sent \cup {c, d}
    BY <1>2 DEF SubmitBatch
  <2>3. /\ Len(m_fibers) + 1 \in DOMAIN m_fibers' /\ Len(m_fibers) + 2 \in DOMAIN m_fibers'
        /\ m_fibers'[Len(m_fibers) + 1] = CbEntry(c, AnyThread)
        /\ m_fibers'[Len(m_fibers) + 2] = CbEntry(d, AnyThread)
    BY <2>2 DEF TypeOK
  <2>4. \A k \in DOMAIN m_fibers : k \in DOMAIN m_fibers' /\ m_fibers'[k] = m_fibers[k]
    BY <2>2 DEF TypeOK
  <2>5. InQueue(c)' /\ InQueue(d)' BY <2>3 DEF InQueue, EntryFor, CbEntry
  <2>6. \A e \in Jobs : ~Carries(Caller, e) BY <2>1 DEF Carries, HoldsFiber, HoldPC
  <2> QED BY <2>1, <2>2, <2>4, <2>5, <2>6, JobStep DEF TypeOK
<1>3. CASE start \/ StopBegin \/ stop \/ Destroy \/ UNCHANGED vars
  <2>1. UNCHANGED <<m_fibers, m_cb, m_state, ft, cb_fiber, sent, done>>
    BY <1>3
    DEF start, StopBegin, stop, StopEarly, StopCheck, StopFlag, StopCall, StopNoCall, StopSwap,
        StopJoin, Destroy, GoOnly, queueVars, localVars, jobVars, fiberVars, vars
  <2>2. \A u \in Threads : pc'[u] = pc[u] \/ pc[u] \in OwnerPC \cup {"none", "exited"}
    <3>1. CASE start
      <4>1. PoolExited BY <3>1 DEF start, Ownership, PoolOK
      <4> QED BY <3>1, <4>1 DEF start, PoolExited, TypeOK
    <3>2. CASE StopBegin \/ stop \/ Destroy \/ UNCHANGED vars
      BY <3>2
      DEF StopBegin, stop, StopEarly, StopCheck, StopFlag, StopCall, StopNoCall, StopSwap,
          StopJoin, Destroy, GoOnly, Goto, TypeOK, OwnerPC, vars
    <3> QED BY <1>3, <3>1, <3>2
  <2>3. \A u \in Threads, c \in Jobs : Carries(u, c) => Carries(u, c)'
    BY <2>1, <2>2 DEF Carries, HoldsFiber, HoldPC, Cur, OwnerPC
  <2>4. \A c \in Jobs : InQueue(c) => InQueue(c)' BY <2>1 DEF InQueue, EntryFor
  <2> QED BY <2>1, <2>3, <2>4 DEF JobsKept, TypeOK
<1> QED BY <1>1, <1>2, <1>3

\* Every step keeps callbacks kept and the queue served.
LEMMA DrainStep ==
    ASSUME NoHold, AllShared
    PROVE  DrainInv /\ [Next]_vars => DrainInv'
<1> SUFFICES ASSUME DrainInv, [Next]_vars PROVE DrainInv'
  OBVIOUS
<1>1. PoolInv' BY PoolInvStep DEF DrainInv, ServedInv
<1>2. AnyOnly' /\ QueueServed'
  BY RunServed, OwnerServed DEF DrainInv, Next, Finished
<1>3. JobsKept' BY RunJobs, OwnerJobs DEF Next, Finished
<1> QED BY <1>1, <1>2, <1>3 DEF DrainInv, ServedInv

\* When stop() returns no thread is left to serve the queue or to carry a
\* callback: the queue is empty and every callback has ended.
LEMMA DrainsFollows == ASSUME DrainInv PROVE StopDrains
<1> USE DEF DrainInv, ServedInv, PoolInv, TypeInv
<1> SUFFICES ASSUME StopReturning PROVE m_fibers = <<>> /\ sent \ done = {}
  BY DEF StopDrains
<1>1. PoolExited
  <2>1. pc[Caller] = "stopCheck" => PoolExited BY DEF OwnerInv, PoolPhases, PoolExited
  <2> QED BY <2>1 DEF StopReturning
<1>2. \A t \in Threads : pc[t] \in {"none", "exited", "join", "stopCheck"}
  BY <1>1 DEF StopReturning, PoolExited, Threads
<1>3. m_fibers = <<>>
  BY <1>2 DEF StopReturning, Stopping, QueueServed, Serves, RunPC
<1>4. \A t \in Threads, c \in Jobs : ~Carries(t, c)
  BY <1>2 DEF Carries, HoldsFiber, HoldPC
<1>5. \A c \in Jobs : ~InQueue(c) BY <1>3 DEF InQueue
<1> QED BY <1>3, <1>4, <1>5 DEF JobsKept, TypeOK

(***************************************************************************)
(* stop() returns only when every callback scheduled on the pool has run   *)
(* to its end, the ones callbacks scheduled on the way included: the       *)
(* window in run() between --m_activeThreadCount and schedule() loses      *)
(* nothing, because the thread that passes through it scans once more.     *)
(***************************************************************************)
THEOREM Drains ==
    ASSUME NoHold, AllShared
    PROVE  Spec => []StopDrains
<1>1. Init => DrainInv
  <2>1. Init => AnyOnly /\ QueueServed /\ JobsKept
    BY DEF Init, AnyOnly, QueueServed, JobsKept
  <2> QED BY <2>1, InitPool DEF DrainInv, ServedInv
<1>2. DrainInv /\ [Next]_vars => DrainInv' BY DrainStep
<1>3. DrainInv => StopDrains BY DrainsFollows
<1> QED BY <1>1, <1>2, <1>3, PTL DEF Spec

-----------------------------------------------------------------------------
(***************************************************************************)
(* Where callbacks are.                                                    *)
(***************************************************************************)

\* The callback an entry stands for, and whether it was begun, given what
\* fibers hold.
JobOf(e, cbs) == IF e.fiber # NoFiber THEN cbs[e.fiber] ELSE e.cb
BegunOf(e, contexts) == e.fiber # NoFiber /\ contexts[e.fiber] # "fresh"
EntryJob(k) == JobOf(m_fibers[k], m_cb)

\* A thread that has a callback to begin or to go on with, and which one.
Busy(t) == pc[t] = "reset" \/ (HoldsFiber(t) /\ m_state[Cur(t)] \notin FinishedStates)
JobAt(t) == IF pc[t] = "reset" THEN ft[t].cb ELSE m_cb[Cur(t)]
BegunAt(t) == pc[t] # "reset" /\ ctx[Cur(t)] # "fresh"

\* Thread t is inside callback c.
Executes(t, c) == pc[t] = "body" /\ m_cb[Cur(t)] = c

\* The entries of the queue are for different callbacks that have not ended;
\* those with a fiber that was entered were begun.
QueueJobs ==
    /\ \A k \in DOMAIN m_fibers :
        /\ EntryJob(k) \in sent \ done
        /\ runs[EntryJob(k)] # 0 <=> BegunOf(m_fibers[k], ctx)
    /\ \A i, k \in DOMAIN m_fibers : i # k => EntryJob(i) # EntryJob(k)

\* So are the callbacks that threads have, and those are in no entry.
ThreadJobs ==
    /\ \A t \in Threads : Busy(t) =>
        /\ JobAt(t) \in sent \ done
        /\ runs[JobAt(t)] # 0 <=> BegunAt(t)
        /\ \A k \in DOMAIN m_fibers : EntryJob(k) # JobAt(t)
    /\ \A t, u \in Threads : t # u /\ Busy(t) /\ Busy(u) => JobAt(t) # JobAt(u)

(***************************************************************************)
(* No callback is in two places, which with JobsKept says it is in one.    *)
(***************************************************************************)
JobsApart ==
    /\ done \subseteq sent
    /\ \A c \in Jobs \ sent : runs[c] = 0
    /\ QueueJobs
    /\ ThreadJobs

-----------------------------------------------------------------------------
\* What thread t does leaves the other threads alone, and the fibers they and
\* the queue refer to.
Alone(t) ==
    /\ \A u \in Threads \ {t} : pc'[u] = pc[u] /\ ft'[u] = ft[u] /\ cb_fiber'[u] = cb_fiber[u]
    /\ \A g \in Fibers : g \in QueueRefs \/ (\E u \in Threads \ {t} : g \in Refs(u))
        => m_cb'[g] = m_cb[g] /\ m_state'[g] = m_state[g] /\ ctx'[g] = ctx[g]

\* Such a step leaves the other threads and the queue with their callbacks.
LEMMA OthersKept ==
    ASSUME TypeInv, NEW t \in Threads, Alone(t)
    PROVE  /\ \A u \in Threads \ {t} :
                /\ Busy(u)' <=> Busy(u)
                /\ Busy(u) => JobAt(u)' = JobAt(u) /\ (BegunAt(u)' <=> BegunAt(u))
           /\ \A u \in Threads \ {t}, c \in Jobs : Executes(u, c)' <=> Executes(u, c)
           /\ \A k \in DOMAIN m_fibers :
                /\ JobOf(m_fibers[k], m_cb') = EntryJob(k)
                /\ BegunOf(m_fibers[k], ctx') <=> BegunOf(m_fibers[k], ctx)
<1> USE DEF TypeInv
<1>1. ASSUME NEW u \in Threads \ {t}
      PROVE  /\ Busy(u)' <=> Busy(u)
             /\ Busy(u) => JobAt(u)' = JobAt(u) /\ (BegunAt(u)' <=> BegunAt(u))
             /\ \A c \in Jobs : Executes(u, c)' <=> Executes(u, c)
  <2>1. pc'[u] = pc[u] /\ ft'[u] = ft[u] /\ Cur(u)' = Cur(u) BY DEF Alone, Cur
  <2>2. CASE HoldsFiber(u)
    <3>1. Cur(u) \in Refs(u) /\ Cur(u) \in Fibers BY <2>2, RefsOfCur
    <3>2. /\ m_cb'[Cur(u)] = m_cb[Cur(u)] /\ m_state'[Cur(u)] = m_state[Cur(u)]
          /\ ctx'[Cur(u)] = ctx[Cur(u)]
      BY <3>1 DEF Alone
    <3> QED BY <2>1, <3>2 DEF Busy, JobAt, BegunAt, Executes, HoldsFiber
  <2>3. CASE ~HoldsFiber(u)
    BY <2>1, <2>3 DEF Busy, JobAt, BegunAt, Executes, HoldsFiber, HoldPC
  <2> QED BY <2>2, <2>3
<1>2. ASSUME NEW k \in DOMAIN m_fibers
      PROVE  /\ JobOf(m_fibers[k], m_cb') = EntryJob(k)
             /\ BegunOf(m_fibers[k], ctx') <=> BegunOf(m_fibers[k], ctx)
  <2>1. m_fibers[k].fiber # NoFiber => m_fibers[k].fiber \in QueueRefs
    BY DEF QueueRefs
  <2>2. QueueRefs \subseteq Fibers BY RefsAreFibers
  <2> QED BY <2>1, <2>2 DEF Alone, JobOf, BegunOf, EntryJob
<1> QED BY <1>1, <1>2

\* A callback that is executed has not ended.
LEMMA BodyIsBusy ==
    ASSUME Ownership, NEW t \in Threads, pc[t] = "body"
    PROVE  Busy(t) /\ BegunAt(t) /\ JobAt(t) = m_cb[Cur(t)] /\ HoldsFiber(t)
BY DEF Ownership, CurOK, Busy, JobAt, BegunAt, HoldsFiber, HoldPC, FinishedStates

-----------------------------------------------------------------------------
\* A step that leaves the queue: the thread begins, goes on with or ends what
\* it has, or has nothing.
LEMMA KeepStep ==
    ASSUME TypeInv, Ownership, JobsApart, NEW t \in Threads, Alone(t), TypeInv',
           m_fibers' = m_fibers, sent' = sent, done \subseteq done',
           \A c \in Jobs : (c \in done' /\ c \notin done) \/ runs'[c] # runs[c]
                => Busy(t) /\ c = JobAt(t),
           Busy(t)' => /\ Busy(t) /\ JobAt(t)' = JobAt(t) /\ JobAt(t) \notin done'
                       /\ runs'[JobAt(t)] # 0 <=> BegunAt(t)'
    PROVE  JobsApart'
<1> USE DEF TypeInv
<1> DEFINE Mine(c) == Busy(t) /\ c = JobAt(t)
<1>1. done' \subseteq Jobs /\ sent' \subseteq Jobs BY DEF TypeOK
<1>2. \A c \in Jobs : ~Mine(c) => (c \in done' <=> c \in done) /\ runs'[c] = runs[c]
  OBVIOUS
<1>3. Busy(t) => JobAt(t) \in sent BY DEF JobsApart, ThreadJobs
<1>4. done' \subseteq sent' BY <1>1, <1>2, <1>3 DEF JobsApart
<1>5. \A c \in Jobs \ sent' : runs'[c] = 0 BY <1>2, <1>3 DEF JobsApart
<1>6. \A k \in DOMAIN m_fibers : EntryJob(k)' = EntryJob(k)
                                 /\ (BegunOf(m_fibers[k], ctx') <=> BegunOf(m_fibers[k], ctx))
  BY OthersKept DEF EntryJob
<1>7. \A k \in DOMAIN m_fibers : EntryJob(k) \in Jobs /\ ~Mine(EntryJob(k))
  BY DEF JobsApart, QueueJobs, ThreadJobs, TypeOK
<1>8. QueueJobs'
  BY <1>2, <1>6, <1>7 DEF JobsApart, QueueJobs
<1>9. ASSUME NEW u \in Threads, Busy(u)'
      PROVE  /\ Busy(u) /\ JobAt(u)' = JobAt(u)
             /\ JobAt(u) \in sent' \ done'
             /\ runs'[JobAt(u)] # 0 <=> BegunAt(u)'
  <2>1. CASE u = t BY <1>3, <1>9, <2>1
  <2>2. CASE u # t
    <3>1. Busy(u) /\ JobAt(u)' = JobAt(u) /\ (BegunAt(u)' <=> BegunAt(u))
      BY <1>9, <2>2, OthersKept
    <3>2. JobAt(u) \in sent \ done /\ (runs[JobAt(u)] # 0 <=> BegunAt(u))
      BY <3>1 DEF JobsApart, ThreadJobs
    <3>3. JobAt(u) \in Jobs /\ ~Mine(JobAt(u))
      BY <2>2, <3>1, <3>2 DEF JobsApart, ThreadJobs, TypeOK
    <3> QED BY <1>2, <3>1, <3>2, <3>3
  <2> QED BY <2>1, <2>2
<1> HIDE DEF Mine
<1>10. ThreadJobs'
  BY <1>6, <1>9 DEF JobsApart, ThreadJobs
<1> QED BY <1>4, <1>5, <1>8, <1>10 DEF JobsApart

\* A step that takes entry k of the queue up.
LEMMA TakeStep ==
    ASSUME TypeInv, Ownership, JobsApart, NEW t \in Threads, Alone(t),
           NEW k \in DOMAIN m_fibers, m_fibers' = RemoveAt(m_fibers, k),
           sent' = sent, done' = done, runs' = runs,
           JobAt(t)' = EntryJob(k), BegunAt(t)' <=> BegunOf(m_fibers[k], ctx)
    PROVE  JobsApart'
<1> USE DEF TypeInv
<1> DEFINE q == m_fibers
           r == RemoveAt(m_fibers, k)
           Old(i) == IF i < k THEN i ELSE i + 1
<1>1. /\ r \in Seq(Task) /\ Len(r) = Len(q) - 1
      /\ \A i \in 1..(Len(q) - 1) : r[i] = IF i < k THEN q[i] ELSE q[i + 1]
  BY RemoveAtIsSeq DEF TypeOK
<1>2. r = m_fibers' OBVIOUS
<1> HIDE DEF r
<1>3. Len(q) \in Nat /\ k \in 1..Len(q) /\ DOMAIN q = 1..Len(q)
      /\ DOMAIN r = 1..(Len(q) - 1)
  BY <1>1 DEF TypeOK
<1>4. \A i \in DOMAIN r : Old(i) \in DOMAIN q /\ Old(i) # k /\ r[i] = q[Old(i)]
  BY <1>1, <1>3
<1>5. \A i, j \in DOMAIN r : i # j => Old(i) # Old(j)
  BY <1>3
<1> HIDE DEF Old
<1>6. \A i \in DOMAIN r : /\ EntryJob(i)' = EntryJob(Old(i))
                          /\ BegunOf(r[i], ctx') <=> BegunOf(q[Old(i)], ctx)
  BY <1>2, <1>4, OthersKept DEF EntryJob
<1> HIDE DEF q
<1>7. QueueJobs'
  <2>1. \A i \in DOMAIN r : /\ EntryJob(i)' \in sent' \ done'
                            /\ runs'[EntryJob(i)'] # 0 <=> BegunOf(r[i], ctx')
    BY <1>4, <1>6 DEF JobsApart, QueueJobs, q
  <2>2. \A i, j \in DOMAIN r : i # j => EntryJob(i)' # EntryJob(j)'
    BY <1>4, <1>5, <1>6 DEF JobsApart, QueueJobs, q
  <2> QED BY <1>2, <2>1, <2>2 DEF QueueJobs
<1>8. /\ EntryJob(k) \in sent \ done /\ (runs[EntryJob(k)] # 0 <=> BegunOf(m_fibers[k], ctx))
      /\ \A i \in DOMAIN r : EntryJob(i)' # EntryJob(k)
      /\ \A u \in Threads \ {t} : Busy(u) => JobAt(u) # EntryJob(k)
  BY <1>4, <1>6 DEF JobsApart, QueueJobs, ThreadJobs, q
<1>9. \A u \in Threads \ {t} : Busy(u)' =>
        /\ Busy(u) /\ JobAt(u)' = JobAt(u) /\ (BegunAt(u)' <=> BegunAt(u))
  BY OthersKept
<1>10. \A u \in Threads \ {t} : Busy(u)' =>
        /\ JobAt(u)' \in sent' \ done'
        /\ runs'[JobAt(u)'] # 0 <=> BegunAt(u)'
        /\ \A i \in DOMAIN r : EntryJob(i)' # JobAt(u)'
        /\ JobAt(u)' # JobAt(t)'
  BY <1>4, <1>6, <1>8, <1>9 DEF JobsApart, ThreadJobs, q
<1>11. ThreadJobs'
  <2>1. \A u \in Threads : Busy(u)' =>
          /\ JobAt(u)' \in sent' \ done'
          /\ runs'[JobAt(u)'] # 0 <=> BegunAt(u)'
          /\ \A i \in DOMAIN r : EntryJob(i)' # JobAt(u)'
    BY <1>8, <1>10
  <2>2. \A u, v \in Threads \ {t} : u # v /\ Busy(u)' /\ Busy(v)' => JobAt(u)' # JobAt(v)'
    BY <1>9 DEF JobsApart, ThreadJobs
  <2>3. \A u, v \in Threads : u # v /\ Busy(u)' /\ Busy(v)' => JobAt(u)' # JobAt(v)'
    BY <1>10, <2>2
  <2> QED BY <1>2, <2>1, <2>3 DEF ThreadJobs
<1> QED BY <1>7, <1>11 DEF JobsApart

\* A step that puts entries in the queue: for new callbacks, or for the one the
\* thread had.
LEMMA GiveStep ==
    ASSUME TypeInv, Ownership, JobsApart, NEW t \in Threads, Alone(t), TypeInv',
           NEW es \in Seq(Task), m_fibers' = m_fibers \o es,
           sent \subseteq sent', done' = done, runs' = runs,
           \A i \in DOMAIN es :
                LET c == JobOf(es[i], m_cb') IN
                /\ \/ c \in sent' \ sent
                   \/ Busy(t) /\ ~Busy(t)' /\ c = JobAt(t)
                /\ runs[c] # 0 <=> BegunOf(es[i], ctx')
                /\ \A j \in DOMAIN es : i # j => JobOf(es[j], m_cb') # c,
           Busy(t)' => Busy(t) /\ JobAt(t)' = JobAt(t) /\ (BegunAt(t)' <=> BegunAt(t))
    PROVE  JobsApart'
<1> USE DEF TypeInv
<1> PICK n : n = Len(m_fibers) OBVIOUS
<1> DEFINE q == m_fibers
           r == m_fibers \o es
           New(i) == JobOf(es[i], m_cb')
<1>1. /\ n \in Nat /\ DOMAIN q = 1..n /\ DOMAIN r = 1..(n + Len(es))
      /\ DOMAIN es = 1..Len(es) /\ Len(es) \in Nat
      /\ \A k \in 1..n : r[k] = q[k]
      /\ \A i \in 1..Len(es) : r[n + i] = es[i]
  BY DEF TypeOK
<1>2. r = m_fibers' OBVIOUS
<1> HIDE DEF r
<1>3. \A k \in DOMAIN r : k \in DOMAIN q \/ \E i \in DOMAIN es : k = n + i
  <2> SUFFICES ASSUME NEW k \in DOMAIN r, k \notin DOMAIN q
               PROVE  \E i \in DOMAIN es : k = n + i
    OBVIOUS
  <2>1. k - n \in DOMAIN es /\ k = n + (k - n) BY <1>1
  <2> QED BY <2>1
<1>4. \A k \in DOMAIN q : /\ k \in DOMAIN r /\ EntryJob(k)' = EntryJob(k)
                          /\ BegunOf(r[k], ctx') <=> BegunOf(q[k], ctx)
  BY <1>1, <1>2, OthersKept DEF EntryJob
<1>5. \A i \in DOMAIN es : EntryJob(n + i)' = New(i) /\ r[n + i] = es[i]
  BY <1>1, <1>2 DEF EntryJob
<1>6. sent' \subseteq Jobs BY DEF TypeOK
<1>7. done' \subseteq sent' /\ \A c \in Jobs \ sent' : runs'[c] = 0
  BY DEF JobsApart
<1>8. \A i \in DOMAIN es : New(i) \in sent' \ done' /\ (runs'[New(i)] # 0 <=> BegunOf(es[i], ctx'))
  BY DEF JobsApart, ThreadJobs
<1>9. \A i \in DOMAIN es, k \in DOMAIN q : New(i) # EntryJob(k)
  BY DEF JobsApart, QueueJobs, ThreadJobs
<1>10. \A i \in DOMAIN es, u \in Threads : Busy(u)' => New(i) # JobAt(u)'
  <2> SUFFICES ASSUME NEW i \in DOMAIN es, NEW u \in Threads, Busy(u)'
               PROVE  New(i) # JobAt(u)'
    OBVIOUS
  <2>1. Busy(u) /\ JobAt(u)' = JobAt(u) BY OthersKept
  <2>2. JobAt(u) \in sent BY <2>1 DEF JobsApart, ThreadJobs
  <2> QED BY <2>1, <2>2 DEF JobsApart, ThreadJobs
<1>11. \A u \in Threads : Busy(u)' =>
        /\ Busy(u) /\ JobAt(u)' = JobAt(u) /\ (BegunAt(u)' <=> BegunAt(u))
  BY OthersKept
<1>12. \A i, j \in DOMAIN es : i # j => New(i) # New(j)
  OBVIOUS
<1> HIDE DEF New, q
<1>13. QueueJobs'
  <2>1. ASSUME NEW k \in DOMAIN r
        PROVE  EntryJob(k)' \in sent' \ done' /\ (runs'[EntryJob(k)'] # 0 <=> BegunOf(r[k], ctx'))
    <3>1. CASE k \in DOMAIN q
      BY <1>4, <3>1 DEF JobsApart, QueueJobs, q
    <3>2. CASE \E i \in DOMAIN es : k = n + i
      BY <1>5, <1>8, <3>2
    <3> QED BY <1>3, <3>1, <3>2
  <2>2. ASSUME NEW k \in DOMAIN r, NEW l \in DOMAIN r, k # l
        PROVE  EntryJob(k)' # EntryJob(l)'
    <3>1. CASE k \in DOMAIN q /\ l \in DOMAIN q
      BY <1>4, <2>2, <3>1 DEF JobsApart, QueueJobs, q
    <3>2. CASE k \in DOMAIN q /\ \E i \in DOMAIN es : l = n + i
      BY <1>4, <1>5, <1>9, <3>2
    <3>3. CASE l \in DOMAIN q /\ \E i \in DOMAIN es : k = n + i
      BY <1>4, <1>5, <1>9, <3>3
    <3>4. CASE (\E i \in DOMAIN es : k = n + i) /\ (\E i \in DOMAIN es : l = n + i)
      <4>1. PICK i \in DOMAIN es, j \in DOMAIN es : k = n + i /\ l = n + j BY <3>4
      <4>2. i # j BY <2>2, <4>1
      <4> QED BY <1>5, <1>12, <4>1, <4>2
    <3> QED BY <1>3, <3>1, <3>2, <3>3, <3>4
  <2> QED BY <1>2, <2>1, <2>2 DEF QueueJobs
<1>14. ThreadJobs'
  <2>1. ASSUME NEW u \in Threads, Busy(u)'
        PROVE  /\ JobAt(u)' \in sent' \ done'
               /\ runs'[JobAt(u)'] # 0 <=> BegunAt(u)'
               /\ \A k \in DOMAIN r : EntryJob(k)' # JobAt(u)'
    <3>1. /\ Busy(u) /\ JobAt(u)' = JobAt(u) /\ (BegunAt(u)' <=> BegunAt(u)) BY <1>11, <2>1
    <3>2. /\ JobAt(u) \in sent \ done /\ (runs[JobAt(u)] # 0 <=> BegunAt(u))
          /\ \A k \in DOMAIN q : EntryJob(k) # JobAt(u)
      BY <3>1 DEF JobsApart, ThreadJobs, q
    <3>3. ASSUME NEW k \in DOMAIN r PROVE EntryJob(k)' # JobAt(u)'
      <4>1. CASE k \in DOMAIN q BY <1>4, <3>1, <3>2, <4>1
      <4>2. CASE \E i \in DOMAIN es : k = n + i BY <1>5, <1>10, <2>1, <4>2
      <4> QED BY <1>3, <4>1, <4>2
    <3> QED BY <3>1, <3>2, <3>3
  <2>2. \A u, v \in Threads : u # v /\ Busy(u)' /\ Busy(v)' => JobAt(u)' # JobAt(v)'
    BY <1>11 DEF JobsApart, ThreadJobs
  <2> QED BY <1>2, <2>1, <2>2 DEF ThreadJobs
<1> QED BY <1>7, <1>13, <1>14 DEF JobsApart
-----------------------------------------------------------------------------
\* What other threads are at and refer to does not change in a step of run().
LEMMA RunOthers ==
    ASSUME TypeOK, NEW t \in Threads, run(t)
    PROVE  \A u \in Threads \ {t} :
             pc'[u] = pc[u] /\ ft'[u] = ft[u] /\ cb_fiber'[u] = cb_fiber[u]
<1>1. CASE Body(t) \/ SwapIn(t) \/ Dispatch(t) \/ LeaveActive(t) \/ SettleOther(t)
  BY <1>1
  DEF Body, SwapIn, Dispatch, LeaveActive, SettleOther, BodySpawn, BodyRegister, BodyWake,
      YieldToReady, YieldToHold, Yield, BodyReturn, BodyThrow, SwapOut, GoOnly, Goto, TypeOK,
      localVars
<1>2. CASE Pick(t) \/ PickNothing(t) \/ ResetCbFiber(t) \/ SettleReady(t)
           \/ SettleFinished(t) \/ SetHold(t) \/ Idle(t) \/ Exit(t)
  BY <1>2
  DEF Pick, PickNothing, ResetCbFiber, SettleReady, SettleFinished, SetHold, DropFiber, Idle,
      Exit, Goto, TypeOK
<1> QED BY <1>1, <1>2 DEF run

\* Every step of run() leaves the others alone.
LEMMA RunAlone ==
    ASSUME NoHold, TypeInv, Ownership, NEW t \in Threads, run(t)
    PROVE  Alone(t)
<1> USE DEF TypeInv
<1>1. \A u \in Threads \ {t} : pc'[u] = pc[u] /\ ft'[u] = ft[u] /\ cb_fiber'[u] = cb_fiber[u]
  BY RunOthers
<1> DEFINE Others == {g \in Fibers : g \in QueueRefs \/ \E u \in Threads \ {t} : g \in Refs(u)}
           Same(g) == m_cb'[g] = m_cb[g] /\ m_state'[g] = m_state[g] /\ ctx'[g] = ctx[g]
<1>2. Refs(t) \cap Others = {}
  BY DEF Ownership, PlacesApart
<1>3. \A f \in Fibers : ~Referenced(f) => f \notin Others
  BY UnreferencedApart
<1>4. HoldsFiber(t) => Cur(t) \in Fibers \ Others
  BY <1>2, RefsOfCur
<1> HIDE DEF Others
<1>5. \A g \in Others : Same(g)
  <2>1. CASE UNCHANGED fiberVars BY <2>1 DEF fiberVars
  <2>2. CASE Pick(t) \/ PickNothing(t) \/ Dispatch(t) \/ BodySpawn(t) \/ LeaveActive(t)
             \/ SettleReady(t) \/ SettleOther(t) \/ Idle(t) \/ Exit(t)
    BY <2>1, <2>2
    DEF Pick, PickNothing, Dispatch, BodySpawn, LeaveActive, SettleReady, SettleOther, Idle,
        Exit, GoOnly
  <2>3. CASE ResetCbFiber(t)
    <3>1. PICK f \in Fibers :
            /\ IF cb_fiber[t] # NoFiber THEN f = cb_fiber[t] ELSE ~Referenced(f)
            /\ Prepare(f, ft[t].cb)
      BY <2>3 DEF ResetCbFiber
    <3>2. f \notin Others
      <4>1. CASE cb_fiber[t] # NoFiber BY <1>2, <3>1, <4>1 DEF Refs
      <4>2. CASE cb_fiber[t] = NoFiber BY <1>3, <3>1, <4>2
      <4> QED BY <4>1, <4>2
    <3> QED BY <3>1, <3>2 DEF Prepare, TypeOK, FiberTypeOK, Others
  <2>4. CASE SwapIn(t) \/ YieldToReady(t) \/ BodyReturn(t) \/ BodyThrow(t) \/ SwapOut(t)
    <3>1. HoldsFiber(t)
      BY <2>4
      DEF SwapIn, YieldToReady, Yield, BodyReturn, BodyThrow, SwapOut, HoldsFiber, HoldPC
    <3>2. \A g \in Fibers \ {Cur(t)} : Same(g)
      BY <2>4
      DEF SwapIn, YieldToReady, Yield, BodyReturn, BodyThrow, SwapOut, Enter, setState, Return,
          Throw, Leave, TypeOK, FiberTypeOK
    <3> QED BY <1>4, <3>1, <3>2 DEF Others
  <2>5. CASE SettleFinished(t)
    <3>1. HoldsFiber(t) BY <2>5 DEF SettleFinished, HoldsFiber, HoldPC
    <3>2. \A g \in Fibers \ {Cur(t)} : Same(g)
      BY <2>5 DEF SettleFinished, Prepare, fiberVars, TypeOK, FiberTypeOK
    <3> QED BY <1>4, <3>1, <3>2 DEF Others
  <2> QED BY <2>2, <2>3, <2>4, <2>5, OwnNoHoldSteps DEF run, Body
<1> QED BY <1>1, <1>5 DEF Alone, Others

\* The steps of run() that move an entry between the queue and a thread.
LEMMA MoveApart ==
    ASSUME NoHold, TypeInv, TypeInv', Ownership, JobsApart, NEW t \in Threads,
           Pick(t) \/ BodySpawn(t) \/ SettleReady(t)
    PROVE  JobsApart'
<1> USE DEF TypeInv
<1>1. Alone(t) BY RunAlone DEF run, Body
<1>2. CASE Pick(t)
  <2>1. PICK k \in DOMAIN m_fibers :
          /\ ft' = [ft EXCEPT ![t] = m_fibers[k]]
          /\ Take(k)
          /\ Goto(t, IF m_fibers[k].fiber # NoFiber THEN "dispatch" ELSE "reset")
    BY <1>2 DEF Pick
  <2>2. UNCHANGED <<m_cb, ctx, sent, done, runs>> BY <1>2 DEF Pick, fiberVars, jobVars
  <2>3. /\ ft'[t] = m_fibers[k]
        /\ pc'[t] = IF m_fibers[k].fiber # NoFiber THEN "dispatch" ELSE "reset"
    BY <2>1 DEF Goto, TypeOK
  <2>4. m_fibers[k].fiber # NoFiber => Cur(t)' = m_fibers[k].fiber BY <2>3 DEF Cur
  <2>5. JobAt(t)' = EntryJob(k) /\ (BegunAt(t)' <=> BegunOf(m_fibers[k], ctx))
    BY <2>2, <2>3, <2>4 DEF JobAt, BegunAt, EntryJob, JobOf, BegunOf
  <2> QED BY <1>1, <2>1, <2>2, <2>5, TakeStep DEF Take
<1>3. CASE BodySpawn(t)
  <2>1. PICK c \in Jobs \ sent, p \in Pins : schedule(CbEntry(c, p)) /\ sent' = sent \cup {c}
    BY <1>3 DEF BodySpawn
  <2>2. CbEntry(c, p) \in Task /\ CbEntry(c, p).fiber = NoFiber /\ CbEntry(c, p).cb = c
        /\ c # NoJob
    BY EntryType, ThreadsAssumption, NoJobAssumption DEF Task, CbEntry
  <2>10. <<CbEntry(c, p)>> \in Seq(Task) BY <2>2
  <2>3. PICK es \in Seq(Task) : es = <<CbEntry(c, p)>> BY <2>10
  <2>4. m_fibers' = m_fibers \o es BY <2>1, <2>2, <2>3 DEF schedule, TypeOK
  <2>5. UNCHANGED <<m_cb, m_state, ctx, pc, ft, cb_fiber, runs, done>>
    BY <1>3 DEF BodySpawn, fiberVars, localVars
  <2>6. DOMAIN es = {1} /\ es[1] = CbEntry(c, p) BY <2>3
  <2>7. JobOf(es[1], m_cb') = c /\ ~BegunOf(es[1], ctx') /\ runs[c] = 0
    BY <2>2, <2>6 DEF JobOf, BegunOf, JobsApart
  <2>8. c \in sent' \ sent BY <2>1
  <2>9. /\ Busy(t)' <=> Busy(t)
        /\ JobAt(t)' = JobAt(t) /\ (BegunAt(t)' <=> BegunAt(t))
    BY <2>5 DEF Busy, JobAt, BegunAt, HoldsFiber, Cur
  <2> QED BY <1>1, <2>1, <2>4, <2>5, <2>6, <2>7, <2>8, <2>9, GiveStep
<1>4. CASE SettleReady(t)
  <2>1. HoldsFiber(t) /\ pc[t] = "settle" /\ m_state[Cur(t)] = "READY"
    BY <1>4 DEF SettleReady, HoldsFiber, HoldPC
  <2>2. PICK f \in Fibers : f = Cur(t) /\ f # NoFiber
    BY <2>1, RefsOfCur, ProgramAssumption
  <2>3. FiberEntry(f, AnyThread) \in Task /\ FiberEntry(f, AnyThread).fiber = f
    BY <2>2, EntryType DEF Task, FiberEntry
  <2>11. <<FiberEntry(f, AnyThread)>> \in Seq(Task) BY <2>3
  <2>4. PICK es \in Seq(Task) : es = <<FiberEntry(f, AnyThread)>> BY <2>11
  <2>5. m_fibers' = m_fibers \o es
    BY <1>4, <2>2, <2>3, <2>4 DEF SettleReady, schedule, TypeOK
  <2>6. UNCHANGED <<m_state, m_cb, ctx, sent, done, runs>> /\ pc'[t] = "pick"
    BY <1>4 DEF SettleReady, fiberVars, jobVars, Goto, TypeOK
  <2>7. DOMAIN es = {1} /\ es[1] = FiberEntry(f, AnyThread) BY <2>4
  <2>8. Busy(t) /\ JobAt(t) = m_cb[f] /\ (BegunAt(t) <=> ctx[f] # "fresh") /\ ~Busy(t)'
    BY <2>1, <2>2, <2>6 DEF Busy, JobAt, BegunAt, HoldsFiber, HoldPC, FinishedStates
  <2>9. JobOf(es[1], m_cb') = JobAt(t) /\ (BegunOf(es[1], ctx') <=> BegunAt(t))
    BY <2>2, <2>3, <2>6, <2>7, <2>8 DEF JobOf, BegunOf
  <2>10. runs[JobAt(t)] # 0 <=> BegunAt(t) BY <2>8 DEF JobsApart, ThreadJobs
  <2> QED BY <1>1, <2>5, <2>6, <2>7, <2>8, <2>9, <2>10, GiveStep
<1> QED BY <1>2, <1>3, <1>4

\* The steps in which a thread works with what it has taken.
LEMMA WorkApart ==
    ASSUME NoHold, TypeInv, TypeInv', Ownership, JobsApart, NEW t \in Threads,
           \/ PickNothing(t) \/ Idle(t) \/ Exit(t) \/ Dispatch(t) \/ LeaveActive(t)
           \/ ResetCbFiber(t) \/ SettleFinished(t)
           \/ SwapIn(t) \/ YieldToReady(t) \/ BodyReturn(t) \/ BodyThrow(t) \/ SwapOut(t)
    PROVE  JobsApart'
<1> USE DEF TypeInv
<1>1. Alone(t) BY RunAlone DEF run, Body
<1>2. UNCHANGED <<m_fibers, sent>>
  BY DEF PickNothing, Idle, Exit, Dispatch, LeaveActive, ResetCbFiber, SettleFinished, SwapIn,
         YieldToReady, Yield, BodyReturn, BodyThrow, SwapOut, GoOnly, queueVars, jobVars
<1>3. Busy(t) => JobAt(t) \in Jobs \ done /\ (runs[JobAt(t)] # 0 <=> BegunAt(t))
  BY DEF JobsApart, ThreadJobs, TypeOK
<1>4. HoldsFiber(t) => Cur(t) \in Fibers BY RefsOfCur
<1>5. ASSUME UNCHANGED <<runs, done>>,
             Busy(t)' => Busy(t) /\ JobAt(t)' = JobAt(t) /\ (BegunAt(t)' <=> BegunAt(t))
      PROVE  JobsApart'
  BY <1>1, <1>2, <1>3, <1>5, KeepStep
<1>6. CASE PickNothing(t) \/ Idle(t) \/ Exit(t) \/ SettleFinished(t)
  <2>1. UNCHANGED <<runs, done>> /\ pc'[t] \in {"pick", "idle", "swap", "exited"}
    BY <1>6 DEF PickNothing, Idle, Exit, SettleFinished, jobVars, Goto, TypeOK
  <2>2. ~Busy(t)' BY <2>1 DEF Busy, HoldsFiber, HoldPC
  <2> QED BY <1>5, <2>1, <2>2
<1>7. CASE Dispatch(t) \/ LeaveActive(t)
  <2>1. UNCHANGED <<runs, done, m_state, m_cb, ctx, ft, cb_fiber>>
    BY <1>7 DEF Dispatch, LeaveActive, GoOnly, fiberVars, localVars, jobVars
  <2>2. HoldsFiber(t) /\ pc[t] # "reset" /\ pc'[t] # "reset"
    BY <1>7 DEF Dispatch, LeaveActive, GoOnly, Goto, TypeOK, HoldsFiber, HoldPC
  <2>3. Cur(t)' = Cur(t) BY <2>1 DEF Cur
  <2> QED BY <1>5, <2>1, <2>2, <2>3 DEF Busy, JobAt, BegunAt
<1>8. CASE ResetCbFiber(t)
  <2>1. PICK f \in Fibers : Prepare(f, ft[t].cb) /\ cb_fiber' = [cb_fiber EXCEPT ![t] = f]
    BY <1>8 DEF ResetCbFiber
  <2>2. UNCHANGED <<ft, runs, done>> /\ pc[t] = "reset" /\ pc'[t] = "swapIn"
    BY <1>8 DEF ResetCbFiber, jobVars, Goto, TypeOK
  <2>3. ft[t].fiber = NoFiber BY <2>2 DEF Ownership, EntryOK, HoldsFiber, HoldPC
  <2>4. Cur(t)' = f /\ m_cb'[f] = ft[t].cb /\ ctx'[f] = "fresh"
    BY <2>1, <2>2, <2>3 DEF Cur, Prepare, TypeOK, FiberTypeOK
  <2>5. Busy(t) /\ JobAt(t)' = JobAt(t) /\ ~BegunAt(t) /\ ~BegunAt(t)'
    BY <2>2, <2>4 DEF Busy, JobAt, BegunAt
  <2> QED BY <1>5, <2>2, <2>5
<1>9. CASE SwapIn(t)
  <2>1. /\ Enter(Cur(t)) /\ pc[t] = "swapIn" /\ pc'[t] = "body" /\ HoldsFiber(t)
        /\ UNCHANGED <<ft, cb_fiber, m_cb, done>>
    BY <1>9 DEF SwapIn, Enter, localVars, Goto, TypeOK, HoldsFiber, HoldPC
  <2>2. Cur(t)' = Cur(t) BY <2>1 DEF Cur
  <2>3. ctx'[Cur(t)] = "live" BY <1>4, <2>1 DEF Enter, TypeOK, FiberTypeOK
  <2>4. Resumable(Cur(t)) BY <2>1 DEF Ownership, CurOK
  <2>5. Busy(t) /\ JobAt(t) = m_cb[Cur(t)] /\ (BegunAt(t) <=> ctx[Cur(t)] # "fresh")
    BY <2>1, <2>4 DEF Busy, JobAt, BegunAt, Resumable, FinishedStates
  <2>6. JobAt(t)' = JobAt(t) /\ BegunAt(t)' BY <2>1, <2>2, <2>3, <2>5 DEF JobAt, BegunAt
  <2>7. JobAt(t) \in Jobs /\ JobAt(t) # NoJob BY <1>3, <2>5, NoJobAssumption
  <2>8. runs' = IF BegunAt(t) THEN runs ELSE [runs EXCEPT ![JobAt(t)] = @ + 1]
    BY <1>9, <2>5, <2>7 DEF SwapIn
  <2>9. /\ \A c \in Jobs : runs'[c] # runs[c] => c = JobAt(t)
        /\ runs'[JobAt(t)] # 0
    BY <1>3, <2>5, <2>7, <2>8 DEF TypeOK
  <2> QED BY <1>1, <1>2, <1>3, <2>1, <2>5, <2>6, <2>9, KeepStep
<1>10. CASE YieldToReady(t) \/ SwapOut(t)
  <2>1. /\ UNCHANGED <<runs, done, m_cb, ft, cb_fiber>> /\ HoldsFiber(t)
        /\ pc[t] \in {"body", "swapOut"} /\ pc'[t] \in {"swapOut", "leave"}
    BY <1>10
    DEF YieldToReady, Yield, SwapOut, setState, Leave, localVars, jobVars, Goto, TypeOK,
        HoldsFiber, HoldPC
  <2>2. Cur(t)' = Cur(t) BY <2>1 DEF Cur
  <2>3. ctx[Cur(t)] \in {"live", "ending"} BY <2>1 DEF Ownership, CurOK
  <2>4. ctx'[Cur(t)] # "fresh"
    BY <1>4, <1>10, <2>1, <2>3
    DEF YieldToReady, Yield, SwapOut, setState, Leave, TypeOK, FiberTypeOK
  <2>5. m_state[Cur(t)] \in FinishedStates => m_state'[Cur(t)] \in FinishedStates
    BY <1>10 DEF YieldToReady, Yield, SwapOut, Leave, FinishedStates
  <2> QED BY <1>5, <2>1, <2>2, <2>3, <2>4, <2>5 DEF Busy, JobAt, BegunAt
<1>11. CASE BodyReturn(t) \/ BodyThrow(t)
  <2>1. pc[t] = "body" /\ pc'[t] = "swapOut" /\ UNCHANGED <<ft, cb_fiber, runs>>
    BY <1>11 DEF BodyReturn, BodyThrow, localVars, Goto, TypeOK
  <2>2. Busy(t) /\ JobAt(t) = m_cb[Cur(t)] /\ HoldsFiber(t) BY <2>1, BodyIsBusy
  <2>3. done \subseteq done' /\ \A c \in Jobs : c \in done' /\ c \notin done => c = JobAt(t)
    BY <1>11, <2>2 DEF BodyReturn, BodyThrow
  <2>4. Cur(t)' = Cur(t) BY <2>1 DEF Cur
  <2>5. m_state'[Cur(t)] \in FinishedStates
    BY <1>4, <1>11, <2>2
    DEF BodyReturn, BodyThrow, Return, Throw, FinishedStates, TypeOK, FiberTypeOK
  <2>6. ~Busy(t)' BY <2>1, <2>4, <2>5 DEF Busy
  <2> QED BY <1>1, <1>2, <2>1, <2>2, <2>3, <2>6, KeepStep
<1> QED BY <1>6, <1>7, <1>8, <1>9, <1>10, <1>11

\* The owner schedules callbacks.
LEMMA SubmitApart ==
    ASSUME TypeInv, TypeInv', Ownership, JobsApart, Submit \/ SubmitBatch
    PROVE  JobsApart'
<1> USE DEF TypeInv
<1> Caller \in Threads BY DEF Threads
<1>1. UNCHANGED <<pc, ft, cb_fiber, runs, done>> /\ pc[Caller] = "main"
  BY DEF Submit, SubmitBatch, localVars
<1>2. ~Busy(Caller)' BY <1>1 DEF Busy, HoldsFiber, HoldPC
<1>3. \A c \in Jobs \ sent : runs[c] = 0 BY DEF JobsApart
<1>4. CASE Submit
  <2>1. PICK c \in Jobs \ sent, p \in Pins :
          /\ sent' = sent \cup {c}
          /\ \/ schedule(CbEntry(c, p)) /\ UNCHANGED fiberVars
             \/ \E f \in Fibers : ~Referenced(f) /\ Prepare(f, c) /\ schedule(FiberEntry(f, p))
    BY <1>4 DEF Submit
  <2>2. p \in Threads \cup {AnyThread} BY ThreadsAssumption
  <2>3. ASSUME NEW e \in Task, m_fibers' = Append(m_fibers, e), Alone(Caller),
               JobOf(e, m_cb') = c, ~BegunOf(e, ctx')
        PROVE  JobsApart'
    <3>1. <<e>> \in Seq(Task) OBVIOUS
    <3>2. PICK es \in Seq(Task) : es = <<e>> BY <3>1
    <3>3. DOMAIN es = {1} /\ es[1] = e BY <3>2
    <3>4. m_fibers' = m_fibers \o es BY <2>3, <3>2 DEF TypeOK
    <3>5. c \in sent' \ sent /\ runs[c] = 0 BY <1>3, <2>1
    <3> QED BY <1>1, <1>2, <2>1, <2>3, <3>3, <3>4, <3>5, GiveStep
  <2>4. CASE schedule(CbEntry(c, p)) /\ UNCHANGED fiberVars
    <3>1. CbEntry(c, p) \in Task /\ CbEntry(c, p).fiber = NoFiber /\ CbEntry(c, p).cb = c
          /\ c # NoJob
      BY <2>2, EntryType, NoJobAssumption DEF Task, CbEntry
    <3>2. Alone(Caller) BY <1>1, <2>4 DEF Alone, fiberVars
    <3> QED BY <2>3, <2>4, <3>1, <3>2 DEF schedule, JobOf, BegunOf
  <2>5. ASSUME NEW f \in Fibers, ~Referenced(f), Prepare(f, c), schedule(FiberEntry(f, p))
        PROVE  JobsApart'
    <3>1. FiberEntry(f, p) \in Task /\ FiberEntry(f, p).fiber = f /\ f # NoFiber
      BY <2>2, EntryType, ProgramAssumption DEF Task, FiberEntry
    <3>2. f \notin QueueRefs /\ \A u \in Threads : f \notin Refs(u)
      BY <2>5, UnreferencedApart
    <3>3. Alone(Caller)
      BY <1>1, <2>5, <3>2 DEF Alone, Prepare, TypeOK, FiberTypeOK
    <3>4. m_cb'[f] = c /\ ctx'[f] = "fresh" BY <2>5 DEF Prepare, TypeOK, FiberTypeOK
    <3> QED BY <2>3, <2>5, <3>1, <3>3, <3>4 DEF schedule, JobOf, BegunOf
  <2> QED BY <2>1, <2>4, <2>5
<1>5. CASE SubmitBatch
  <2>1. PICK c \in Jobs \ sent, d \in Jobs \ sent :
          /\ c # d
          /\ m_fibers' = m_fibers \o <<CbEntry(c, AnyThread), CbEntry(d, AnyThread)>>
          /\ sent' = sent \cup {c, d}
    BY <1>5 DEF SubmitBatch
  <2>2. CbEntry(c, AnyThread) \in Task /\ CbEntry(d, AnyThread) \in Task
    BY EntryType, NoJobAssumption DEF Task, CbEntry
  <2>3. <<CbEntry(c, AnyThread), CbEntry(d, AnyThread)>> \in Seq(Task) BY <2>2
  <2>4. PICK es \in Seq(Task) : es = <<CbEntry(c, AnyThread), CbEntry(d, AnyThread)>>
    BY <2>3
  <2>5. DOMAIN es = {1, 2} /\ es[1] = CbEntry(c, AnyThread) /\ es[2] = CbEntry(d, AnyThread)
    BY <2>4
  <2>6. /\ JobOf(es[1], m_cb') = c /\ ~BegunOf(es[1], ctx') /\ runs[c] = 0
        /\ JobOf(es[2], m_cb') = d /\ ~BegunOf(es[2], ctx') /\ runs[d] = 0
    BY <1>3, <2>5 DEF JobOf, BegunOf, CbEntry
  <2>7. Alone(Caller) BY <1>1, <1>5 DEF Alone, SubmitBatch, fiberVars
  <2>8. m_fibers' = m_fibers \o es BY <2>1, <2>4
  <2>9. {c, d} \subseteq sent' \ sent BY <2>1
  <2> HIDE <2>4
  <2> QED BY <1>1, <1>2, <2>1, <2>5, <2>6, <2>7, <2>8, <2>9, GiveStep
<1> QED BY <1>4, <1>5

\* What start, stop and the destructor do to the threads, and the steps that
\* change nothing.
LEMMA OwnerApart ==
    ASSUME TypeInv, Ownership, JobsApart,
           start \/ StopBegin \/ stop \/ Destroy \/ UNCHANGED vars
    PROVE  /\ JobsApart'
           /\ \A c \in Jobs, u \in Threads : Executes(u, c)' <=> Executes(u, c)
           /\ UNCHANGED <<sent, done, runs>>
<1> USE DEF TypeInv
<1> Caller \in Threads BY DEF Threads
<1>1. UNCHANGED <<m_fibers, m_cb, m_state, ctx, ft, cb_fiber, sent, done, runs>>
  BY DEF start, StopBegin, stop, StopEarly, StopCheck, StopFlag, StopCall, StopNoCall, StopSwap,
         StopJoin, Destroy, GoOnly, queueVars, localVars, jobVars, fiberVars, vars
<1>2. \A u \in Threads :
        \/ pc'[u] = pc[u]
        \/ /\ pc[u] \in OwnerPC \cup {"none", "exited"}
           /\ pc'[u] \in OwnerPC \cup {"pick"}
  <2>1. CASE start
    <3>1. PoolExited BY <2>1 DEF start, Ownership, PoolOK
    <3> QED BY <2>1, <3>1 DEF start, PoolExited, TypeOK
  <2>2. CASE StopBegin \/ stop \/ Destroy
    <3>1. pc[Caller] \in OwnerPC
      BY <2>2
      DEF StopBegin, stop, StopEarly, StopCheck, StopFlag, StopCall, StopNoCall, StopSwap,
          StopJoin, Destroy, OwnerPC
    <3>2. PICK w \in OwnerPC \cup {"pick"} : Goto(Caller, w)
      BY <2>2
      DEF StopBegin, stop, StopEarly, StopCheck, StopFlag, StopCall, StopNoCall, StopSwap,
          StopJoin, Destroy, GoOnly, OwnerPC
    <3> QED BY <3>1, <3>2 DEF Goto, TypeOK
  <2>3. CASE UNCHANGED vars BY <2>3 DEF vars
  <2> QED BY <2>1, <2>2, <2>3
<1>3. \A u \in Threads :
        /\ Busy(u)' <=> Busy(u)
        /\ Busy(u) => JobAt(u)' = JobAt(u) /\ (BegunAt(u)' <=> BegunAt(u))
        /\ \A c \in Jobs : Executes(u, c)' <=> Executes(u, c)
  BY <1>1, <1>2 DEF Busy, JobAt, BegunAt, Executes, HoldsFiber, HoldPC, Cur, OwnerPC
<1>4. QueueJobs' BY <1>1 DEF JobsApart, QueueJobs, EntryJob
<1>5. ThreadJobs' BY <1>1, <1>3 DEF JobsApart, ThreadJobs, EntryJob
<1> QED BY <1>1, <1>3, <1>4, <1>5 DEF JobsApart

ApartInv == DrainInv /\ JobsApart

\* Every step keeps each callback in one place.
LEMMA ApartStep ==
    ASSUME NoHold, AllShared
    PROVE  ApartInv /\ [Next]_vars => ApartInv'
<1> SUFFICES ASSUME ApartInv, [Next]_vars PROVE ApartInv'
  OBVIOUS
<1>1. DrainInv' BY DrainStep DEF ApartInv
<1>2. TypeInv /\ TypeInv' /\ Ownership /\ JobsApart
  BY <1>1 DEF ApartInv, DrainInv, ServedInv, PoolInv
<1>3. ASSUME NEW t \in Threads, run(t) PROVE JobsApart'
  <2>1. ~SettleOther(t) BY <1>2 DEF SettleOther, Ownership, CurOK
  <2>2. ~YieldToHold(t) /\ ~BodyRegister(t) /\ ~BodyWake(t) /\ ~SetHold(t)
    BY <1>2, OwnNoHoldSteps
  <2> QED BY <1>2, <1>3, <2>1, <2>2, MoveApart, WorkApart DEF run, Body
<1>4. JobsApart' BY <1>2, <1>3, SubmitApart, OwnerApart DEF Next, Finished
<1> QED BY <1>1, <1>4 DEF ApartInv

\* No callback is anywhere at the start.
LEMMA ApartInit == Init => ApartInv
<1> SUFFICES ASSUME Init PROVE ApartInv
  OBVIOUS
<1>1. PoolInv BY InitPool
<1>2. AnyOnly /\ QueueServed /\ JobsKept BY DEF Init, AnyOnly, QueueServed, JobsKept
<1>3. QueueJobs BY DEF Init, QueueJobs
<1>4. \A t \in Threads : ~Busy(t) BY DEF Init, Busy, HoldsFiber, HoldPC
<1>5. JobsApart BY <1>3, <1>4 DEF Init, JobsApart, ThreadJobs
<1> QED BY <1>1, <1>2, <1>5 DEF ApartInv, DrainInv, ServedInv

-----------------------------------------------------------------------------
(***************************************************************************)
(* What TaskPool sees of Scheduler.                                        *)
(***************************************************************************)
Statuses == [c \in Jobs |-> StatusOf(c)]
Closing == pc[Caller] \notin {"main", "gone"}

\* What the code says when the status of a callback is one or the other.
LEMMA StatusIs ==
    ASSUME ApartInv, NEW c \in Jobs
    PROVE  /\ StatusOf(c) = "unsent" <=> c \notin sent
           /\ StatusOf(c) = "running" <=> Executing(c)
           /\ StatusOf(c) = "done" <=> c \in done
           /\ StatusOf(c) = "waiting" <=> c \in sent \ done /\ ~Executing(c) /\ runs[c] = 0
           /\ StatusOf(c) = "suspended" <=> c \in sent \ done /\ ~Executing(c) /\ runs[c] # 0
<1> USE DEF ApartInv, DrainInv, ServedInv, PoolInv
<1>1. Executing(c) => c \in sent \ done
  BY BodyIsBusy DEF Executing, JobsApart, ThreadJobs
<1>2. done \subseteq sent BY DEF JobsApart
<1>3. CASE c \notin sent BY <1>1, <1>2, <1>3 DEF StatusOf
<1>4. CASE c \in done BY <1>1, <1>2, <1>4 DEF StatusOf
<1>5. CASE c \in sent \ done /\ Executing(c) BY <1>5 DEF StatusOf
<1>6. CASE c \in sent \ done /\ ~Executing(c) BY <1>6 DEF StatusOf
<1> QED BY <1>3, <1>4, <1>5, <1>6

\* What keeps the status of a callback.
LEMMA StatusSame ==
    ASSUME ApartInv, ApartInv', NEW c \in Jobs,
           c \in sent' <=> c \in sent, c \in done' <=> c \in done,
           runs'[c] = 0 <=> runs[c] = 0, Executing(c)' <=> Executing(c)
    PROVE  StatusOf(c)' = StatusOf(c)
<1> USE DEF ApartInv, DrainInv, ServedInv, PoolInv
<1>1. Executing(c) => c \in sent \ done
  BY BodyIsBusy DEF Executing, JobsApart, ThreadJobs
<1>2. done \subseteq sent BY DEF JobsApart
<1>3. CASE c \notin sent BY <1>1, <1>2, <1>3 DEF StatusOf
<1>4. CASE c \in done BY <1>1, <1>2, <1>4 DEF StatusOf
<1>5. CASE c \in sent \ done /\ Executing(c) BY <1>5 DEF StatusOf
<1>6. CASE c \in sent \ done /\ ~Executing(c) BY <1>6 DEF StatusOf
<1> QED BY <1>3, <1>4, <1>5, <1>6

\* A callback changes its status and the others do not.
LEMMA StatusBecomes ==
    ASSUME NEW c \in Jobs, NEW s, StatusOf(c)' = s,
           \A d \in Jobs \ {c} : StatusOf(d)' = StatusOf(d)
    PROVE  Statuses' = [Statuses EXCEPT ![c] = s]
BY DEF Statuses

\* A callback is executed by the thread that has it only.
LEMMA OneExecutes ==
    ASSUME ApartInv, NEW t \in Threads, Busy(t), JobAt(t) \in Jobs
    PROVE  /\ \A u \in Threads \ {t} : ~Executes(u, JobAt(t))
           /\ \A c \in Jobs \ {JobAt(t)} : ~Executes(t, c)
<1> USE DEF ApartInv, DrainInv, ServedInv, PoolInv
<1>1. ASSUME NEW u \in Threads, NEW c \in Jobs, Executes(u, c)
      PROVE  Busy(u) /\ JobAt(u) = c
  BY <1>1, BodyIsBusy DEF Executes
<1> QED BY <1>1 DEF JobsApart, ThreadJobs

\* A thread that is not inside a callback leaves room to execute one more.
LEMMA RoomForOne ==
    ASSUME NEW t \in Threads, pc[t] # "body"
    PROVE  Cardinality({c \in Jobs : Executing(c)}) < Cardinality(Threads)
<1> DEFINE R == {c \in Jobs : Executing(c)}
           f == [c \in R |-> CHOOSE u \in Threads : Executes(u, c)]
           S == Threads \ {t}
<1>1. \A c \in R : f[c] \in Threads /\ Executes(f[c], c)
  BY DEF Executing, Executes
<1>2. \A c \in R : f[c] # t BY <1>1 DEF Executes
<1>3. \A c, d \in R : f[c] = f[d] => c = d
  BY <1>1 DEF Executes
<1>4. f \in [R -> S] BY <1>1, <1>2
<1> HIDE DEF f
<1>5. f \in Injection(R, S)
  <2> HIDE DEF R, S
  <2> QED BY <1>3, <1>4 DEF Injection, IsInjective
<1>6. IsFiniteSet(S) /\ Cardinality(S) = Cardinality(Threads) - 1
  BY ThreadsFinite, FS_RemoveElement
<1>7. IsFiniteSet(R) /\ Cardinality(R) <= Cardinality(S)
  <2> HIDE DEF R, S
  <2> QED BY <1>5, <1>6, FS_Injection
<1>8. Cardinality(R) \in Nat /\ Cardinality(Threads) \in Nat
  BY <1>7, ThreadsFinite, FS_CardinalityType
<1> HIDE DEF R, S
<1>9. Cardinality(R) < Cardinality(Threads) BY <1>6, <1>7, <1>8
<1> QED BY <1>9 DEF R

\* TaskPool counts as Scheduler does.
LEMMA SameCardinality == ASSUME NEW S PROVE Pool!Cardinality(S) = Cardinality(S)
BY DEF Pool!Cardinality, Cardinality
-----------------------------------------------------------------------------
\* How the steps of run() map.
LEMMA RunImplements ==
    ASSUME NoHold, ApartInv, ApartInv', NEW t \in Threads, run(t)
    PROVE  Pool!Next \/ UNCHANGED <<Statuses, Closing>>
<1> USE DEF ApartInv, DrainInv, ServedInv, PoolInv
<1> PICK j : j = JobAt(t) OBVIOUS
<1>1. Alone(t) BY RunAlone
<1>2. Closing' = Closing
  <2>1. CASE t # Caller
    <3>1. pc'[Caller] = pc[Caller] BY <1>1, <2>1 DEF Alone, Threads
    <3> QED BY <3>1 DEF Closing
  <2>2. CASE t = Caller
    <3>1. pc[Caller] \in RunPC /\ pc'[Caller] \in RunPC \cup {"swap"}
      BY <2>2, RunGoes DEF Goto, TypeInv, TypeOK
    <3> QED BY <3>1 DEF Closing, RunPC
  <2> QED BY <2>1, <2>2
<1>3. \A u \in Threads \ {t}, c \in Jobs : Executes(u, c)' <=> Executes(u, c)
  BY <1>1, OthersKept DEF TypeInv
<1>4. \A c \in Jobs : /\ Executing(c) <=> \E u \in Threads : Executes(u, c)
                      /\ Executing(c)' <=> \E u \in Threads : Executes(u, c)'
  BY DEF Executing, Executes
<1>5. Busy(t) => j \in sent \ done /\ j \in Jobs /\ (runs[j] # 0 <=> BegunAt(t))
  BY DEF JobsApart, ThreadJobs, TypeInv, TypeOK
<1>6. Busy(t) => /\ \A u \in Threads \ {t} : ~Executes(u, j)
                 /\ \A c \in Jobs \ {j} : ~Executes(t, c)
  BY <1>5, OneExecutes
<1>7. ASSUME NEW c \in Jobs, ~Executes(t, c), ~Executes(t, c)'
      PROVE  Executing(c)' <=> Executing(c)
  BY <1>3, <1>4, <1>7
<1>8. ASSUME UNCHANGED <<sent, done, runs>>, \A c \in Jobs : Executes(t, c)' <=> Executes(t, c)
      PROVE  UNCHANGED Statuses
  BY <1>3, <1>4, <1>8, StatusSame DEF Statuses
<1>9. CASE SwapIn(t)
  <2>1. /\ pc[t] = "swapIn" /\ pc'[t] = "body" /\ UNCHANGED <<sent, done, m_cb, ft, cb_fiber>>
        /\ HoldsFiber(t)
    BY <1>9 DEF SwapIn, Enter, localVars, Goto, TypeInv, TypeOK, HoldsFiber, HoldPC
  <2>2. Busy(t) /\ j = m_cb[Cur(t)]
    BY <2>1 DEF Busy, JobAt, Ownership, CurOK, Resumable, FinishedStates
  <2>3. Executes(t, j)' /\ ~Executes(t, j) /\ \A c \in Jobs \ {j} : ~Executes(t, c)'
    BY <2>1, <2>2 DEF Executes, Cur
  <2>4. Executing(j)' /\ ~Executing(j) BY <1>4, <1>5, <1>6, <2>2, <2>3
  <2>5. \A c \in Jobs \ {j} : Executing(c)' <=> Executing(c)
    BY <1>6, <1>7, <2>2, <2>3
  <2>6. \A c \in Jobs \ {j} : runs'[c] = runs[c]
    BY <1>9, <2>2 DEF SwapIn, TypeInv, TypeOK
  <2>7. \A c \in Jobs \ {j} : StatusOf(c)' = StatusOf(c)
    BY <2>1, <2>5, <2>6, StatusSame
  <2>8. StatusOf(j)' = "running" /\ StatusOf(j) \in {"waiting", "suspended"}
    BY <1>5, <2>1, <2>2, <2>4, StatusIs DEF StatusOf
  <2>9. Statuses' = [Statuses EXCEPT ![j] = "running"]
    BY <1>5, <2>2, <2>7, <2>8, StatusBecomes
  <2>10. Pool!In("running") = {c \in Jobs : Executing(c)}
    BY StatusIs DEF Pool!In
  <2>11. Cardinality({c \in Jobs : Executing(c)}) < Cardinality(Threads)
    BY <2>1, RoomForOne
  <2>12. Pool!Become(j, "running") BY <1>2, <2>9 DEF Pool!Become, Statuses, Closing
  <2>13. Pool!Cardinality(Pool!In("running")) < Cardinality(Threads)
    BY <2>10, <2>11, SameCardinality
  <2>14. [c \in Jobs |-> StatusOf(c)][j] \in {"waiting", "suspended"} BY <1>5, <2>2, <2>8
  <2>15. Pool!Execute(j) BY <2>12, <2>13, <2>14 DEF Pool!Execute
  <2> QED BY <1>5, <2>2, <2>15 DEF Pool!Next
<1>10. ASSUME pc[t] = "body", pc'[t] # "body", UNCHANGED <<sent, runs>>, done \subseteq done',
             done' \ done \subseteq {j}
      PROVE  Pool!Next
  <2>1. Busy(t) /\ BegunAt(t) /\ j = m_cb[Cur(t)] BY <1>10, BodyIsBusy
  <2>2. Executes(t, j) /\ \A c \in Jobs : ~Executes(t, c)' BY <1>10, <2>1 DEF Executes
  <2>3. Executing(j) /\ ~Executing(j)'
    BY <1>3, <1>4, <1>5, <1>6, <2>1, <2>2
  <2>4. \A c \in Jobs \ {j} : Executing(c)' <=> Executing(c)
    BY <1>6, <1>7, <2>1, <2>2
  <2>5. \A c \in Jobs \ {j} : StatusOf(c)' = StatusOf(c)
    BY <1>10, <2>4, StatusSame
  <2>6. StatusOf(j) = "running" BY <1>5, <2>1, <2>3, StatusIs
  <2>7. CASE j \in done'
    <3>1. StatusOf(j)' = "done" BY <1>5, <1>10, <2>1, <2>3, <2>7 DEF StatusOf
    <3>2. Statuses' = [Statuses EXCEPT ![j] = "done"]
      BY <1>5, <2>1, <2>5, <3>1, StatusBecomes
    <3>3. Pool!End(j)
      BY <1>2, <1>5, <2>1, <2>6, <3>2 DEF Pool!End, Pool!Become, Statuses, Closing
    <3> QED BY <1>5, <2>1, <3>3 DEF Pool!Next
  <2>8. CASE j \notin done'
    <3>1. StatusOf(j)' = "suspended" BY <1>5, <1>10, <2>1, <2>3, <2>8 DEF StatusOf
    <3>2. Statuses' = [Statuses EXCEPT ![j] = "suspended"]
      BY <1>5, <2>1, <2>5, <3>1, StatusBecomes
    <3>3. Pool!Suspend(j)
      BY <1>2, <1>5, <2>1, <2>6, <3>2 DEF Pool!Suspend, Pool!Become, Statuses, Closing
    <3> QED BY <1>5, <2>1, <3>3 DEF Pool!Next
  <2> QED BY <2>7, <2>8
<1>11. CASE YieldToReady(t) \/ BodyReturn(t) \/ BodyThrow(t)
  <2>1. pc[t] = "body" /\ pc'[t] # "body" /\ UNCHANGED <<sent, runs>>
    BY <1>11 DEF YieldToReady, Yield, BodyReturn, BodyThrow, Goto, TypeInv, TypeOK
  <2>2. j = m_cb[Cur(t)] BY <2>1, BodyIsBusy
  <2>3. done \subseteq done' /\ done' \ done \subseteq {j}
    BY <1>11, <2>2 DEF YieldToReady, Yield, BodyReturn, BodyThrow
  <2> QED BY <1>10, <2>1, <2>3
<1>12. CASE BodySpawn(t)
  <2>1. PICK c \in Jobs \ sent : sent' = sent \cup {c} BY <1>12 DEF BodySpawn
  <2>2. UNCHANGED <<done, runs, pc, m_cb, ft, cb_fiber>> /\ pc[t] = "body"
    BY <1>12 DEF BodySpawn, fiberVars, localVars
  <2>3. \A d \in Jobs : Executing(d)' <=> Executing(d) BY <2>2 DEF Executing, Cur
  <2>4. \A d \in Jobs \ {c} : StatusOf(d)' = StatusOf(d) BY <2>1, <2>2, <2>3, StatusSame
  <2>5. StatusOf(c) = "unsent" BY <2>1, StatusIs
  <2>6. ~Executing(c) /\ runs[c] = 0 /\ c \notin done
    BY <2>5, StatusIs DEF JobsApart
  <2>7. StatusOf(c)' = "waiting" BY <2>1, <2>2, <2>3, <2>6 DEF StatusOf
  <2>8. Statuses' = [d \in Jobs |-> IF d \in {c} THEN "waiting" ELSE Statuses[d]]
    BY <2>4, <2>7 DEF Statuses
  <2>9. Busy(t) /\ j = m_cb[Cur(t)] /\ Executes(t, j) BY <2>2, BodyIsBusy DEF Executes
  <2>10. j \in Jobs /\ StatusOf(j) = "running" BY <1>4, <1>5, <2>9, StatusIs
  <2>11. Pool!Submit({c})
    BY <1>2, <2>1, <2>5, <2>8, <2>10 DEF Pool!Submit, Pool!In, Statuses, Closing
  <2> QED BY <2>11, <2>1 DEF Pool!Next
<1>13. CASE \/ Pick(t) \/ PickNothing(t) \/ Dispatch(t) \/ ResetCbFiber(t) \/ SwapOut(t)
            \/ LeaveActive(t) \/ SettleReady(t) \/ SettleFinished(t) \/ Idle(t) \/ Exit(t)
  <2>1. UNCHANGED <<sent, done, runs>>
    BY <1>13
    DEF Pick, PickNothing, Dispatch, ResetCbFiber, SwapOut, LeaveActive, SettleReady,
        SettleFinished, Idle, Exit, GoOnly, jobVars
  <2>2. pc[t] # "body" /\ pc'[t] # "body"
    BY <1>13
    DEF Pick, PickNothing, Dispatch, ResetCbFiber, SwapOut, LeaveActive, SettleReady,
        SettleFinished, Idle, Exit, GoOnly, Goto, TypeInv, TypeOK
  <2> QED BY <1>2, <1>8, <2>1, <2>2 DEF Executes
<1>14. ~SettleOther(t) BY DEF SettleOther, Ownership, CurOK
<1> QED BY <1>9, <1>11, <1>12, <1>13, <1>14, OwnNoHoldSteps DEF run, Body

\* The owner schedules.
LEMMA SubmitImplements ==
    ASSUME ApartInv, ApartInv', Submit \/ SubmitBatch
    PROVE  Pool!Next
<1> USE DEF ApartInv, DrainInv, ServedInv, PoolInv
<1>1. PICK S \in SUBSET (Jobs \ sent) : S # {} /\ sent' = sent \cup S
  <2>1. CASE Submit
    <3>1. PICK c \in Jobs \ sent : sent' = sent \cup {c} BY <2>1 DEF Submit
    <3> QED BY <3>1
  <2>2. CASE SubmitBatch
    <3>1. PICK c \in Jobs \ sent, d \in Jobs \ sent : sent' = sent \cup {c, d}
      BY <2>2 DEF SubmitBatch
    <3> QED BY <3>1
  <2> QED BY <2>1, <2>2
<1>2. UNCHANGED <<done, runs, pc, ft, cb_fiber>> /\ pc[Caller] = "main"
  BY DEF Submit, SubmitBatch, localVars
<1>3. ASSUME NEW c \in Jobs PROVE Executing(c)' <=> Executing(c)
  <2>1. ASSUME NEW t \in Threads, pc[t] = "body" PROVE m_cb'[Cur(t)'] = m_cb[Cur(t)]
    <3>1. Cur(t)' = Cur(t) /\ Cur(t) \in Refs(t) /\ Cur(t) \in Fibers
      BY <1>2, <2>1, BodyIsBusy, RefsOfCur DEF Cur, TypeInv
    <3>2. CASE UNCHANGED fiberVars BY <3>1, <3>2 DEF fiberVars
    <3>3. CASE \E f \in Fibers, d \in Jobs : ~Referenced(f) /\ Prepare(f, d)
      BY <3>1, <3>3, UnreferencedApart DEF Prepare, TypeInv, TypeOK, FiberTypeOK
    <3> QED BY <3>2, <3>3 DEF Submit, SubmitBatch
  <2> QED BY <1>2, <2>1 DEF Executing
<1>4. \A c \in Jobs \ S : StatusOf(c)' = StatusOf(c)
  BY <1>1, <1>2, <1>3, StatusSame
<1>5. ASSUME NEW c \in S PROVE StatusOf(c) = "unsent" /\ StatusOf(c)' = "waiting"
  <2>1. StatusOf(c) = "unsent" BY StatusIs
  <2>2. ~Executing(c) /\ runs[c] = 0 /\ c \notin done
    BY <2>1, StatusIs DEF JobsApart
  <2>3. StatusOf(c)' = "waiting" BY <1>1, <1>2, <1>3, <2>2 DEF StatusOf
  <2> QED BY <2>1, <2>3
<1>6. Statuses' = [c \in Jobs |-> IF c \in S THEN "waiting" ELSE Statuses[c]]
  BY <1>4, <1>5 DEF Statuses
<1>7. S \subseteq Pool!In("unsent") BY <1>5 DEF Pool!In
<1>8. Pool!Submit(S)
  BY <1>1, <1>2, <1>6, <1>7 DEF Pool!Submit, Statuses
<1> QED BY <1>8 DEF Pool!Next

\* start, stop and the destructor: stop() closes the pool, and returns when it
\* is drained.
LEMMA OwnerImplements ==
    ASSUME ApartInv, ApartInv',
           start \/ StopBegin \/ stop \/ Destroy \/ UNCHANGED vars
    PROVE  Pool!Next \/ UNCHANGED <<Statuses, Closing>>
<1> USE DEF ApartInv, DrainInv, ServedInv, PoolInv
<1> Caller \in Threads /\ Caller \notin Workers
  BY ThreadsAssumption DEF Threads
<1>1. Statuses' = Statuses
  <2>1. UNCHANGED <<sent, done, runs>>
        /\ \A c \in Jobs, u \in Threads : Executes(u, c)' <=> Executes(u, c)
    BY OwnerApart
  <2>2. \A c \in Jobs : Executing(c)' <=> Executing(c) BY <2>1 DEF Executing, Executes
  <2> QED BY <2>1, <2>2, StatusSame DEF Statuses
<1>2. CASE StopBegin
  <2>1. pc[Caller] = "main" /\ pc'[Caller] = "stopEarly"
    BY <1>2 DEF StopBegin, Goto, TypeInv, TypeOK
  <2>2. Pool!Close BY <1>1, <2>1 DEF Pool!Close, Statuses
  <2> QED BY <2>2 DEF Pool!Next
<1>3. CASE StopJoin \/ (StopCheck /\ Stopping)
  <2>1. pc[Caller] \in {"join", "stopCheck"} /\ pc'[Caller] = "main" /\ StopReturning
    BY <1>3 DEF StopJoin, StopCheck, GoOnly, Goto, TypeInv, TypeOK, StopReturning
  <2>2. sent \subseteq done
    <3>1. \A c \in sent \ done : OnHold(c) BY <2>1, DrainsFollows DEF StopDrains
    <3>2. \A c \in Jobs : ~OnHold(c) BY DEF OnHold, Ownership
    <3> QED BY <3>1, <3>2 DEF TypeInv, TypeOK
  <2>3. \A c \in Jobs : StatusOf(c) \in {"unsent", "done"} BY <2>2, StatusIs
  <2>4. Pool!Drained BY <1>1, <2>1, <2>3 DEF Pool!Drained, Statuses
  <2> QED BY <2>4 DEF Pool!Next
<1>4. CASE start \/ Destroy \/ UNCHANGED vars
  <2>1. pc'[Caller] = pc[Caller] \/ (pc[Caller] = "main" /\ pc'[Caller] = "gone")
    BY <1>4 DEF start, Destroy, GoOnly, Goto, TypeInv, TypeOK, vars
  <2> QED BY <1>1, <2>1 DEF Closing
<1>5. CASE \/ StopEarly \/ (StopCheck /\ ~Stopping) \/ StopFlag \/ StopCall \/ StopNoCall
           \/ StopSwap
  <2>1. pc[Caller] \in {"stopEarly", "stopCheck", "stopFlag", "stopCall", "swap"}
    BY <1>5 DEF StopEarly, StopCheck, StopFlag, StopCall, StopNoCall, StopSwap
  <2>2. pc'[Caller] \in {"stopCheck", "stopFlag", "stopCall", "pick", "swap", "join"}
    BY <1>5
    DEF StopEarly, StopCheck, StopFlag, StopCall, StopNoCall, StopSwap, GoOnly, Goto,
        TypeInv, TypeOK
  <2> QED BY <1>1, <2>1, <2>2 DEF Closing
<1> QED BY <1>2, <1>3, <1>4, <1>5 DEF stop

(***************************************************************************)
(* The scheduler keeps its promise: run(), schedule() and stop() together  *)
(* begin every callback once, execute it in one place at a time, resume it *)
(* after every yield and end it once, and stop() returns with nothing left *)
(* unfinished; for any number of pool threads, fibers, callbacks, yields   *)
(* and stops, whether or not the scheduler uses its caller.                *)
(***************************************************************************)
THEOREM SchedulerImplementsTaskPool ==
    ASSUME NoHold, AllShared
    PROVE  Spec => ImplementsTaskPool
<1>1. Init => Pool!Init
  <2> SUFFICES ASSUME Init PROVE Pool!Init OBVIOUS
  <2>1. \A c \in Jobs : StatusOf(c) = "unsent" BY DEF Init, StatusOf, Executing
  <2>2. pc[Caller] = "main" BY DEF Init, Threads
  <2> QED BY <2>1, <2>2 DEF Pool!Init
<1>2. ApartInv /\ ApartInv' /\ [Next]_vars => [Pool!Next]_<<Statuses, Closing>>
  <2> SUFFICES ASSUME ApartInv, ApartInv', [Next]_vars
               PROVE  Pool!Next \/ UNCHANGED <<Statuses, Closing>>
    OBVIOUS
  <2> QED BY RunImplements, SubmitImplements, OwnerImplements DEF Next, Finished
<1>3. Init => ApartInv BY ApartInit
<1>4. ApartInv /\ [Next]_vars => ApartInv' BY ApartStep
<1> QED
  BY <1>1, <1>2, <1>3, <1>4, PTL
  DEF Spec, ImplementsTaskPool, Pool!Spec, Pool!vars, Statuses, Closing

-----------------------------------------------------------------------------
(***************************************************************************)
(* Programs that pin everything, and hold and wake it.                     *)
(***************************************************************************)
\* The program names a thread for everything it schedules.
AllPinned == Pins \subseteq Threads

\* Its callbacks wake what is on hold, and do not yield to the queue.
WakesHeldOnly == {"ready", "wake"} \cap BodyOps = {}

\* What Homes says of the fibers of one thread, and of the queue.
ThreadHome(t) == HomeCur(t) /\ HomeRefs(t) /\ EntryOK(t) /\ CacheOK(t)
QueueHome == \A k \in DOMAIN m_fibers : HomeEntry(m_fibers[k])

\* What was scheduled stays scheduled, for the same thread.
PinsKept == sent \subseteq sent' /\ \A c \in sent : pin'[c] = pin[c]

-----------------------------------------------------------------------------
\* A fiber on hold that a thread refers to is the one it works with: on the
\* way out, or taken from the queue and then without a handle.
LEMMA HeldRefs ==
    ASSUME TypeOK, NEW t \in Threads, ThreadHome(t), NEW f \in Refs(t), m_state[f] = "HOLD"
    PROVE  /\ f = Cur(t) /\ HoldsFiber(t)
           /\ pc[t] \in Leaving \/ (pc[t] \in {"dispatch", "swapIn"} /\ f \notin handles)
<1>1. CASE f = cb_fiber[t] /\ (HoldsFiber(t) => ft[t].fiber # NoFiber)
  BY <1>1 DEF ThreadHome, CacheOK, Refs
<1>2. CASE f # cb_fiber[t] \/ (HoldsFiber(t) /\ ft[t].fiber = NoFiber)
  <2>1. f = Cur(t) /\ HoldsFiber(t)
    BY <1>2 DEF ThreadHome, EntryOK, Cur, Refs
  <2> QED BY <2>1 DEF ThreadHome, HomeCur, HoldsFiber, HoldPC, Leaving
<1> QED BY <1>1, <1>2

\* A thread that does not move, and whose fibers do not change, keeps them.
LEMMA KeepHome ==
    ASSUME TypeOK, CurExists, PinsKept, NEW u \in Threads, ThreadHome(u),
           pc'[u] = pc[u], ft'[u] = ft[u], cb_fiber'[u] = cb_fiber[u],
           \A f \in Refs(u) :
              /\ m_state'[f] = m_state[f] /\ m_cb'[f] = m_cb[f] /\ ctx'[f] = ctx[f]
              /\ f \in QueueRefs' =>
                    \/ f \in QueueRefs
                    \/ f = Cur(u) /\ pc[u] \in Leaving /\ m_state[f] = "HOLD",
           pc[u] \in {"dispatch", "swapIn"} /\ Cur(u) \in handles' => Cur(u) \in handles
    PROVE  ThreadHome(u)'
<1>1. Refs(u)' = Refs(u) /\ Cur(u)' = Cur(u) BY DEF Refs, Cur
<1>2. HomeCur(u)'
  <2>1. CASE HoldsFiber(u)
    <3>1. Cur(u) \in Refs(u) BY <2>1, RefsOfCur
    <3> QED
      BY <1>1, <2>1, <3>1 DEF ThreadHome, HomeCur, PinsKept, Waiting, HoldsFiber, HoldPC
  <2>2. CASE ~HoldsFiber(u)
    BY <2>2 DEF ThreadHome, HomeCur, PinsKept, HoldsFiber, HoldPC
  <2> QED BY <2>1, <2>2
<1>3. HomeRefs(u)'
  BY <1>1 DEF ThreadHome, HomeRefs, PinsKept
<1>4. EntryOK(u)' BY DEF ThreadHome, EntryOK, HoldsFiber
<1>5. CacheOK(u)'
  <2>1. cb_fiber[u] # NoFiber => cb_fiber[u] \in Refs(u) BY DEF Refs
  <2> QED BY <2>1 DEF ThreadHome, CacheOK, HoldsFiber
<1> QED BY <1>2, <1>3, <1>4, <1>5 DEF ThreadHome

\* The entries that stay in the queue, and those that are new.
LEMMA QueueHomeStep ==
    ASSUME TypeOK, PinsKept, QueueHome, NEW F, NEW New,
           \A g \in Fibers \ F :
              m_state'[g] = m_state[g] /\ m_cb'[g] = m_cb[g] /\ ctx'[g] = ctx[g],
           \A j \in DOMAIN m_fibers' :
              m_fibers'[j] \in New \/ \E k \in DOMAIN m_fibers : m_fibers'[j] = m_fibers[k],
           \A e \in New : HomeEntry(e)',
           \A f \in QueueRefs :
              /\ f \in handles' => f \in handles
              /\ f \in F => m_cb'[f] = m_cb[f] /\ m_state'[f] = "HOLD"
    PROVE  QueueHome'
<1> SUFFICES ASSUME NEW j \in DOMAIN m_fibers', NEW e, e = m_fibers'[j] PROVE HomeEntry(e)'
  BY DEF QueueHome, HomeEntry
<1>1. CASE e \in New
  BY <1>1
<1>2. ASSUME NEW k \in DOMAIN m_fibers, e = m_fibers[k]
      PROVE  HomeEntry(e)'
  <2>1. HomeEntry(e) BY <1>2 DEF QueueHome
  <2>2. CASE e.fiber = NoFiber BY <2>1, <2>2 DEF HomeEntry, PinsKept
  <2>3. CASE e.fiber # NoFiber
    <3>1. e.fiber \in QueueRefs /\ e.fiber \in Fibers
      BY <1>2, <2>3, RefsAreFibers DEF QueueRefs
    <3> QED BY <2>1, <2>3, <3>1 DEF HomeEntry, PinsKept
  <2> QED BY <2>2, <2>3
<1> QED BY <1>1, <1>2

\* The queue does not change, and at most one fiber does.
LEMMA QueueHomeStays ==
    ASSUME TypeOK, PinsKept, QueueHome, m_fibers' = m_fibers, handles' = handles, NEW f,
           \A g \in Fibers \ {f} :
              m_state'[g] = m_state[g] /\ m_cb'[g] = m_cb[g] /\ ctx'[g] = ctx[g],
           f \in QueueRefs => m_cb'[f] = m_cb[f] /\ m_state'[f] = "HOLD"
    PROVE  QueueHome'
<1> DEFINE New == {}
           F == {f}
<1>1. \A e \in New : HomeEntry(e)' OBVIOUS
<1>2. \A g \in QueueRefs :
        /\ g \in handles' => g \in handles
        /\ g \in F => m_cb'[g] = m_cb[g] /\ m_state'[g] = "HOLD"
  OBVIOUS
<1>3. \A g \in Fibers \ F :
        m_state'[g] = m_state[g] /\ m_cb'[g] = m_cb[g] /\ ctx'[g] = ctx[g]
  OBVIOUS
<1> HIDE DEF New, F
<1> QED BY <1>1, <1>2, <1>3, QueueHomeStep

(***************************************************************************)
(* The step of one thread: F are the fibers it changes.  What the others   *)
(* refer to stays apart, and what is on hold stays reachable.              *)
(***************************************************************************)
LEMMA HomeStep ==
    ASSUME TypeOK, CurExists, Homes, PinsKept, NEW t \in Threads, NEW F \in SUBSET Fibers,
           \A c \in sent' : pin'[c] \in Threads,
           \A g \in Fibers \ F :
              m_state'[g] = m_state[g] /\ m_cb'[g] = m_cb[g] /\ ctx'[g] = ctx[g],
           \A u \in Threads \ {t} :
              /\ pc'[u] = pc[u] /\ ft'[u] = ft[u] /\ cb_fiber'[u] = cb_fiber[u]
              /\ Refs(u) \cap F = {} /\ Refs(u) \cap Refs(t)' = {}
              /\ pc[u] \in {"dispatch", "swapIn"} /\ Cur(u) \in handles' => Cur(u) \in handles
              /\ \A f \in Refs(u) \cap QueueRefs' :
                    \/ f \in QueueRefs
                    \/ f = Cur(u) /\ pc[u] \in Leaving /\ m_state[f] = "HOLD",
           ThreadHome(t)', QueueHome', QueueApart',
           \A f \in F \cup Refs(t) : m_state'[f] = "HOLD" =>
              m_cb'[f] \in sent' /\ (ctx'[f] = "saved" \/ f \in Refs(t)')
    PROVE  Homes'
<1>1. \A u \in Threads \ {t} : Refs(u)' = Refs(u) BY DEF Refs
<1>2. ASSUME NEW u \in Threads PROVE ThreadHome(u)'
  <2>1. CASE u # t
    <3>1. ThreadHome(u) BY DEF Homes, ThreadHome
    <3>2. \A f \in Refs(u) :
            m_state'[f] = m_state[f] /\ m_cb'[f] = m_cb[f] /\ ctx'[f] = ctx[f]
      BY <2>1, RefsAreFibers
    <3> QED BY <2>1, <3>1, <3>2, KeepHome
  <2> QED BY <2>1
<1>3. HomeHold'
  <2> SUFFICES ASSUME NEW f \in Fibers, m_state'[f] = "HOLD"
               PROVE  /\ m_cb'[f] \in sent'
                      /\ ctx'[f] = "saved" \/ \E u \in Threads : f \in Refs(u)'
    BY DEF HomeHold
  <2>1. CASE f \in F \cup Refs(t) BY <2>1
  <2>2. CASE f \notin F \cup Refs(t)
    <3>1. m_cb[f] \in sent /\ (ctx[f] = "saved" \/ \E u \in Threads : f \in Refs(u))
      BY <2>2 DEF Homes, HomeHold
    <3> QED BY <1>1, <2>2, <3>1 DEF PinsKept
  <2> QED BY <2>1, <2>2
<1>4. HomesApart'
  <2>1. ASSUME NEW u \in Threads, NEW v \in Threads, u # v
        PROVE  Refs(u)' \cap Refs(v)' = {}
    <3>1. CASE u # t /\ v # t BY <1>1, <2>1, <3>1 DEF Homes, HomesApart
    <3>2. CASE u = t BY <1>1, <2>1, <3>2
    <3>3. CASE v = t BY <1>1, <2>1, <3>3
    <3> QED BY <3>1, <3>2, <3>3
  <2> QED BY <2>1 DEF HomesApart, QueueApart
<1> QED BY <1>2, <1>3, <1>4 DEF Homes, ThreadHome, QueueHome

\* What Homes gives to a step of thread t.
LEMMA HomeFacts ==
    ASSUME TypeOK, Homes, NEW t \in Threads
    PROVE  /\ ThreadHome(t) /\ QueueHome /\ QueueApart
           /\ \A u \in Threads \ {t} : Refs(u) \cap Refs(t) = {}
           /\ \A f \in Refs(t) : m_state[f] = "HOLD" => m_cb[f] \in sent
           /\ \A c \in sent : pin[c] \in Threads
BY RefsAreFibers DEF Homes, HomesApart, HomeHold, ThreadHome, QueueHome, QueueApart

\* A step that changes no fiber, no entry and no job.
LEMMA QuietHome ==
    ASSUME TypeOK, CurExists, Homes, NEW t \in Threads,
           UNCHANGED <<fiberVars, m_fibers, sent, pin, handles>>,
           \A u \in Threads \ {t} :
              pc'[u] = pc[u] /\ ft'[u] = ft[u] /\ cb_fiber'[u] = cb_fiber[u],
           Refs(t)' \subseteq Refs(t), ThreadHome(t)',
           \A f \in Refs(t) \ Refs(t)' : m_state[f] = "HOLD" => ctx[f] = "saved"
    PROVE  Homes'
<1>1. PinsKept BY DEF PinsKept
<1>2. QueueRefs' = QueueRefs /\ QueueApart' /\ QueueHome'
  BY HomeFacts DEF QueueRefs, QueueApart, QueueHome, HomeEntry, fiberVars
<1>3. \A u \in Threads \ {t} : Refs(u) \cap Refs(t)' = {} BY HomeFacts
<1>4. \A c \in sent' : pin'[c] \in Threads BY HomeFacts
<1>5. \A f \in {} \cup Refs(t) : m_state'[f] = "HOLD" =>
        m_cb'[f] \in sent' /\ (ctx'[f] = "saved" \/ f \in Refs(t)')
  BY HomeFacts DEF fiberVars
<1> QED BY <1>1, <1>2, <1>3, <1>4, <1>5, HomeStep DEF fiberVars

-----------------------------------------------------------------------------
\* Steps of run() that read, and the end of the thread.
LEMMA HomeReadSteps ==
    ASSUME TypeInv, Homes, NEW t \in Threads,
           \/ PickNothing(t) \/ Dispatch(t) \/ LeaveActive(t) \/ SettleOther(t)
           \/ Idle(t) \/ Exit(t)
    PROVE  Homes'
<1> USE DEF TypeInv
<1>0. ThreadHome(t) BY HomeFacts
<1>1. UNCHANGED <<m_fibers, sent, pin, handles>> /\ UNCHANGED fiberVars
  BY DEF PickNothing, Dispatch, LeaveActive, SettleOther, Idle, Exit, GoOnly, queueVars, jobVars
<1>2. \A u \in Threads \ {t} :
        pc'[u] = pc[u] /\ ft'[u] = ft[u] /\ cb_fiber'[u] = cb_fiber[u]
  BY DEF PickNothing, Dispatch, LeaveActive, SettleOther, Idle, Exit, GoOnly, Goto, localVars,
         TypeOK
<1>3. QueueRefs' = QueueRefs BY <1>1 DEF QueueRefs
<1>4. CASE PickNothing(t) \/ Idle(t)
  <2>1. pc[t] \in {"pick", "idle"} /\ ft[t].fiber = NoFiber
    BY <1>0, <1>4 DEF PickNothing, Idle, ThreadHome, EntryOK, HoldsFiber, HoldPC
  <2>2. pc'[t] \in {"pick", "idle"} /\ ft'[t].fiber = NoFiber /\ cb_fiber'[t] = cb_fiber[t]
    BY <1>4, <2>1 DEF PickNothing, Idle, Goto, TypeOK, NoEntry, FiberEntry
  <2>3. Refs(t)' = Refs(t) BY <2>1, <2>2 DEF Refs
  <2>4. HomeRefs(t)'
    BY <1>0, <1>1, <1>3, <2>1, <2>3 DEF ThreadHome, HomeRefs, Leaving, fiberVars
  <2>5. ThreadHome(t)'
    BY <1>0, <1>1, <2>1, <2>2, <2>4
    DEF ThreadHome, HomeCur, EntryOK, CacheOK, HoldsFiber, HoldPC, fiberVars
  <2> QED BY <1>1, <1>2, <2>3, <2>5, QuietHome
<1>5. CASE Dispatch(t) \/ LeaveActive(t) \/ SettleOther(t)
  <2>1. UNCHANGED <<ft, cb_fiber>>
    BY <1>5 DEF Dispatch, LeaveActive, SettleOther, GoOnly, localVars
  <2>2. Refs(t)' = Refs(t) /\ Cur(t)' = Cur(t) BY <2>1 DEF Refs, Cur
  <2>3. \/ pc[t] = "dispatch" /\ pc'[t] = "swapIn"
        \/ pc[t] = "leave" /\ pc'[t] = "settle"
        \/ pc[t] = "settle" /\ pc'[t] = "setHold" /\ m_state[Cur(t)] \notin FinishedStates
    <3>1. CASE Dispatch(t)
      <4>1. m_state[ft[t].fiber] \notin FinishedStates
        BY <1>0, <3>1
        DEF Dispatch, ThreadHome, HomeCur, EntryOK, Cur, Waiting, FinishedStates
      <4> QED BY <3>1, <4>1 DEF Dispatch, GoOnly, Goto, TypeOK
    <3>2. CASE LeaveActive(t) \/ SettleOther(t)
      BY <3>2 DEF LeaveActive, SettleOther, GoOnly, Goto, TypeOK
    <3> QED BY <1>5, <3>1, <3>2
  <2>4. HomeCur(t)'
    BY <1>0, <1>1, <2>2, <2>3
    DEF ThreadHome, HomeCur, Waiting, HoldsFiber, HoldPC, FinishedStates, fiberVars
  <2>5. HomeRefs(t)'
    BY <1>0, <1>1, <1>3, <2>2, <2>3 DEF ThreadHome, HomeRefs, Leaving, fiberVars
  <2>6. ThreadHome(t)'
    BY <1>0, <1>1, <2>1, <2>3, <2>4, <2>5
    DEF ThreadHome, EntryOK, CacheOK, HoldsFiber, HoldPC, fiberVars
  <2> QED BY <1>1, <1>2, <2>2, <2>6, QuietHome
<1>6. CASE Exit(t)
  <2>1. pc[t] = "idle" /\ ft[t].fiber = NoFiber
    BY <1>0, <1>6 DEF Exit, ThreadHome, EntryOK, HoldsFiber, HoldPC
  <2>2. pc'[t] \in {"swap", "exited"} /\ ft'[t].fiber = NoFiber /\ cb_fiber'[t] = NoFiber
    BY <1>6 DEF Exit, Goto, TypeOK, NoEntry, FiberEntry
  <2>3. Refs(t)' = {} BY <2>2 DEF Refs
  <2>4. ThreadHome(t)'
    BY <2>2, <2>3 DEF ThreadHome, HomeCur, HomeRefs, EntryOK, CacheOK, HoldsFiber, HoldPC
  <2>5. \A f \in Refs(t) : m_state[f] # "HOLD"
    BY <1>0, <2>1, HeldRefs DEF HoldsFiber, HoldPC
  <2> QED BY <1>1, <1>2, <2>3, <2>4, <2>5, QuietHome
<1> QED BY <1>4, <1>5, <1>6

\* run() drops a fiber that is on hold, or has finished.
LEMMA HomeDropSteps ==
    ASSUME TypeInv, Homes, NEW t \in Threads,
           SetHold(t) \/ (SettleFinished(t) /\ ft[t].fiber # NoFiber)
    PROVE  Homes'
<1> USE DEF TypeInv
<1> DEFINE f == Cur(t)
<1>0. ThreadHome(t) BY HomeFacts
<1>1. HoldsFiber(t) /\ pc[t] \in {"settle", "setHold"} /\ pc'[t] = "pick"
  BY DEF SetHold, SettleFinished, HoldsFiber, HoldPC, Goto, TypeOK
<1>2. f \in Refs(t) /\ f \in Fibers BY <1>1, RefsOfCur
<1>3. UNCHANGED <<m_fibers, sent, pin, handles>> /\ UNCHANGED fiberVars
  <2>1. CASE SetHold(t)
    <3>1. m_state[f] = "HOLD" BY <1>0, <2>1 DEF SetHold, ThreadHome, HomeCur
    <3>2. m_state' = m_state BY <1>2, <2>1, <3>1 DEF SetHold, setState, TypeOK, FiberTypeOK
    <3> QED BY <2>1, <3>2 DEF SetHold, setState, fiberVars, queueVars, jobVars
  <2>2. CASE SettleFinished(t) /\ ft[t].fiber # NoFiber
    BY <2>2 DEF SettleFinished, queueVars, jobVars
  <2> QED BY <2>1, <2>2
<1>4. \A u \in Threads \ {t} :
        pc'[u] = pc[u] /\ ft'[u] = ft[u] /\ cb_fiber'[u] = cb_fiber[u]
  BY DEF SetHold, SettleFinished, DropFiber, Goto, TypeOK
<1>5. ft'[t].fiber = NoFiber
      /\ cb_fiber'[t] = IF ft[t].fiber # NoFiber THEN cb_fiber[t] ELSE NoFiber
  BY DEF SetHold, SettleFinished, DropFiber, TypeOK, NoEntry, FiberEntry
<1>6. Refs(t)' = Refs(t) \ {f} /\ QueueRefs' = QueueRefs
  BY <1>0, <1>3, <1>5 DEF Refs, QueueRefs, Cur, ThreadHome, EntryOK
<1>7. HomeRefs(t)'
  BY <1>0, <1>3, <1>6 DEF ThreadHome, HomeRefs, fiberVars
<1>8. CacheOK(t)'
  BY <1>0, <1>1, <1>3, <1>5 DEF ThreadHome, CacheOK, fiberVars
<1>9. ThreadHome(t)'
  BY <1>1, <1>5, <1>7, <1>8 DEF ThreadHome, HomeCur, EntryOK, HoldsFiber, HoldPC
<1>10. m_state[f] = "HOLD" => ctx[f] = "saved"
  BY <1>0, <1>1 DEF ThreadHome, HomeCur, FinishedStates
<1> QED BY <1>3, <1>4, <1>6, <1>9, <1>10, QuietHome

-----------------------------------------------------------------------------
\* A thread's step on the stack of the fiber it works with.
LEMMA HomeCurStep ==
    ASSUME TypeInv, Homes, NEW t \in Threads, NEW w \in {"body", "swapOut", "leave"},
           HoldsFiber(t), Goto(t, w),
           UNCHANGED <<ft, cb_fiber, m_fibers, sent, pin, handles>>,
           \A g \in Fibers \ {Cur(t)} :
              m_state'[g] = m_state[g] /\ m_cb'[g] = m_cb[g] /\ ctx'[g] = ctx[g],
           HomeCur(t)',
           m_cb'[Cur(t)] \in {m_cb[Cur(t)], NoJob},
           Cur(t) \in QueueRefs =>
              /\ w \in Leaving /\ m_state'[Cur(t)] = "HOLD"
              /\ m_cb'[Cur(t)] = m_cb[Cur(t)]
    PROVE  Homes'
<1> USE DEF TypeInv
<1> PICK f : f = Cur(t) OBVIOUS
<1>0. ThreadHome(t) /\ QueueHome /\ QueueApart BY HomeFacts
<1>1. f \in Refs(t) /\ f \in Fibers /\ Refs(t)' = Refs(t) /\ Cur(t)' = f /\ QueueRefs' = QueueRefs
  BY RefsOfCur DEF Refs, Cur, QueueRefs
<1>2. \A u \in Threads \ {t} :
        pc'[u] = pc[u] /\ ft'[u] = ft[u] /\ cb_fiber'[u] = cb_fiber[u]
  BY DEF Goto, TypeOK
<1>3. pc'[t] = w BY DEF Goto, TypeOK
<1>4. PinsKept BY DEF PinsKept
<1>5. HomeRefs(t)'
  BY <1>0, <1>1, <1>3, RefsAreFibers DEF ThreadHome, HomeRefs
<1>6. EntryOK(t)' BY <1>0, <1>3 DEF ThreadHome, EntryOK, HoldsFiber, HoldPC
<1>7. CacheOK(t)'
  <2> SUFFICES ASSUME cb_fiber[t] # NoFiber, ft[t].fiber # NoFiber PROVE CacheOK(t)'
    BY <1>3 DEF CacheOK, HoldsFiber, HoldPC
  <2>1. cb_fiber[t] \in Fibers /\ cb_fiber[t] # f
    BY <1>0 DEF TypeOK, ThreadHome, EntryOK, Cur
  <2>2. m_state[cb_fiber[t]] = "INIT" /\ ctx[cb_fiber[t]] = "fresh"
    BY <1>0 DEF ThreadHome, CacheOK
  <2> QED BY <2>1, <2>2 DEF CacheOK
<1>8. QueueHome' /\ QueueApart'
  <2>1. QueueHome' BY <1>0, <1>4, QueueHomeStays
  <2> QED BY <1>0, <2>1 DEF QueueApart
<1>9. \A g \in {f} \cup Refs(t) : m_state'[g] = "HOLD" =>
        m_cb'[g] \in sent' /\ (ctx'[g] = "saved" \/ g \in Refs(t)')
  <2>1. m_state'[f] = "HOLD" => m_cb'[f] \in sent'
    <3>1. m_state'[f] = "HOLD" => m_cb'[f] # NoJob
      BY <1>1, <1>3 DEF HomeCur, HoldsFiber, HoldPC, FinishedStates
    <3> QED BY <1>0, <1>1, <3>1 DEF ThreadHome, HomeRefs
  <2> QED BY <1>1, <2>1, HomeFacts, RefsAreFibers
<1>10. \A u \in Threads \ {t} : Refs(u) \cap {f} = {} /\ Refs(u) \cap Refs(t)' = {}
  BY <1>1, HomeFacts
<1>11. \A c \in sent' : pin'[c] \in Threads BY HomeFacts
<1>12. ThreadHome(t)' BY <1>5, <1>6, <1>7 DEF ThreadHome
<1> QED BY <1>1, <1>2, <1>4, <1>8, <1>9, <1>10, <1>11, <1>12, HomeStep

\* The steps of a callback, and entering and leaving its stack.
LEMMA HomeStackSteps ==
    ASSUME TypeInv, Homes, NEW t \in Threads,
           SwapIn(t) \/ YieldToHold(t) \/ BodyReturn(t) \/ BodyThrow(t) \/ SwapOut(t)
    PROVE  Homes'
<1> USE DEF TypeInv
<1> DEFINE f == Cur(t)
<1>0. ThreadHome(t) BY HomeFacts
<1>1. HoldsFiber(t) /\ f \in Refs(t) /\ f \in Fibers
  <2>1. HoldsFiber(t)
    BY DEF SwapIn, YieldToHold, Yield, BodyReturn, BodyThrow, SwapOut, HoldsFiber, HoldPC
  <2> QED BY <2>1, RefsOfCur
<1>2. UNCHANGED <<ft, cb_fiber, m_fibers, sent, pin, handles>>
  BY DEF SwapIn, YieldToHold, Yield, BodyReturn, BodyThrow, SwapOut, queueVars, localVars, jobVars
<1>3. Cur(t)' = f BY <1>2 DEF Cur
<1>4. pc[t] \in {"swapIn", "body"} => f \notin QueueRefs /\ m_cb[f] # NoJob
  BY <1>0, <1>1
  DEF ThreadHome, HomeRefs, HomeCur, Leaving, Waiting, HoldsFiber, HoldPC, FinishedStates
<1>5. \A g \in Fibers \ {f} :
        m_state'[g] = m_state[g] /\ m_cb'[g] = m_cb[g] /\ ctx'[g] = ctx[g]
  BY <1>1
  DEF SwapIn, YieldToHold, Yield, BodyReturn, BodyThrow, SwapOut, Enter, setState, Return, Throw,
      Leave, TypeOK, FiberTypeOK
<1>6. CASE SwapIn(t)
  <2>1. m_state'[f] = "EXEC" /\ ctx'[f] = "live" /\ m_cb'[f] = m_cb[f]
        /\ Goto(t, "body") /\ pc[t] = "swapIn"
    BY <1>1, <1>6 DEF SwapIn, Enter, TypeOK, FiberTypeOK
  <2>2. HomeCur(t)' BY <1>3, <1>4, <2>1 DEF HomeCur, Goto, TypeOK, HoldsFiber, HoldPC
  <2> QED BY <1>1, <1>2, <1>4, <1>5, <2>1, <2>2, HomeCurStep
<1>7. CASE YieldToHold(t)
  <2>1. m_state'[f] = "HOLD" /\ ctx'[f] = ctx[f] /\ m_cb'[f] = m_cb[f]
        /\ Goto(t, "swapOut") /\ pc[t] = "body"
    BY <1>1, <1>7 DEF YieldToHold, Yield, setState, TypeOK, FiberTypeOK
  <2>2. HomeCur(t)'
    BY <1>0, <1>3, <1>4, <2>1 DEF ThreadHome, HomeCur, Goto, TypeOK, HoldsFiber, HoldPC
  <2> QED BY <1>1, <1>2, <1>4, <1>5, <2>1, <2>2, HomeCurStep
<1>8. CASE BodyReturn(t) \/ BodyThrow(t)
  <2>1. m_state'[f] \in FinishedStates /\ ctx'[f] = "ending" /\ m_cb'[f] \in {m_cb[f], NoJob}
        /\ Goto(t, "swapOut") /\ pc[t] = "body"
    BY <1>1, <1>8 DEF BodyReturn, BodyThrow, Return, Throw, TypeOK, FiberTypeOK, FinishedStates
  <2>2. HomeCur(t)' BY <1>3, <2>1 DEF HomeCur, Goto, TypeOK, HoldsFiber, HoldPC
  <2> QED BY <1>1, <1>2, <1>4, <1>5, <2>1, <2>2, HomeCurStep
<1>9. CASE SwapOut(t)
  <2>1. m_state'[f] = m_state[f] /\ m_cb'[f] = m_cb[f]
        /\ ctx'[f] = (IF ctx[f] = "ending" THEN "over" ELSE "saved")
        /\ Goto(t, "leave") /\ pc[t] = "swapOut"
    BY <1>1, <1>9 DEF SwapOut, Leave, TypeOK, FiberTypeOK
  <2>2. HomeCur(t)'
    BY <1>0, <1>3, <2>1 DEF ThreadHome, HomeCur, Goto, TypeOK, HoldsFiber, HoldPC
  <2>3. f \in QueueRefs => m_state[f] = "HOLD" BY <1>0, <1>1 DEF ThreadHome, HomeRefs
  <2> QED BY <1>1, <1>2, <1>5, <2>1, <2>2, <2>3, HomeCurStep DEF Leaving
<1> QED BY <1>6, <1>7, <1>8, <1>9

-----------------------------------------------------------------------------
\* A finished callback fiber is emptied and kept.
LEMMA HomeCache ==
    ASSUME TypeInv, Homes, NEW t \in Threads, SettleFinished(t), ft[t].fiber = NoFiber
    PROVE  Homes'
<1> USE DEF TypeInv
<1> PICK f : f = Cur(t) OBVIOUS
<1>0. ThreadHome(t) /\ QueueHome /\ QueueApart BY HomeFacts
<1>1. pc[t] = "settle" /\ pc'[t] = "pick" /\ m_state[f] \in FinishedStates /\ Prepare(f, NoJob)
  BY DEF SettleFinished, Goto, TypeOK
<1>2. f \in Refs(t) /\ f \in Fibers /\ f = cb_fiber[t]
  BY <1>1, RefsOfCur DEF HoldsFiber, HoldPC, Cur
<1>3. UNCHANGED <<m_fibers, sent, pin, handles, cb_fiber>> /\ ft'[t].fiber = NoFiber
  BY DEF SettleFinished, queueVars, jobVars, TypeOK, NoEntry, FiberEntry
<1>4. \A u \in Threads \ {t} :
        pc'[u] = pc[u] /\ ft'[u] = ft[u] /\ cb_fiber'[u] = cb_fiber[u]
  BY DEF SettleFinished, Goto, TypeOK
<1>5. \A g \in Fibers \ {f} :
        m_state'[g] = m_state[g] /\ m_cb'[g] = m_cb[g] /\ ctx'[g] = ctx[g]
  BY <1>1 DEF Prepare, TypeOK, FiberTypeOK
<1>6. m_state'[f] = "INIT" /\ m_cb'[f] = NoJob /\ ctx'[f] = "fresh"
  BY <1>1, <1>2 DEF Prepare, TypeOK, FiberTypeOK
<1>7. Refs(t) = {f} /\ Refs(t)' = {f} /\ QueueRefs' = QueueRefs
  BY <1>2, <1>3 DEF Refs, QueueRefs
<1>8. f \notin QueueRefs BY <1>0, <1>1, <1>2 DEF ThreadHome, HomeRefs, FinishedStates
<1>9. PinsKept /\ QueueApart' BY <1>0, <1>3 DEF PinsKept, QueueApart
<1>10. QueueHome' BY <1>0, <1>3, <1>5, <1>8, <1>9, QueueHomeStays
<1>11. ThreadHome(t)'
  BY <1>1, <1>2, <1>3, <1>6, <1>7, <1>8
  DEF ThreadHome, HomeCur, HomeRefs, EntryOK, CacheOK, HoldsFiber, HoldPC
<1>12. \A u \in Threads \ {t} : Refs(u) \cap {f} = {} /\ Refs(u) \cap Refs(t)' = {}
  BY <1>7, HomeFacts
<1>13. \A c \in sent' : pin'[c] \in Threads BY <1>3, HomeFacts
<1>14. \A g \in {f} \cup Refs(t) : m_state'[g] # "HOLD" BY <1>6, <1>7
<1> QED
  BY <1>2, <1>3, <1>4, <1>5, <1>7, <1>9, <1>10, <1>11, <1>12, <1>13, <1>14, HomeStep

\* A callback gets a fiber that was the thread's own or nobody's.
LEMMA HomeReset ==
    ASSUME TypeInv, Homes, NEW t \in Threads, ResetCbFiber(t)
    PROVE  Homes'
<1> USE DEF TypeInv
<1> PICK f \in Fibers :
      /\ IF cb_fiber[t] # NoFiber THEN f = cb_fiber[t] ELSE ~Referenced(f)
      /\ Prepare(f, ft[t].cb)
      /\ cb_fiber' = [cb_fiber EXCEPT ![t] = f]
  BY DEF ResetCbFiber
<1>0. ThreadHome(t) /\ QueueHome /\ QueueApart BY HomeFacts
<1>1. pc[t] = "reset" /\ pc'[t] = "swapIn" BY DEF ResetCbFiber, Goto, TypeOK
<1>2. ft[t].fiber = NoFiber /\ ft[t].cb \in sent /\ pin[ft[t].cb] = t /\ ft[t].cb # NoJob
  BY <1>0, <1>1, NoJobAssumption DEF ThreadHome, HomeCur, TypeOK
<1>3. UNCHANGED <<m_fibers, sent, pin, handles, ft>>
  BY DEF ResetCbFiber, queueVars, jobVars
<1>4. \A u \in Threads \ {t} :
        pc'[u] = pc[u] /\ ft'[u] = ft[u] /\ cb_fiber'[u] = cb_fiber[u]
  BY <1>3 DEF ResetCbFiber, Goto, TypeOK
<1>5. \A g \in Fibers \ {f} :
        m_state'[g] = m_state[g] /\ m_cb'[g] = m_cb[g] /\ ctx'[g] = ctx[g]
  BY DEF Prepare, TypeOK, FiberTypeOK
<1>6. m_state'[f] = "INIT" /\ m_cb'[f] = ft[t].cb /\ ctx'[f] = "fresh"
  BY DEF Prepare, TypeOK, FiberTypeOK
<1>7. cb_fiber'[t] = f /\ f # NoFiber BY ProgramAssumption DEF TypeOK
<1>8. Refs(t) \subseteq {f} /\ Refs(t)' = {f} /\ Cur(t)' = f /\ QueueRefs' = QueueRefs
  <2>1. cb_fiber[t] \in {f, NoFiber} OBVIOUS
  <2> QED BY <1>2, <1>3, <1>7, <2>1 DEF Refs, Cur, QueueRefs
<1>9. f \notin QueueRefs /\ \A u \in Threads \ {t} : f \notin Refs(u)
  <2>1. CASE cb_fiber[t] # NoFiber
    <3>1. f \in Refs(t) BY <1>7, <2>1 DEF Refs
    <3> QED BY <1>0, <1>1, <3>1, HomeFacts DEF ThreadHome, HomeRefs, Leaving
  <2>2. CASE cb_fiber[t] = NoFiber BY <2>2, UnreferencedApart
  <2> QED BY <2>1, <2>2
<1>10. PinsKept /\ QueueApart' BY <1>0, <1>3 DEF PinsKept, QueueApart
<1>11. QueueHome' BY <1>0, <1>3, <1>5, <1>9, <1>10, QueueHomeStays
<1>12. HomeCur(t)'
  BY <1>1, <1>2, <1>6, <1>8 DEF HomeCur, Waiting
<1>13. ThreadHome(t)'
  BY <1>1, <1>2, <1>3, <1>6, <1>7, <1>8, <1>9, <1>12
  DEF ThreadHome, HomeRefs, EntryOK, CacheOK, HoldsFiber, HoldPC
<1>14. \A u \in Threads \ {t} : Refs(u) \cap {f} = {} /\ Refs(u) \cap Refs(t)' = {}
  BY <1>8, <1>9
<1>15. \A c \in sent' : pin'[c] \in Threads BY <1>3, HomeFacts
<1>16. \A g \in {f} \cup Refs(t) : m_state'[g] # "HOLD" BY <1>6, <1>8
<1> QED
  BY <1>3, <1>4, <1>5, <1>8, <1>10, <1>11, <1>13, <1>14, <1>15, <1>16, HomeStep

\* The entry a thread takes was scheduled for it; no other thread refers to its
\* fiber, so the fiber is not on its way out of a thread.
LEMMA HomePick ==
    ASSUME TypeInv, Homes, NEW t \in Threads, Pick(t)
    PROVE  Homes'
<1> USE DEF TypeInv
<1> PICK k \in DOMAIN m_fibers :
      /\ Eligible(t, m_fibers[k])
      /\ ft' = [ft EXCEPT ![t] = m_fibers[k]]
      /\ Take(k)
      /\ Goto(t, IF m_fibers[k].fiber # NoFiber THEN "dispatch" ELSE "reset")
  BY DEF Pick
<1> PICK e : e = m_fibers[k] OBVIOUS
<1>0. ThreadHome(t) /\ QueueHome /\ QueueApart BY HomeFacts
<1>1. e \in Task /\ HomeEntry(e) /\ (e.fiber # NoFiber => e.fiber \in QueueRefs)
  BY <1>0 DEF QueueHome, TypeOK, QueueRefs
<1>2. pc[t] = "pick" /\ ft[t].fiber = NoFiber /\ ~HoldsFiber(t)
  BY <1>0 DEF Pick, ThreadHome, EntryOK, HoldsFiber, HoldPC
<1>3. UNCHANGED <<fiberVars, cb_fiber, sent, pin, handles>> BY DEF Pick, jobVars
<1>4. QueueApart' /\ QueueRefs' = QueueRefs \ {e.fiber}
  BY <1>0, RemoveRefs DEF Take, TypeOK
<1>5. ft'[t] = e /\ pc'[t] = (IF e.fiber # NoFiber THEN "dispatch" ELSE "reset")
  BY DEF Goto, TypeOK
<1>6. \A u \in Threads \ {t} :
        pc'[u] = pc[u] /\ ft'[u] = ft[u] /\ cb_fiber'[u] = cb_fiber[u]
  BY <1>3 DEF Goto, TypeOK
<1>7. Refs(t)' = (Refs(t) \cup {e.fiber}) \ {NoFiber} BY <1>2, <1>3, <1>5 DEF Refs
<1>8. PinsKept BY <1>3 DEF PinsKept
<1>9. QueueHome'
  <2> DEFINE New == {}
  <2>1. \A d \in New : HomeEntry(d)' OBVIOUS
  <2> HIDE DEF New
  <2>2. \A j \in DOMAIN m_fibers' : \E i \in DOMAIN m_fibers : m_fibers'[j] = m_fibers[i]
    BY RemoveEntries DEF Take, TypeOK
  <2> DEFINE F == {}
  <2>3. \A g \in Fibers \ F :
          m_state'[g] = m_state[g] /\ m_cb'[g] = m_cb[g] /\ ctx'[g] = ctx[g]
    BY <1>3 DEF fiberVars
  <2>4. \A g : g \notin F OBVIOUS
  <2> HIDE DEF F
  <2> QED BY <1>0, <1>3, <1>8, <2>1, <2>2, <2>3, <2>4, QueueHomeStep
<1>10. e.thread = t
  BY <1>1, ThreadsAssumption, HomeFacts DEF HomeEntry, Eligible
<1>11. ASSUME e.fiber # NoFiber
       PROVE  /\ e.fiber \in Fibers /\ m_cb[e.fiber] \in sent /\ m_cb[e.fiber] # NoJob
              /\ pin[m_cb[e.fiber]] = t /\ e.fiber \notin handles
              /\ \A u \in Threads : e.fiber \notin Refs(u)
              /\ Waiting(e.fiber)
  <2>1. e.fiber \in Fibers /\ m_cb[e.fiber] \in sent /\ m_cb[e.fiber] # NoJob
        /\ pin[m_cb[e.fiber]] = t /\ e.fiber \notin handles
    BY <1>1, <1>10, <1>11, NoJobAssumption, RefsAreFibers DEF HomeEntry, TypeOK
  <2>2. e.fiber \notin Refs(t)
    BY <1>0, <1>1, <1>2, <1>11 DEF ThreadHome, HomeRefs, Leaving
  <2>3. \A u \in Threads \ {t} : e.fiber \notin Refs(u)
    BY <2>1 DEF Homes, HomeRefs
  <2>4. Waiting(e.fiber)
    BY <1>1, <1>11, <2>1, <2>2, <2>3 DEF HomeEntry, Homes, HomeHold, Waiting
  <2> QED BY <2>1, <2>2, <2>3, <2>4
<1>12. \A u \in Threads \ {t} : Refs(u) \cap Refs(t)' = {}
  BY <1>7, <1>11, HomeFacts DEF Refs
<1>13. ThreadHome(t)'
  <2>1. HomeCur(t)'
    <3>1. CASE e.fiber # NoFiber
      <4>1. Cur(t)' = e.fiber /\ pc'[t] = "dispatch" BY <1>5, <3>1 DEF Cur
      <4> QED BY <1>3, <1>11, <3>1, <4>1 DEF HomeCur, Waiting, fiberVars
    <3>2. CASE e.fiber = NoFiber
      BY <1>1, <1>3, <1>5, <1>10, <3>2 DEF HomeCur, HomeEntry, HoldsFiber, HoldPC
    <3> QED BY <3>1, <3>2
  <2>2. HomeRefs(t)'
    <3> SUFFICES ASSUME NEW g \in Refs(t)'
                 PROVE  /\ m_cb[g] # NoJob => m_cb[g] \in sent /\ pin[m_cb[g]] = t
                        /\ g \notin QueueRefs'
      BY <1>3 DEF HomeRefs, fiberVars
    <3>1. CASE g = e.fiber BY <1>4, <1>7, <1>11, <3>1
    <3>2. CASE g \in Refs(t)
      BY <1>0, <1>2, <1>4, <3>2 DEF ThreadHome, HomeRefs, Leaving
    <3> QED BY <1>7, <3>1, <3>2
  <2>3. EntryOK(t)'
    <3>1. e.fiber # NoFiber => e.fiber # cb_fiber[t] BY <1>11 DEF Refs
    <3> QED BY <1>3, <1>5, <3>1 DEF EntryOK, HoldsFiber, HoldPC
  <2>4. CacheOK(t)'
    BY <1>0, <1>2, <1>3 DEF ThreadHome, CacheOK, fiberVars
  <2> QED BY <2>1, <2>2, <2>3, <2>4 DEF ThreadHome
<1>14. \A c \in sent' : pin'[c] \in Threads BY <1>3, HomeFacts
<1>15. \A g \in {} \cup Refs(t) : m_state'[g] = "HOLD" =>
        m_cb'[g] \in sent' /\ (ctx'[g] = "saved" \/ g \in Refs(t)')
  <2>1. NoFiber \notin Refs(t) BY DEF Refs
  <2> QED BY <1>3, <1>7, <2>1, HomeFacts DEF fiberVars
<1> QED
  BY <1>3, <1>4, <1>6, <1>8, <1>9, <1>12, <1>13, <1>14, <1>15, HomeStep DEF fiberVars

-----------------------------------------------------------------------------
\* A callback is scheduled, by a callback or by the owner: t does not move.
LEMMA HomeCallback ==
    ASSUME TypeInv, Homes, AllPinned, NEW t \in Threads, pc[t] \notin {"dispatch", "swapIn"},
           NEW c \in Jobs \ sent, NEW p \in Pins, schedule(CbEntry(c, p)),
           sent' = sent \cup {c}, pin' = [pin EXCEPT ![c] = p],
           UNCHANGED <<fiberVars, pc, ft, cb_fiber, handles>>
    PROVE  Homes'
<1> USE DEF TypeInv
<1>0. ThreadHome(t) /\ QueueHome /\ QueueApart BY HomeFacts
<1>1. p \in Threads /\ c # NoJob BY NoJobAssumption DEF AllPinned
<1>2. PICK e : e = CbEntry(c, p) OBVIOUS
<1>3. e \in Task /\ e.fiber = NoFiber /\ e.cb = c /\ e.thread = p
  BY <1>1, <1>2, EntryType DEF Task, CbEntry
<1>4. m_fibers' = Append(m_fibers, e) BY <1>1, <1>2, <1>3 DEF schedule
<1>5. QueueApart' /\ QueueRefs' = QueueRefs
  BY <1>0, <1>1, AppendCallback DEF TypeOK
<1>6. PinsKept /\ pin'[c] = p /\ \A d \in sent' : pin'[d] \in Threads
  BY <1>1, HomeFacts DEF PinsKept, TypeOK
<1>7. QueueHome'
  <2> DEFINE New == {e}
             F == {}
  <2>1. \A d \in New : HomeEntry(d)' BY <1>3, <1>6 DEF HomeEntry
  <2>2. \A j \in DOMAIN m_fibers' :
          m_fibers'[j] \in New \/ \E k \in DOMAIN m_fibers : m_fibers'[j] = m_fibers[k]
    BY <1>3, <1>4, AppendEntries DEF TypeOK
  <2>3. \A g \in Fibers \ F :
          m_state'[g] = m_state[g] /\ m_cb'[g] = m_cb[g] /\ ctx'[g] = ctx[g]
    BY DEF fiberVars
  <2>4. \A g : g \notin F OBVIOUS
  <2> HIDE DEF New, F
  <2> QED BY <1>0, <1>6, <2>1, <2>2, <2>3, <2>4, QueueHomeStep
<1>8. Refs(t)' = Refs(t) BY DEF Refs
<1>9. ThreadHome(t)'
  BY <1>0, <1>5, <1>6, KeepHome DEF fiberVars
<1>10. \A u \in Threads \ {t} : Refs(u) \cap Refs(t)' = {} BY <1>8, HomeFacts
<1>11. \A g \in {} \cup Refs(t) : m_state'[g] = "HOLD" =>
        m_cb'[g] \in sent' /\ (ctx'[g] = "saved" \/ g \in Refs(t)')
  BY <1>8, HomeFacts DEF fiberVars
<1> QED
  BY <1>5, <1>6, <1>7, <1>9, <1>10, <1>11, HomeStep DEF fiberVars

\* A callback schedules another one.
LEMMA HomeSpawn ==
    ASSUME TypeInv, Homes, AllPinned, NEW t \in Threads, BodySpawn(t)
    PROVE  Homes'
<1>1. PICK c \in Jobs \ sent, p \in Pins :
        /\ schedule(CbEntry(c, p))
        /\ sent' = sent \cup {c} /\ pin' = [pin EXCEPT ![c] = p]
  BY DEF BodySpawn
<1> QED BY <1>1, HomeCallback DEF BodySpawn, localVars

\* The owner schedules a callback, or a new fiber around it.
LEMMA HomeSubmit ==
    ASSUME TypeInv, Homes, AllPinned, Submit
    PROVE  Homes'
<1> USE DEF TypeInv
<1> Caller \in Threads BY DEF Threads
<1>0. ThreadHome(Caller) /\ QueueHome /\ QueueApart BY HomeFacts
<1>1. UNCHANGED <<pc, ft, cb_fiber, handles>> /\ pc[Caller] = "main"
  BY DEF Submit, localVars
<1>2. PICK c \in Jobs \ sent, p \in Pins :
        /\ sent' = sent \cup {c} /\ pin' = [pin EXCEPT ![c] = p]
        /\ \/ schedule(CbEntry(c, p)) /\ UNCHANGED fiberVars
           \/ \E f \in Fibers : ~Referenced(f) /\ Prepare(f, c) /\ schedule(FiberEntry(f, p))
  BY DEF Submit
<1>3. CASE schedule(CbEntry(c, p)) /\ UNCHANGED fiberVars
  BY <1>1, <1>2, <1>3, HomeCallback
<1>4. ASSUME NEW f \in Fibers, ~Referenced(f), Prepare(f, c), schedule(FiberEntry(f, p))
      PROVE  Homes'
  <2>1. p \in Threads /\ f # NoFiber BY ProgramAssumption DEF AllPinned
  <2>2. PICK e : e = FiberEntry(f, p) OBVIOUS
  <2>3. e \in Task /\ e.fiber = f /\ e.thread = p
    BY <2>1, <2>2, EntryType DEF Task, FiberEntry
  <2>4. m_fibers' = Append(m_fibers, e) BY <1>4, <2>1, <2>2, <2>3 DEF schedule
  <2>5. f \notin QueueRefs /\ f \notin handles /\ \A u \in Threads : f \notin Refs(u)
    BY <1>4, UnreferencedApart DEF Referenced
  <2>6. QueueApart' /\ QueueRefs' = QueueRefs \cup {f}
    <3>1. NoFiber \notin QueueRefs BY DEF QueueRefs
    <3> QED BY <1>0, <2>1, <2>3, <2>4, <2>5, <3>1, AppendRefs DEF TypeOK
  <2>7. PinsKept /\ pin'[c] = p /\ c \in sent' /\ \A d \in sent' : pin'[d] \in Threads
    BY <1>2, <2>1, HomeFacts DEF PinsKept, TypeOK
  <2>8. \A g \in Fibers \ {f} :
          m_state'[g] = m_state[g] /\ m_cb'[g] = m_cb[g] /\ ctx'[g] = ctx[g]
    BY <1>4 DEF Prepare, TypeOK, FiberTypeOK
  <2>9. m_state'[f] = "INIT" /\ m_cb'[f] = c /\ ctx'[f] = "fresh"
    BY <1>4 DEF Prepare, TypeOK, FiberTypeOK
  <2>10. QueueHome'
    <3> DEFINE New == {e}
               F == {f}
    <3>1. \A d \in New : HomeEntry(d)'
      BY <1>1, <2>1, <2>3, <2>5, <2>7, <2>9 DEF HomeEntry
    <3>2. \A j \in DOMAIN m_fibers' :
            m_fibers'[j] \in New \/ \E k \in DOMAIN m_fibers : m_fibers'[j] = m_fibers[k]
      BY <2>3, <2>4, AppendEntries DEF TypeOK
    <3>3. \A g \in Fibers \ F :
            m_state'[g] = m_state[g] /\ m_cb'[g] = m_cb[g] /\ ctx'[g] = ctx[g]
      BY <2>8
    <3>4. \A g \in QueueRefs : g \notin F BY <2>5
    <3> HIDE DEF New, F
    <3> QED BY <1>0, <1>1, <2>7, <3>1, <3>2, <3>3, <3>4, QueueHomeStep
  <2>11. \A u \in Threads : Refs(u)' = Refs(u) /\ f \notin Refs(u) /\ Refs(u) \subseteq Fibers
    BY <1>1, <2>5, RefsAreFibers DEF Refs
  <2>12. ThreadHome(Caller)'
    BY <1>0, <1>1, <2>6, <2>7, <2>8, <2>11, KeepHome
  <2>13. \A u \in Threads \ {Caller} :
          /\ pc'[u] = pc[u] /\ ft'[u] = ft[u] /\ cb_fiber'[u] = cb_fiber[u]
          /\ Refs(u) \cap {f} = {} /\ Refs(u) \cap Refs(Caller)' = {}
          /\ pc[u] \in {"dispatch", "swapIn"} /\ Cur(u) \in handles' => Cur(u) \in handles
          /\ \A g \in Refs(u) \cap QueueRefs' : g \in QueueRefs
    BY <1>1, <2>6, <2>11, HomeFacts
  <2>14. \A g \in {f} \cup Refs(Caller) : m_state'[g] = "HOLD" =>
          m_cb'[g] \in sent' /\ (ctx'[g] = "saved" \/ g \in Refs(Caller)')
    BY <2>7, <2>8, <2>9, <2>11, HomeFacts DEF PinsKept
  <2> DEFINE F == {f}
  <2>15. \A g \in Fibers \ F :
          m_state'[g] = m_state[g] /\ m_cb'[g] = m_cb[g] /\ ctx'[g] = ctx[g]
    BY <2>8
  <2>16. \A u \in Threads \ {Caller} : Refs(u) \cap F = {}
    BY <2>13
  <2>17. \A g \in F \cup Refs(Caller) : m_state'[g] = "HOLD" =>
          m_cb'[g] \in sent' /\ (ctx'[g] = "saved" \/ g \in Refs(Caller)')
    BY <2>14
  <2>18. F \in SUBSET Fibers OBVIOUS
  <2> HIDE DEF F
  <2> QED
    BY <2>6, <2>7, <2>10, <2>12, <2>13, <2>15, <2>16, <2>17, <2>18, HomeStep
<1> QED BY <1>2, <1>3, <1>4

-----------------------------------------------------------------------------
\* A fiber leaves a handle to itself: it runs, so the queue does not have it.
LEMMA HomeRegister ==
    ASSUME TypeInv, Homes, NEW t \in Threads, BodyRegister(t)
    PROVE  Homes'
<1> USE DEF TypeInv
<1> PICK f : f = Cur(t) OBVIOUS
<1>0. ThreadHome(t) /\ QueueHome /\ QueueApart BY HomeFacts
<1>1. pc[t] = "body" /\ handles' = handles \cup {f} BY DEF BodyRegister
<1>2. UNCHANGED <<m_fibers, sent, pin, pc, ft, cb_fiber>> /\ UNCHANGED fiberVars
  BY DEF BodyRegister, queueVars, localVars
<1>3. f \in Refs(t) BY <1>1, RefsOfCur DEF HoldsFiber, HoldPC
<1>4. f \notin QueueRefs BY <1>0, <1>1, <1>3 DEF ThreadHome, HomeRefs, Leaving
<1>5. PinsKept /\ QueueApart' /\ QueueRefs' = QueueRefs
  BY <1>0, <1>2 DEF PinsKept, QueueApart, QueueRefs
<1>6. \A u \in Threads : Refs(u)' = Refs(u) BY <1>2 DEF Refs
<1>7. QueueHome'
  <2> DEFINE New == {}
             F == {}
  <2>1. \A d \in New : HomeEntry(d)' OBVIOUS
  <2>2. \A j \in DOMAIN m_fibers' :
          m_fibers'[j] \in New \/ \E k \in DOMAIN m_fibers : m_fibers'[j] = m_fibers[k]
    BY <1>2
  <2>3. \A g \in Fibers \ F :
          m_state'[g] = m_state[g] /\ m_cb'[g] = m_cb[g] /\ ctx'[g] = ctx[g]
    BY <1>2 DEF fiberVars
  <2>4. \A g \in QueueRefs : g \notin F /\ (g \in handles' => g \in handles)
    BY <1>1, <1>4
  <2> HIDE DEF New, F
  <2> QED BY <1>0, <1>5, <2>1, <2>2, <2>3, <2>4, QueueHomeStep
<1>8. ThreadHome(t)' BY <1>0, <1>1, <1>2, <1>5, KeepHome DEF fiberVars
<1>9. \A u \in Threads \ {t} :
        /\ Refs(u) \cap Refs(t)' = {}
        /\ pc[u] \in {"dispatch", "swapIn"} /\ Cur(u) \in handles' => Cur(u) \in handles
  <2>1. \A u \in Threads \ {t} : f \notin Refs(u) /\ Refs(u) \cap Refs(t)' = {}
    BY <1>3, <1>6, HomeFacts
  <2>2. \A u \in Threads : pc[u] \in {"dispatch", "swapIn"} => Cur(u) \in Refs(u)
    BY RefsOfCur DEF HoldsFiber, HoldPC
  <2> QED BY <1>1, <2>1, <2>2
<1>10. \A c \in sent' : pin'[c] \in Threads BY <1>2, HomeFacts
<1>11. \A g \in {} \cup Refs(t) : m_state'[g] = "HOLD" =>
        m_cb'[g] \in sent' /\ (ctx'[g] = "saved" \/ g \in Refs(t)')
  BY <1>2, <1>6, HomeFacts DEF fiberVars
<1> QED
  BY <1>2, <1>5, <1>6, <1>7, <1>8, <1>9, <1>10, <1>11, HomeStep DEF fiberVars

\* A fiber on hold is scheduled by its handle, for the thread of its callback:
\* if a thread refers to it, it is that one, which is about to leave it.
LEMMA HomeWake ==
    ASSUME TypeInv, Homes, WakesHeldOnly, NEW t \in Threads, BodyWake(t)
    PROVE  Homes'
<1> USE DEF TypeInv
<1> PICK f \in handles : /\ m_state[f] = "HOLD"
                         /\ schedule(FiberEntry(f, WakePin(f)))
                         /\ handles' = handles \ {f}
  BY DEF BodyWake, WakesHeldOnly
<1>0. ThreadHome(t) /\ QueueHome /\ QueueApart BY HomeFacts
<1>1. f \in Fibers /\ f # NoFiber BY ProgramAssumption DEF TypeOK
<1>2. UNCHANGED <<sent, pin, pc, ft, cb_fiber>> /\ UNCHANGED fiberVars /\ pc[t] = "body"
  BY DEF BodyWake, localVars
<1>3. m_cb[f] \in sent /\ WakePin(f) = pin[m_cb[f]] /\ WakePin(f) \in Threads
  BY <1>1 DEF Homes, HomeHold, WakePin, TypeOK
<1>4. PICK e : e = FiberEntry(f, WakePin(f)) OBVIOUS
<1>5. e \in Task /\ e.fiber = f /\ e.thread = pin[m_cb[f]]
  BY <1>1, <1>3, <1>4, EntryType DEF Task, FiberEntry
<1>6. m_fibers' = Append(m_fibers, e) BY <1>1, <1>4, <1>5 DEF schedule
<1>7. f \notin QueueRefs BY <1>0 DEF QueueHome, HomeEntry, QueueRefs
<1>8. QueueApart' /\ QueueRefs' = QueueRefs \cup {f}
  <2>1. NoFiber \notin QueueRefs BY DEF QueueRefs
  <2> QED BY <1>0, <1>1, <1>5, <1>6, <1>7, <2>1, AppendRefs DEF TypeOK
<1>9. PinsKept BY <1>2 DEF PinsKept
<1>10. QueueHome'
  <2> DEFINE New == {e}
             F == {}
  <2>1. \A d \in New : HomeEntry(d)' BY <1>1, <1>2, <1>3, <1>5 DEF HomeEntry, fiberVars
  <2>2. \A j \in DOMAIN m_fibers' :
          m_fibers'[j] \in New \/ \E k \in DOMAIN m_fibers : m_fibers'[j] = m_fibers[k]
    BY <1>5, <1>6, AppendEntries DEF TypeOK
  <2>3. \A g \in Fibers \ F :
          m_state'[g] = m_state[g] /\ m_cb'[g] = m_cb[g] /\ ctx'[g] = ctx[g]
    BY <1>2 DEF fiberVars
  <2>4. \A g : g \notin F OBVIOUS
  <2> HIDE DEF New, F
  <2> QED BY <1>0, <1>9, <2>1, <2>2, <2>3, <2>4, QueueHomeStep
<1>11. \A u \in Threads : Refs(u)' = Refs(u) BY <1>2 DEF Refs
<1>12. \A u \in Threads : \A g \in Refs(u) \cap QueueRefs' :
        \/ g \in QueueRefs
        \/ g = Cur(u) /\ pc[u] \in Leaving /\ m_state[g] = "HOLD"
  <2>1. ASSUME NEW u \in Threads, f \in Refs(u)
        PROVE  f = Cur(u) /\ pc[u] \in Leaving
    <3>1. ThreadHome(u) BY HomeFacts
    <3> QED BY <2>1, <3>1, HeldRefs
  <2> QED BY <1>8, <2>1
<1>13. ThreadHome(t)' BY <1>0, <1>2, <1>9, <1>12, KeepHome DEF fiberVars
<1>14. \A u \in Threads \ {t} :
        /\ Refs(u) \cap Refs(t)' = {}
        /\ pc[u] \in {"dispatch", "swapIn"} /\ Cur(u) \in handles' => Cur(u) \in handles
  BY <1>11, HomeFacts
<1>15. \A c \in sent' : pin'[c] \in Threads BY <1>2, HomeFacts
<1>16. \A g \in {} \cup Refs(t) : m_state'[g] = "HOLD" =>
        m_cb'[g] \in sent' /\ (ctx'[g] = "saved" \/ g \in Refs(t)')
  BY <1>2, <1>11, HomeFacts DEF fiberVars
<1> QED
  BY <1>2, <1>8, <1>9, <1>10, <1>12, <1>13, <1>14, <1>15, <1>16, HomeStep DEF fiberVars

-----------------------------------------------------------------------------
\* A step that moves only threads that work with nothing.
LEMMA HomeFrame ==
    ASSUME Homes, UNCHANGED <<m_fibers, ft, cb_fiber, sent, pin, handles>>, UNCHANGED fiberVars,
           \A t \in Threads : pc'[t] = pc[t] \/ {pc[t], pc'[t]} \cap (HoldPC \cup {"reset"}) = {}
    PROVE  Homes'
<1>1. QueueRefs' = QueueRefs /\ \A t \in Threads : Refs(t)' = Refs(t) /\ Cur(t)' = Cur(t)
  BY DEF QueueRefs, Refs, Cur
<1>2. ASSUME NEW t \in Threads PROVE ThreadHome(t)'
  <2>1. ThreadHome(t) BY DEF Homes, ThreadHome
  <2>2. CASE pc'[t] = pc[t]
    BY <1>1, <2>1, <2>2
    DEF ThreadHome, HomeCur, HomeRefs, EntryOK, CacheOK, HoldsFiber, Waiting, fiberVars
  <2>3. CASE {pc[t], pc'[t]} \cap (HoldPC \cup {"reset"}) = {}
    <3>1. HomeCur(t)' BY <2>3 DEF HomeCur, HoldsFiber, HoldPC
    <3>2. HomeRefs(t)' BY <1>1, <2>1, <2>3 DEF ThreadHome, HomeRefs, HoldPC, Leaving, fiberVars
    <3>3. EntryOK(t)' /\ CacheOK(t)'
      BY <2>1, <2>3 DEF ThreadHome, EntryOK, CacheOK, HoldsFiber, HoldPC, fiberVars
    <3> QED BY <3>1, <3>2, <3>3 DEF ThreadHome
  <2> QED BY <2>2, <2>3
<1>3. QueueHome' BY DEF Homes, QueueHome, HomeEntry, fiberVars
<1>4. HomeHold' /\ HomesApart' BY <1>1 DEF Homes, HomeHold, HomesApart, fiberVars
<1> QED BY <1>2, <1>3, <1>4 DEF Homes, ThreadHome, QueueHome

\* Steps of start, stop and the destructor.
LEMMA HomeOwner ==
    ASSUME TypeInv, Homes, PoolOK,
           start \/ StopBegin \/ stop \/ Destroy \/ UNCHANGED vars
    PROVE  Homes'
<1> USE DEF TypeInv
<1>1. UNCHANGED <<m_fibers, ft, cb_fiber, sent, pin, handles>> /\ UNCHANGED fiberVars
  BY DEF start, StopBegin, stop, StopEarly, StopCheck, StopFlag, StopCall, StopNoCall, StopSwap,
         StopJoin, Destroy, GoOnly, vars, queueVars, localVars, jobVars
<1>2. \A t \in Threads : pc'[t] = pc[t] \/ {pc[t], pc'[t]} \cap (HoldPC \cup {"reset"}) = {}
  <2>1. CASE start
    <3>1. PoolExited BY <2>1 DEF start, PoolOK
    <3> QED BY <2>1, <3>1 DEF start, PoolExited, HoldPC, TypeOK
  <2>2. CASE StopBegin \/ stop \/ Destroy
    <3>1. PICK w \in OwnerPC \cup {"pick"} : Goto(Caller, w)
      BY <2>2
      DEF StopBegin, stop, StopEarly, StopCheck, StopFlag, StopCall, StopNoCall, StopSwap,
          StopJoin, Destroy, GoOnly, OwnerPC
    <3>2. pc[Caller] \in OwnerPC
      BY <2>2
      DEF StopBegin, stop, StopEarly, StopCheck, StopFlag, StopCall, StopNoCall, StopSwap,
          StopJoin, Destroy, OwnerPC
    <3> QED BY <3>1, <3>2 DEF Goto, TypeOK, HoldPC, OwnerPC
  <2>3. CASE UNCHANGED vars BY <2>3 DEF vars
  <2> QED BY <2>1, <2>2, <2>3
<1> QED BY <1>1, <1>2, HomeFrame

\* Between stop() and the next start() no pool thread runs, whatever the
\* callbacks do.
LEMMA PoolOKStep ==
    ASSUME TypeInv, PoolOK, [Next]_vars
    PROVE  PoolOK'
<1> USE DEF TypeInv
<1> Caller \in Threads /\ Caller \notin Workers
  BY ThreadsAssumption DEF Threads
<1>1. ASSUME NEW t \in Threads, run(t) PROVE PoolOK'
  <2>1. m_threads' = m_threads /\ pc[t] \notin {"none", "exited", "join"}
    BY <1>1
    DEF run, Body, Pick, PickNothing, Dispatch, ResetCbFiber, SwapIn, BodySpawn, BodyRegister,
        BodyWake, YieldToReady, YieldToHold, Yield, BodyReturn, BodyThrow, SwapOut, LeaveActive,
        SettleReady, SettleFinished, SettleOther, SetHold, Idle, Exit, GoOnly, flagVars
  <2>2. CASE BodySpawn(t) \/ BodyRegister(t) \/ BodyWake(t)
    <3>1. pc' = pc BY <2>2 DEF BodySpawn, BodyRegister, BodyWake
    <3> QED BY <2>1, <3>1 DEF PoolOK, PoolExited
  <2>3. CASE ~(BodySpawn(t) \/ BodyRegister(t) \/ BodyWake(t))
    <3>1. PICK w \in PC \ {"join"} : Goto(t, w)
      BY <1>1, <2>3
      DEF run, Body, Pick, PickNothing, Dispatch, ResetCbFiber, SwapIn, YieldToReady, YieldToHold,
          Yield, BodyReturn, BodyThrow, SwapOut, LeaveActive, SettleReady, SettleFinished,
          SettleOther, SetHold, Idle, Exit, GoOnly, PC, RunPC, OwnerPC
    <3> QED BY <2>1, <3>1, PoolStep
  <2> QED BY <2>2, <2>3
<1>2. CASE start
  BY <1>2 DEF start, PoolOK, PoolExited, TypeOK, Threads
<1>3. CASE Submit \/ SubmitBatch \/ UNCHANGED vars \/ Finished
  BY <1>3 DEF Submit, SubmitBatch, Finished, vars, flagVars, PoolOK, PoolExited
<1>4. CASE StopBegin \/ stop \/ Destroy
  <2>1. PICK w : Goto(Caller, w)
    BY <1>4
    DEF StopBegin, stop, StopEarly, StopCheck, StopFlag, StopCall, StopNoCall, StopSwap,
        StopJoin, Destroy, GoOnly
  <2>2. pc'[Caller] = w /\ \A v \in Workers : pc'[v] = pc[v]
    BY <2>1 DEF Goto, TypeOK, Threads
  <2>3. PoolExited' = PoolExited BY <2>2 DEF PoolExited
  <2>4. CASE StopSwap BY <2>2, <2>4 DEF StopSwap, Goto, TypeOK, PoolOK
  <2>5. CASE StopJoin BY <2>3, <2>5 DEF StopJoin, PoolOK
  <2>6. CASE ~StopSwap /\ ~StopJoin
    <3>1. m_threads' = m_threads /\ pc[Caller] # "join"
      BY <1>4, <2>6
      DEF StopBegin, stop, StopEarly, StopCheck, StopFlag, StopCall, StopNoCall, Destroy, GoOnly,
          flagVars
    <3> QED BY <2>3, <3>1 DEF PoolOK
  <2> QED BY <2>4, <2>5, <2>6
<1> QED BY <1>1, <1>2, <1>3, <1>4 DEF Next

HomeInv == TypeInv /\ Homes /\ PoolOK

\* Every step keeps every fiber with its thread.
LEMMA HomeInvStep ==
    ASSUME AllPinned, WakesHeldOnly
    PROVE  HomeInv /\ [Next]_vars => HomeInv'
<1> SUFFICES ASSUME HomeInv, [Next]_vars PROVE HomeInv'
  OBVIOUS
<1> USE DEF HomeInv
<1>1. ASSUME NEW t \in Threads, run(t) PROVE Homes'
  <2>1. CASE Pick(t) \/ ResetCbFiber(t) BY <2>1, HomePick, HomeReset
  <2>2. CASE PickNothing(t) \/ Dispatch(t) \/ LeaveActive(t) \/ SettleOther(t) \/ Idle(t) \/ Exit(t)
    BY <2>2, HomeReadSteps
  <2>3. CASE SetHold(t) \/ SettleFinished(t)
    BY <2>3, HomeDropSteps, HomeCache
  <2>4. CASE SwapIn(t) \/ YieldToHold(t) \/ BodyReturn(t) \/ BodyThrow(t) \/ SwapOut(t)
    BY <2>4, HomeStackSteps
  <2>5. CASE BodySpawn(t) \/ BodyRegister(t) \/ BodyWake(t)
    BY <2>5, HomeSpawn, HomeRegister, HomeWake
  <2>6. ~YieldToReady(t) BY DEF YieldToReady, WakesHeldOnly
  <2>7. ~SettleReady(t)
    BY DEF SettleReady, Homes, HomeCur, FinishedStates
  <2> QED BY <1>1, <2>1, <2>2, <2>3, <2>4, <2>5, <2>6, <2>7 DEF run, Body
<1>2. Submit => Homes' BY HomeSubmit
<1>3. ~SubmitBatch BY ThreadsAssumption DEF SubmitBatch, AllPinned
<1>4. start \/ StopBegin \/ stop \/ Destroy \/ Finished \/ UNCHANGED vars => Homes'
  BY HomeOwner DEF Finished
<1>5. Homes' BY <1>1, <1>2, <1>3, <1>4 DEF Next
<1> QED BY <1>5, TypeStep, PoolOKStep

\* There are no fibers at the start.
LEMMA HomeInit == Init => HomeInv
<1> SUFFICES ASSUME Init PROVE HomeInv
  OBVIOUS
<1>1. \A t \in Threads : pc[t] \in {"main", "none"} /\ ft[t].fiber = NoFiber
                         /\ cb_fiber[t] = NoFiber
  BY DEF Init, NoEntry, FiberEntry
<1>2. \A t \in Threads : Refs(t) = {} BY <1>1 DEF Refs
<1>3. \A t \in Threads : HomeCur(t) /\ HomeRefs(t) /\ EntryOK(t) /\ CacheOK(t)
  BY <1>1, <1>2 DEF HomeCur, HomeRefs, EntryOK, CacheOK, HoldsFiber, HoldPC
<1>4. Homes
  BY <1>2, <1>3 DEF Init, FiberInit, Homes, HomeHold, HomesApart
<1>5. PoolOK
  BY ThreadsAssumption DEF Init, PoolOK, PoolExited, Threads
<1> QED BY <1>4, <1>5, TypeInit DEF HomeInv

(***************************************************************************)
(* A callback scheduled for a thread runs there from its first line to its *)
(* last, the times it went on hold and was woken by another callback       *)
(* included, in a program that names a thread for everything it schedules  *)
(* and wakes only what getState() reports as HOLD.                         *)
(***************************************************************************)
THEOREM RunsWhereScheduled ==
    ASSUME AllPinned, WakesHeldOnly
    PROVE  Spec => []PinRespected
<1>1. HomeInv => PinRespected
  <2> SUFFICES ASSUME HomeInv, NEW t \in Threads, pc[t] = "body", m_cb[Cur(t)] # NoJob
               PROVE  pin[m_cb[Cur(t)]] = t
    BY DEF PinRespected
  <2>1. Cur(t) \in Refs(t) BY RefsOfCur DEF HomeInv, TypeInv, HoldsFiber, HoldPC
  <2> QED BY <2>1 DEF HomeInv, Homes, HomeRefs
<1> QED BY <1>1, HomeInit, HomeInvStep, PTL DEF Spec

(***************************************************************************)
(* In the same programs a fiber is resumed only when its context is saved, *)
(* although HOLD is in m_state before swapcontext stored the registers:    *)
(* the thread that has to resume it is the one that is still leaving it.   *)
(***************************************************************************)
THEOREM PinnedResumesSaved ==
    ASSUME AllPinned, WakesHeldOnly
    PROVE  Spec => []NoStaleResume
<1>1. HomeInv => NoStaleResume
  BY DEF HomeInv, Homes, HomeCur, Waiting, NoStaleResume
<1> QED BY <1>1, HomeInit, HomeInvStep, PTL DEF Spec

-----------------------------------------------------------------------------
(***************************************************************************)
(* The same programs: the counter and the assertions.                      *)
(***************************************************************************)

\* No thread takes a fiber that has ended, so the counter stays exact.
LEMMA HomeExact ==
    ASSUME HomeInv, ActiveCountExact, [Next]_vars
    PROVE  ActiveCountExact'
<1>1. \A t \in Threads : Dispatch(t) => m_state[ft[t].fiber] \notin FinishedStates
  BY DEF HomeInv, Homes, HomeCur, EntryOK, Dispatch, Cur, Waiting, FinishedStates
<1> QED BY <1>1, ExactRun, ExactOwner DEF HomeInv, Next, Finished

(***************************************************************************)
(* m_activeThreadCount is the number of threads at work also when          *)
(* callbacks go on hold: a fiber that is woken is in the queue once, so    *)
(* no thread ever takes one that has ended, and the counter never drifts.  *)
(***************************************************************************)
THEOREM PinnedCounterExact ==
    ASSUME AllPinned, WakesHeldOnly
    PROVE  Spec => []ActiveCountExact
<1>1. Init => HomeInv /\ ActiveCountExact
  BY HomeInit, ExactInit
<1>2. HomeInv /\ ActiveCountExact /\ [Next]_vars => (HomeInv /\ ActiveCountExact)'
  BY HomeInvStep, HomeExact
<1> QED BY <1>1, <1>2, PTL DEF Spec

\* A fiber that executes is the one a thread is in, and no fiber is READY.
NoStray ==
    \A f \in Fibers :
        /\ m_state[f] # "READY"
        /\ m_state[f] = "EXEC" => \E t \in Threads : pc[t] = "body" /\ Cur(t) = f

\* Thread t moves, and every fiber that executes afterwards does so in t, or
\* was executing in another thread.
LEMMA StrayStep ==
    ASSUME NoStray, NEW t \in Threads,
           \A u \in Threads \ {t} :
              pc'[u] = pc[u] /\ ft'[u] = ft[u] /\ cb_fiber'[u] = cb_fiber[u],
           \A f \in Fibers :
              /\ m_state'[f] # "READY"
              /\ m_state'[f] = "EXEC" =>
                    \/ pc'[t] = "body" /\ Cur(t)' = f
                    \/ m_state[f] = "EXEC" /\ ~(pc[t] = "body" /\ Cur(t) = f)
    PROVE  NoStray'
<1>1. \A u \in Threads \ {t} : Cur(u)' = Cur(u) BY DEF Cur
<1>2. ASSUME NEW f \in Fibers, m_state'[f] = "EXEC"
      PROVE  \E u \in Threads : pc'[u] = "body" /\ Cur(u)' = f
  <2>1. CASE m_state[f] = "EXEC" /\ ~(pc[t] = "body" /\ Cur(t) = f)
    <3>1. PICK u \in Threads : pc[u] = "body" /\ Cur(u) = f BY <2>1 DEF NoStray
    <3> QED BY <1>1, <2>1, <3>1
  <2> QED BY <1>2, <2>1
<1> QED BY <1>2 DEF NoStray

\* Every step of run().
LEMMA StrayRun ==
    ASSUME WakesHeldOnly, TypeInv, NoStray, NEW t \in Threads, run(t)
    PROVE  NoStray'
<1> USE DEF TypeInv
<1>1. \A u \in Threads \ {t} : pc'[u] = pc[u] /\ ft'[u] = ft[u] /\ cb_fiber'[u] = cb_fiber[u]
  BY RunOthers
<1>2. CASE BodySpawn(t) \/ BodyRegister(t) \/ BodyWake(t)
  <2>1. UNCHANGED <<m_state, pc, ft, cb_fiber>>
    BY <1>2 DEF BodySpawn, BodyRegister, BodyWake, fiberVars, localVars
  <2> QED BY <1>1, <2>1, StrayStep DEF NoStray, Cur
<1>3. CASE Pick(t) \/ PickNothing(t) \/ Dispatch(t) \/ SwapOut(t) \/ LeaveActive(t)
           \/ SettleReady(t) \/ SettleOther(t) \/ Idle(t) \/ Exit(t)
  <2>1. UNCHANGED m_state /\ pc[t] # "body"
    BY <1>3
    DEF Pick, PickNothing, Dispatch, SwapOut, LeaveActive, SettleReady, SettleOther, Idle, Exit,
        GoOnly, Leave, fiberVars
  <2> QED BY <1>1, <2>1, StrayStep DEF NoStray
<1>4. CASE YieldToHold(t) \/ BodyReturn(t) \/ BodyThrow(t) \/ SettleFinished(t) \/ SetHold(t)
  <2>1. HoldsFiber(t)
    BY <1>4
    DEF YieldToHold, Yield, BodyReturn, BodyThrow, SettleFinished, SetHold, HoldsFiber, HoldPC
  <2>2. Cur(t) \in Fibers BY <2>1, RefsOfCur
  <2>3. m_state'[Cur(t)] \notin {"READY", "EXEC"}
    BY <1>4, <2>2
    DEF YieldToHold, Yield, BodyReturn, BodyThrow, SettleFinished, SetHold, setState, Return,
        Throw, Prepare, fiberVars, FinishedStates, TypeOK, FiberTypeOK
  <2>4. \A g \in Fibers \ {Cur(t)} : m_state'[g] = m_state[g]
    BY <1>4
    DEF YieldToHold, Yield, BodyReturn, BodyThrow, SettleFinished, SetHold, setState, Return,
        Throw, Prepare, fiberVars, TypeOK, FiberTypeOK
  <2> QED BY <1>1, <2>3, <2>4, StrayStep DEF NoStray
<1>5. CASE SwapIn(t)
  <2>1. Cur(t)' = Cur(t) /\ pc'[t] = "body" /\ pc[t] = "swapIn"
    BY <1>5 DEF SwapIn, Goto, localVars, Cur, TypeOK
  <2>2. m_state'[Cur(t)] = "EXEC" \/ m_state' = m_state
    BY <1>5 DEF SwapIn, Enter, TypeOK, FiberTypeOK
  <2>3. \A g \in Fibers \ {Cur(t)} : m_state'[g] = m_state[g]
    BY <1>5 DEF SwapIn, Enter, TypeOK, FiberTypeOK
  <2> QED BY <1>1, <2>1, <2>2, <2>3, StrayStep DEF NoStray
<1>6. CASE ResetCbFiber(t)
  <2>1. PICK f \in Fibers : m_state' = [m_state EXCEPT ![f] = "INIT"] /\ pc[t] = "reset"
    BY <1>6 DEF ResetCbFiber, Prepare
  <2>2. \A g \in Fibers : m_state'[g] = m_state[g] \/ m_state'[g] = "INIT"
    BY <2>1 DEF TypeOK, FiberTypeOK
  <2> QED BY <1>1, <2>1, <2>2, StrayStep DEF NoStray
<1>7. ~YieldToReady(t) BY DEF YieldToReady, WakesHeldOnly
<1> QED BY <1>2, <1>3, <1>4, <1>5, <1>6, <1>7 DEF run, Body

\* Every step of the owner.
LEMMA StrayOwner ==
    ASSUME TypeInv, PoolOK, NoStray,
           start \/ Submit \/ StopBegin \/ stop \/ Destroy \/ UNCHANGED vars
    PROVE  NoStray'
<1> USE DEF TypeInv
<1> Caller \in Threads /\ Caller \notin Workers
  BY ThreadsAssumption DEF Threads
<1>1. \A f \in Fibers : m_state'[f] \in {m_state[f], "INIT"}
  BY DEF start, Submit, StopBegin, stop, StopEarly, StopCheck, StopFlag, StopCall, StopNoCall,
         StopSwap, StopJoin, Destroy, GoOnly, vars, fiberVars, Prepare, TypeOK, FiberTypeOK
<1>2. UNCHANGED <<ft, cb_fiber>>
  BY DEF start, Submit, StopBegin, stop, StopEarly, StopCheck, StopFlag, StopCall, StopNoCall,
         StopSwap, StopJoin, Destroy, GoOnly, vars, localVars
<1>3. \A u \in Threads : pc[u] = "body" => pc'[u] = "body"
  <2>1. CASE start
    <3>1. PoolExited BY <2>1 DEF start, PoolOK
    <3> QED BY <2>1, <3>1 DEF start, PoolExited, TypeOK
  <2>2. CASE Submit \/ UNCHANGED vars BY <2>2 DEF Submit, vars
  <2>3. CASE StopBegin \/ stop \/ Destroy
    BY <2>3
    DEF StopBegin, stop, StopEarly, StopCheck, StopFlag, StopCall, StopNoCall, StopSwap,
        StopJoin, Destroy, GoOnly, Goto, TypeOK
  <2> QED BY <2>1, <2>2, <2>3
<1> QED BY <1>1, <1>2, <1>3 DEF NoStray, Cur

\* No fiber executes at the start.
LEMMA StrayInit == Init => NoStray
<1> SUFFICES ASSUME Init PROVE NoStray
  OBVIOUS
<1>1. ASSUME NEW f \in Fibers PROVE m_state[f] \notin {"READY", "EXEC"}
  BY DEF Init, FiberInit
<1> QED BY <1>1, Zenon DEF NoStray

\* What the assertions of the code test, where every fiber has its thread.
LEMMA HomeAssertions ==
    ASSUME HomeInv, OwnerInv, RootUnused, NoStray
    PROVE  AssertionsHold
<1> USE DEF HomeInv, TypeInv
<1>1. ASSUME NEW t \in Threads
      PROVE  /\ pc[t] = "reset" /\ cb_fiber[t] # NoFiber => Disposable(cb_fiber[t])
             /\ pc[t] = "swapIn" => m_state[Cur(t)] # "EXEC" /\ ctx[Cur(t)] # "over"
             /\ pc[t] = "body" => m_state[Cur(t)] = "EXEC"
  BY <1>1 DEF Homes, HomeCur, CacheOK, Waiting, HoldsFiber, HoldPC, Disposable
<1>2. ASSUME NEW f \in Fibers, ~Referenced(f) PROVE Disposable(f)
  <2>1. \A t \in Threads : f \notin Refs(t) BY <1>2, UnreferencedApart
  <2>2. m_state[f] # "HOLD"
    BY <1>2, <2>1 DEF Homes, HomeHold, Referenced, OwnsItself
  <2>3. m_state[f] # "EXEC"
    BY <2>1, RefsOfCur DEF NoStray, HoldsFiber, HoldPC
  <2>4. m_state[f] \in State BY DEF TypeOK, FiberTypeOK
  <2> QED BY <2>2, <2>3, <2>4 DEF NoStray, State, Disposable
<1> QED BY <1>1, <1>2, OwnerAssertions DEF AssertionsHold

(***************************************************************************)
(* No assertion fails either when callbacks go on hold and are woken by    *)
(* their handles: in particular no fiber is destroyed, or reset for the    *)
(* next callback, while it is on hold or executes.                         *)
(***************************************************************************)
THEOREM PinnedAssertions ==
    ASSUME AllPinned, WakesHeldOnly, OneStop
    PROVE  Spec => []AssertionsHold
<1> DEFINE I == HomeInv /\ OwnerInv /\ RootUnused /\ NoStray
<1>1. Init => I
  <2>1. Init => RootUnused BY DEF Init, RootUnused, Threads
  <2> QED BY <2>1, StrayInit, HomeInit, InitOwner
<1>2. I /\ [Next]_vars => I'
  <2> SUFFICES ASSUME I, [Next]_vars PROVE I'
    OBVIOUS
  <2>1. HomeInv' BY HomeInvStep
  <2>2. OwnerInv' /\ RootUnused' BY OwnerInvStep, RootStep DEF HomeInv
  <2>3. ~SubmitBatch BY ThreadsAssumption DEF SubmitBatch, AllPinned
  <2>4. NoStray' BY <2>3, StrayRun, StrayOwner DEF HomeInv, Next, Finished
  <2> QED BY <2>1, <2>2, <2>4
<1>3. I => AssertionsHold BY HomeAssertions
<1> QED BY <1>1, <1>2, <1>3, PTL DEF Spec

-----------------------------------------------------------------------------
(***************************************************************************)
(* The same programs: stop().  No fiber goes through the window between    *)
(* --m_activeThreadCount and schedule(), so stopping(), once it is true,   *)
(* stays true until the owner schedules or starts again.                   *)
(***************************************************************************)

\* The work of a thread that is counted is not over.
LEMMA NoneActive ==
    ASSUME TypeInv, ActiveCountExact, m_activeThreadCount = 0
    PROVE  \A t \in Threads : pc[t] \notin ActivePC
<1>1. ActiveThreads = {} BY ActiveFinite, FS_EmptySet DEF ActiveCountExact
<1> QED BY <1>1 DEF ActiveThreads

\* A step of run() does not end stopping().
LEMMA StoppingStays ==
    ASSUME HomeInv, ActiveCountExact, Stopping, NEW t \in Threads, run(t)
    PROVE  Stopping'
<1> USE DEF HomeInv, TypeInv
<1>1. pc[t] \notin ActivePC BY NoneActive DEF Stopping
<1>2. ~Pick(t) BY DEF Pick, Stopping
<1>3. ~SettleReady(t) BY DEF SettleReady, Homes, HomeCur, FinishedStates
<1>4. CASE PickNothing(t) \/ SettleFinished(t) \/ SettleOther(t) \/ SetHold(t) \/ Idle(t)
           \/ Exit(t)
  BY <1>4
  DEF PickNothing, SettleFinished, SettleOther, SetHold, Idle, Exit, GoOnly, queueVars, flagVars,
      Stopping
<1>5. ~(Dispatch(t) \/ ResetCbFiber(t) \/ SwapIn(t) \/ Body(t) \/ LeaveActive(t))
  BY <1>1
  DEF Dispatch, ResetCbFiber, SwapIn, Body, BodySpawn, BodyRegister, BodyWake, YieldToReady,
      YieldToHold, Yield, BodyReturn, BodyThrow, SwapOut, LeaveActive, ActivePC
<1> QED BY <1>2, <1>3, <1>4, <1>5 DEF run

\* The end that a thread of run() has seen is still there, and stop() waits for
\* threads that will see it.
EndSeen ==
    /\ \A t \in Threads : pc[t] \in RunPC /\ idleTerm[t] => Stopping
    /\ pc[Caller] \in {"swap", "join"} =>
        IF UseCaller THEN Stopping
        ELSE \A w \in pool : pc[w] \in RunPC \/ (pc[w] = "exited" /\ Stopping)

\* A step of run().
LEMMA EndRun ==
    ASSUME HomeInv, OwnerInv, ActiveCountExact, EndSeen, NEW t \in Threads, run(t)
    PROVE  EndSeen'
<1> USE DEF HomeInv, TypeInv
<1> Caller \in Threads /\ Caller \notin Workers
  BY ThreadsAssumption DEF Threads
<1>1. /\ pc[t] \in RunPC /\ pool' = pool
      /\ \A u \in Threads \ {t} : pc'[u] = pc[u] /\ idleTerm'[u] = idleTerm[u]
      /\ pc'[t] \in RunPC \cup {"exited", "swap"}
      /\ pc'[t] = "swap" => t = Caller
      /\ pc'[t] = "exited" => t # Caller
  <2>1. \A u \in Threads \ {t} : idleTerm'[u] = idleTerm[u] BY RunGoes DEF TypeOK
  <2> QED BY <2>1, RunGoes, RunOthers DEF Goto, TypeOK, RunPC
<1>2. pc'[Caller] \in {"swap", "join"} =>
        pc[Caller] \in {"swap", "join"} \/ (t = Caller /\ UseCaller)
  BY <1>1 DEF RunPC, OwnerInv, OwnerOK
<1>3. pool \subseteq Workers /\ Workers \subseteq Threads BY DEF TypeOK, Threads
<1>4. CASE Stopping
  <2>1. Stopping' BY <1>4, StoppingStays
  <2>2. ASSUME pc'[Caller] \in {"swap", "join"}, ~UseCaller, NEW w \in pool
        PROVE  pc'[w] \in RunPC \cup {"exited"}
    <3>1. pc[w] \in RunPC \cup {"exited"} BY <1>2, <2>2 DEF EndSeen
    <3> QED BY <1>1, <1>3, <3>1
  <2> QED BY <1>1, <2>1, <2>2 DEF EndSeen
<1>5. CASE ~Stopping
  <2>1. \A u \in Threads : pc[u] \in RunPC => ~idleTerm[u] BY <1>5 DEF EndSeen
  <2>2. ~idleTerm'[t] BY <1>1, <1>5, <2>1, RunGoes DEF TypeOK
  <2>3. pc'[t] \in RunPC BY <1>1, <2>1, RunGoes DEF Goto, TypeOK
  <2>4. \A u \in Threads : pc'[u] \in RunPC => ~idleTerm'[u] BY <1>1, <2>1, <2>2
  <2>5. pc'[Caller] \in {"swap", "join"} => ~UseCaller /\ \A w \in pool : pc'[w] \in RunPC
    <3>1. pc'[Caller] \in {"swap", "join"} => pc[Caller] \in {"swap", "join"}
      BY <1>1, <2>3 DEF RunPC
    <3> QED BY <1>1, <1>3, <1>5, <2>3, <3>1 DEF EndSeen
  <2> QED BY <1>1, <2>4, <2>5 DEF EndSeen
<1> QED BY <1>4, <1>5

\* A step of the owner.
LEMMA EndOwner ==
    ASSUME HomeInv, OwnerInv, EndSeen,
           start \/ Submit \/ StopBegin \/ stop \/ Destroy \/ UNCHANGED vars
    PROVE  EndSeen'
<1> USE DEF HomeInv, TypeInv, OwnerInv
<1> Caller \in Threads /\ Caller \notin Workers
  BY ThreadsAssumption DEF Threads
<1>1. CASE start
  <2>1. \A u \in Threads : ~idleTerm'[u] BY <1>1 DEF start
  <2>2. pc'[Caller] = "main" BY <1>1 DEF start, TypeOK
  <2> QED BY <2>1, <2>2 DEF EndSeen
<1>2. CASE Submit
  <2>1. pc[Caller] = "main" /\ UNCHANGED <<pc, idleTerm>> BY <1>2 DEF Submit, localVars
  <2>2. \A u \in Threads : pc[u] \in RunPC => ~idleTerm[u]
    <3>1. CASE m_stopping
      <4>1. PoolExited BY <2>1, <3>1 DEF PoolPhases
      <4> QED BY <2>1, <4>1 DEF PoolExited, Threads, RunPC
    <3>2. CASE ~m_stopping
      BY <2>1, <3>2 DEF PoolPhases, Threads, RunPC
    <3> QED BY <3>1, <3>2
  <2> QED BY <2>1, <2>2 DEF EndSeen
<1>3. CASE StopBegin \/ stop \/ Destroy
  <2>1. /\ UNCHANGED <<idleTerm, pool>>
        /\ Stopping => Stopping'
    BY <1>3
    DEF StopBegin, stop, StopEarly, StopCheck, StopFlag, StopCall, StopNoCall, StopSwap,
        StopJoin, Destroy, GoOnly, localVars, flagVars, queueVars, Stopping
  <2>2. PICK w \in OwnerPC \cup {"pick"} :
          Goto(Caller, w) /\ (w = "pick" => ~idleTerm[Caller])
    BY <1>3
    DEF StopBegin, stop, StopEarly, StopCheck, StopFlag, StopCall, StopNoCall, StopSwap,
        StopJoin, Destroy, GoOnly, OwnerPC, OwnerOK
  <2>3. pc'[Caller] = w /\ \A u \in Threads \ {Caller} : pc'[u] = pc[u]
    BY <2>2 DEF Goto, TypeOK
  <2>4. \A u \in Threads : pc'[u] \in RunPC /\ idleTerm'[u] => Stopping'
    BY <2>1, <2>2, <2>3 DEF EndSeen, OwnerPC, RunPC
  <2>5. \A v \in pool : pc'[v] = pc[v] BY <2>3 DEF TypeOK, Threads
  <2>6. ASSUME pc'[Caller] \in {"swap", "join"}
        PROVE  IF UseCaller THEN Stopping'
               ELSE \A v \in pool : pc[v] \in RunPC \/ (pc[v] = "exited" /\ Stopping')
    <3>1. StopFlag \/ StopNoCall \/ StopSwap
      BY <1>3, <2>6
      DEF StopBegin, stop, StopEarly, StopCheck, StopCall, StopJoin, Destroy, GoOnly, Goto, TypeOK
    <3>2. CASE StopFlag
      <4>1. ~UseCaller /\ pc[Caller] = "stopFlag"
        BY <2>6, <3>2 DEF StopFlag, Goto, TypeOK
      <4> QED BY <4>1 DEF OwnerOK, PoolPhases
    <3>3. CASE StopNoCall
      BY <2>1, <3>3 DEF StopNoCall, OwnerOK
    <3>4. CASE StopSwap
      BY <2>1, <3>4 DEF StopSwap, EndSeen
    <3> QED BY <3>1, <3>2, <3>3, <3>4
  <2> QED BY <2>1, <2>4, <2>5, <2>6 DEF EndSeen
<1>4. CASE UNCHANGED vars
  BY <1>4 DEF vars, queueVars, flagVars, localVars, EndSeen, Stopping
<1> QED BY <1>1, <1>2, <1>3, <1>4

-----------------------------------------------------------------------------
(***************************************************************************)
(* Where the callbacks of these programs are.                              *)
(***************************************************************************)

\* Somebody else than thread t, or the program itself, counts on fiber g.
Claimed(t, g) ==
    \/ g \in QueueRefs
    \/ \E u \in Threads \ {t} : g \in Refs(u)
    \/ g \in handles /\ m_state[g] = "HOLD"

\* A step of run() leaves such fibers as they are.
LEMMA ClaimedKept ==
    ASSUME TypeInv, Homes, NEW t \in Threads, run(t), NEW g \in Fibers, Claimed(t, g)
    PROVE  m_cb'[g] = m_cb[g] /\ m_state'[g] = m_state[g]
<1> USE DEF TypeInv
<1> DEFINE Same == m_cb'[g] = m_cb[g] /\ m_state'[g] = m_state[g]
<1>0. ThreadHome(t) BY HomeFacts
<1>1. \A f \in Fibers : ~Referenced(f) => f # g
  BY UnreferencedApart DEF Claimed, Referenced
<1>2. HoldsFiber(t) => Cur(t) \in Refs(t) /\ Cur(t) \in Fibers
  BY RefsOfCur
<1>3. g \in Refs(t) => g \in QueueRefs \/ (g \in handles /\ m_state[g] = "HOLD")
  BY HomeFacts DEF Claimed
<1>4. g \in Refs(t) /\ g \in QueueRefs => g = Cur(t) /\ pc[t] \in Leaving /\ m_state[g] = "HOLD"
  BY <1>0 DEF ThreadHome, HomeRefs
<1>5. CASE Pick(t) \/ PickNothing(t) \/ Dispatch(t) \/ BodySpawn(t) \/ BodyRegister(t)
           \/ BodyWake(t) \/ LeaveActive(t) \/ SettleReady(t) \/ SettleOther(t) \/ Idle(t)
           \/ Exit(t)
  BY <1>5
  DEF Pick, PickNothing, Dispatch, BodySpawn, BodyRegister, BodyWake, LeaveActive, SettleReady,
      SettleOther, Idle, Exit, GoOnly, fiberVars
<1>6. CASE ResetCbFiber(t)
  <2>1. PICK f \in Fibers :
          /\ IF cb_fiber[t] # NoFiber THEN f = cb_fiber[t] ELSE ~Referenced(f)
          /\ Prepare(f, ft[t].cb)
    BY <1>6 DEF ResetCbFiber
  <2>2. pc[t] = "reset" BY <1>6 DEF ResetCbFiber
  <2>3. f # g
    <3>1. CASE cb_fiber[t] # NoFiber
      <4>1. f \in Refs(t) /\ m_state[f] = "INIT"
        BY <1>0, <2>1, <2>2, <3>1 DEF Refs, ThreadHome, CacheOK, HoldsFiber, HoldPC
      <4> QED BY <1>3, <1>4, <4>1
    <3>2. CASE cb_fiber[t] = NoFiber BY <1>1, <2>1, <3>2
    <3> QED BY <3>1, <3>2
  <2> QED BY <2>1, <2>3 DEF Prepare, TypeOK, FiberTypeOK
<1>7. CASE SwapIn(t) \/ YieldToReady(t) \/ YieldToHold(t) \/ BodyReturn(t) \/ BodyThrow(t)
  <2>1. HoldsFiber(t) /\ pc[t] \in {"swapIn", "body"}
    BY <1>7
    DEF SwapIn, YieldToReady, YieldToHold, Yield, BodyReturn, BodyThrow, HoldsFiber, HoldPC
  <2>2. g # Cur(t)
    BY <1>0, <1>2, <1>3, <1>4, <2>1 DEF ThreadHome, HomeCur, Leaving
  <2> QED
    BY <1>7, <2>2
    DEF SwapIn, YieldToReady, YieldToHold, Yield, BodyReturn, BodyThrow, Enter, setState, Return,
        Throw, TypeOK, FiberTypeOK
<1>8. CASE SwapOut(t)
  BY <1>8 DEF SwapOut, Leave
<1>9. CASE SettleFinished(t)
  <2>1. HoldsFiber(t) /\ m_state[Cur(t)] \in FinishedStates
    BY <1>9 DEF SettleFinished, HoldsFiber, HoldPC
  <2>2. g # Cur(t) BY <1>2, <1>3, <1>4, <2>1 DEF FinishedStates
  <2> QED BY <1>9, <2>2 DEF SettleFinished, Prepare, fiberVars, TypeOK, FiberTypeOK
<1>10. CASE SetHold(t)
  <2>1. m_state[Cur(t)] = "HOLD" BY <1>0, <1>10 DEF SetHold, ThreadHome, HomeCur
  <2> QED BY <1>10, <2>1 DEF SetHold, setState, TypeOK, FiberTypeOK
<1> QED BY <1>5, <1>6, <1>7, <1>8, <1>9, <1>10 DEF run, Body

\* A fiber that goes on hold, or has, can be woken or is in the queue already.
LeavesHeld ==
    \A t \in Threads :
        pc[t] \in Leaving /\ m_state[Cur(t)] = "HOLD" => Cur(t) \in handles \cup QueueRefs

\* A handle is given up only for an entry of the queue, and an entry only to a
\* thread.
LEMMA HandlesKept ==
    ASSUME TypeInv, Homes, NEW t \in Threads, run(t)
    PROVE  \A g \in handles \cup QueueRefs :
             g \in (handles \cup QueueRefs)' \/ (Pick(t) /\ g \in Refs(t)')
<1> USE DEF TypeInv
<1>0. QueueApart BY HomeFacts
<1>1. CASE Pick(t)
  <2>1. PICK k \in DOMAIN m_fibers :
          ft' = [ft EXCEPT ![t] = m_fibers[k]] /\ Take(k) /\ UNCHANGED handles
    BY <1>1 DEF Pick, jobVars
  <2>2. QueueRefs' = QueueRefs \ {m_fibers[k].fiber}
    BY <1>0, <2>1, RemoveRefs DEF Take, TypeOK
  <2>3. ft'[t] = m_fibers[k] BY <2>1 DEF TypeOK
  <2>4. \A g \in QueueRefs : g # NoFiber BY DEF QueueRefs
  <2> QED BY <1>1, <2>1, <2>2, <2>3, <2>4 DEF Refs
<1>2. CASE BodyWake(t)
  <2>1. PICK f \in handles :
          schedule(FiberEntry(f, WakePin(f))) /\ handles' = handles \ {f}
    BY <1>2 DEF BodyWake
  <2>2. f \in Fibers /\ f # NoFiber BY ProgramAssumption DEF TypeOK
  <2>3. PICK e : e = FiberEntry(f, WakePin(f)) OBVIOUS
  <2>4. e.fiber = f /\ m_fibers' = Append(m_fibers, e)
    BY <2>1, <2>2, <2>3 DEF FiberEntry, schedule
  <2>5. /\ DOMAIN m_fibers \subseteq DOMAIN m_fibers' /\ Len(m_fibers) + 1 \in DOMAIN m_fibers'
        /\ \A k \in DOMAIN m_fibers : m_fibers'[k] = m_fibers[k]
        /\ m_fibers'[Len(m_fibers) + 1] = e
    BY <2>4 DEF TypeOK
  <2>6. QueueRefs \cup {f} \subseteq QueueRefs' BY <2>2, <2>4, <2>5 DEF QueueRefs
  <2> QED BY <2>1, <2>6
<1>3. CASE BodySpawn(t) \/ SettleReady(t)
  <2>1. PICK e : m_fibers' = m_fibers \/ m_fibers' = Append(m_fibers, e)
    BY <1>3 DEF BodySpawn, SettleReady, schedule
  <2>2. /\ DOMAIN m_fibers \subseteq DOMAIN m_fibers'
        /\ \A k \in DOMAIN m_fibers : m_fibers'[k] = m_fibers[k]
    <3>1. CASE m_fibers' = m_fibers BY <3>1
    <3>2. CASE m_fibers' = Append(m_fibers, e) BY <3>2 DEF TypeOK
    <3> QED BY <2>1, <3>1, <3>2
  <2>3. QueueRefs \subseteq QueueRefs' BY <2>2 DEF QueueRefs
  <2> QED BY <1>3, <2>3 DEF BodySpawn, SettleReady, jobVars
<1>4. CASE ~(Pick(t) \/ BodyWake(t) \/ BodySpawn(t) \/ SettleReady(t))
  <2>1. m_fibers' = m_fibers /\ handles \subseteq handles'
    BY <1>4
    DEF run, Body, PickNothing, Dispatch, ResetCbFiber, SwapIn, BodyRegister, YieldToReady,
        YieldToHold, Yield, BodyReturn, BodyThrow, SwapOut, LeaveActive, SettleFinished,
        SettleOther, SetHold, Idle, Exit, GoOnly, queueVars, jobVars
  <2> QED BY <2>1 DEF QueueRefs
<1> QED BY <1>1, <1>2, <1>3, <1>4

\* Every step of run().
LEMMA LeavesHeldRun ==
    ASSUME WakesHeldOnly, TypeInv, Homes, Homes', LeavesHeld, NEW t \in Threads, run(t)
    PROVE  LeavesHeld'
<1> USE DEF TypeInv
<1>1. ASSUME NEW u \in Threads \ {t}, pc'[u] \in Leaving, m_state'[Cur(u)'] = "HOLD"
      PROVE  Cur(u)' \in (handles \cup QueueRefs)'
  <2>1. pc'[u] = pc[u] /\ Cur(u)' = Cur(u) /\ Refs(u)' = Refs(u)
    BY RunOthers DEF Cur, Refs
  <2>2. Cur(u) \in Refs(u) /\ Cur(u) \in Fibers
    BY <1>1, <2>1, RefsOfCur DEF Leaving, HoldsFiber, HoldPC
  <2>3. m_state'[Cur(u)] = m_state[Cur(u)] BY <2>2, ClaimedKept DEF Claimed
  <2>4. Cur(u) \in handles \cup QueueRefs BY <1>1, <2>1, <2>3 DEF LeavesHeld
  <2>5. Cur(u) \notin Refs(t)'
    <3>1. Refs(t)' \cap Refs(u)' = {} BY DEF Homes, HomesApart
    <3> QED BY <2>1, <2>2, <3>1
  <2> QED BY <2>1, <2>4, <2>5, HandlesKept
<1>2. ASSUME pc'[t] \in Leaving, m_state'[Cur(t)'] = "HOLD"
      PROVE  Cur(t)' \in (handles \cup QueueRefs)'
  <2>1. CASE YieldToHold(t)
    <3>1. UNCHANGED <<ft, cb_fiber, m_fibers, handles>> /\ (Cur(t) \in handles \/ Queued(Cur(t)))
      BY <2>1 DEF YieldToHold, Yield, queueVars, localVars
    <3>2. Cur(t) \in Fibers /\ Cur(t) # NoFiber
      BY <2>1, RefsOfCur, ProgramAssumption DEF YieldToHold, Yield, HoldsFiber, HoldPC
    <3> QED BY <3>1, <3>2 DEF Queued, QueueRefs, Cur
  <2>2. CASE BodyReturn(t) \/ BodyThrow(t)
    <3>1. Cur(t) \in Fibers /\ Cur(t)' = Cur(t)
      BY <2>2, RefsOfCur DEF BodyReturn, BodyThrow, HoldsFiber, HoldPC, localVars, Cur
    <3> QED
      BY <1>2, <2>2, <3>1 DEF BodyReturn, BodyThrow, Return, Throw, TypeOK, FiberTypeOK
  <2>3. CASE SwapOut(t) \/ LeaveActive(t) \/ SettleOther(t)
    <3>1. UNCHANGED <<ft, cb_fiber, m_fibers, handles, m_state>> /\ pc[t] \in Leaving
      BY <2>3
      DEF SwapOut, LeaveActive, SettleOther, GoOnly, Leave, queueVars, localVars, jobVars,
          fiberVars, Leaving
    <3>2. Cur(t)' = Cur(t) /\ QueueRefs' = QueueRefs BY <3>1 DEF Cur, QueueRefs
    <3> QED BY <1>2, <3>1, <3>2 DEF LeavesHeld
  <2>4. ~YieldToReady(t) BY DEF YieldToReady, WakesHeldOnly
  <2>5. CASE BodySpawn(t) \/ BodyRegister(t) \/ BodyWake(t)
    <3>1. pc'[t] = "body" BY <2>5 DEF BodySpawn, BodyRegister, BodyWake, localVars
    <3> QED BY <1>2, <3>1 DEF Leaving
  <2>6. CASE Pick(t) \/ PickNothing(t) \/ Dispatch(t) \/ ResetCbFiber(t) \/ SwapIn(t)
             \/ SettleReady(t) \/ SettleFinished(t) \/ SetHold(t) \/ Idle(t) \/ Exit(t)
    <3>1. pc'[t] \in {"dispatch", "reset", "idle", "swapIn", "body", "pick", "swap", "exited"}
      BY <2>6
      DEF Pick, PickNothing, Dispatch, ResetCbFiber, SwapIn, SettleReady, SettleFinished, SetHold,
          Idle, Exit, GoOnly, Goto, TypeOK
    <3> QED BY <1>2, <3>1 DEF Leaving
  <2> QED BY <2>1, <2>2, <2>3, <2>4, <2>5, <2>6 DEF run, Body
<1> QED BY <1>1, <1>2 DEF LeavesHeld

\* A callback that was scheduled and has not ended is in the queue, carried by
\* a thread of run(), or on hold where the program has a handle to wake it.
JobsHeld ==
    \A c \in sent \ done : InQueue(c) \/ (\E t \in Threads : Carries(t, c)) \/ OnHold(c)

\* The step of thread t keeps every entry or takes it up, keeps every fiber on
\* hold or puts it into the queue, and accounts for what the thread carried and
\* for what it schedules.
LEMMA HeldStep ==
    ASSUME TypeInv, JobsHeld, NEW t \in Threads,
           \A u \in Threads \ {t} :
                pc'[u] = pc[u] /\ ft'[u] = ft[u] /\ cb_fiber'[u] = cb_fiber[u],
           \A g \in Fibers : Claimed(t, g) => m_cb'[g] = m_cb[g] /\ m_state'[g] = m_state[g],
           \A k \in DOMAIN m_fibers, c \in Jobs :
                \/ \E j \in DOMAIN m_fibers' : m_fibers'[j] = m_fibers[k]
                \/ EntryFor(m_fibers[k], c) => Carries(t, c)',
           \A g \in handles : m_state[g] = "HOLD" => g \in handles' \/ g \in QueueRefs',
           sent' \subseteq Jobs,
           \A c \in sent' \ done' :
                \/ c \in sent \ done /\ ~Carries(t, c)
                \/ InQueue(c)' \/ Carries(t, c)' \/ OnHold(c)'
    PROVE  JobsHeld'
<1> USE DEF TypeInv
<1> SUFFICES ASSUME NEW c \in Jobs, c \in sent \ done, ~Carries(t, c)
             PROVE  InQueue(c)' \/ (\E u \in Threads : Carries(u, c)') \/ OnHold(c)'
  BY DEF JobsHeld
<1>1. CASE InQueue(c)
  <2>1. PICK k \in DOMAIN m_fibers : EntryFor(m_fibers[k], c) BY <1>1 DEF InQueue
  <2>2. CASE \E j \in DOMAIN m_fibers' : m_fibers'[j] = m_fibers[k]
    <3>1. PICK j \in DOMAIN m_fibers' : m_fibers'[j] = m_fibers[k] BY <2>2
    <3>2. m_fibers[k].fiber # NoFiber =>
            m_fibers[k].fiber \in QueueRefs /\ m_fibers[k].fiber \in Fibers
      BY RefsAreFibers DEF QueueRefs
    <3>3. EntryFor(m_fibers[j], c)' BY <2>1, <3>1, <3>2 DEF EntryFor, Claimed
    <3> QED BY <3>3 DEF InQueue
  <2>3. CASE Carries(t, c)' BY <2>3
  <2> QED BY <2>1, <2>2, <2>3
<1>2. CASE \E u \in Threads : Carries(u, c)
  <2>1. PICK u \in Threads \ {t} : Carries(u, c) BY <1>2
  <2>2. Cur(u)' = Cur(u) BY DEF Cur
  <2>3. HoldsFiber(u) => m_cb'[Cur(u)] = m_cb[Cur(u)] /\ m_state'[Cur(u)] = m_state[Cur(u)]
    BY RefsOfCur DEF Claimed
  <2>4. Carries(u, c)' BY <2>1, <2>2, <2>3 DEF Carries, HoldsFiber
  <2> QED BY <2>4
<1>3. CASE OnHold(c)
  <2>1. PICK f \in handles : m_cb[f] = c /\ m_state[f] = "HOLD" BY <1>3 DEF OnHold
  <2>2. f \in Fibers /\ f # NoFiber BY ProgramAssumption DEF TypeOK
  <2>3. m_cb'[f] = c /\ m_state'[f] = "HOLD" BY <2>1, <2>2 DEF Claimed
  <2>4. CASE f \in handles' BY <2>3, <2>4 DEF OnHold
  <2>5. CASE f \in QueueRefs'
    <3>1. PICK j \in DOMAIN m_fibers' : m_fibers'[j].fiber = f BY <2>5 DEF QueueRefs
    <3>2. EntryFor(m_fibers[j], c)' BY <2>2, <2>3, <3>1 DEF EntryFor
    <3> QED BY <3>2 DEF InQueue
  <2> QED BY <2>1, <2>4, <2>5
<1> QED BY <1>1, <1>2, <1>3 DEF JobsHeld

\* The step of run() that does so.
LEMMA HeldRun ==
    ASSUME TypeInv, Homes, JobsHeld, NEW t \in Threads, run(t), ~Pick(t),
           UNCHANGED m_fibers \/ \E e \in Task : m_fibers' = Append(m_fibers, e),
           sent' \subseteq Jobs,
           \A c \in sent' \ done' :
                \/ c \in sent \ done /\ ~Carries(t, c)
                \/ InQueue(c)' \/ Carries(t, c)' \/ OnHold(c)'
    PROVE  JobsHeld'
<1>1. \A u \in Threads \ {t} : pc'[u] = pc[u] /\ ft'[u] = ft[u] /\ cb_fiber'[u] = cb_fiber[u]
  BY RunOthers DEF TypeInv
<1>2. \A g \in Fibers : Claimed(t, g) => m_cb'[g] = m_cb[g] /\ m_state'[g] = m_state[g]
  BY ClaimedKept
<1>3. \A k \in DOMAIN m_fibers : \E j \in DOMAIN m_fibers' : m_fibers'[j] = m_fibers[k]
  <2>1. CASE UNCHANGED m_fibers BY <2>1
  <2>2. CASE \E e \in Task : m_fibers' = Append(m_fibers, e)
    BY <2>2, AppendEntries DEF TypeInv, TypeOK
  <2> QED BY <2>1, <2>2
<1>4. \A g \in handles : m_state[g] = "HOLD" => g \in handles' \/ g \in QueueRefs'
  BY HandlesKept
<1> QED BY <1>1, <1>2, <1>3, <1>4, HeldStep

\* A thread takes an entry; it carried nothing.
LEMMA HeldPick ==
    ASSUME TypeInv, Homes, JobsHeld, NEW t \in Threads, Pick(t)
    PROVE  JobsHeld'
<1> USE DEF TypeInv
<1>1. \A u \in Threads \ {t} : pc'[u] = pc[u] /\ ft'[u] = ft[u] /\ cb_fiber'[u] = cb_fiber[u]
  BY RunOthers DEF run
<1>2. PICK k \in DOMAIN m_fibers :
        /\ ft' = [ft EXCEPT ![t] = m_fibers[k]]
        /\ Take(k)
        /\ Goto(t, IF m_fibers[k].fiber # NoFiber THEN "dispatch" ELSE "reset")
  BY DEF Pick
<1>3. UNCHANGED <<m_state, m_cb, sent, done, handles>> /\ pc[t] = "pick"
  BY DEF Pick, fiberVars, jobVars
<1>4. ft'[t] = m_fibers[k]
      /\ pc'[t] = IF m_fibers[k].fiber # NoFiber THEN "dispatch" ELSE "reset"
  BY <1>2 DEF Goto, TypeOK
<1>5. ASSUME NEW c \in Jobs, EntryFor(m_fibers[k], c) PROVE Carries(t, c)'
  <2>1. CASE m_fibers[k].fiber # NoFiber
    <3>1. Cur(t)' = m_fibers[k].fiber BY <1>4, <2>1 DEF Cur
    <3>2. m_state[m_fibers[k].fiber] \in {"HOLD", "INIT"} BY <2>1 DEF Homes, HomeEntry
    <3> QED
      BY <1>3, <1>4, <1>5, <2>1, <3>1, <3>2
      DEF EntryFor, Carries, HoldsFiber, HoldPC, FinishedStates
  <2>2. CASE m_fibers[k].fiber = NoFiber
    BY <1>4, <1>5, <2>2 DEF EntryFor, Carries
  <2> QED BY <2>1, <2>2
<1>6. \A i \in DOMAIN m_fibers \ {k} : \E j \in DOMAIN m_fibers' : m_fibers'[j] = m_fibers[i]
  BY <1>2, RemoveEntries DEF Take, TypeOK
<1>7. \A c \in Jobs : ~Carries(t, c) BY <1>3 DEF Carries, HoldsFiber, HoldPC
<1> QED BY <1>1, <1>3, <1>5, <1>6, <1>7, HeldStep DEF TypeOK

\* The steps that keep the queue, and what the thread carries.
LEMMA HeldWork ==
    ASSUME TypeInv, Homes, JobsHeld, LeavesHeld, NEW t \in Threads,
           \/ PickNothing(t) \/ Idle(t) \/ Exit(t) \/ Dispatch(t) \/ ResetCbFiber(t)
           \/ SwapIn(t) \/ BodyRegister(t) \/ YieldToHold(t) \/ BodyReturn(t) \/ BodyThrow(t)
           \/ SwapOut(t) \/ LeaveActive(t) \/ SettleFinished(t) \/ SettleOther(t) \/ SetHold(t)
    PROVE  JobsHeld'
<1> USE DEF TypeInv
<1>0. ThreadHome(t) BY HomeFacts
<1>1. UNCHANGED <<m_fibers, sent>> /\ done \subseteq done'
  BY DEF PickNothing, Idle, Exit, Dispatch, ResetCbFiber, SwapIn, BodyRegister, YieldToHold,
         Yield, BodyReturn, BodyThrow, SwapOut, LeaveActive, SettleFinished, SettleOther,
         SetHold, GoOnly, queueVars, jobVars
<1>2. run(t) /\ ~Pick(t)
  BY DEF run, Body, Pick, PickNothing, Idle, Exit, Dispatch, ResetCbFiber, SwapIn, BodyRegister,
         YieldToHold, Yield, BodyReturn, BodyThrow, SwapOut, LeaveActive, SettleFinished,
         SettleOther, SetHold, Goto, GoOnly, TypeOK
<1>3. ASSUME \A c \in sent \ done' : Carries(t, c) => Carries(t, c)' \/ OnHold(c)'
      PROVE  JobsHeld'
  <2>1. sent' \subseteq Jobs BY <1>1 DEF TypeOK
  <2>2. \A c \in sent' \ done' :
          (c \in sent \ done /\ ~Carries(t, c)) \/ InQueue(c)' \/ Carries(t, c)' \/ OnHold(c)'
    BY <1>1, <1>3
  <2> HIDE DEF TypeInv
  <2> QED BY <1>1, <1>2, <2>1, <2>2, HeldRun
<1>4. CASE PickNothing(t) \/ Idle(t) \/ Exit(t) \/ SettleFinished(t)
  <2>1. \A c \in Jobs : ~Carries(t, c)
    BY <1>4 DEF PickNothing, Idle, Exit, SettleFinished, Carries, HoldsFiber, HoldPC
  <2> QED BY <1>3, <2>1 DEF TypeOK
<1>5. CASE ResetCbFiber(t)
  <2>1. PICK f \in Fibers :
          Prepare(f, ft[t].cb) /\ cb_fiber' = [cb_fiber EXCEPT ![t] = f]
    BY <1>5 DEF ResetCbFiber
  <2>2. pc[t] = "reset" /\ pc'[t] = "swapIn" /\ ft' = ft /\ ft[t].fiber = NoFiber
    BY <1>0, <1>5 DEF ResetCbFiber, Goto, TypeOK, ThreadHome, HomeCur
  <2>3. Cur(t)' = f /\ m_cb'[f] = ft[t].cb /\ m_state'[f] = "INIT"
    BY <2>1, <2>2 DEF Cur, Prepare, TypeOK, FiberTypeOK
  <2>4. \A c \in Jobs : Carries(t, c) => Carries(t, c)'
    BY <2>2, <2>3 DEF Carries, HoldsFiber, HoldPC, FinishedStates
  <2> QED BY <1>3, <2>4 DEF TypeOK
<1>6. CASE Dispatch(t) \/ SwapIn(t) \/ BodyRegister(t) \/ YieldToHold(t) \/ SwapOut(t)
           \/ LeaveActive(t) \/ SettleOther(t)
  <2>1. HoldsFiber(t) /\ UNCHANGED <<ft, cb_fiber, m_cb>>
    BY <1>6
    DEF Dispatch, SwapIn, BodyRegister, YieldToHold, Yield, SwapOut, LeaveActive, SettleOther,
        GoOnly, Enter, setState, Leave, fiberVars, localVars, HoldsFiber, HoldPC
  <2>2. Cur(t) \in Fibers /\ Cur(t)' = Cur(t) BY <2>1, RefsOfCur DEF Cur
  <2>3. m_state'[Cur(t)] \in FinishedStates => m_state[Cur(t)] \in FinishedStates
    BY <1>6, <2>2
    DEF Dispatch, SwapIn, BodyRegister, YieldToHold, Yield, SwapOut, LeaveActive, SettleOther,
        GoOnly, Enter, setState, Leave, fiberVars, FinishedStates, TypeOK, FiberTypeOK
  <2>4. HoldsFiber(t)' \/ m_state[Cur(t)] \in FinishedStates
    <3>1. CASE Dispatch(t)
      <4>1. Cur(t) = ft[t].fiber BY <1>0, <3>1 DEF Dispatch, ThreadHome, EntryOK, Cur
      <4> QED BY <3>1, <4>1 DEF Dispatch, GoOnly, Goto, TypeOK, HoldsFiber, HoldPC
    <3>2. CASE ~Dispatch(t)
      BY <1>6, <3>2
      DEF SwapIn, BodyRegister, YieldToHold, Yield, SwapOut, LeaveActive, SettleOther, GoOnly,
          Goto, TypeOK, HoldsFiber, HoldPC, localVars
    <3> QED BY <3>1, <3>2
  <2>5. \A c \in Jobs : Carries(t, c) => Carries(t, c)'
    BY <2>1, <2>2, <2>3, <2>4 DEF Carries, HoldsFiber, HoldPC
  <2> QED BY <1>3, <2>5 DEF TypeOK
<1>7. CASE BodyReturn(t) \/ BodyThrow(t)
  <2>1. \A c \in Jobs \ done' : ~Carries(t, c)
    BY <1>7, NoJobAssumption DEF BodyReturn, BodyThrow, Carries
  <2> QED BY <1>1, <1>3, <2>1 DEF TypeOK
<1>8. CASE SetHold(t)
  <2>1. pc[t] = "setHold" /\ HoldsFiber(t) /\ m_state[Cur(t)] = "HOLD"
    BY <1>0, <1>8 DEF SetHold, ThreadHome, HomeCur, HoldsFiber, HoldPC
  <2>2. Cur(t) \in Fibers /\ Cur(t) # NoFiber BY <2>1, RefsOfCur, ProgramAssumption
  <2>3. UNCHANGED <<m_cb, m_state, handles>>
    BY <1>8, <2>1, <2>2 DEF SetHold, setState, jobVars, TypeOK, FiberTypeOK
  <2>4. Cur(t) \in handles \cup QueueRefs BY <2>1 DEF LeavesHeld, Leaving
  <2>5. ASSUME NEW c \in Jobs, Carries(t, c) PROVE InQueue(c)' \/ OnHold(c)'
    <3>1. m_cb[Cur(t)] = c BY <2>1, <2>5 DEF Carries
    <3>2. CASE Cur(t) \in handles BY <2>1, <2>3, <3>1, <3>2 DEF OnHold
    <3>3. CASE Cur(t) \in QueueRefs
      <4>1. PICK k \in DOMAIN m_fibers : m_fibers[k].fiber = Cur(t) BY <3>3 DEF QueueRefs
      <4>2. EntryFor(m_fibers[k], c)' BY <1>1, <2>2, <2>3, <3>1, <4>1 DEF EntryFor
      <4> QED BY <1>1, <4>2 DEF InQueue
    <3> QED BY <2>4, <3>2, <3>3
  <2>6. \A c \in sent' \ done' :
          (c \in sent \ done /\ ~Carries(t, c)) \/ InQueue(c)' \/ Carries(t, c)' \/ OnHold(c)'
    BY <1>1, <2>5 DEF TypeOK
  <2>7. sent' \subseteq Jobs BY <1>1 DEF TypeOK
  <2> HIDE DEF TypeInv
  <2> QED BY <1>1, <1>2, <2>6, <2>7, HeldRun
<1> QED BY <1>4, <1>5, <1>6, <1>7, <1>8

\* A callback schedules another one, or wakes a fiber.
LEMMA HeldSchedule ==
    ASSUME TypeInv, Homes, JobsHeld, NEW t \in Threads, BodySpawn(t) \/ BodyWake(t)
    PROVE  JobsHeld'
<1> USE DEF TypeInv
<1>1. UNCHANGED <<m_state, m_cb, pc, ft, cb_fiber, done>> /\ run(t) /\ ~Pick(t)
  BY DEF BodySpawn, BodyWake, fiberVars, localVars, run, Body, Pick
<1>2. \A c \in Jobs : Carries(t, c) => Carries(t, c)'
  BY <1>1 DEF Carries, HoldsFiber, Cur
<1>3. CASE BodySpawn(t)
  <2>1. PICK d \in Jobs \ sent, p \in Pins : schedule(CbEntry(d, p)) /\ sent' = sent \cup {d}
    BY <1>3 DEF BodySpawn
  <2>2. CbEntry(d, p) \in Task /\ CbEntry(d, p).fiber = NoFiber /\ CbEntry(d, p).cb = d
        /\ d # NoJob
    BY EntryType, ThreadsAssumption, NoJobAssumption DEF Task, CbEntry
  <2>3. m_fibers' = Append(m_fibers, CbEntry(d, p)) BY <2>1, <2>2 DEF schedule
  <2>4. InQueue(d)' BY <2>2, <2>3, AppendEntries DEF InQueue, EntryFor, TypeOK
  <2>5. \A c \in sent' \ done' :
          (c \in sent \ done /\ ~Carries(t, c)) \/ InQueue(c)' \/ Carries(t, c)' \/ OnHold(c)'
    BY <1>1, <1>2, <2>1, <2>4 DEF TypeOK
  <2>6. sent' \subseteq Jobs BY <2>1 DEF TypeOK
  <2> HIDE DEF TypeInv
  <2> QED BY <1>1, <2>2, <2>3, <2>5, <2>6, HeldRun
<1>4. CASE BodyWake(t)
  <2>1. PICK f \in handles : schedule(FiberEntry(f, WakePin(f))) BY <1>4 DEF BodyWake
  <2>2. WakePin(f) \in Threads \cup {AnyThread} /\ f \in Fibers /\ f # NoFiber
    BY ProgramAssumption DEF WakePin, TypeOK
  <2>3. FiberEntry(f, WakePin(f)) \in Task /\ FiberEntry(f, WakePin(f)).fiber = f
    BY <2>2, EntryType DEF Task, FiberEntry
  <2>4. m_fibers' = Append(m_fibers, FiberEntry(f, WakePin(f)))
    BY <2>1, <2>2, <2>3 DEF schedule
  <2>5. sent' = sent BY <1>4 DEF BodyWake
  <2>6. \A c \in sent' \ done' :
          (c \in sent \ done /\ ~Carries(t, c)) \/ InQueue(c)' \/ Carries(t, c)' \/ OnHold(c)'
    BY <1>1, <1>2, <2>5 DEF TypeOK
  <2>7. sent' \subseteq Jobs BY <2>5 DEF TypeOK
  <2> HIDE DEF TypeInv
  <2> QED BY <1>1, <2>3, <2>4, <2>6, <2>7, HeldRun
<1> QED BY <1>3, <1>4

\* What the owner schedules is in the queue; its own thread carries nothing.
LEMMA HeldSubmit ==
    ASSUME TypeInv, JobsHeld, Submit
    PROVE  JobsHeld'
<1> USE DEF TypeInv
<1> Caller \in Threads BY DEF Threads
<1>1. UNCHANGED <<pc, ft, cb_fiber, done, handles>> /\ pc[Caller] = "main"
  BY DEF Submit, localVars
<1>2. PICK c \in Jobs, p \in Pins :
        /\ sent' = sent \cup {c}
        /\ \/ schedule(CbEntry(c, p)) /\ UNCHANGED fiberVars
           \/ \E f \in Fibers : ~Referenced(f) /\ Prepare(f, c) /\ schedule(FiberEntry(f, p))
  BY DEF Submit
<1>3. p \in Threads \cup {AnyThread} BY ThreadsAssumption
<1>4. ASSUME NEW e \in Task, m_fibers' = Append(m_fibers, e), EntryFor(e, c)',
             \A g \in Fibers : Claimed(Caller, g) =>
                m_cb'[g] = m_cb[g] /\ m_state'[g] = m_state[g]
      PROVE  JobsHeld'
  <2>1. \E j \in DOMAIN m_fibers' : m_fibers'[j] = e
    BY <1>4, AppendEntries DEF TypeOK
  <2>2. InQueue(c)' BY <1>4, <2>1 DEF InQueue
  <2>3. \A k \in DOMAIN m_fibers : \E j \in DOMAIN m_fibers' : m_fibers'[j] = m_fibers[k]
    BY <1>4, AppendEntries DEF TypeOK
  <2>4. \A d \in Jobs : ~Carries(Caller, d) BY <1>1 DEF Carries, HoldsFiber, HoldPC
  <2>5. sent' \subseteq Jobs BY <1>2 DEF TypeOK
  <2>6. \A d \in sent' \ done' :
          \/ d \in sent \ done /\ ~Carries(Caller, d)
          \/ InQueue(d)' \/ Carries(Caller, d)' \/ OnHold(d)'
    BY <1>1, <1>2, <2>2, <2>4, <2>5
  <2> HIDE DEF TypeInv
  <2> QED BY <1>1, <1>4, <2>3, <2>5, <2>6, HeldStep
<1>5. CASE schedule(CbEntry(c, p)) /\ UNCHANGED fiberVars
  <2>1. CbEntry(c, p) \in Task /\ CbEntry(c, p).fiber = NoFiber /\ CbEntry(c, p).cb = c
        /\ c # NoJob
    BY <1>3, EntryType, NoJobAssumption DEF Task, CbEntry
  <2>2. m_fibers' = Append(m_fibers, CbEntry(c, p)) BY <1>5, <2>1 DEF schedule
  <2> QED BY <1>4, <1>5, <2>1, <2>2 DEF fiberVars, EntryFor
<1>6. ASSUME NEW f \in Fibers, ~Referenced(f), Prepare(f, c), schedule(FiberEntry(f, p))
      PROVE  JobsHeld'
  <2>1. FiberEntry(f, p) \in Task /\ FiberEntry(f, p).fiber = f /\ f # NoFiber
    BY <1>3, EntryType, ProgramAssumption DEF Task, FiberEntry
  <2>2. m_fibers' = Append(m_fibers, FiberEntry(f, p)) BY <1>6, <2>1 DEF schedule
  <2>3. ~Claimed(Caller, f) BY <1>6, UnreferencedApart DEF Claimed, Referenced
  <2>4. /\ m_cb'[f] = c
        /\ \A g \in Fibers \ {f} : m_cb'[g] = m_cb[g] /\ m_state'[g] = m_state[g]
    BY <1>6 DEF Prepare, TypeOK, FiberTypeOK
  <2>5. EntryFor(FiberEntry(f, p), c)' BY <2>1, <2>4 DEF EntryFor, FiberEntry
  <2> QED BY <1>4, <2>1, <2>2, <2>3, <2>4, <2>5
<1> QED BY <1>2, <1>5, <1>6

\* The other steps of the owner move threads that work with nothing.
LEMMA HeldOwner ==
    ASSUME TypeInv, PoolOK, JobsHeld, LeavesHeld,
           start \/ StopBegin \/ stop \/ Destroy \/ UNCHANGED vars
    PROVE  JobsHeld' /\ LeavesHeld'
<1> USE DEF TypeInv
<1> Caller \in Threads /\ Caller \notin Workers
  BY ThreadsAssumption DEF Threads
<1>1. UNCHANGED <<m_fibers, m_cb, m_state, ft, cb_fiber, sent, done, handles>>
  BY DEF start, StopBegin, stop, StopEarly, StopCheck, StopFlag, StopCall, StopNoCall, StopSwap,
         StopJoin, Destroy, GoOnly, queueVars, localVars, jobVars, fiberVars, vars
<1>2. \A u \in Threads :
        \/ pc'[u] = pc[u]
        \/ pc[u] \in OwnerPC \cup {"none", "exited"} /\ pc'[u] \notin Leaving
  <2>1. CASE start
    <3>1. PoolExited BY <2>1 DEF start, PoolOK
    <3> QED BY <2>1, <3>1 DEF start, PoolExited, TypeOK, Leaving
  <2>2. CASE StopBegin \/ stop \/ Destroy \/ UNCHANGED vars
    BY <2>2
    DEF StopBegin, stop, StopEarly, StopCheck, StopFlag, StopCall, StopNoCall, StopSwap,
        StopJoin, Destroy, GoOnly, Goto, TypeOK, OwnerPC, Leaving, vars
  <2> QED BY <2>1, <2>2
<1>3. \A u \in Threads, c \in Jobs : Carries(u, c) => Carries(u, c)'
  BY <1>1, <1>2 DEF Carries, HoldsFiber, HoldPC, Cur, OwnerPC
<1>4. \A c \in Jobs : (InQueue(c) => InQueue(c)') /\ (OnHold(c) => OnHold(c)')
  BY <1>1 DEF InQueue, EntryFor, OnHold
<1>5. JobsHeld' BY <1>1, <1>3, <1>4 DEF JobsHeld, TypeOK
<1>6. LeavesHeld' BY <1>1, <1>2 DEF LeavesHeld, Cur, QueueRefs
<1> QED BY <1>5, <1>6

\* What the owner schedules leaves the fibers of the threads alone.
LEMMA LeavesHeldSubmit ==
    ASSUME TypeInv, LeavesHeld, Submit
    PROVE  LeavesHeld'
<1> USE DEF TypeInv
<1> SUFFICES ASSUME NEW u \in Threads, pc'[u] \in Leaving, m_state'[Cur(u)'] = "HOLD"
             PROVE  Cur(u)' \in (handles \cup QueueRefs)'
  BY DEF LeavesHeld
<1>1. UNCHANGED <<pc, ft, cb_fiber, handles>> /\ Cur(u)' = Cur(u)
  BY DEF Submit, localVars, Cur
<1>2. Cur(u) \in Refs(u) /\ Cur(u) \in Fibers
  BY <1>1, RefsOfCur DEF Leaving, HoldsFiber, HoldPC
<1>3. m_state'[Cur(u)] = m_state[Cur(u)]
  <2>1. CASE UNCHANGED fiberVars BY <2>1 DEF fiberVars
  <2>2. ASSUME NEW f \in Fibers, ~Referenced(f), NEW c, Prepare(f, c)
        PROVE  m_state'[Cur(u)] = m_state[Cur(u)]
    <3>1. f # Cur(u) BY <1>2, <2>2, UnreferencedApart
    <3> QED BY <1>2, <2>2, <3>1 DEF Prepare, TypeOK, FiberTypeOK
  <2> QED BY <2>1, <2>2 DEF Submit
<1>4. PICK e : m_fibers' = m_fibers \/ m_fibers' = Append(m_fibers, e)
  BY DEF Submit, schedule
<1>5. /\ DOMAIN m_fibers \subseteq DOMAIN m_fibers'
      /\ \A k \in DOMAIN m_fibers : m_fibers'[k] = m_fibers[k]
  <2>1. CASE m_fibers' = m_fibers BY <2>1
  <2>2. CASE m_fibers' = Append(m_fibers, e) BY <2>2 DEF TypeOK
  <2> QED BY <1>4, <2>1, <2>2
<1>6. QueueRefs \subseteq QueueRefs' BY <1>5 DEF QueueRefs
<1> QED BY <1>1, <1>3, <1>6 DEF LeavesHeld

-----------------------------------------------------------------------------
HeldInv == HomeInv /\ OwnerInv /\ ActiveCountExact /\ EndSeen /\ LeavesHeld /\ JobsHeld

\* At the start nothing is scheduled.
LEMMA HeldInit == Init => HeldInv
<1> SUFFICES ASSUME Init PROVE HeldInv
  OBVIOUS
<1>1. \A t \in Threads : pc[t] \in {"main", "none"} BY DEF Init
<1>2. EndSeen BY <1>1, ThreadsAssumption DEF Init, EndSeen, RunPC, Threads
<1>3. LeavesHeld BY <1>1 DEF LeavesHeld, Leaving
<1>4. JobsHeld BY DEF Init, JobsHeld
<1> QED BY <1>2, <1>3, <1>4, HomeInit, InitOwner, ExactInit DEF HeldInv

\* Every step.
LEMMA HeldInvStep ==
    ASSUME AllPinned, WakesHeldOnly
    PROVE  HeldInv /\ [Next]_vars => HeldInv'
<1> SUFFICES ASSUME HeldInv, [Next]_vars PROVE HeldInv'
  OBVIOUS
<1>1. HomeInv /\ HomeInv' BY HomeInvStep DEF HeldInv
<1>2. TypeInv /\ Homes /\ Homes' /\ PoolOK BY <1>1 DEF HomeInv
<1>3. OwnerInv' /\ ActiveCountExact' BY <1>2, OwnerInvStep, HomeExact DEF HeldInv
<1>4. ~SubmitBatch BY ThreadsAssumption DEF SubmitBatch, AllPinned
<1>5. EndSeen' BY <1>4, EndRun, EndOwner DEF HeldInv, Next, Finished
<1>6. ASSUME NEW t \in Threads, run(t) PROVE LeavesHeld' /\ JobsHeld'
  <2>1. LeavesHeld' BY <1>2, <1>6, LeavesHeldRun DEF HeldInv
  <2>2. ~YieldToReady(t) /\ ~SettleReady(t)
    BY <1>2 DEF YieldToReady, WakesHeldOnly, SettleReady, Homes, HomeCur, FinishedStates
  <2>3. JobsHeld'
    BY <1>2, <1>6, <2>2, HeldPick, HeldWork, HeldSchedule DEF HeldInv, run, Body
  <2> QED BY <2>1, <2>3
<1>7. LeavesHeld' /\ JobsHeld'
  BY <1>2, <1>4, <1>6, HeldSubmit, HeldOwner, LeavesHeldSubmit DEF HeldInv, Next, Finished
<1> QED BY <1>1, <1>3, <1>5, <1>7 DEF HeldInv

\* When stop() returns stopping() is true, and no thread carries a callback.
LEMMA HeldDrains == ASSUME HeldInv PROVE StopDrains
<1> USE DEF HeldInv, HomeInv, TypeInv, OwnerInv
<1> SUFFICES ASSUME StopReturning
             PROVE  m_fibers = <<>> /\ \A c \in sent \ done : OnHold(c)
  BY DEF StopDrains
<1>1. PoolExited
  <2>1. pc[Caller] = "stopCheck" => PoolExited BY DEF PoolPhases, PoolExited
  <2> QED BY <2>1 DEF StopReturning
<1>2. Stopping
  <2>1. CASE pc[Caller] = "join" /\ ~UseCaller
    <3>1. PICK w \in pool : w \in Workers BY <2>1 DEF PoolPhases, TypeOK
    <3>2. pc[w] \in {"none", "exited"} BY <1>1, <3>1 DEF PoolExited
    <3> QED BY <2>1, <3>1, <3>2 DEF EndSeen, RunPC
  <2>2. CASE pc[Caller] = "join" /\ UseCaller BY <2>2 DEF EndSeen
  <2> QED BY <2>1, <2>2 DEF StopReturning
<1>3. \A t \in Threads : pc[t] \in {"none", "exited", "join", "stopCheck"}
  BY <1>1 DEF StopReturning, PoolExited, Threads
<1>4. \A t \in Threads, c \in Jobs : ~Carries(t, c)
  BY <1>3 DEF Carries, HoldsFiber, HoldPC
<1>5. m_fibers = <<>> BY <1>2 DEF Stopping
<1>6. \A c \in Jobs : ~InQueue(c) BY <1>5 DEF InQueue
<1> QED BY <1>4, <1>5, <1>6 DEF JobsHeld, TypeOK

(***************************************************************************)
(* stop() loses no callback that went on hold: when it returns, with any   *)
(* pool and with or without the calling thread, every callback has run to  *)
(* its end, or waits on hold where the program still has the handle to     *)
(* wake it; none that was woken is left in the queue.                      *)
(***************************************************************************)
THEOREM PinnedDrains ==
    ASSUME AllPinned, WakesHeldOnly
    PROVE  Spec => []StopDrains
<1>1. HeldInv /\ [Next]_vars => HeldInv' BY HeldInvStep
<1>2. HeldInv => StopDrains BY HeldDrains
<1> QED BY <1>1, <1>2, HeldInit, PTL DEF Spec
=============================================================================
