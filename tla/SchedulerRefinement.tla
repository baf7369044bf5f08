------------------------- MODULE SchedulerRefinement -------------------------
(***************************************************************************)
(* Scheduler implements TaskPool, for programs that do not keep fibers on  *)
(* hold.                                                                   *)
(***************************************************************************)
EXTENDS Scheduler

\* Some thread is inside the callback.
Executing(c) == \E t \in Threads : pc[t] = "body" /\ m_cb[Cur(t)] = c

\* The status of a callback.  That it was begun is read off the number of its
\* invocations, so that a second one maps to no step of TaskPool.
StatusOf(c) ==
    CASE c \notin sent                                -> "unsent"
      [] c \in sent /\ Executing(c)                   -> "running"
      [] c \in done /\ ~Executing(c)                  -> "done"
      [] c \in sent \ done /\ ~Executing(c) /\ runs[c] = 0 -> "waiting"
      [] c \in sent \ done /\ ~Executing(c) /\ runs[c] # 0 -> "suspended"

Pool == INSTANCE TaskPool WITH
    Tasks <- Jobs,
    Slots <- Cardinality(Threads),
    status <- [c \in Jobs |-> StatusOf(c)],
    closing <- pc[Caller] \notin {"main", "gone"}

(***************************************************************************)
(* Every step of the threads and of the owner is a step of TaskPool or     *)
(* leaves it unchanged: run(), schedule() and stop() together keep the     *)
(* promise of the scheduler.                                               *)
(***************************************************************************)
ImplementsTaskPool == Pool!Spec
=============================================================================
