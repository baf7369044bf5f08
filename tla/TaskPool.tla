------------------------------ MODULE TaskPool ------------------------------
(***************************************************************************)
(* What a caller of gwn::Scheduler may rely on, without queue, fibers or   *)
(* threads: a task begins once, executes in one place at a time, may be    *)
(* suspended and resumed, ends once, and stop() returns only when nothing  *)
(* that was submitted is unfinished.                                       *)
(***************************************************************************)
EXTENDS Naturals, FiniteSets

CONSTANTS
    Tasks,
    Slots       \* how many tasks can execute at the same time, a number

VARIABLES
    status,     \* what became of each task
    closing     \* stop() was called and has not returned

vars == <<status, closing>>

Status == {"unsent", "waiting", "running", "suspended", "done"}

In(s) == {c \in Tasks : status[c] = s}
Become(c, s) == status' = [status EXCEPT ![c] = s] /\ UNCHANGED closing

Init ==
    /\ status = [c \in Tasks |-> "unsent"]
    /\ closing = FALSE

\* While stop() waits, only a running task can submit another one.
\* Several tasks can be submitted at once.
Submit(S) ==
    /\ S # {} /\ S \subseteq In("unsent")
    /\ closing => In("running") # {}
    /\ status' = [c \in Tasks |-> IF c \in S THEN "waiting" ELSE status[c]]
    /\ UNCHANGED closing

Execute(c) ==
    /\ status[c] \in {"waiting", "suspended"}
    /\ Cardinality(In("running")) < Slots
    /\ Become(c, "running")

Suspend(c) == status[c] = "running" /\ Become(c, "suspended")

End(c) == status[c] = "running" /\ Become(c, "done")

Close == ~closing /\ closing' = TRUE /\ UNCHANGED status

Drained ==
    /\ closing
    /\ \A c \in Tasks : status[c] \in {"unsent", "done"}
    /\ closing' = FALSE
    /\ UNCHANGED status

Next ==
    \/ \E S \in SUBSET Tasks : Submit(S)
    \/ \E c \in Tasks : Execute(c) \/ Suspend(c) \/ End(c)
    \/ Close \/ Drained

Spec == Init /\ [][Next]_vars
=============================================================================
