-------------------------------- MODULE Fiber --------------------------------
(***************************************************************************)
(* The fiber objects of gwn/fiber.{h,cc}: the part of a Fiber that every   *)
(* thread of the process shares.  A fiber is a control block (m_state,     *)
(* m_cb) and an execution context with a stack of its own.                 *)
(*                                                                         *)
(* A callback (std::function<void()>) is a member of Jobs; NoJob is the    *)
(* empty function.  The operations below are actions on the three fiber    *)
(* variables; the module that uses them says when they happen.             *)
(***************************************************************************)
CONSTANTS
    Fibers,     \* the addresses a Fiber object can have
    Jobs,       \* the callbacks the program schedules
    NoJob       \* the empty std::function

ASSUME NoJobAssumption == NoJob \notin Jobs

VARIABLES
    m_state,    \* Fiber::m_state, one of the values of Fiber::State
    m_cb,       \* Fiber::m_cb
    ctx         \* what Fiber::m_ctx and the fiber's stack hold, see Context

fiberVars == <<m_state, m_cb, ctx>>

State == {"INIT", "HOLD", "EXEC", "TERM", "READY", "EXCEPT"}

(***************************************************************************)
(* "fresh"  makecontext was called, MainFunc has not been entered;         *)
(* "live"   a thread executes on the stack, m_ctx is stale;                *)
(* "ending" as "live", and MainFunc has released its own reference `cur';  *)
(* "saved"  swapcontext stored the registers, the fiber can be resumed;    *)
(* "over"   as "saved", but the point of resumption is the assertion       *)
(*          "never reach" that follows the last swapOut of MainFunc.       *)
(***************************************************************************)
Context == {"fresh", "live", "ending", "saved", "over"}

FiberTypeOK ==
    /\ m_state \in [Fibers -> State]
    /\ m_cb \in [Fibers -> Jobs \cup {NoJob}]
    /\ ctx \in [Fibers -> Context]

\* An address no Fiber was built at yet looks like a fiber never used.
FiberInit ==
    /\ m_state = [f \in Fibers |-> "INIT"]
    /\ m_cb = [f \in Fibers |-> NoJob]
    /\ ctx = [f \in Fibers |-> "fresh"]

(***************************************************************************)
(* The assertion ~Fiber and Fiber::reset share: a stack may be freed or    *)
(* reused only when nothing on it will run again.                          *)
(***************************************************************************)
Disposable(f) == m_state[f] \in {"TERM", "EXCEPT", "INIT"}

(***************************************************************************)
(* MainFunc keeps the local shared_ptr `cur' on the fiber's own stack from *)
(* its first line to the reset before the last swapOut, so a fiber that    *)
(* was entered and has not finished keeps itself alive.                    *)
(***************************************************************************)
OwnsItself(f) == ctx[f] \in {"live", "saved"}

\* Fiber::Fiber(cb) at a free address, and Fiber::reset(cb): both leave the
\* state INIT with the context at the entry of MainFunc.
Prepare(f, c) ==
    /\ m_state' = [m_state EXCEPT ![f] = "INIT"]
    /\ m_cb' = [m_cb EXCEPT ![f] = c]
    /\ ctx' = [ctx EXCEPT ![f] = "fresh"]

\* Fiber::swapIn past its assertion, on a context that can be entered.
Enter(f) ==
    /\ m_state' = [m_state EXCEPT ![f] = "EXEC"]
    /\ ctx' = [ctx EXCEPT ![f] = "live"]
    /\ UNCHANGED m_cb

\* setState, and the assignment of m_state in YieldToReady and YieldToHold.
setState(f, s) ==
    /\ m_state' = [m_state EXCEPT ![f] = s]
    /\ UNCHANGED <<m_cb, ctx>>

\* MainFunc after m_cb() returned: m_cb and `cur' are released.
Return(f) ==
    /\ m_cb' = [m_cb EXCEPT ![f] = NoJob]
    /\ m_state' = [m_state EXCEPT ![f] = "TERM"]
    /\ ctx' = [ctx EXCEPT ![f] = "ending"]

\* MainFunc after m_cb() threw: m_cb stays, `cur' is released.
Throw(f) ==
    /\ m_state' = [m_state EXCEPT ![f] = "EXCEPT"]
    /\ ctx' = [ctx EXCEPT ![f] = "ending"]
    /\ UNCHANGED m_cb

\* The swapcontext call of Fiber::swapOut.
Leave(f) ==
    /\ ctx' = [ctx EXCEPT ![f] = IF ctx[f] = "ending" THEN "over" ELSE "saved"]
    /\ UNCHANGED <<m_state, m_cb>>
=============================================================================
