------------------------- MODULE SchedulerOwnership -------------------------
(***************************************************************************)
(* Where fibers are, and in which state: in a program whose callbacks do   *)
(* not go on hold, the inductive invariant behind SoleHolder,              *)
(* NoStaleResume and ActiveCountExact; in one that schedules everything    *)
(* for one thread, the one behind PinRespected.                            *)
(***************************************************************************)
EXTENDS Scheduler

\* The fibers thread t refers to in run(), and those the queue refers to.
Refs(t) == {ft[t].fiber, cb_fiber[t]} \ {NoFiber}
QueueRefs == {m_fibers[k].fiber : k \in DOMAIN m_fibers} \ {NoFiber}

\* A fiber that never ran, or one whose yield is complete.
Resumable(f) ==
    \/ m_state[f] = "INIT" /\ ctx[f] = "fresh"
    \/ m_state[f] = "READY" /\ ctx[f] = "saved"

CurOK(t) ==
    LET f == Cur(t) IN
    /\ pc[t] \in {"dispatch", "swapIn"} => Resumable(f)
    /\ pc[t] = "body" => m_state[f] = "EXEC" /\ ctx[f] = "live"
    /\ pc[t] = "swapOut" =>
        \/ m_state[f] = "READY" /\ ctx[f] = "live"
        \/ m_state[f] \in FinishedStates /\ ctx[f] = "ending"
    /\ pc[t] \in {"leave", "settle"} =>
        \/ m_state[f] = "READY" /\ ctx[f] = "saved"
        \/ m_state[f] \in FinishedStates /\ ctx[f] = "over"
    /\ pc[t] # "setHold"

\* run() holds a fiber of the queue only while it works with it.
EntryOK(t) ==
    /\ ft[t].fiber # NoFiber => HoldsFiber(t) /\ ft[t].fiber # cb_fiber[t]
    /\ pc[t] = "dispatch" => ft[t].fiber # NoFiber

\* The callback fiber kept for the next callback is an empty one.
CacheOK(t) ==
    cb_fiber[t] # NoFiber /\ (HoldsFiber(t) => ft[t].fiber # NoFiber)
        => m_state[cb_fiber[t]] = "INIT" /\ ctx[cb_fiber[t]] = "fresh"

\* No fiber is in two places.
PlacesApart ==
    /\ \A i, j \in DOMAIN m_fibers :
        i # j /\ m_fibers[i].fiber # NoFiber
            => m_fibers[i].fiber # m_fibers[j].fiber
    /\ \A t \in Threads : Refs(t) \cap QueueRefs = {}
    /\ \A t, u \in Threads : t # u => Refs(t) \cap Refs(u) = {}

\* What is in no place can be destroyed.
RestOK ==
    \A f \in Fibers :
        f \notin QueueRefs /\ (\A t \in Threads : f \notin Refs(t))
            => Disposable(f) /\ ~OwnsItself(f)

\* Between stop() and the next start() no pool thread runs.
PoolOK == m_threads = {} /\ pc[Caller] # "join" => PoolExited

(***************************************************************************)
(* Every fiber is in one place: in the queue, with one thread, kept empty  *)
(* as a callback fiber, or destroyed; and m_state and the context say      *)
(* which.  run() reads m_state without a lock and relies on this.          *)
(***************************************************************************)
Ownership ==
    /\ handles = {}
    /\ \A t \in Threads : CurOK(t) /\ EntryOK(t) /\ CacheOK(t)
    /\ PlacesApart
    /\ \A f \in QueueRefs : Resumable(f)
    /\ RestOK
    /\ PoolOK

-----------------------------------------------------------------------------
\* A fiber on hold that is still on the way out of the thread it ran on.
Leaving == {"swapOut", "leave", "settle", "setHold"}

\* A fiber that never ran, or one on hold whose context is saved.
Waiting(f) ==
    \/ m_state[f] = "INIT" /\ ctx[f] = "fresh"
    \/ m_state[f] = "HOLD" /\ ctx[f] = "saved"

\* The state of the fiber a thread works with, and the callback it is for.
HomeCur(t) ==
    LET f == Cur(t) IN
    /\ pc[t] = "reset" => ft[t].cb \in sent /\ pin[ft[t].cb] = t /\ ft[t].fiber = NoFiber
    /\ pc[t] \in {"dispatch", "swapIn"} =>
        Waiting(f) /\ (m_state[f] = "HOLD" => f \notin handles)
    /\ pc[t] = "body" => m_state[f] = "EXEC" /\ ctx[f] = "live"
    /\ pc[t] = "swapOut" =>
        \/ m_state[f] = "HOLD" /\ ctx[f] = "live"
        \/ m_state[f] \in FinishedStates /\ ctx[f] = "ending"
    /\ pc[t] \in {"leave", "settle"} =>
        \/ m_state[f] = "HOLD" /\ ctx[f] = "saved"
        \/ m_state[f] \in FinishedStates /\ ctx[f] = "over"
    /\ pc[t] = "setHold" => m_state[f] = "HOLD" /\ ctx[f] = "saved"
    /\ HoldsFiber(t) /\ m_state[f] \notin FinishedStates => m_cb[f] # NoJob

\* The fibers of a thread are for callbacks scheduled for it; one that is in
\* the queue again is on its way out.
HomeRefs(t) == \A f \in Refs(t) :
    /\ m_cb[f] # NoJob => m_cb[f] \in sent /\ pin[m_cb[f]] = t
    /\ f \in QueueRefs => f = Cur(t) /\ pc[t] \in Leaving /\ m_state[f] = "HOLD"

\* An entry of the queue is for the thread its callback was scheduled for, and
\* the program keeps no handle to its fiber.
HomeEntry(e) ==
    /\ e.fiber = NoFiber => e.cb \in sent /\ e.thread = pin[e.cb]
    /\ e.fiber # NoFiber =>
        /\ m_cb[e.fiber] \in sent /\ e.thread = pin[m_cb[e.fiber]]
        /\ e.fiber \notin handles
        /\ m_state[e.fiber] = "HOLD" \/ (m_state[e.fiber] = "INIT" /\ ctx[e.fiber] = "fresh")

\* A fiber on hold has a callback, and waits where its context is saved.
HomeHold == \A f \in Fibers : m_state[f] = "HOLD" =>
    /\ m_cb[f] \in sent
    /\ ctx[f] = "saved" \/ \E t \in Threads : f \in Refs(t)

\* No fiber is twice in the queue, or with two threads.
HomesApart ==
    /\ \A i, j \in DOMAIN m_fibers :
        i # j /\ m_fibers[i].fiber # NoFiber
            => m_fibers[i].fiber # m_fibers[j].fiber
    /\ \A t, u \in Threads : t # u => Refs(t) \cap Refs(u) = {}

(***************************************************************************)
(* Every fiber has a home, the thread its callback was scheduled for: only *)
(* that thread refers to it, and the queue offers it to no other.  It may  *)
(* be woken while it is on its way out, but then its own thread is the one *)
(* that has to leave it first.                                             *)
(***************************************************************************)
Homes ==
    /\ \A c \in sent : pin[c] \in Threads
    /\ \A t \in Threads : HomeCur(t) /\ HomeRefs(t) /\ EntryOK(t) /\ CacheOK(t)
    /\ \A k \in DOMAIN m_fibers : HomeEntry(m_fibers[k])
    /\ HomeHold
    /\ HomesApart
=============================================================================
