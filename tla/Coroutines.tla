------------------------------ MODULE Coroutines ------------------------------
(***************************************************************************)
(* What gwn/fiber.h promises: asymmetric coroutines.  On each thread the   *)
(* coroutines that were resumed and have not left form a chain, the last   *)
(* one runs, and leaving continues the one that resumed it.                *)
(***************************************************************************)
EXTENDS Naturals, Sequences, SequencesExt

CONSTANTS Coroutines, Threads

VARIABLES
    chain,      \* chain[t]: what thread t is inside of, innermost last
    ended       \* the coroutines that reached their end

Init ==
    /\ chain = [t \in Threads |-> <<>>]
    /\ ended = {}

Inside(c) == \E t \in Threads : \E i \in DOMAIN chain[t] : chain[t][i] = c

Resume(t, c) ==
    /\ ~Inside(c) /\ c \notin ended
    /\ chain' = [chain EXCEPT ![t] = Append(@, c)]
    /\ UNCHANGED ended

Suspend(t) ==
    /\ chain[t] # <<>>
    /\ chain' = [chain EXCEPT ![t] = Front(@)]
    /\ UNCHANGED ended

End(t) ==
    /\ chain[t] # <<>>
    /\ chain' = [chain EXCEPT ![t] = Front(@)]
    /\ ended' = ended \cup {Last(chain[t])}

\* A new coroutine, or a new function for one that has ended.
Renew(c) ==
    /\ ~Inside(c)
    /\ ended' = ended \ {c}
    /\ UNCHANGED chain

Next ==
    \/ \E t \in Threads, c \in Coroutines : Resume(t, c)
    \/ \E t \in Threads : Suspend(t) \/ End(t)
    \/ \E c \in Coroutines : Renew(c)

Spec == Init /\ [][Next]_<<chain, ended>>
=============================================================================
