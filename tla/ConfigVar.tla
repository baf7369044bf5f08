------------------------------ MODULE ConfigVar ------------------------------
(***************************************************************************)
(* ConfigVar<T> of gwn/config.h: configuration variables of one type, each *)
(* with a value, its listeners and a read-write lock (gwn/mutex.h).        *)
(* Threads set values (setValue, fromString), and register and remove      *)
(* listeners.                                                              *)
(*                                                                         *)
(* A region under the write lock that touches nothing but its own variable *)
(* is one step.  setValue calls the listeners under the read lock, gives   *)
(* it up, and assigns under the write lock; addListener counts up a static *)
(* s_fun_id that all variables of the type share and no common lock        *)
(* guards, so each of its accesses to it is a step.                        *)
(*                                                                         *)
(* A listener may set another variable: the call of setValue it is called  *)
(* from waits on the thread's stack, and keeps its read lock.              *)
(***************************************************************************)
EXTENDS Integers, Sequences, FiniteSets, FiniteSetsExt, Functions

CONSTANTS
    Setters,    \* the threads that call setValue or fromString
    Admins,     \* the threads that call addListener, delListener, clearListener
    Vars,       \* ConfigVar objects of the same type T
    Inputs,     \* those the threads set
    Listened,   \* those the threads register listeners with
    Values,
    Default,    \* the value LookUp created the variables with
    Cbs,        \* the callbacks the threads register
    EarlyCb,    \* a callback registered on every variable before they start
    MayThrow,   \* <<variable, callback>>: the callback can throw there
    Forward,    \* [<<variable, callback>> -> variable]: the callback, called
                \* by the first, sets the second to the value it is told
    Kept,       \* <<variable, value>>: not passed on by its listeners
    NoThread,
    MaxCalls    \* bound: calls, of all threads together

Threads == Setters \cup Admins

ASSUME ConfigVarAssumption ==
    /\ NoThread \notin Threads
    /\ IsFiniteSet(Vars) /\ Vars # {} /\ Inputs \cup Listened \subseteq Vars
    /\ Default \in Values
    /\ EarlyCb \notin Cbs
    /\ MayThrow \subseteq Vars \X (Cbs \cup {EarlyCb})
    /\ DOMAIN Forward \subseteq Vars \X (Cbs \cup {EarlyCb})
    /\ \A f \in DOMAIN Forward : Forward[f] \in Vars
    /\ MaxCalls \in Nat

VARIABLES
    m_val,      \* ConfigVar::m_val
    m_cbs,      \* ConfigVar::m_cbs, from keys to callbacks
    s_fun_id,   \* the static counter of addListener
    readers,    \* m_mutex held for reading: by which thread, in which call
    writer,     \* the thread that holds m_mutex for writing, or NoThread
    pc,
    var,        \* the variable a thread's call is about
    arg,        \* the value setValue got
    cb,         \* the callback addListener got
    todo,       \* the keys setValue's loop has not reached
    stack,      \* the calls of setValue that wait for a listener to return
    reg,        \* s_fun_id as ++s_fun_id loaded it; the key delListener got
    handles,    \* the registrations each thread made: variable, key, callback
    told,       \* per variable, the value each callback was last told
    dead,       \* per variable, the callbacks whose removal has returned
    used,       \* the callbacks that were registered
    raced,      \* whether addListener read s_fun_id while that of another
                \* variable was between reading it and its return
    mixed,      \* the variables on which two calls of setValue overlapped
    calls       \* counts towards MaxCalls

lockVars == <<readers, writer>>
callVars == <<var, arg, cb, todo, stack, reg>>
cbVars == <<m_cbs, s_fun_id, handles, dead, used, raced>>
setVars == <<told, mixed>>
vars == <<m_val, cbVars, lockVars, pc, callVars, setVars, calls>>

Callbacks == Cbs \cup {EarlyCb}

Goto(t, where) == pc' = [pc EXCEPT ![t] = where]

\* RWMutex::rdlock and RWMutex::wrlock do not block.
CanRead(x) == writer[x] = NoThread
CanWrite(x) == writer[x] = NoThread /\ readers[x] = {}

\* A hold of the read lock: recursive ones are told apart by their depth.
Hold(t) == <<t, Len(stack[t])>>

\* A thread makes a call, which then waits for the lock of its variable.
Call(t, x, where) ==
    /\ pc[t] = "idle" /\ calls < MaxCalls /\ calls' = calls + 1
    /\ var' = [var EXCEPT ![t] = x]
    /\ Goto(t, where)

\* A call is over, and its local variables are gone.
AnyVar == CHOOSE x \in Vars : TRUE
Leave(t) ==
    /\ Goto(t, "idle")
    /\ var' = [var EXCEPT ![t] = AnyVar] /\ arg' = [arg EXCEPT ![t] = Default]
    /\ cb' = [cb EXCEPT ![t] = EarlyCb] /\ todo' = [todo EXCEPT ![t] = {}]
    /\ reg' = [reg EXCEPT ![t] = 0]

\* The threads that are inside setValue of variable x.
Inside(x) == {t \in Threads :
    \/ pc[t] \in {"notify", "write"} /\ var[t] = x
    \/ \E i \in DOMAIN stack[t] : stack[t][i].var = x}
Enter(t, x) == mixed' = IF Inside(x) \subseteq {t} THEN mixed ELSE mixed \cup {x}

-----------------------------------------------------------------------------
\* setValue, or fromString with a text of value v.
SetCall(t, x, v) ==
    /\ Call(t, x, "set")
    /\ arg' = [arg EXCEPT ![t] = v]
    /\ UNCHANGED <<m_val, cbVars, lockVars, cb, todo, stack, reg, setVars>>

\* Mutant of SetBegin: the loop runs without the read lock.
SetBeginUnlocked(t) ==
    /\ pc[t] = "set" /\ CanRead(var[t]) /\ arg[t] # m_val[var[t]]
    /\ todo' = [todo EXCEPT ![t] = DOMAIN m_cbs[var[t]]]
    /\ Enter(t, var[t])
    /\ Goto(t, "notify")
    /\ UNCHANGED <<m_val, cbVars, lockVars, var, arg, cb, stack, reg, told, calls>>

\* It finds a new value and starts its loop.
SetBegin(t) ==
    /\ pc[t] = "set" /\ CanRead(var[t]) /\ arg[t] # m_val[var[t]]
    /\ readers' = [readers EXCEPT ![var[t]] = @ \cup {Hold(t)}]
    /\ todo' = [todo EXCEPT ![t] = DOMAIN m_cbs[var[t]]]
    /\ Enter(t, var[t])
    /\ Goto(t, "notify")
    /\ UNCHANGED <<m_val, cbVars, writer, var, arg, cb, stack, reg, told, calls>>

\* The variable has the value already.
SetSame(t) ==
    /\ pc[t] = "set" /\ CanRead(var[t]) /\ arg[t] = m_val[var[t]]
    /\ Leave(t)
    /\ UNCHANGED <<m_val, cbVars, lockVars, stack, setVars, calls>>

\* The callback the loop of thread t has reached; std::map goes by key.
Reached(t) == m_cbs[var[t]][Min(todo[t])]

Forwards(t) ==
    <<var[t], Reached(t)>> \in DOMAIN Forward /\ <<var[t], arg[t]>> \notin Kept

\* Mutant of Notify: the callback is told the old value.
NotifyOld(t) ==
    /\ pc[t] = "notify" /\ todo[t] # {} /\ ~Forwards(t)
    /\ told' = [told EXCEPT ![var[t]][Reached(t)] = m_val[var[t]]]
    /\ todo' = [todo EXCEPT ![t] = @ \ {Min(@)}]
    /\ UNCHANGED <<m_val, cbVars, lockVars, pc, var, arg, cb, stack, reg, mixed, calls>>

\* A listener is called with m_val and the new value.
Notify(t) ==
    /\ pc[t] = "notify" /\ todo[t] # {} /\ ~Forwards(t)
    /\ told' = [told EXCEPT ![var[t]][Reached(t)] = arg[t]]
    /\ todo' = [todo EXCEPT ![t] = @ \ {Min(@)}]
    /\ UNCHANGED <<m_val, cbVars, lockVars, pc, var, arg, cb, stack, reg, mixed, calls>>

\* A listener sets variable y, and its own call of setValue starts its loop
\* or finds that y has the value.
NotifyForward(t) ==
    LET to == Forward[<<var[t], Reached(t)>>]
        rest == todo[t] \ {Min(todo[t])}
    IN
    /\ pc[t] = "notify" /\ todo[t] # {} /\ Forwards(t) /\ CanRead(to)
    /\ told' = [told EXCEPT ![var[t]][Reached(t)] = arg[t]]
    /\ IF arg[t] = m_val[to]
       THEN todo' = [todo EXCEPT ![t] = rest] /\ UNCHANGED <<readers, var, stack, mixed>>
       ELSE /\ stack' = [stack EXCEPT ![t] =
                    Append(@, [var |-> var[t], arg |-> arg[t], todo |-> rest])]
            /\ readers' = [readers EXCEPT ![to] = @ \cup {<<t, Len(stack[t]) + 1>>}]
            /\ var' = [var EXCEPT ![t] = to]
            /\ todo' = [todo EXCEPT ![t] = DOMAIN m_cbs[to]]
            /\ Enter(t, to)
    /\ UNCHANGED <<m_val, cbVars, writer, pc, arg, cb, reg, calls>>

\* A listener throws: the locks are released on the way out of every setValue
\* (and fromString returns false); no m_val is assigned.
NotifyThrows(t) ==
    /\ pc[t] = "notify" /\ todo[t] # {} /\ <<var[t], Reached(t)>> \in MayThrow
    /\ readers' = [x \in Vars |-> {h \in readers[x] : h[1] # t}]
    /\ stack' = [stack EXCEPT ![t] = <<>>]
    /\ Leave(t)
    /\ UNCHANGED <<m_val, cbVars, writer, setVars, calls>>

\* Mutant of SetUnlock: the read lock is kept.
SetKeepsLock(t) ==
    /\ pc[t] = "notify" /\ todo[t] = {}
    /\ Goto(t, "write")
    /\ UNCHANGED <<m_val, cbVars, lockVars, callVars, setVars, calls>>

\* The end of the block that holds the read lock.
SetUnlock(t) ==
    /\ pc[t] = "notify" /\ todo[t] = {}
    /\ readers' = [readers EXCEPT ![var[t]] = @ \ {Hold(t)}]
    /\ Goto(t, "write")
    /\ UNCHANGED <<m_val, cbVars, writer, callVars, setVars, calls>>

\* setValue returns, to the listener and the loop that called it if it has one.
Return(t) ==
    IF stack[t] = <<>> THEN Leave(t) /\ UNCHANGED stack
    ELSE LET f == stack[t][Len(stack[t])] IN
         /\ stack' = [stack EXCEPT ![t] = SubSeq(@, 1, Len(@) - 1)]
         /\ var' = [var EXCEPT ![t] = f.var]
         /\ arg' = [arg EXCEPT ![t] = f.arg]
         /\ todo' = [todo EXCEPT ![t] = f.todo]
         /\ Goto(t, "notify")
         /\ UNCHANGED <<cb, reg>>

SetWrite(t) ==
    /\ pc[t] = "write" /\ CanWrite(var[t])
    /\ m_val' = [m_val EXCEPT ![var[t]] = arg[t]]
    /\ Return(t)
    /\ UNCHANGED <<cbVars, lockVars, setVars, calls>>

-----------------------------------------------------------------------------
AddCall(t, x, c) ==
    /\ Call(t, x, "add")
    /\ c \in Cbs \ used
    /\ used' = used \cup {c}
    /\ cb' = [cb EXCEPT ![t] = c]
    /\ UNCHANGED <<m_val, m_cbs, s_fun_id, handles, dead, raced, lockVars, arg, todo,
                   stack, reg, setVars>>

\* ++s_fun_id is a load, after the lock is taken, and a store.
Counting == {"addStore", "addInsert", "addReturn"}
AddLoad(t) ==
    /\ pc[t] = "add" /\ CanWrite(var[t])
    /\ writer' = [writer EXCEPT ![var[t]] = t]
    /\ reg' = [reg EXCEPT ![t] = s_fun_id]
    /\ raced' = (raced \/ \E u \in Threads : pc[u] \in Counting /\ var[u] # var[t])
    /\ Goto(t, "addStore")
    /\ UNCHANGED <<m_val, m_cbs, s_fun_id, handles, dead, used, readers, var, arg, cb,
                   todo, stack, setVars, calls>>

\* Mutant of AddStore: the counter stays the same.
AddStoreSame(t) ==
    /\ pc[t] = "addStore"
    /\ s_fun_id' = reg[t]
    /\ Goto(t, "addInsert")
    /\ UNCHANGED <<m_val, m_cbs, handles, dead, used, raced, lockVars, callVars, setVars,
                   calls>>

AddStore(t) ==
    /\ pc[t] = "addStore"
    /\ s_fun_id' = reg[t] + 1
    /\ Goto(t, "addInsert")
    /\ UNCHANGED <<m_val, m_cbs, handles, dead, used, raced, lockVars, callVars, setVars,
                   calls>>

\* m_cbs[s_fun_id] = cb.  From here on the program's own copy of the value is
\* the one it finds now.
AddInsert(t) ==
    /\ pc[t] = "addInsert"
    /\ m_cbs' = [m_cbs EXCEPT ![var[t]] =
                    [k \in DOMAIN @ \cup {s_fun_id} |->
                        IF k = s_fun_id THEN cb[t] ELSE @[k]]]
    /\ told' = [told EXCEPT ![var[t]][cb[t]] = m_val[var[t]]]
    /\ Goto(t, "addReturn")
    /\ UNCHANGED <<m_val, s_fun_id, handles, dead, used, raced, lockVars, callVars, mixed,
                   calls>>

\* return s_fun_id.
AddReturn(t) ==
    /\ pc[t] = "addReturn"
    /\ handles' = [handles EXCEPT ![t] =
                    @ \cup {[var |-> var[t], key |-> s_fun_id, cb |-> cb[t]]}]
    /\ writer' = [writer EXCEPT ![var[t]] = NoThread]
    /\ Leave(t)
    /\ UNCHANGED <<m_val, m_cbs, s_fun_id, dead, used, raced, readers, stack, setVars, calls>>

\* Mutant of Erase: the lock is not waited for.
EraseUnlocked(x, K) ==
    m_cbs' = [m_cbs EXCEPT ![x] = Restrict(@, DOMAIN @ \ K)]

\* Keys K leave m_cbs under the write lock.
Erase(x, K) ==
    /\ CanWrite(x)
    /\ m_cbs' = [m_cbs EXCEPT ![x] = Restrict(@, DOMAIN @ \ K)]

DelCall(t, h) ==
    /\ Call(t, h.var, "del")
    /\ h \in handles[t] /\ handles' = [handles EXCEPT ![t] = @ \ {h}]
    /\ reg' = [reg EXCEPT ![t] = h.key]
    /\ cb' = [cb EXCEPT ![t] = h.cb]
    /\ UNCHANGED <<m_val, m_cbs, s_fun_id, dead, used, raced, lockVars, arg, todo, stack,
                   setVars>>

delListener(t) ==
    /\ pc[t] = "del" /\ Erase(var[t], {reg[t]})
    /\ dead' = [dead EXCEPT ![var[t]] = @ \cup {cb[t]}]
    /\ Leave(t)
    /\ UNCHANGED <<m_val, s_fun_id, handles, used, raced, lockVars, stack, setVars, calls>>

ClearCall(t, x) ==
    /\ Call(t, x, "clear")
    /\ UNCHANGED <<m_val, cbVars, lockVars, arg, cb, todo, stack, reg, setVars>>

clearListener(t) ==
    /\ pc[t] = "clear" /\ Erase(var[t], DOMAIN m_cbs[var[t]])
    /\ dead' = [dead EXCEPT ![var[t]] = @ \cup Range(m_cbs[var[t]])]
    /\ Leave(t)
    /\ UNCHANGED <<m_val, s_fun_id, handles, used, raced, lockVars, stack, setVars, calls>>

-----------------------------------------------------------------------------
\* The early listeners got the first keys, one variable after the other.
Init ==
    /\ m_val = [x \in Vars |-> Default]
    /\ \E key \in Injection(Vars, 1..Cardinality(Vars)) :
        m_cbs = [x \in Vars |-> [k \in {key[x]} |-> EarlyCb]]
    /\ s_fun_id = Cardinality(Vars)
    /\ readers = [x \in Vars |-> {}]
    /\ writer = [x \in Vars |-> NoThread]
    /\ pc = [t \in Threads |-> "idle"]
    /\ var = [t \in Threads |-> AnyVar]
    /\ arg = [t \in Threads |-> Default]
    /\ cb = [t \in Threads |-> EarlyCb]
    /\ todo = [t \in Threads |-> {}]
    /\ stack = [t \in Threads |-> <<>>]
    /\ reg = [t \in Threads |-> 0]
    /\ handles = [t \in Threads |-> {}]
    /\ told = [x \in Vars |-> [c \in Callbacks |-> Default]]
    /\ dead = [x \in Vars |-> {}]
    /\ used = {}
    /\ raced = FALSE /\ mixed = {}
    /\ calls = 0

\* What a call that has begun does next.  No listener need throw.
setValue(t) ==
    SetBegin(t) \/ SetSame(t) \/ Notify(t) \/ NotifyForward(t) \/ SetUnlock(t) \/ SetWrite(t)
addListener(t) ==
    AddLoad(t) \/ AddStore(t) \/ AddInsert(t) \/ AddReturn(t)

SetterNext(t) ==
    \/ \E x \in Inputs, v \in Values : SetCall(t, x, v)
    \/ setValue(t) \/ NotifyThrows(t)

AdminNext(t) ==
    \/ \E x \in Listened, c \in Cbs : AddCall(t, x, c)
    \/ \E h \in handles[t] : DelCall(t, h)
    \/ \E x \in Listened : ClearCall(t, x)
    \/ addListener(t) \/ delListener(t) \/ clearListener(t)

Finished ==
    /\ calls = MaxCalls /\ \A t \in Threads : pc[t] = "idle"
    /\ UNCHANGED vars

Next ==
    \/ \E t \in Setters : SetterNext(t)
    \/ \E t \in Admins : AdminNext(t)
    \/ Finished

Spec == Init /\ [][Next]_vars

\* The kernel schedules every thread, and gives a lock that stays free to one
\* that waits for it.
Fairness ==
    /\ \A t \in Setters : WF_vars(setValue(t))
    /\ \A t \in Admins : WF_vars(addListener(t) \/ delListener(t) \/ clearListener(t))

FairSpec == Spec /\ Fairness

-----------------------------------------------------------------------------
\* The loops over listeners on thread t: the one that runs, if one does, and
\* those that wait for a listener to return.
Loops(t) ==
    {[var |-> stack[t][i].var, todo |-> stack[t][i].todo] : i \in DOMAIN stack[t]}
    \cup (IF pc[t] = "notify" THEN {[var |-> var[t], todo |-> todo[t]]} ELSE {})

(***************************************************************************)
(* What the loop of setValue has still to call is in m_cbs: no thread      *)
(* invalidates the iterator of another one, nor its own.                   *)
(***************************************************************************)
IterationStable ==
    \A t \in Threads : \A l \in Loops(t) : l.todo \subseteq DOMAIN m_cbs[l.var]

(***************************************************************************)
(* A thread that came back from delListener or clearListener does not find *)
(* its callback called afterwards, so it may destroy what that refers to;  *)
(* as long as no keys are mixed up (KeysOwn).                              *)
(***************************************************************************)
NoCallAfterRemoval ==
    /\ IterationStable
    /\ ~raced => \A t \in Threads : \A l \in Loops(t) : \A k \in l.todo :
        m_cbs[l.var][k] \notin dead[l.var]

(***************************************************************************)
(* The key addListener returned is the key of the callback it was given    *)
(* (config.h line 359: keys must be unique): delListener removes the       *)
(* caller's own listener.  The code does not keep this for two variables   *)
(* of one type: their threads hold two locks and count up one s_fun_id.    *)
(***************************************************************************)
KeysAlwaysOwn ==
    \A t \in Threads : \A h \in handles[t] : h.cb \notin dead[h.var] =>
        h.key \in DOMAIN m_cbs[h.var] /\ m_cbs[h.var][h.key] = h.cb

(***************************************************************************)
(* That race is the only thing that ever gives a caller a key that is not  *)
(* its own, or takes it away: callers of one variable cannot race, and     *)
(* those of two variables whose accesses to s_fun_id do not overlap go on  *)
(* counting where the others stopped, while listeners are removed.         *)
(***************************************************************************)
KeysOwn == ~raced => KeysAlwaysOwn

\* No setValue is under way on variable x.
Quiet(x) == Inside(x) = {}

\* The early listeners of variables outside of M know their variables' values,
\* and so do variables that nobody but they set, also outside of M.
CurrentBut(M) ==
    \A x \in Vars \ M : Quiet(x) /\ EarlyCb \in Range(m_cbs[x]) =>
        /\ told[x][EarlyCb] = m_val[x]
        /\ <<x, EarlyCb>> \in DOMAIN Forward /\ <<x, m_val[x]>> \notin Kept =>
            LET to == Forward[<<x, EarlyCb>>] IN
            Quiet(to) /\ to \notin Inputs \cup M => m_val[to] = m_val[x]

(***************************************************************************)
(* After setValue the listeners know the value of the variable (config.h   *)
(* line 317: when the parameter changes, the registered callbacks are      *)
(* notified), and what they set from it has it too, through any number of  *)
(* variables; stated for listeners registered before the threads started,  *)
(* and variables on which no two calls of setValue have overlapped.        *)
(***************************************************************************)
ListenersCurrent == CurrentBut(mixed)

(***************************************************************************)
(* The same for all variables.  The code does not keep this: between the   *)
(* regions under the read lock and the write lock (config.h lines 319 to   *)
(* 328) another call tells the listeners another value.                    *)
(***************************************************************************)
ListenersAlwaysCurrent == CurrentBut({})

(***************************************************************************)
(* No variable is set again by what its own listeners do.  If one is, the  *)
(* inner setValue still finds the old value, calls the listeners again,    *)
(* and never ends.                                                         *)
(***************************************************************************)
SetOnce == \A t \in Threads : \A i \in DOMAIN stack[t] :
    /\ stack[t][i].var # var[t]
    /\ \A j \in DOMAIN stack[t] \ {i} : stack[t][i].var # stack[t][j].var

(***************************************************************************)
(* Every call returns: threads that hold read locks in listeners and wait  *)
(* for write locks do not wait for each other, nor does a thread wait for  *)
(* ever to change listeners.  (If no listeners set each other's variables.)*)
(***************************************************************************)
CallsReturn == \A t \in Threads : (pc[t] # "idle") ~> (pc[t] = "idle")

(***************************************************************************)
(* The same for every listener, whenever it was registered: a program that *)
(* registers and then reads the value follows it from there on.  The code  *)
(* does not keep this: setValue lists the listeners in one region of the   *)
(* lock and stores the value in a later one (config.h lines 319 to 328).   *)
(***************************************************************************)
NoChangeMissed ==
    \A x \in Vars : Quiet(x) =>
        \A c \in Range(m_cbs[x]) : told[x][c] = m_val[x]
=============================================================================
